------------------------------ MODULE Vouchers ------------------------------
(***************************************************************************)
(* Voucher batches: vouchersvc.GenerateBatch, one transaction taken         *)
(* statement by statement, with createOne's attempts at a free code, and    *)
(* Redeem.  A statement that fails makes PostgreSQL refuse the rest of the  *)
(* transaction; an INSERT waits for a transaction that has inserted the     *)
(* same code.                                                               *)
(*                                                                          *)
(* A definition whose name ends in _Bug is the one that follows it with a   *)
(* mistake in it; no specification uses it.                                 *)
(***************************************************************************)
EXTENDS Naturals, FiniteSets

CONSTANTS
  Codes,        \* codes GenerateCode may come up with
  Batches,      \* batches
  NoBatch,      \* the batch of a code that is no voucher
  Qty,          \* vouchers in a batch
  MaxAttempts   \* maxRetry

ASSUME VouchersAssumption ==
  /\ NoBatch \notin Batches
  /\ Qty \in Nat \ {0}
  /\ MaxAttempts \in Nat \ {0}

VARIABLES
  batch,         \* "none", "open" (its transaction is under way), "done" or "failed"
  inserted,      \* the codes its transaction has inserted
  provisioned,   \* and given a radcheck and a radusergroup row
  attempts,      \* failed attempts at the code under way
  refused,       \* a statement has failed: PostgreSQL refuses the ones that follow
  batchOf,       \* vouchers: the batch of each code
  redeemed,      \* vouchers.status = 'used'
  codeLogins     \* codes with rows in radcheck and radusergroup

voucherVars == <<batch, inserted, provisioned, attempts, refused, batchOf, redeemed, codeLogins>>

VoucherInit ==
  /\ batch = [b \in Batches |-> "none"]
  /\ inserted = [b \in Batches |-> {}]
  /\ provisioned = [b \in Batches |-> {}]
  /\ attempts = [b \in Batches |-> 0]
  /\ refused = [b \in Batches |-> FALSE]
  /\ batchOf = [k \in Codes |-> NoBatch]
  /\ redeemed = {}
  /\ codeLogins = {}

VoucherTypeOK ==
  /\ batch \in [Batches -> {"none", "open", "done", "failed"}]
  /\ inserted \in [Batches -> SUBSET Codes]
  /\ provisioned \in [Batches -> SUBSET Codes]
  /\ attempts \in [Batches -> 0..MaxAttempts]
  /\ refused \in [Batches -> BOOLEAN]
  /\ batchOf \in [Codes -> Batches \cup {NoBatch}]
  /\ redeemed \subseteq Codes
  /\ codeLogins \subseteq Codes

Open(b) == batch[b] = "open"

\* createOne begins when the voucher before is provisioned.
Between(b) == Open(b) /\ inserted[b] = provisioned[b] /\ Cardinality(inserted[b]) < Qty

-----------------------------------------------------------------------------
CreateBatch(b) ==
  /\ batch[b] = "none"
  /\ batch' = [batch EXCEPT ![b] = "open"]
  /\ UNCHANGED <<inserted, provisioned, attempts, refused, batchOf, redeemed, codeLogins>>

CreateVoucher(b, k) ==
  /\ Between(b) /\ ~refused[b]
  /\ batchOf[k] = NoBatch
  /\ \A d \in Batches : Open(d) => k \notin inserted[d]
  /\ inserted' = [inserted EXCEPT ![b] = @ \cup {k}]
  /\ UNCHANGED <<batch, provisioned, attempts, refused, batchOf, redeemed, codeLogins>>

\* The code is taken, by a voucher of old or one of this batch.
CodeCollides(b, k) ==
  /\ Between(b) /\ ~refused[b]
  /\ batchOf[k] # NoBatch \/ k \in inserted[b]
  /\ refused' = [refused EXCEPT ![b] = TRUE]
  /\ attempts' = [attempts EXCEPT ![b] = 1]
  /\ UNCHANGED <<batch, inserted, provisioned, batchOf, redeemed, codeLogins>>

Retry_Bug(b) ==       \* once too often
  /\ Between(b) /\ refused[b]
  /\ attempts[b] <= MaxAttempts
  /\ attempts' = [attempts EXCEPT ![b] = @ + 1]
  /\ UNCHANGED <<batch, inserted, provisioned, refused, batchOf, redeemed, codeLogins>>

\* "retry with a new code": the transaction is aborted, whatever the code.
Retry(b) ==
  /\ Between(b) /\ refused[b]
  /\ attempts[b] < MaxAttempts
  /\ attempts' = [attempts EXCEPT ![b] = @ + 1]
  /\ UNCHANGED <<batch, inserted, provisioned, refused, batchOf, redeemed, codeLogins>>

Rollback(b) ==
  /\ batch' = [batch EXCEPT ![b] = "failed"]
  /\ inserted' = [inserted EXCEPT ![b] = {}]
  /\ provisioned' = [provisioned EXCEPT ![b] = {}]
  /\ UNCHANGED <<attempts, refused, batchOf, redeemed, codeLogins>>

GiveUp_Bug(b) ==      \* the batch makes do with the vouchers it has
  /\ Between(b)
  /\ attempts[b] = MaxAttempts
  /\ batch' = [batch EXCEPT ![b] = "done"]
  /\ batchOf' = [k \in Codes |-> IF k \in inserted[b] THEN b ELSE batchOf[k]]
  /\ codeLogins' = codeLogins \cup provisioned[b]
  /\ UNCHANGED <<inserted, provisioned, attempts, refused, redeemed>>

\* createOne returns an error after the last attempt.
GiveUp(b) == Between(b) /\ attempts[b] = MaxAttempts /\ Rollback(b)

\* Any other statement fails, or the process dies.
FailBatch(b) == Open(b) /\ ~refused[b] /\ Rollback(b)

\* SetUserPassword and SetUserGroup.
ProvisionVoucher(b) ==
  /\ Open(b) /\ inserted[b] # provisioned[b]
  /\ provisioned' = [provisioned EXCEPT ![b] = inserted[b]]
  /\ UNCHANGED <<batch, inserted, attempts, refused, batchOf, redeemed, codeLogins>>

CommitBatch(b) ==
  /\ Open(b) /\ inserted[b] = provisioned[b] /\ Cardinality(inserted[b]) = Qty
  /\ batch' = [batch EXCEPT ![b] = "done"]
  /\ batchOf' = [k \in Codes |-> IF k \in inserted[b] THEN b ELSE batchOf[k]]
  /\ codeLogins' = codeLogins \cup provisioned[b]
  /\ UNCHANGED <<inserted, provisioned, attempts, refused, redeemed>>

\* Redeem: MarkUsed changes an unused voucher, and is content with a used one.
Redeem(k) ==
  /\ batchOf[k] # NoBatch
  /\ redeemed' = redeemed \cup {k}
  /\ UNCHANGED <<batch, inserted, provisioned, attempts, refused, batchOf, codeLogins>>

Batch(b) ==
  \/ CreateBatch(b) \/ Retry(b) \/ GiveUp(b) \/ FailBatch(b) \/ ProvisionVoucher(b) \/ CommitBatch(b)
  \/ \E k \in Codes : CreateVoucher(b, k) \/ CodeCollides(b, k)

VoucherNext ==
  \/ \E b \in Batches : Batch(b)
  \/ \E k \in Codes : Redeem(k)

VoucherSpec == VoucherInit /\ [][VoucherNext]_voucherVars

-----------------------------------------------------------------------------
VouchersOf(b) == {k \in Codes : batchOf[k] = b}

\* A batch has all its vouchers, each with its login, or it has none: whatever
\* codes collide and whichever statement fails.
BatchIsWhole ==
  \A b \in Batches :
    /\ Cardinality(VouchersOf(b)) = IF batch[b] = "done" THEN Qty ELSE 0
    /\ VouchersOf(b) \subseteq codeLogins

=============================================================================
