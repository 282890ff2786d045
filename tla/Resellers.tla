----------------------------- MODULE Resellers -----------------------------
(***************************************************************************)
(* The balance of a reseller: resellersvc.Topup and Record, each a          *)
(* transaction of two statements, several at once.  An UPDATE waits for a   *)
(* transaction that has written the same row and works on what that one     *)
(* leaves.                                                                  *)
(*                                                                          *)
(* A definition whose name ends in _Bug is the one that follows it with a   *)
(* mistake in it; no specification uses it.                                 *)
(***************************************************************************)
EXTENDS Integers, FiniteSets

CONSTANTS
  Credits,      \* transactions under way at once
  MaxAmount,    \* the largest amount considered
  MaxBalance    \* bound on what is credited

ASSUME ResellersAssumption == MaxAmount \in Nat /\ MaxBalance \in Nat

Amounts == -1..MaxAmount

VARIABLES
  balance,      \* users.balance_idr
  deposits,     \* the sum of the rows of deposits
  commissions,  \* and of commissions
  credit,       \* "idle", "inserted" or "added"
  source,       \* "deposit" or "commission": the row a transaction inserts
  amount

resellerVars == <<balance, deposits, commissions, credit, source, amount>>

ResellerInit ==
  /\ balance = 0
  /\ deposits = 0
  /\ commissions = 0
  /\ credit = [x \in Credits |-> "idle"]
  /\ source = [x \in Credits |-> "deposit"]
  /\ amount = [x \in Credits |-> 0]

ResellerTypeOK ==
  /\ balance \in Int
  /\ deposits \in Nat
  /\ commissions \in Nat
  /\ credit \in [Credits -> {"idle", "inserted", "added"}]
  /\ source \in [Credits -> {"deposit", "commission"}]
  /\ amount \in [Credits -> 0..MaxAmount]

Rest(x) == UNCHANGED <<balance, deposits, commissions, source, amount>>

\* CreateDeposit or CreateCommission.  Topup answers an amount that is not
\* positive with an error, Record with nothing.
InsertCredit(x, row, n) ==
  /\ credit[x] = "idle"
  /\ n > 0
  /\ credit' = [credit EXCEPT ![x] = "inserted"]
  /\ source' = [source EXCEPT ![x] = row]
  /\ amount' = [amount EXCEPT ![x] = n]
  /\ UNCHANGED <<balance, deposits, commissions>>

AddBalance_Bug(x) ==      \* outside the transaction
  /\ credit[x] = "inserted"
  /\ credit' = [credit EXCEPT ![x] = "added"]
  /\ balance' = balance + amount[x]
  /\ UNCHANGED <<deposits, commissions, source, amount>>

\* AddBalance: the lock on the user's row.
AddBalance(x) ==
  /\ credit[x] = "inserted"
  /\ \A y \in Credits : credit[y] # "added"
  /\ credit' = [credit EXCEPT ![x] = "added"]
  /\ Rest(x)

CommitCredit(x) ==
  /\ credit[x] = "added"
  /\ balance + amount[x] <= MaxBalance
  /\ credit' = [credit EXCEPT ![x] = "idle"]
  /\ balance' = balance + amount[x]
  /\ IF source[x] = "deposit"
       THEN deposits' = deposits + amount[x] /\ UNCHANGED commissions
       ELSE commissions' = commissions + amount[x] /\ UNCHANGED deposits
  /\ UNCHANGED <<source, amount>>

AbortCredit(x) ==
  /\ credit[x] # "idle"
  /\ credit' = [credit EXCEPT ![x] = "idle"]
  /\ Rest(x)

ResellerNext ==
  \E x \in Credits :
    \/ \E row \in {"deposit", "commission"}, n \in Amounts : InsertCredit(x, row, n)
    \/ AddBalance(x) \/ CommitCredit(x) \/ AbortCredit(x)

ResellerSpec == ResellerInit /\ [][ResellerNext]_resellerVars

-----------------------------------------------------------------------------
\* A reseller's balance is the sum of the deposits and commissions on record.
BalanceIsBacked == balance = deposits + commissions

=============================================================================
