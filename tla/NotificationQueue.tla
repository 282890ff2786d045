-------------------------- MODULE NotificationQueue --------------------------
(***************************************************************************)
(* notification_logs as a job queue: internal/service/notifysvc over       *)
(* repo/queries/notifications.sql, polled by the processes of cmd/worker.  *)
(*                                                                         *)
(* A worker claims due rows for a lease, sends each one and records the    *)
(* outcome.  Everything it does in one poll runs under one context whose   *)
(* deadline is the poll interval; the lease is counted from the same       *)
(* moment.  Time is kept as countdowns: wait[r] until row r is due again,  *)
(* left[w] until the context of worker w is done.  Worker and database     *)
(* clocks are taken to agree.                                              *)
(*                                                                         *)
(* A definition whose name ends in _Bug is the one that follows it with a  *)
(* mistake in it; no specification uses it.                                *)
(***************************************************************************)
EXTENDS Naturals, FiniteSets

CONSTANTS
  Rows,          \* dedup keys a message may be enqueued under
  Workers,       \* worker processes
  NoJob,         \* no delivery under way
  Batch,         \* rows one poll may claim
  PollInterval,  \* how long one poll may work
  Lease,         \* how long a claimed row stays claimed
  BaseBackoff,   \* wait after the first failed attempt
  MaxBackoff,
  MaxAttempts,   \* attempts after which an error is final
  MaxFaults      \* database errors and crashes considered

Attempts == 0..MaxAttempts
Jobs == Rows \X Attempts    \* a claimed row with the attempt count it came with

Lesser(a, b) == IF a < b THEN a ELSE b

\* base << (attempts - 1), at most the cap.
Backoff(n) == Lesser(BaseBackoff * 2^(n - 1), MaxBackoff)

\* The lease of two minutes outlives the poll interval (five seconds unless
\* WORKER_POLL_INTERVAL says otherwise), and notifysvc.New replaces a maximum of
\* no attempts.
ASSUME QueueAssumption ==
  /\ NoJob \notin Jobs
  /\ Batch \in Nat \ {0}
  /\ PollInterval \in Nat \ {0}
  /\ Lease \in Nat
  /\ PollInterval <= Lease
  /\ MaxAttempts \in Nat \ {0}
  /\ MaxFaults \in Nat

ASSUME BackoffAssumption == \A n \in 1..MaxAttempts : Backoff(n) \in Nat

VARIABLES
  status,      \* "none" (no row), "queued", "sent" or "failed"
  wait,        \* time until next_attempt_at, 0 once it has passed
  attempts,    \* attempts so far; counting stops at MaxAttempts
  batch,       \* jobs a worker has claimed and not finished
  left,        \* time until its context is done
  current,     \* the job it has delivered and not recorded yet
  outcome,     \* and how that went
  accepted,    \* how often the provider took the message; counting stops at 2
  forgotten,   \* rows with an acceptance that was never recorded
  faults

rowVars    == <<status, wait, attempts>>
workerVars == <<batch, left, current, outcome>>
ghostVars  == <<accepted, forgotten>>
vars       == <<rowVars, workerVars, ghostVars, faults>>

Outcomes == {"accepted", "error", "permanent"}

TypeOK ==
  /\ status \in [Rows -> {"none", "queued", "sent", "failed"}]
  /\ wait \in [Rows -> Nat]
  /\ attempts \in [Rows -> Attempts]
  /\ batch \in [Workers -> SUBSET Jobs]
  /\ left \in [Workers -> 0..PollInterval]
  /\ current \in [Workers -> Jobs \cup {NoJob}]
  /\ outcome \in [Workers -> Outcomes]
  /\ accepted \in [Rows -> 0..2]
  /\ forgotten \subseteq Rows
  /\ faults \in 0..MaxFaults

Init ==
  /\ status    = [r \in Rows |-> "none"]
  /\ wait      = [r \in Rows |-> 0]
  /\ attempts  = [r \in Rows |-> 0]
  /\ batch     = [w \in Workers |-> {}]
  /\ left      = [w \in Workers |-> 0]
  /\ current   = [w \in Workers |-> NoJob]
  /\ outcome   = [w \in Workers |-> "error"]
  /\ accepted  = [r \in Rows |-> 0]
  /\ forgotten = {}
  /\ faults    = 0

RowsOf(jobs) == {j[1] : j \in jobs}

\* What worker w has seen accepted and has not recorded.
Unrecorded(w) ==
  IF current[w] # NoJob /\ outcome[w] = "accepted" THEN {current[w][1]} ELSE {}

-----------------------------------------------------------------------------
\* Enqueue: a dedup key is inserted once, a duplicate changes nothing.
Enqueue(r) ==
  /\ status[r] = "none"
  /\ status' = [status EXCEPT ![r] = "queued"]
  /\ UNCHANGED <<wait, attempts, workerVars, ghostVars, faults>>

\* Time passes for rows and for contexts alike.
Tick ==
  /\ \/ \E r \in Rows : wait[r] > 0
     \/ \E w \in Workers : left[w] > 0
  /\ wait' = [r \in Rows |-> IF wait[r] > 0 THEN wait[r] - 1 ELSE 0]
  /\ left' = [w \in Workers |-> IF left[w] > 0 THEN left[w] - 1 ELSE 0]
  /\ UNCHANGED <<status, attempts, batch, current, outcome, ghostVars, faults>>

Due == {r \in Rows : status[r] = "queued" /\ wait[r] = 0}

\* The rows one claim may take: as many as the batch allows, which ones when
\* there are more is any choice.
Claims == {S \in SUBSET Due : Cardinality(S) = Lesser(Batch, Cardinality(Due))}

Claim_Bug(w) ==       \* no lease: the claimed rows stay due
  \E S \in Claims :
    /\ S # {} /\ batch[w] = {}
    /\ attempts' = [r \in Rows |-> IF r \in S THEN Lesser(attempts[r] + 1, MaxAttempts)
                                   ELSE attempts[r]]
    /\ batch' = [batch EXCEPT ![w] = {<<r, attempts'[r]>> : r \in S}]
    /\ left' = [left EXCEPT ![w] = PollInterval]
    /\ UNCHANGED <<status, wait, current, outcome, ghostVars, faults>>

ClaimStatus_Bug(w) == \* the claim takes the row off the queue
  \E S \in Claims :
    /\ S # {} /\ batch[w] = {}
    /\ status' = [r \in Rows |-> IF r \in S THEN "sending" ELSE status[r]]
    /\ attempts' = [r \in Rows |-> IF r \in S THEN Lesser(attempts[r] + 1, MaxAttempts)
                                   ELSE attempts[r]]
    /\ batch' = [batch EXCEPT ![w] = {<<r, attempts'[r]>> : r \in S}]
    /\ left' = [left EXCEPT ![w] = PollInterval]
    /\ UNCHANGED <<wait, current, outcome, ghostVars, faults>>

\* A poll: ClaimDue bumps next_attempt_at to the end of the lease and counts the
\* attempt, in one statement that skips rows another claim is updating.  The
\* statement counts without end; here counting stops at MaxAttempts, since all
\* that is asked of the number is whether it has got there.
Claim(w) ==
  \E S \in Claims :
    /\ S # {} /\ batch[w] = {}
    /\ wait' = [r \in Rows |-> IF r \in S THEN Lease ELSE wait[r]]
    /\ attempts' = [r \in Rows |-> IF r \in S THEN Lesser(attempts[r] + 1, MaxAttempts)
                                   ELSE attempts[r]]
    /\ batch' = [batch EXCEPT ![w] = {<<r, attempts'[r]>> : r \in S}]
    /\ left' = [left EXCEPT ![w] = PollInterval]
    /\ UNCHANGED <<status, current, outcome, ghostVars, faults>>

Accept(r) == accepted' = [accepted EXCEPT ![r] = Lesser(@ + 1, 2)]

\* deliver: the provider takes the message and says so; or takes it, and the
\* answer is lost or unreadable; or does not take it; or the tenant has no
\* gateway, template or provider for it.
Deliver(w, j) ==
  /\ j \in batch[w]
  /\ current[w] = NoJob
  /\ left[w] > 0
  /\ current' = [current EXCEPT ![w] = j]
  /\ \/ /\ outcome' = [outcome EXCEPT ![w] = "accepted"]
        /\ Accept(j[1])
        /\ UNCHANGED forgotten
     \/ /\ outcome' = [outcome EXCEPT ![w] = "error"]
        /\ Accept(j[1])
        /\ forgotten' = forgotten \cup {j[1]}
     \/ /\ outcome' \in {[outcome EXCEPT ![w] = "error"],
                         [outcome EXCEPT ![w] = "permanent"]}
        /\ UNCHANGED ghostVars
  /\ UNCHANGED <<rowVars, batch, left, faults>>

\* The job leaves the batch; the context is cancelled with the last one.
Drop(w) ==
  /\ batch' = [batch EXCEPT ![w] = @ \ {current[w]}]
  /\ left' = [left EXCEPT ![w] = IF batch[w] = {current[w]} THEN 0 ELSE @]
  /\ current' = [current EXCEPT ![w] = NoJob]
  /\ outcome' = [outcome EXCEPT ![w] = "error"]

Record_Bug(w) ==      \* the context is not looked at
  LET r == current[w][1]
      n == current[w][2] IN
  /\ current[w] # NoJob
  /\ \/ /\ outcome[w] = "accepted"
        /\ status' = [status EXCEPT ![r] = "sent"]
        /\ UNCHANGED wait
     \/ /\ outcome[w] = "permanent" \/ (outcome[w] = "error" /\ n >= MaxAttempts)
        /\ status' = [status EXCEPT ![r] = "failed"]
        /\ UNCHANGED wait
     \/ /\ outcome[w] = "error" /\ n < MaxAttempts
        /\ status' = [status EXCEPT ![r] = "queued"]
        /\ wait' = [wait EXCEPT ![r] = Backoff(n)]
  /\ Drop(w)
  /\ UNCHANGED <<attempts, ghostVars, faults>>

RecordRetry_Bug(w) == \* whatever is not a plain error counts as sent
  LET r == current[w][1]
      n == current[w][2] IN
  /\ current[w] # NoJob
  /\ left[w] > 0
  /\ \/ /\ outcome[w] # "error" \/ n >= MaxAttempts
        /\ status' = [status EXCEPT ![r] = "sent"]
        /\ UNCHANGED wait
     \/ /\ outcome[w] = "error" /\ n < MaxAttempts
        /\ status' = [status EXCEPT ![r] = "queued"]
        /\ wait' = [wait EXCEPT ![r] = Backoff(n)]
  /\ Drop(w)
  /\ UNCHANGED <<attempts, ghostVars, faults>>

\* process: MarkSent, Fail or Retry, each an update by id alone, each under the
\* context of the poll.
Record(w) ==
  LET r == current[w][1]
      n == current[w][2] IN
  /\ current[w] # NoJob
  /\ left[w] > 0
  /\ \/ /\ outcome[w] = "accepted"
        /\ status' = [status EXCEPT ![r] = "sent"]
        /\ UNCHANGED wait
     \/ /\ outcome[w] = "permanent" \/ (outcome[w] = "error" /\ n >= MaxAttempts)
        /\ status' = [status EXCEPT ![r] = "failed"]
        /\ UNCHANGED wait
     \/ /\ outcome[w] = "error" /\ n < MaxAttempts
        /\ status' = [status EXCEPT ![r] = "queued"]
        /\ wait' = [wait EXCEPT ![r] = Backoff(n)]
  /\ Drop(w)
  /\ UNCHANGED <<attempts, ghostVars, faults>>

\* The write fails; the error is logged and the row keeps its lease.
RecordFails(w) ==
  /\ current[w] # NoJob
  /\ faults < MaxFaults
  /\ faults' = faults + 1
  /\ forgotten' = forgotten \cup Unrecorded(w)
  /\ Drop(w)
  /\ UNCHANGED <<rowVars, accepted>>

\* All jobs of the poll are given up.
Abandon(w) ==
  /\ batch[w] # {}
  /\ forgotten' = forgotten \cup Unrecorded(w)
  /\ batch'   = [batch EXCEPT ![w] = {}]
  /\ left'    = [left EXCEPT ![w] = 0]
  /\ current' = [current EXCEPT ![w] = NoJob]
  /\ outcome' = [outcome EXCEPT ![w] = "error"]
  /\ UNCHANGED <<rowVars, accepted>>

\* The context is done: every call that is left fails at once and nothing is
\* written.
Lapse(w) ==
  /\ left[w] = 0
  /\ Abandon(w)
  /\ UNCHANGED faults

\* The process dies and is started again.
Crash(w) ==
  /\ faults < MaxFaults
  /\ faults' = faults + 1
  /\ Abandon(w)

Next ==
  \/ \E r \in Rows : Enqueue(r)
  \/ Tick
  \/ \E w \in Workers :
       \/ Claim(w) \/ Record(w) \/ RecordFails(w) \/ Lapse(w) \/ Crash(w)
       \/ \E j \in batch[w] : Deliver(w, j)

Spec == Init /\ [][Next]_vars

(* Time passes and a done context ends its poll.  A due row is claimed in the *)
(* end, since claims take the oldest next_attempt_at first; and a gateway     *)
(* and a database that answer within the deadline again and again are what    *)
(* progress rests on: a row that is given time for ever is sent and recorded. *)
Fairness ==
  /\ WF_vars(Tick)
  /\ \A w \in Workers : WF_vars(Lapse(w))
  /\ \A r \in Rows :
       /\ SF_vars(\E w \in Workers : Claim(w) /\ r \in RowsOf(batch'[w]))
       /\ SF_vars(\E w \in Workers : \E j \in batch[w] : j[1] = r /\ Deliver(w, j))
       /\ SF_vars(\E w \in Workers : current[w] # NoJob /\ current[w][1] = r /\ Record(w))

FairSpec == Spec /\ Fairness

-----------------------------------------------------------------------------
\* "so concurrent workers don't double-process": two polls that can still act
\* never have the same row, although claiming, sending and recording are
\* separate steps and a claim only moves a timestamp.
LeaseExclusive ==
  \A v, w \in Workers :
    v # w /\ left[v] > 0 /\ left[w] > 0 => RowsOf(batch[v]) \cap RowsOf(batch[w]) = {}

\* MarkSent, Retry and Fail write by id whatever the row holds, yet no late
\* worker takes a message back from "sent" or "failed".
OutcomeIsFinal ==
  [][\A r \in Rows : status[r] \in {"sent", "failed"} => status'[r] = status[r]]_vars

\* A message that counts as sent was taken by the provider.
SentMeansAccepted == \A r \in Rows : status[r] = "sent" => accepted[r] > 0

\* The customer gets a message twice only when an answer of the provider was
\* lost or could not be recorded: neither concurrent workers nor retries add
\* duplicates of their own.
TwiceMeansForgotten ==
  \A r \in Rows :
    accepted[r] > 1 => \/ r \in forgotten
                       \/ \E w \in Workers : left[w] = 0 /\ r \in Unrecorded(w)

\* Every message ends sent or failed: a crash, a lost write or a missed deadline
\* strands none.
EveryMessageEnds == \A r \in Rows : status[r] # "none" ~> status[r] \in {"sent", "failed"}

-----------------------------------------------------------------------------
(* The abstract delivery of messages.                                       *)

\* Acceptances nobody will record: forgotten, or held by a worker whose context
\* is done.
Lost == forgotten \cup UNION {Unrecorded(w) : w \in {v \in Workers : left[v] = 0}}

\* Polls, leases, deadlines, retries and crashes of any number of workers look
\* like plain delivery: a message is concluded once, as sent only after the
\* provider took it, and is handed over again, or given up although it was taken,
\* only when the acceptance is lost.
Delivery == INSTANCE MessageDelivery WITH state <- status, taken <- accepted, lost <- Lost
DeliverySpec == Delivery!Spec

=============================================================================
