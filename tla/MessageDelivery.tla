--------------------------- MODULE MessageDelivery ---------------------------
(***************************************************************************)
(* What the notification queue promises to whoever enqueues a message,     *)
(* without workers, leases, batches, deadlines or crashes: each message is *)
(* handed to the provider until it is concluded as sent or failed, once    *)
(* and for good, and a message is only handed over again when nobody could *)
(* know any more that the provider had taken it (the comments of           *)
(* internal/ports/repo on ClaimDue, MarkSent, Retry and Fail).             *)
(***************************************************************************)
EXTENDS Naturals

CONSTANT Rows   \* dedup keys a message may be enqueued under

VARIABLES
  state,        \* "none" until enqueued, "queued", then "sent" or "failed"
  taken,        \* how often the provider took the message; counting stops at 2
  lost          \* messages with an acceptance nobody will remember

vars == <<state, taken, lost>>

Init ==
  /\ state = [r \in Rows |-> "none"]
  /\ taken = [r \in Rows |-> 0]
  /\ lost  = {}

Enqueue(r) ==
  /\ state[r] = "none"
  /\ state' = [state EXCEPT ![r] = "queued"]
  /\ UNCHANGED <<taken, lost>>

\* The provider takes the message, and says so or is not heard.
Take(r) ==
  /\ state[r] = "queued"
  /\ taken[r] = 0 \/ r \in lost
  /\ taken' = [taken EXCEPT ![r] = IF @ = 0 THEN 1 ELSE 2]
  /\ lost' \in {lost, lost \cup {r}}
  /\ UNCHANGED state

\* Acceptances of messages that are not concluded yet are forgotten.
Forget(R) ==
  /\ \A r \in R : state[r] = "queued" /\ taken[r] > 0
  /\ lost' = lost \cup R
  /\ UNCHANGED <<state, taken>>

Sent(r) ==
  /\ state[r] = "queued"
  /\ taken[r] > 0
  /\ state' = [state EXCEPT ![r] = "sent"]
  /\ UNCHANGED <<taken, lost>>

\* A message is given up unless the provider is known to have it.
Failed(r) ==
  /\ state[r] = "queued"
  /\ taken[r] = 0 \/ r \in lost
  /\ state' = [state EXCEPT ![r] = "failed"]
  /\ UNCHANGED <<taken, lost>>

Next ==
  \/ \E r \in Rows : Enqueue(r) \/ Take(r) \/ Sent(r) \/ Failed(r)
  \/ \E R \in SUBSET Rows : Forget(R)

Spec == Init /\ [][Next]_vars

=============================================================================
