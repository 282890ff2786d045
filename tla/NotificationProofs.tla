------------------------- MODULE NotificationProofs -------------------------
(***************************************************************************)
(* Theorems about NotificationQueue for every number of messages, workers, *)
(* attempts and faults, and every poll interval the lease outlives.        *)
(***************************************************************************)
EXTENDS NotificationQueue, TLAPS

\* A live worker's rows are queued and not due before its context is done.
HeldUnderLease ==
  \A w \in Workers : \A j \in batch[w] :
    left[w] > 0 => status[j[1]] = "queued" /\ wait[j[1]] >= left[w]

\* A batch has each row once, with the attempt it was claimed for, and what a
\* worker is delivering is in its batch.
BatchSound ==
  \A w \in Workers :
    /\ \A i, j \in batch[w] : i[1] = j[1] => i = j
    /\ \A j \in batch[w] : j[2] > 0
    /\ current[w] # NoJob => current[w] \in batch[w]

\* LeaseExclusive, job by job.
BatchesDisjoint ==
  \A v, w \in Workers :
    v # w /\ left[v] > 0 /\ left[w] > 0
      => \A i \in batch[v], j \in batch[w] : i[1] # j[1]

\* Every acceptance is recorded, about to be recorded, or forgotten.
AcceptedKnown ==
  \A r \in Rows :
    accepted[r] > 0 => \/ status[r] = "sent"
                       \/ r \in forgotten
                       \/ \E w \in Workers : r \in Unrecorded(w)

\* What a worker may still have to record, the provider has taken.
UnrecordedAccepted == \A w \in Workers : \A r \in Unrecorded(w) : accepted[r] > 0

\* The inductive invariant.
QInv ==
  /\ TypeOK
  /\ HeldUnderLease
  /\ BatchSound
  /\ BatchesDisjoint
  /\ AcceptedKnown
  /\ UnrecordedAccepted
  /\ SentMeansAccepted
  /\ TwiceMeansForgotten

\* The empty queue satisfies it.
LEMMA InitInv == Init => QInv
  BY QueueAssumption
  DEF Init, QInv, TypeOK, HeldUnderLease, BatchSound, BatchesDisjoint,
      AcceptedKnown, UnrecordedAccepted, SentMeansAccepted, TwiceMeansForgotten,
      Unrecorded, Attempts, Outcomes

-----------------------------------------------------------------------------
(* Claiming.                                                                *)

\* Worker w claims exactly the rows of S.
Takes(w, S) ==
  /\ \A r \in S : status[r] = "queued" /\ wait[r] = 0
  /\ wait' = [r \in Rows |-> IF r \in S THEN Lease ELSE wait[r]]
  /\ attempts' \in [Rows -> Attempts]
  /\ \A r \in S : attempts'[r] > 0
  /\ batch[w] = {}
  /\ batch' = [batch EXCEPT ![w] = {<<r, attempts'[r]>> : r \in S}]
  /\ left' = [left EXCEPT ![w] = PollInterval]
  /\ UNCHANGED <<status, current, outcome, ghostVars, faults>>

\* Claim, whichever rows it takes.
LEMMA ClaimTakes ==
  ASSUME TypeOK, NEW w \in Workers, Claim(w)
  PROVE  \E S \in SUBSET Rows : Takes(w, S)
<1>1. PICK S \in Claims :
        /\ batch[w] = {}
        /\ wait' = [r \in Rows |-> IF r \in S THEN Lease ELSE wait[r]]
        /\ attempts' = [r \in Rows |->
                           IF r \in S THEN Lesser(attempts[r] + 1, MaxAttempts)
                           ELSE attempts[r]]
        /\ batch' = [batch EXCEPT ![w] = {<<r, attempts'[r]>> : r \in S}]
        /\ left' = [left EXCEPT ![w] = PollInterval]
        /\ UNCHANGED <<status, current, outcome, ghostVars, faults>>
  BY DEF Claim
<1>2. S \subseteq Due /\ S \subseteq Rows
  BY DEF Claims, Due
<1>3. \A r \in Rows : Lesser(attempts[r] + 1, MaxAttempts) \in 1..MaxAttempts
  BY QueueAssumption DEF TypeOK, Attempts, Lesser
<1>4. attempts' \in [Rows -> Attempts] /\ \A r \in S : attempts'[r] > 0
  BY <1>1, <1>2, <1>3 DEF TypeOK, Attempts
<1>5. QED
  BY <1>1, <1>2, <1>4 DEF Due, Takes

\* A claim keeps the types.
LEMMA ClaimType ==
  ASSUME TypeOK, NEW w \in Workers, Claim(w)
  PROVE  TypeOK'
<1>1. PICK S \in SUBSET Rows : Takes(w, S)
  BY ClaimTakes
<1> USE DEF Takes
<1>2. {<<r, attempts'[r]>> : r \in S} \subseteq Jobs
  BY <1>1 DEF Jobs
<1>3. batch' \in [Workers -> SUBSET Jobs]
  BY <1>1, <1>2 DEF TypeOK
<1>4. wait' \in [Rows -> Nat] /\ left' \in [Workers -> 0..PollInterval]
  BY <1>1, QueueAssumption DEF TypeOK
<1>5. QED
  BY <1>1, <1>3, <1>4 DEF TypeOK, ghostVars

\* What a claim takes is due, so nobody else holds it, and is leased for longer
\* than the poll may last.
LEMMA ClaimHeld ==
  ASSUME QInv, NEW w \in Workers, Claim(w)
  PROVE  HeldUnderLease' /\ BatchSound' /\ BatchesDisjoint'
<1>1. PICK S \in SUBSET Rows : Takes(w, S)
  BY ClaimTakes DEF QInv
<1> USE DEF Takes
<1>2. \A j \in batch'[w] : j[1] \in S /\ j = <<j[1], attempts'[j[1]]>> /\ j[2] > 0
  BY <1>1 DEF QInv, TypeOK
<1>3. \A v \in Workers \ {w} : batch'[v] = batch[v] /\ left'[v] = left[v]
  BY <1>1 DEF QInv, TypeOK
<1>4. left'[w] = PollInterval
  BY <1>1 DEF QInv, TypeOK
<1>5. \A v \in Workers \ {w} : left[v] > 0 => \A j \in batch[v] : j[1] \notin S
  BY <1>1 DEF QInv, TypeOK, HeldUnderLease
<1>6. HeldUnderLease'
  <2> SUFFICES ASSUME NEW v \in Workers, NEW j \in batch'[v], left'[v] > 0
               PROVE  status'[j[1]] = "queued" /\ wait'[j[1]] >= left'[v]
    BY DEF HeldUnderLease
  <2>1. CASE v = w
    BY <1>1, <1>2, <1>4, <2>1, QueueAssumption
  <2>2. CASE v # w
    <3>1. j[1] \in Rows
      BY <1>3, <2>2 DEF QInv, TypeOK, Jobs
    <3>2. QED
      BY <1>1, <1>3, <1>5, <2>2, <3>1 DEF QInv, HeldUnderLease
  <2>3. QED
    BY <2>1, <2>2
<1>7. BatchSound'
  <2>1. \A i, j \in batch'[w] : i[1] = j[1] => i = j
    BY <1>2
  <2>2. current[w] = NoJob
    BY <1>1 DEF QInv, BatchSound
  <2>3. QED
    BY <1>1, <1>2, <1>3, <2>1, <2>2 DEF QInv, BatchSound
<1>8. BatchesDisjoint'
  BY <1>2, <1>3, <1>5 DEF QInv, BatchesDisjoint
<1>9. QED
  BY <1>6, <1>7, <1>8

-----------------------------------------------------------------------------
(* The conjuncts, step by step.                                             *)

\* Every step keeps the types.
LEMMA NextTypeOK == QInv /\ [Next]_vars => TypeOK'
<1> SUFFICES ASSUME QInv, [Next]_vars
             PROVE  TypeOK'
  OBVIOUS
<1> USE DEF QInv, TypeOK, rowVars, workerVars, ghostVars, BatchSound, Jobs,
            Attempts, Outcomes, Lesser, Unrecorded
<1>1. CASE UNCHANGED vars
  BY <1>1 DEF vars
<1>2. ASSUME NEW r \in Rows, Enqueue(r)
      PROVE  TypeOK'
  BY <1>2 DEF Enqueue
<1>3. CASE Tick
  BY <1>3, QueueAssumption DEF Tick
<1>4. ASSUME NEW w \in Workers, Claim(w)
      PROVE  TypeOK'
  BY <1>4, ClaimType
<1>5. ASSUME NEW w \in Workers, NEW j \in batch[w], Deliver(w, j)
      PROVE  TypeOK'
  BY <1>5 DEF Deliver, Accept
<1>6. ASSUME NEW w \in Workers, Record(w)
      PROVE  TypeOK'
  BY <1>6, BackoffAssumption, QueueAssumption DEF Record, Drop
<1>7. ASSUME NEW w \in Workers, RecordFails(w)
      PROVE  TypeOK'
  BY <1>7, QueueAssumption DEF RecordFails, Drop
<1>8. ASSUME NEW w \in Workers, Lapse(w) \/ Crash(w)
      PROVE  TypeOK'
  <2>1. Unrecorded(w) \subseteq Rows
    BY <1>8
  <2>2. faults' \in 0..MaxFaults
    BY <1>8, QueueAssumption DEF Lapse, Crash
  <2>3. Abandon(w)
    BY <1>8 DEF Lapse, Crash
  <2>4. /\ batch' \in [Workers -> SUBSET Jobs]
        /\ left' \in [Workers -> 0..PollInterval]
    BY <2>3, QueueAssumption DEF Abandon
  <2>5. /\ current' \in [Workers -> Jobs \cup {NoJob}]
        /\ outcome' \in [Workers -> Outcomes]
    BY <2>3 DEF Abandon
  <2>6. forgotten' \subseteq Rows /\ UNCHANGED <<rowVars, accepted>>
    BY <2>1, <2>3 DEF Abandon
  <2>7. QED
    BY <2>2, <2>4, <2>5, <2>6
<1>9. QED
  BY <1>1, <1>2, <1>3, <1>4, <1>5, <1>6, <1>7, <1>8 DEF Next

\* A claim leases beyond the poll; only its holder's writes end a lease early.
LEMMA NextHeldUnderLease == QInv /\ TypeOK' /\ [Next]_vars => HeldUnderLease'
<1> SUFFICES ASSUME QInv, TypeOK', [Next]_vars
             PROVE  HeldUnderLease'
  OBVIOUS
<1> USE DEF QInv, TypeOK, rowVars, workerVars, ghostVars, HeldUnderLease, Jobs
<1>1. CASE UNCHANGED vars
  BY <1>1 DEF vars
<1>2. ASSUME NEW r \in Rows, Enqueue(r)
      PROVE  HeldUnderLease'
  BY <1>2 DEF Enqueue
<1>3. CASE Tick
  BY <1>3 DEF Tick
<1>4. ASSUME NEW w \in Workers, Claim(w)
      PROVE  HeldUnderLease'
  BY <1>4, ClaimHeld
<1>5. ASSUME NEW w \in Workers, NEW j \in batch[w], Deliver(w, j)
      PROVE  HeldUnderLease'
  BY <1>5 DEF Deliver, Accept
<1>6. ASSUME NEW w \in Workers, Record(w)
      PROVE  HeldUnderLease'
  <2>1. \A v \in Workers : \A j \in batch'[v] :
          left'[v] > 0 => /\ j \in batch[v] /\ left'[v] = left[v]
                          /\ j[1] # current[w][1]
    BY <1>6 DEF Record, Drop, BatchSound, BatchesDisjoint
  <2>2. \A r \in Rows \ {current[w][1]} : status'[r] = status[r] /\ wait'[r] = wait[r]
    BY <1>6 DEF Record
  <2>3. QED
    BY <2>1, <2>2 DEF Jobs
<1>7. ASSUME NEW w \in Workers, RecordFails(w)
      PROVE  HeldUnderLease'
  BY <1>7 DEF RecordFails, Drop
<1>8. ASSUME NEW w \in Workers, Lapse(w) \/ Crash(w)
      PROVE  HeldUnderLease'
  BY <1>8 DEF Lapse, Crash, Abandon
<1>9. QED
  BY <1>1, <1>2, <1>3, <1>4, <1>5, <1>6, <1>7, <1>8 DEF Next

\* Batches shrink until the next claim fills them.
LEMMA NextBatchSound == QInv /\ TypeOK' /\ [Next]_vars => BatchSound'
<1> SUFFICES ASSUME QInv, TypeOK', [Next]_vars
             PROVE  BatchSound'
  OBVIOUS
<1> USE DEF QInv, TypeOK, rowVars, workerVars, ghostVars, BatchSound
<1>1. CASE UNCHANGED vars
  BY <1>1 DEF vars
<1>2. ASSUME NEW r \in Rows, Enqueue(r)
      PROVE  BatchSound'
  BY <1>2 DEF Enqueue
<1>3. CASE Tick
  BY <1>3 DEF Tick
<1>4. ASSUME NEW w \in Workers, Claim(w)
      PROVE  BatchSound'
  BY <1>4, ClaimHeld
<1>5. ASSUME NEW w \in Workers, NEW j \in batch[w], Deliver(w, j)
      PROVE  BatchSound'
  BY <1>5 DEF Deliver, Accept
<1>6. ASSUME NEW w \in Workers, Record(w)
      PROVE  BatchSound'
  BY <1>6 DEF Record, Drop
<1>7. ASSUME NEW w \in Workers, RecordFails(w)
      PROVE  BatchSound'
  BY <1>7 DEF RecordFails, Drop
<1>8. ASSUME NEW w \in Workers, Lapse(w) \/ Crash(w)
      PROVE  BatchSound'
  BY <1>8 DEF Lapse, Crash, Abandon
<1>9. QED
  BY <1>1, <1>2, <1>3, <1>4, <1>5, <1>6, <1>7, <1>8 DEF Next

\* What a live worker holds is not due for another one.
LEMMA NextBatchesDisjoint == QInv /\ TypeOK' /\ [Next]_vars => BatchesDisjoint'
<1> SUFFICES ASSUME QInv, TypeOK', [Next]_vars
             PROVE  BatchesDisjoint'
  OBVIOUS
<1> USE DEF QInv, TypeOK, rowVars, workerVars, ghostVars, BatchesDisjoint
<1>1. CASE UNCHANGED vars
  BY <1>1 DEF vars
<1>2. ASSUME NEW r \in Rows, Enqueue(r)
      PROVE  BatchesDisjoint'
  BY <1>2 DEF Enqueue
<1>3. CASE Tick
  BY <1>3 DEF Tick
<1>4. ASSUME NEW w \in Workers, Claim(w)
      PROVE  BatchesDisjoint'
  BY <1>4, ClaimHeld
<1>5. ASSUME NEW w \in Workers, NEW j \in batch[w], Deliver(w, j)
      PROVE  BatchesDisjoint'
  BY <1>5 DEF Deliver, Accept
<1>6. ASSUME NEW w \in Workers, Record(w)
      PROVE  BatchesDisjoint'
  BY <1>6 DEF Record, Drop
<1>7. ASSUME NEW w \in Workers, RecordFails(w)
      PROVE  BatchesDisjoint'
  BY <1>7 DEF RecordFails, Drop
<1>8. ASSUME NEW w \in Workers, Lapse(w) \/ Crash(w)
      PROVE  BatchesDisjoint'
  BY <1>8 DEF Lapse, Crash, Abandon
<1>9. QED
  BY <1>1, <1>2, <1>3, <1>4, <1>5, <1>6, <1>7, <1>8 DEF Next

\* An acceptance is with its worker until it is recorded or forgotten.
LEMMA NextAcceptedKnown == QInv /\ TypeOK' /\ [Next]_vars => AcceptedKnown'
<1> SUFFICES ASSUME QInv, TypeOK', [Next]_vars
             PROVE  AcceptedKnown'
  OBVIOUS
<1> USE DEF QInv, TypeOK, rowVars, workerVars, ghostVars, AcceptedKnown,
            HeldUnderLease, BatchSound, Unrecorded, Lesser, Jobs
<1>1. CASE UNCHANGED vars
  BY <1>1 DEF vars
<1>2. ASSUME NEW r \in Rows, Enqueue(r)
      PROVE  AcceptedKnown'
  BY <1>2 DEF Enqueue
<1>3. CASE Tick
  BY <1>3 DEF Tick
<1>4. ASSUME NEW w \in Workers, Claim(w)
      PROVE  AcceptedKnown'
  <2>1. UNCHANGED <<accepted, forgotten, status, current, outcome>>
    BY <1>4 DEF Claim
  <2>2. QED
    BY <2>1
<1>5. ASSUME NEW w \in Workers, NEW j \in batch[w], Deliver(w, j)
      PROVE  AcceptedKnown'
  <2> SUFFICES ASSUME NEW r \in Rows, accepted'[r] > 0
               PROVE  \/ status'[r] = "sent"
                      \/ r \in forgotten'
                      \/ \E v \in Workers : r \in Unrecorded(v)'
    BY DEF AcceptedKnown
  <2>1. UNCHANGED status /\ forgotten \subseteq forgotten'
    BY <1>5 DEF Deliver
  <2>2. \A v \in Workers : Unrecorded(v) \subseteq Unrecorded(v)'
    BY <1>5 DEF Deliver
  <2>3. CASE accepted[r] > 0
    BY <2>1, <2>2, <2>3
  <2>4. CASE ~(accepted[r] > 0)
    <3>1. j[1] = r /\ (r \in forgotten' \/ outcome'[w] = "accepted")
      BY <1>5, <2>4 DEF Deliver, Accept
    <3>2. current'[w] = j /\ j # NoJob
      BY <1>5, QueueAssumption DEF Deliver
    <3>3. QED
      BY <3>1, <3>2
  <2>5. QED
    BY <2>3, <2>4
<1>6. ASSUME NEW w \in Workers, Record(w)
      PROVE  AcceptedKnown'
  BY <1>6 DEF Record, Drop
<1>7. ASSUME NEW w \in Workers, RecordFails(w)
      PROVE  AcceptedKnown'
  BY <1>7 DEF RecordFails, Drop
<1>8. ASSUME NEW w \in Workers, Lapse(w) \/ Crash(w)
      PROVE  AcceptedKnown'
  BY <1>8 DEF Lapse, Crash, Abandon
<1>9. QED
  BY <1>1, <1>2, <1>3, <1>4, <1>5, <1>6, <1>7, <1>8 DEF Next

\* What a worker saw accepted counts as accepted.
LEMMA NextUnrecordedAccepted == QInv /\ TypeOK' /\ [Next]_vars => UnrecordedAccepted'
<1> SUFFICES ASSUME QInv, TypeOK', [Next]_vars
             PROVE  UnrecordedAccepted'
  OBVIOUS
<1> USE DEF QInv, TypeOK, rowVars, workerVars, ghostVars, UnrecordedAccepted,
            Unrecorded, Lesser, Jobs
<1>1. CASE UNCHANGED vars
  BY <1>1 DEF vars
<1>2. ASSUME NEW r \in Rows, Enqueue(r)
      PROVE  UnrecordedAccepted'
  BY <1>2 DEF Enqueue
<1>3. CASE Tick
  BY <1>3 DEF Tick
<1>4. ASSUME NEW w \in Workers, Claim(w)
      PROVE  UnrecordedAccepted'
  <2>1. UNCHANGED <<accepted, current, outcome>>
    BY <1>4 DEF Claim
  <2>2. QED
    BY <2>1
<1>5. ASSUME NEW w \in Workers, NEW j \in batch[w], Deliver(w, j)
      PROVE  UnrecordedAccepted'
  BY <1>5 DEF Deliver, Accept
<1>6. ASSUME NEW w \in Workers, Record(w)
      PROVE  UnrecordedAccepted'
  BY <1>6 DEF Record, Drop
<1>7. ASSUME NEW w \in Workers, RecordFails(w)
      PROVE  UnrecordedAccepted'
  BY <1>7 DEF RecordFails, Drop
<1>8. ASSUME NEW w \in Workers, Lapse(w) \/ Crash(w)
      PROVE  UnrecordedAccepted'
  BY <1>8 DEF Lapse, Crash, Abandon
<1>9. QED
  BY <1>1, <1>2, <1>3, <1>4, <1>5, <1>6, <1>7, <1>8 DEF Next

\* Only an acceptance is recorded as sent.
LEMMA NextSentMeansAccepted == QInv /\ TypeOK' /\ [Next]_vars => SentMeansAccepted'
<1> SUFFICES ASSUME QInv, TypeOK', [Next]_vars
             PROVE  SentMeansAccepted'
  OBVIOUS
<1> USE DEF QInv, TypeOK, rowVars, workerVars, ghostVars, SentMeansAccepted,
            UnrecordedAccepted, Unrecorded, Lesser
<1>1. CASE UNCHANGED vars
  BY <1>1 DEF vars
<1>2. ASSUME NEW r \in Rows, Enqueue(r)
      PROVE  SentMeansAccepted'
  BY <1>2 DEF Enqueue
<1>3. CASE Tick
  BY <1>3 DEF Tick
<1>4. ASSUME NEW w \in Workers, Claim(w)
      PROVE  SentMeansAccepted'
  BY <1>4 DEF Claim
<1>5. ASSUME NEW w \in Workers, NEW j \in batch[w], Deliver(w, j)
      PROVE  SentMeansAccepted'
  BY <1>5 DEF Deliver, Accept
<1>6. ASSUME NEW w \in Workers, Record(w)
      PROVE  SentMeansAccepted'
  BY <1>6 DEF Record, Drop
<1>7. ASSUME NEW w \in Workers, RecordFails(w)
      PROVE  SentMeansAccepted'
  BY <1>7 DEF RecordFails, Drop
<1>8. ASSUME NEW w \in Workers, Lapse(w) \/ Crash(w)
      PROVE  SentMeansAccepted'
  BY <1>8 DEF Lapse, Crash, Abandon
<1>9. QED
  BY <1>1, <1>2, <1>3, <1>4, <1>5, <1>6, <1>7, <1>8 DEF Next

\* A second acceptance means that the first one's worker is gone.
LEMMA NextTwiceMeansForgotten == QInv /\ TypeOK' /\ [Next]_vars => TwiceMeansForgotten'
<1> SUFFICES ASSUME QInv, TypeOK', [Next]_vars
             PROVE  TwiceMeansForgotten'
  OBVIOUS
<1> USE DEF QInv, TypeOK, rowVars, workerVars, ghostVars, TwiceMeansForgotten,
            Unrecorded
<1>1. CASE UNCHANGED vars
  BY <1>1 DEF vars
<1>2. ASSUME NEW r \in Rows, Enqueue(r)
      PROVE  TwiceMeansForgotten'
  BY <1>2 DEF Enqueue
<1>3. CASE Tick
  BY <1>3 DEF Tick
<1>4. ASSUME NEW w \in Workers, Claim(w)
      PROVE  TwiceMeansForgotten'
  <2>1. UNCHANGED <<accepted, forgotten, current, outcome>>
    BY <1>4 DEF Claim
  <2>2. \A v \in Workers : left[v] = 0 /\ Unrecorded(v) # {} => left'[v] = 0
    BY <1>4 DEF Claim, Unrecorded, BatchSound
  <2>3. QED
    BY <2>1, <2>2 DEF Unrecorded
<1>5. ASSUME NEW w \in Workers, NEW j \in batch[w], Deliver(w, j)
      PROVE  TwiceMeansForgotten'
  <2> SUFFICES ASSUME NEW r \in Rows, accepted'[r] > 1
               PROVE  \/ r \in forgotten'
                      \/ \E v \in Workers : left'[v] = 0 /\ r \in Unrecorded(v)'
    BY DEF TwiceMeansForgotten
  <2>1. forgotten \subseteq forgotten' /\ left' = left
    BY <1>5 DEF Deliver
  <2>2. \A v \in Workers \ {w} : Unrecorded(v)' = Unrecorded(v)
    BY <1>5 DEF Deliver, Unrecorded
  <2>3. Unrecorded(w) = {}
    BY <1>5 DEF Deliver, Unrecorded
  <2>4. CASE accepted[r] > 1
    BY <2>1, <2>2, <2>3, <2>4 DEF TwiceMeansForgotten
  <2>5. CASE ~(accepted[r] > 1)
    <3>1. accepted[r] > 0 /\ j[1] = r
      BY <1>5, <2>5 DEF Deliver, Accept, Lesser
    <3>2. status[r] = "queued"
      BY <1>5, <3>1 DEF Deliver, HeldUnderLease
    <3>3. CASE r \in forgotten
      BY <2>1, <3>3
    <3>4. CASE \E v \in Workers : r \in Unrecorded(v)
      <4>1. PICK v \in Workers : r \in Unrecorded(v)
        BY <3>4
      <4>2. v # w
        BY <2>3, <4>1
      <4>3. current[v] \in batch[v] /\ current[v][1] = r
        BY <4>1 DEF Unrecorded, BatchSound
      <4>4. left[v] = 0
        BY <1>5, <3>1, <4>2, <4>3 DEF Deliver, BatchesDisjoint
      <4>5. QED
        BY <2>1, <2>2, <4>1, <4>2, <4>4
    <3>5. QED
      BY <3>1, <3>2, <3>3, <3>4 DEF AcceptedKnown
  <2>6. QED
    BY <2>4, <2>5
<1>6. ASSUME NEW w \in Workers, Record(w)
      PROVE  TwiceMeansForgotten'
  BY <1>6 DEF Record, Drop
<1>7. ASSUME NEW w \in Workers, RecordFails(w)
      PROVE  TwiceMeansForgotten'
  BY <1>7 DEF RecordFails, Drop
<1>8. ASSUME NEW w \in Workers, Lapse(w) \/ Crash(w)
      PROVE  TwiceMeansForgotten'
  BY <1>8 DEF Lapse, Crash, Abandon
<1>9. QED
  BY <1>1, <1>2, <1>3, <1>4, <1>5, <1>6, <1>7, <1>8 DEF Next

-----------------------------------------------------------------------------
(* The theorems.                                                            *)

\* The invariant is inductive.
LEMMA NextInv == QInv /\ [Next]_vars => QInv'
  BY NextTypeOK, NextHeldUnderLease, NextBatchSound, NextBatchesDisjoint,
     NextAcceptedKnown, NextUnrecordedAccepted, NextSentMeansAccepted,
     NextTwiceMeansForgotten
  DEF QInv

\* Every reachable state satisfies the inductive invariant: a live worker's rows
\* are queued, leased beyond its deadline and nobody else's (ClaimDue), and every
\* acceptance of the provider is accounted for (notifysvc.process).
THEOREM Invariance == Spec => []QInv
<1>1. QED
  BY InitInv, NextInv, PTL DEF Spec

\* Every reachable state is well-typed: no more attempts than the maximum are
\* ever counted, and no other status is ever written.
THEOREM TypeInvariant == Spec => []TypeOK
<1>1. QInv => TypeOK
  BY DEF QInv
<1>2. QED
  BY <1>1, Invariance, PTL

\* Workers that can still act never share a message, for any number of workers
\* and messages, provided that the lease outlives the poll (ClaimDueNotifications,
\* cmd/worker's context).
THEOREM WorkersNeverShare == Spec => []LeaseExclusive
<1>1. QInv => LeaseExclusive
  <2> SUFFICES ASSUME QInv, NEW v \in Workers, NEW w \in Workers, v # w,
                      left[v] > 0, left[w] > 0,
                      NEW r \in RowsOf(batch[v]), r \in RowsOf(batch[w])
               PROVE  FALSE
    BY DEF LeaseExclusive
  <2>1. PICK i \in batch[v], j \in batch[w] : i[1] = r /\ j[1] = r
    BY DEF RowsOf
  <2>2. QED
    BY <2>1 DEF QInv, BatchesDisjoint
<1>2. QED
  BY <1>1, Invariance, PTL

\* Nothing counts as sent that the provider has not taken (MarkSent follows a
\* successful deliver only).
THEOREM SentWasAccepted == Spec => []SentMeansAccepted
<1>1. QInv => SentMeansAccepted
  BY DEF QInv
<1>2. QED
  BY <1>1, Invariance, PTL

\* Duplicates come from lost answers and lost writes alone, whatever the number
\* of workers, retries and crashes (ClaimDue's lease and process).
THEOREM DuplicatesNeedLoss == Spec => []TwiceMeansForgotten
<1>1. QInv => TwiceMeansForgotten
  BY DEF QInv
<1>2. QED
  BY <1>1, Invariance, PTL

\* "sent" and "failed" are final, although MarkSent, Retry and Fail update by id
\* without looking at the row: who still may write holds a queued row.
THEOREM OutcomesStay == Spec => OutcomeIsFinal
<1>1. ASSUME QInv, [Next]_vars, NEW r \in Rows, status[r] \in {"sent", "failed"}
      PROVE  status'[r] = status[r]
  <2>1. ASSUME NEW s \in Rows, Enqueue(s)
        PROVE  status'[r] = status[r]
    BY <1>1, <2>1 DEF Enqueue
  <2>2. ASSUME NEW w \in Workers, Record(w)
        PROVE  status'[r] = status[r]
    <3>1. status[current[w][1]] = "queued"
      BY <2>2, <1>1 DEF Record, QInv, BatchSound, HeldUnderLease
    <3>2. QED
      BY <1>1, <2>2, <3>1 DEF Record, QInv, TypeOK
  <2>3. CASE UNCHANGED status
    BY <2>3
  <2>4. QED
    BY <1>1, <2>1, <2>2, <2>3
    DEF Next, vars, rowVars, Tick, Claim, Deliver, RecordFails, Lapse, Crash, Abandon
<1>2. QInv /\ [Next]_vars
        => [\A r \in Rows : status[r] \in {"sent", "failed"}
                              => status'[r] = status[r]]_vars
  BY <1>1
<1>3. QED
  BY <1>2, Invariance, PTL DEF Spec, OutcomeIsFinal

-----------------------------------------------------------------------------
(* The refinement of plain delivery.                                        *)

\* An acceptance is lost when it is forgotten or its holder's context is done.
LEMMA LostMembers ==
  /\ \A r : r \in Lost <=> \/ r \in forgotten
                           \/ \E w \in Workers : left[w] = 0 /\ r \in Unrecorded(w)
  /\ \A r : r \in Lost' <=> \/ r \in forgotten'
                            \/ \E w \in Workers : left'[w] = 0 /\ r \in Unrecorded(w)'
  BY DEF Lost

\* What a live worker still has to record is queued and taken.
LEMMA LiveUnrecorded ==
  ASSUME QInv, NEW w \in Workers, left[w] > 0, NEW r \in Unrecorded(w)
  PROVE  r \in Rows /\ status[r] = "queued" /\ accepted[r] > 0
<1>1. current[w] \in batch[w] /\ current[w] \in Jobs /\ r = current[w][1]
  BY DEF Unrecorded, QInv, BatchSound, TypeOK
<1>2. status[r] = "queued"
  BY <1>1 DEF QInv, HeldUnderLease
<1> QED
  BY <1>1, <1>2 DEF Jobs, QInv, UnrecordedAccepted

\* What a live worker holds without having seen it accepted was not taken, or
\* whoever saw it taken is gone.
LEMMA HeldTakenIsLost ==
  ASSUME QInv, NEW w \in Workers, left[w] > 0, NEW j \in batch[w],
         j[1] \notin Unrecorded(w), accepted[j[1]] # 0
  PROVE  j[1] \in Lost
<1>1. j \in Jobs /\ j[1] \in Rows
  BY DEF QInv, TypeOK, Jobs
<1>2. accepted[j[1]] > 0 /\ status[j[1]] = "queued"
  BY <1>1 DEF QInv, TypeOK, HeldUnderLease
<1>3. ASSUME NEW v \in Workers, j[1] \in Unrecorded(v)
      PROVE  left[v] = 0
  <2>1. v # w /\ current[v] \in batch[v] /\ current[v][1] = j[1]
    BY <1>3 DEF Unrecorded, QInv, BatchSound
  <2>2. left[v] \in 0..PollInterval
    BY DEF QInv, TypeOK
  <2> QED
    BY <2>1, <2>2, QueueAssumption DEF QInv, BatchesDisjoint
<1> QED
  BY <1>1, <1>2, <1>3, LostMembers DEF QInv, AcceptedKnown

\* A step that concludes nothing and hands nothing over, and after which only what
\* live workers were holding is lost in addition, forgets or does nothing.
LEMMA ForgetStep ==
  ASSUME QInv, UNCHANGED <<status, accepted>>, Lost \subseteq Lost',
         \A r \in Lost' : r \in Lost \/ \E w \in Workers : left[w] > 0 /\ r \in Unrecorded(w)
  PROVE  Delivery!Next
<1> DEFINE R == Lost' \ Lost
<1>1. \A r \in R : r \in Rows /\ status[r] = "queued" /\ accepted[r] > 0
  BY LiveUnrecorded
<1>2. Lost' = Lost \cup R
  OBVIOUS
<1> HIDE DEF R
<1>3. R \in SUBSET Rows /\ Delivery!Forget(R)
  BY <1>1, <1>2 DEF Delivery!Forget
<1> QED
  BY <1>3 DEF Delivery!Next

\* Every step of the queue is a step of plain delivery or leaves it alone.
LEMMA DeliveryStep == QInv /\ [Next]_vars => [Delivery!Next]_(Delivery!vars)
<1> SUFFICES ASSUME QInv, [Next]_vars
             PROVE  [Delivery!Next]_(Delivery!vars)
  OBVIOUS
<1> USE DEF rowVars, workerVars, ghostVars
<1>0. left \in [Workers -> 0..PollInterval] /\ \A w \in Workers : left[w] = 0 \/ left[w] > 0
  BY QueueAssumption DEF QInv, TypeOK
<1>1. CASE UNCHANGED vars
  BY <1>1 DEF vars, Delivery!vars, Lost, Unrecorded
<1>2. ASSUME NEW r \in Rows, Enqueue(r)
      PROVE  Delivery!Next
  <2>1. Lost' = Lost
    BY <1>2 DEF Enqueue, Lost, Unrecorded
  <2> QED
    BY <1>2, <2>1 DEF Enqueue, Delivery!Next, Delivery!Enqueue
<1>3. CASE Tick
  <2>1. /\ UNCHANGED <<status, accepted, forgotten>>
        /\ \A w \in Workers : Unrecorded(w)' = Unrecorded(w)
    BY <1>3 DEF Tick, Unrecorded
  <2>2. \A w \in Workers : left[w] = 0 => left'[w] = 0
    BY <1>3 DEF Tick
  <2> QED
    BY <1>0, <2>1, <2>2, LostMembers, ForgetStep
<1>4. ASSUME NEW w \in Workers, Claim(w)
      PROVE  Delivery!Next
  <2>1. UNCHANGED <<status, accepted, forgotten, current, outcome>> /\ batch[w] = {}
    BY <1>4 DEF Claim
  <2>2. \A v \in Workers \ {w} : left'[v] = left[v]
    BY <1>0, <1>4 DEF Claim
  <2>3. \A v \in Workers : Unrecorded(v)' = Unrecorded(v)
    BY <2>1 DEF Unrecorded
  <2>4. Unrecorded(w) = {}
    BY <2>1 DEF Unrecorded, QInv, BatchSound
  <2> QED
    BY <1>0, <2>1, <2>2, <2>3, <2>4, LostMembers, ForgetStep
<1>5. ASSUME NEW w \in Workers, NEW j \in batch[w], Deliver(w, j)
      PROVE  [Delivery!Next]_(Delivery!vars)
  <2>1. j[1] \in Rows /\ left[w] > 0 /\ status[j[1]] = "queued"
    BY <1>5 DEF Deliver, QInv, TypeOK, Jobs, HeldUnderLease
  <2>2. Unrecorded(w) = {} /\ \A v \in Workers \ {w} : Unrecorded(v)' = Unrecorded(v)
    BY <1>5 DEF Deliver, Unrecorded, QInv, TypeOK
  <2>3. accepted[j[1]] = 0 \/ j[1] \in Lost
    BY <2>1, <2>2, HeldTakenIsLost
  <2>4. UNCHANGED <<left, status>>
    BY <1>5 DEF Deliver
  <2>5. \A r : r \in Lost' <=> \/ r \in forgotten'
                               \/ \E v \in Workers : left[v] = 0 /\ r \in Unrecorded(v)
    BY <2>1, <2>2, <2>4, LostMembers
  <2>6. \/ UNCHANGED ghostVars
        \/ /\ Accept(j[1])
           /\ forgotten' \in {forgotten, forgotten \cup {j[1]}}
    BY <1>5 DEF Deliver
  <2>7. CASE UNCHANGED ghostVars
    <3>1. \A r : r \in Lost' <=> r \in Lost
      BY <2>5, <2>7, LostMembers
    <3>2. Lost' = Lost
      BY <3>1
    <3> QED
      BY <2>4, <2>7, <3>2 DEF Delivery!vars
  <2>8. CASE Accept(j[1]) /\ forgotten' \in {forgotten, forgotten \cup {j[1]}}
    <3>1. Lost' \in {Lost, Lost \cup {j[1]}}
      <4>1. CASE forgotten' = forgotten
        <5>1. \A r : r \in Lost' <=> r \in Lost
          BY <2>5, <4>1, LostMembers
        <5> QED
          BY <5>1
      <4>2. CASE forgotten' = forgotten \cup {j[1]}
        <5>1. \A r : r \in Lost' <=> r \in Lost \/ r = j[1]
          BY <2>5, <4>2, LostMembers
        <5>2. Lost' = Lost \cup {j[1]}
          BY <5>1
        <5> QED
          BY <5>2
      <4> QED
        BY <2>8, <4>1, <4>2
    <3>2. accepted' = [accepted EXCEPT ![j[1]] = IF accepted[j[1]] = 0 THEN 1 ELSE 2]
      <4>1. accepted[j[1]] \in 0..2
        BY <2>1 DEF QInv, TypeOK
      <4>2. Lesser(accepted[j[1]] + 1, 2) = IF accepted[j[1]] = 0 THEN 1 ELSE 2
        BY <4>1 DEF Lesser
      <4> QED
        BY <2>8, <4>2 DEF Accept
    <3>3. Delivery!Take(j[1])
      BY <2>1, <2>3, <2>4, <3>1, <3>2 DEF Delivery!Take
    <3> QED
      BY <2>1, <3>3 DEF Delivery!Next
  <2> QED
    BY <2>6, <2>7, <2>8
<1>6. ASSUME NEW w \in Workers, Record(w)
      PROVE  [Delivery!Next]_(Delivery!vars)
  <2> DEFINE r == current[w][1]
  <2>1. current[w] \in batch[w] /\ r \in Rows /\ left[w] > 0 /\ status[r] = "queued"
    BY <1>6 DEF Record, QInv, BatchSound, TypeOK, Jobs, HeldUnderLease
  <2>2. /\ UNCHANGED <<accepted, forgotten>>
        /\ current'[w] = NoJob
        /\ \A v \in Workers \ {w} : current'[v] = current[v] /\ outcome'[v] = outcome[v]
                                    /\ left'[v] = left[v]
    BY <1>6 DEF Record, Drop, QInv, TypeOK
  <2>3. Unrecorded(w)' = {} /\ \A v \in Workers \ {w} : Unrecorded(v)' = Unrecorded(v)
    BY <2>2 DEF Unrecorded
  <2>4. Lost' = Lost
    <3>1. \A s : s \in Lost' <=> s \in Lost
      BY <2>1, <2>2, <2>3, LostMembers
    <3> QED
      BY <3>1
  <2>5. CASE outcome[w] = "accepted" /\ status' = [status EXCEPT ![r] = "sent"]
    <3>1. accepted[r] > 0
      BY <1>6, <2>1, <2>5 DEF Record, Unrecorded, QInv, UnrecordedAccepted
    <3> QED
      BY <2>1, <2>2, <2>4, <2>5, <3>1 DEF Delivery!Sent, Delivery!Next
  <2>6. CASE outcome[w] # "accepted" /\ status' = [status EXCEPT ![r] = "failed"]
    <3>1. r \notin Unrecorded(w)
      BY <2>6 DEF Unrecorded
    <3>2. accepted[r] = 0 \/ r \in Lost
      BY <2>1, <3>1, HeldTakenIsLost
    <3> QED
      BY <2>1, <2>2, <2>4, <2>6, <3>2 DEF Delivery!Failed, Delivery!Next
  <2>7. CASE status' = [status EXCEPT ![r] = "queued"]
    <3>1. status' = status
      BY <2>1, <2>7 DEF QInv, TypeOK
    <3> QED
      BY <2>2, <2>4, <3>1 DEF Delivery!vars
  <2> QED
    BY <1>6, <2>5, <2>6, <2>7 DEF Record
<1>7. ASSUME NEW w \in Workers, RecordFails(w) \/ Lapse(w) \/ Crash(w)
      PROVE  Delivery!Next
  <2>1. /\ UNCHANGED <<status, accepted>>
        /\ forgotten' = forgotten \cup Unrecorded(w)
        /\ current'[w] = NoJob
        /\ \A v \in Workers \ {w} : current'[v] = current[v] /\ outcome'[v] = outcome[v]
                                    /\ left'[v] = left[v]
    BY <1>7 DEF RecordFails, Lapse, Crash, Abandon, Drop, QInv, TypeOK
  <2>2. Unrecorded(w)' = {} /\ \A v \in Workers \ {w} : Unrecorded(v)' = Unrecorded(v)
    BY <2>1 DEF Unrecorded
  <2> QED
    BY <1>0, <2>1, <2>2, LostMembers, ForgetStep
<1> QED
  BY <1>1, <1>2, <1>3, <1>4, <1>5, <1>6, <1>7 DEF Next

\* Any number of workers that poll, lease, retry, miss deadlines and crash look
\* like plain delivery: a message is concluded once, as sent only after the
\* provider took it, and is handed over again, or given up although the provider
\* has it, only when the acceptance is lost (ClaimDue, process, MarkSent, Fail).
THEOREM QueueImplementsDelivery == Spec => DeliverySpec
<1>1. Init => Delivery!Init
  <2> SUFFICES ASSUME Init PROVE Lost = {}
    BY DEF Init, Delivery!Init
  <2>1. \A w \in Workers : Unrecorded(w) = {}
    BY DEF Init, Unrecorded
  <2> QED
    BY <2>1, LostMembers DEF Init
<1> QED
  BY <1>1, DeliveryStep, Invariance, PTL DEF Spec, DeliverySpec, Delivery!Spec

=============================================================================
