--------------------------- MODULE AccountingProofs ---------------------------
(***************************************************************************)
(* The safety properties of Accounting, for any number of sessions and     *)
(* handlers and any size of queue.                                         *)
(***************************************************************************)
EXTENDS Accounting, SequenceTheorems, FiniteSetTheorems, TLAPS

-----------------------------------------------------------------------------
(* Sequences.                                                               *)

\* What a queue holds after an event is put at its end.
LEMMA AppendFacts ==
  ASSUME NEW S, NEW q \in Seq(S), NEW e \in S
  PROVE  /\ Append(q, e) \in Seq(S)
         /\ Len(Append(q, e)) = Len(q) + 1
         /\ \A i \in 1..Len(q) : Append(q, e)[i] = q[i]
         /\ Append(q, e)[Len(q) + 1] = e
  OBVIOUS

\* What it holds after its first one is taken.
LEMMA TailFacts ==
  ASSUME NEW S, NEW q \in Seq(S), q # <<>>
  PROVE  /\ Tail(q) \in Seq(S)
         /\ Len(q) \in Nat \ {0}
         /\ Len(Tail(q)) = Len(q) - 1
         /\ Head(q) = q[1] /\ Head(q) \in S
         /\ \A i \in 1..Len(Tail(q)) : Tail(q)[i] = q[i + 1]
  OBVIOUS

\* The queue of jobs has a limit.
LEMMA JobLimitType == JobLimit \in Nat
  BY AccountingAssumption, FS_CardinalityType DEF JobLimit

-----------------------------------------------------------------------------
(* Type correctness.                                                        *)

\* What the device says of a session is a packet.
LEMMA PacketTypes ==
  ASSUME TypeOK, NEW s \in Sessions
  PROVE  /\ Start(s) \in Packets /\ Stop(s) \in Packets
         /\ used[s] < MaxUsage => <<s, "interim", used[s] + 1>> \in Packets
<1>1. used[s] \in 0..MaxUsage /\ MaxUsage \in Nat
  BY AccountingAssumption DEF TypeOK
<1>2. 0 \in Usage /\ used[s] + 1 \in Usage
  BY <1>1 DEF Usage
<1> QED
  BY <1>2 DEF Packets, Kinds, Start, Stop

\* When the device sends more, what holds packets is still well-typed.
LEMMA SentGrows ==
  ASSUME TypeOK, sent \subseteq sent', sent' \subseteq Packets, answered' = answered,
         UNCHANGED <<netVars, serverVars, writerVars, clock, radacctVars, ghostVars, faults>>,
         link' \in [Sessions -> {"off", "up", "down"}], used' \in [Sessions -> 0..MaxUsage],
         early' \subseteq Sessions, kicked' \subseteq Sessions
  PROVE  TypeOK'
<1> USE DEF TypeOK, netVars, serverVars, writerVars, radacctVars, ghostVars
<1>1. jobs' \in Seq(sent')
  BY SeqMonotonic
<1>2. queue' \in Seq(sent' \X Seconds)
  <2>1. sent \X Seconds \subseteq sent' \X Seconds
    OBVIOUS
  <2> QED
    BY <2>1, SeqMonotonic
<1>3. handling' \in [Workers -> sent' \cup {NoPacket}]
  OBVIOUS
<1> QED
  BY <1>1, <1>2, <1>3

\* A session that ends keeps the device well-typed.
LEMMA EndType ==
  ASSUME TypeOK, NEW s \in Sessions, End(s)
  PROVE  /\ link' \in [Sessions -> {"off", "up", "down"}] /\ used' \in [Sessions -> 0..MaxUsage]
         /\ early' \subseteq Sessions
         /\ sent \subseteq sent' /\ sent' \subseteq Packets /\ answered' = answered
  BY PacketTypes DEF End, TypeOK

\* The statements keep radacct well-typed.
LEMMA ApplyType ==
  ASSUME TypeOK, NEW e \in sent \X Seconds, Apply(e)
  PROVE  /\ rows' \in [Sessions \X Seconds -> {"none", "open", "closed"}]
         /\ usage' \in [Sessions \X Seconds -> Usage]
         /\ applied' \subseteq sent
<1>1. /\ e[1] \in sent /\ e[2] \in Seconds
      /\ e[1][1] \in Sessions /\ e[1][2] \in Kinds /\ e[1][3] \in Usage
  BY DEF TypeOK, Packets
<1>2. applied' \subseteq sent
  BY <1>1 DEF Apply, TypeOK
<1>3. CASE e[1][2] = "start"
  <2>1. InsertAcctStart(e[1][1], e[2])
    BY <1>3 DEF Apply
  <2> QED
    BY <1>1, <1>2, <2>1 DEF InsertAcctStart, TypeOK
<1>4. CASE e[1][2] = "interim"
  <2>1. UpdateAcctInterim(e[1][1], e[1][3])
    BY <1>4 DEF Apply
  <2> QED
    BY <1>1, <1>2, <2>1 DEF UpdateAcctInterim, TypeOK
<1>5. CASE e[1][2] = "stop"
  <2>1. UpdateAcctStop(e[1][1], e[1][3])
    BY <1>5 DEF Apply
  <2> QED
    BY <1>1, <1>2, <2>1 DEF UpdateAcctStop, TypeOK
<1> QED
  BY <1>1, <1>3, <1>4, <1>5 DEF Kinds

\* The initial state is well-typed.
LEMMA InitType == Init => TypeOK
<1> SUFFICES ASSUME Init PROVE TypeOK
  OBVIOUS
<1>1. 0 \in Seconds /\ 0 \in Usage /\ 0 \in 0..MaxUsage /\ 0 \in 0..MaxRepeats /\ 0 \in 0..MaxFaults
  BY AccountingAssumption DEF Seconds, Usage
<1>2. Len(<<>>) <= JobLimit /\ Len(<<>>) <= Buffer
  BY JobLimitType, AccountingAssumption
<1>3. jobs \in Seq(sent) /\ queue \in Seq(sent \X Seconds)
  BY EmptySeq DEF Init
<1>4. /\ rows \in [Sessions \X Seconds -> {"none", "open", "closed"}]
      /\ usage \in [Sessions \X Seconds -> Usage]
  BY <1>1 DEF Init
<1> QED
  BY <1>1, <1>2, <1>3, <1>4 DEF Init, TypeOK

\* Every step keeps the state well-typed.
LEMMA NextType == TypeOK /\ [Next]_vars => TypeOK'
<1> SUFFICES ASSUME TypeOK, [Next]_vars PROVE TypeOK'
  OBVIOUS
<1> USE AccountingAssumption
        DEF vars, deviceVars, netVars, serverVars, writerVars, radacctVars, ghostVars
<1>1. CASE UNCHANGED vars
  BY <1>1 DEF TypeOK
<1>2. ASSUME NEW s \in Sessions, Connect(s) PROVE TypeOK'
  <2>1. sent' \subseteq Packets /\ link' \in [Sessions -> {"off", "up", "down"}]
    BY <1>2, PacketTypes DEF Connect, TypeOK
  <2> QED
    BY <1>2, <2>1, SentGrows DEF Connect, TypeOK
<1>3. ASSUME NEW s \in Sessions, Update(s) PROVE TypeOK'
  <2>1. sent' \subseteq Packets /\ used' \in [Sessions -> 0..MaxUsage]
    BY <1>3, PacketTypes DEF Update, TypeOK
  <2> QED
    BY <1>3, <2>1, SentGrows DEF Update, TypeOK
<1>4. ASSUME NEW s \in Sessions, Hangup(s) PROVE TypeOK'
  BY <1>4, EndType, SentGrows DEF Hangup, TypeOK
<1>5. ASSUME NEW s \in Sessions, Disconnect(s) PROVE TypeOK'
  <2>1. CASE link[s] = "up"
    BY <1>5, <2>1, EndType, SentGrows DEF Disconnect, TypeOK
  <2>2. CASE link[s] # "up"
    BY <1>5, <2>2 DEF Disconnect, TypeOK
  <2> QED
    BY <2>1, <2>2
<1>6. ASSUME NEW s \in Sessions, DisconnectFails(s) PROVE TypeOK'
  BY <1>6 DEF DisconnectFails, TypeOK
<1>7. ASSUME NEW p \in sent, Arrive(p) PROVE TypeOK'
  <2>1. jobs' \in Seq(sent) /\ Len(jobs') <= JobLimit
    BY <1>7, AppendFacts, JobLimitType DEF Arrive, TypeOK
  <2>2. repeated' \subseteq arrived' /\ arrived' \subseteq sent /\ repeats' \in 0..MaxRepeats
    BY <1>7 DEF Arrive, TypeOK
  <2> QED
    BY <1>7, <2>1, <2>2 DEF Arrive, TypeOK
<1>8. ASSUME NEW w \in Workers, Take(w) PROVE TypeOK'
  <2>1. jobs' \in Seq(sent) /\ Len(jobs') <= JobLimit /\ Head(jobs) \in sent
    BY <1>8, TailFacts, JobLimitType DEF Take, TypeOK
  <2> QED
    BY <1>8, <2>1 DEF Take, TypeOK
<1>9. ASSUME NEW w \in Workers, Drop(w) PROVE TypeOK'
  BY <1>9 DEF Drop, TypeOK
<1>10. ASSUME NEW w \in Workers, Handle(w) PROVE TypeOK'
  <2>1. handling[w] \in sent /\ <<handling[w], clock>> \in sent \X Seconds
    BY <1>10 DEF Handle, TypeOK
  <2>2. queue' \in Seq(sent \X Seconds) /\ Len(queue') <= Buffer
    BY <1>10, <2>1, AppendFacts DEF Handle, TypeOK
  <2>3. answered' \subseteq sent /\ excused' \subseteq sent
    BY <1>10, <2>1 DEF Handle, TypeOK
  <2> QED
    BY <1>10, <2>2, <2>3 DEF Handle, TypeOK
<1>11. CASE List
  BY <1>11 DEF List, TypeOK
<1>12. CASE Tick
  BY <1>12 DEF Tick, TypeOK, Seconds
<1>13. CASE Write
  <2>1. /\ queue' \in Seq(sent \X Seconds) /\ Len(queue') <= Buffer
        /\ Head(queue) \in sent \X Seconds
    BY <1>13, TailFacts DEF Write, TypeOK
  <2>2. CASE Apply(Head(queue))
    BY <1>13, <2>1, <2>2, ApplyType DEF Write, TypeOK, Apply
  <2>3. CASE ApplyFails(Head(queue))
    BY <1>13, <2>1, <2>3 DEF Write, TypeOK, ApplyFails, Fault
  <2> QED
    BY <1>13, <2>2, <2>3 DEF Write
<1>14. CASE Shutdown
  BY <1>14 DEF Shutdown, TypeOK
<1>15. CASE Drain
  BY <1>15 DEF Drain, TypeOK
<1>16. CASE Drained
  BY <1>16 DEF Drained, TypeOK
<1>17. ASSUME Restart, excused' \subseteq sent, faults' \in 0..MaxFaults PROVE TypeOK'
  <2>1. /\ jobs' \in Seq(sent) /\ queue' \in Seq(sent \X Seconds)
        /\ Len(jobs') <= JobLimit /\ Len(queue') <= Buffer
    BY <1>17, JobLimitType DEF Restart
  <2> QED
    BY <1>17, <2>1 DEF Restart, TypeOK
<1>18. CASE Exit
  BY <1>17, <1>18 DEF Exit, TypeOK
<1>19. CASE Crash
  <2>1. excused' \subseteq sent
    BY <1>19, LenProperties DEF Crash, TypeOK
  <2> QED
    BY <1>17, <1>19, <2>1 DEF Crash, Fault, TypeOK
<1> QED
  BY <1>1, <1>2, <1>3, <1>4, <1>5, <1>6, <1>7, <1>8, <1>9, <1>10, <1>11, <1>12, <1>13,
     <1>14, <1>15, <1>16, <1>18, <1>19 DEF Next, Device, Kick, Worker

\* Accounting stays well-typed.
THEOREM TypeInvariant == Spec => []TypeOK
  BY InitType, NextType, PTL DEF Spec

-----------------------------------------------------------------------------
(* Which steps change what.                                                  *)

\* The device's record of a session changes when it connects, counts or ends.
LEMMA DeviceSteps ==
  ASSUME [Next]_vars
  PROVE  \/ UNCHANGED <<link, used, sent, early>>
         \/ \E s \in Sessions :
              /\ Connect(s) \/ Update(s) \/ (link[s] = "up" /\ End(s))
              /\ UNCHANGED <<netVars, serverVars, writerVars, radacctVars, ghostVars>>
  BY DEF Next, Device, Kick, Worker, Connect, Update, Hangup, Disconnect, DisconnectFails, End,
         Arrive, Take, Drop, Handle, List, Tick, Write, Apply, ApplyFails, Shutdown, Drain,
         Drained, Exit, Crash, Restart, vars, deviceVars, netVars, serverVars, writerVars,
         radacctVars, ghostVars

\* The rows and what has been applied change when an event is written.
LEMMA BookSteps ==
  ASSUME [Next]_vars
  PROVE  \/ UNCHANGED <<rows, usage, applied>>
         \/ /\ queue # <<>> /\ queue' = Tail(queue) /\ Apply(Head(queue))
            /\ UNCHANGED <<deviceVars, netVars, serverVars, writer, stopping>>
  BY DEF Next, Device, Kick, Worker, Connect, Update, Hangup, Disconnect, DisconnectFails, End,
         Arrive, Take, Drop, Handle, List, Tick, Write, ApplyFails, Shutdown, Drain,
         Drained, Exit, Crash, Restart, vars, deviceVars, netVars, serverVars, writerVars,
         radacctVars, ghostVars

\* Packets move when they arrive, are taken, dropped, handled or written, and
\* are gone when the process is.
LEMMA PacketSteps ==
  ASSUME [Next]_vars
  PROVE  \/ UNCHANGED <<arrived, repeated, answered, jobs, handling, queue>>
         \/ \E p \in sent : Arrive(p)
         \/ \E w \in Workers : Take(w) \/ Drop(w) \/ Handle(w)
         \/ /\ queue # <<>> /\ queue' = Tail(queue)
            /\ Apply(Head(queue)) \/ UNCHANGED applied
            /\ UNCHANGED <<deviceVars, netVars, serverVars, writer>>
         \/ Restart
  BY DEF Next, Device, Kick, Worker, Connect, Update, Hangup, Disconnect, DisconnectFails, End,
         List, Tick, Write, ApplyFails, Shutdown, Drain,
         Drained, Exit, Crash, vars, deviceVars, netVars, serverVars, writerVars,
         radacctVars, ghostVars

-----------------------------------------------------------------------------
(* What the device has sent, and the rows.                                   *)

\* A packet is of a session that was up; a Start counts nothing, and a Stop is
\* of a session that is down and carries what it counted, and a bit more.
SentIsTrue ==
  \A p \in sent :
    /\ link[p[1]] # "off"
    /\ p[2] = "start" => p[3] = 0
    /\ p[2] = "stop"  => link[p[1]] = "down" /\ p[3] = used[p[1]] + 1

\* A Start that has been written has a row, and a row has a Start.
StartHasRow ==
  \A s \in Sessions :
    Start(s) \in applied <=> \E t \in Seconds : rows[<<s, t>>] # "none"

\* The inductive invariant for the rows.
RInv == SentIsTrue /\ ClosedIsFinal /\ StartHasRow

\* It holds initially.
LEMMA InitRows == Init => RInv
  BY DEF Init, RInv, SentIsTrue, ClosedIsFinal, StartHasRow

\* What a packet in the queue is.
LEMMA HeadIsSent ==
  ASSUME TypeOK, queue # <<>>
  PROVE  LET e == Head(queue) IN
         /\ e \in sent \X Seconds /\ e[1] \in sent /\ e[2] \in Seconds
         /\ e[1] \in Packets
         /\ e[1] = <<e[1][1], e[1][2], e[1][3]>>
         /\ e[1][1] \in Sessions /\ e[1][2] \in Kinds /\ e[1][3] \in Usage
  BY TailFacts DEF TypeOK, Packets

\* The device's steps keep what it has sent true.
LEMMA NextSent == TypeOK /\ SentIsTrue /\ [Next]_vars => SentIsTrue'
<1> SUFFICES ASSUME TypeOK, SentIsTrue, [Next]_vars PROVE SentIsTrue'
  OBVIOUS
<1>1. CASE UNCHANGED <<link, used, sent, early>>
  BY <1>1 DEF SentIsTrue
<1>2. ASSUME NEW s \in Sessions, Connect(s) \/ Update(s) \/ (link[s] = "up" /\ End(s))
      PROVE SentIsTrue'
  <2>1. \A p \in sent : p[1] \in Sessions /\ p[2] \in Kinds
    BY DEF TypeOK, Packets
  <2>2. CASE Connect(s)
    BY <2>1, <2>2 DEF Connect, SentIsTrue, Start, TypeOK
  <2>3. CASE Update(s)
    BY <2>1, <2>3 DEF Update, SentIsTrue, TypeOK
  <2>4. CASE link[s] = "up" /\ End(s)
    BY <2>1, <2>4 DEF End, SentIsTrue, Stop, TypeOK
  <2> QED
    BY <1>2, <2>2, <2>3, <2>4
<1> QED
  BY <1>1, <1>2, DeviceSteps

\* A session that is down stays so, with what it has counted.
LEMMA DownIsFinal ==
  ASSUME TypeOK, [Next]_vars, NEW s \in Sessions, link[s] = "down"
  PROVE  link'[s] = "down" /\ used'[s] = used[s]
  BY DeviceSteps DEF Connect, Update, End, TypeOK

\* Writing an event keeps the rows true.
LEMMA ApplyRows ==
  ASSUME TypeOK, RInv, queue # <<>>, Apply(Head(queue)), UNCHANGED deviceVars
  PROVE  ClosedIsFinal' /\ StartHasRow'
<1> DEFINE e == Head(queue)
<1>1. /\ e[1] \in sent /\ e[2] \in Seconds
      /\ e[1] = <<e[1][1], e[1][2], e[1][3]>>
      /\ e[1][1] \in Sessions /\ e[1][2] \in Kinds /\ e[1][3] \in Usage
  BY HeadIsSent
<1>2. applied' = applied \cup {e[1]}
  BY DEF Apply
<1>3. CASE e[1][2] = "start"
  <2>1. InsertAcctStart(e[1][1], e[2])
    BY <1>3 DEF Apply
  <2>2. e[1] = Start(e[1][1])
    BY <1>1, <1>3 DEF RInv, SentIsTrue, Start
  <2>3. ClosedIsFinal'
    BY <1>1, <2>1 DEF InsertAcctStart, RInv, ClosedIsFinal, TypeOK, deviceVars
  <2>4. StartHasRow'
    <3> SUFFICES ASSUME NEW s \in Sessions
                 PROVE (Start(s) \in applied <=> \E t \in Seconds : rows[<<s, t>>] # "none")'
      BY DEF StartHasRow
    <3>1. CASE s = e[1][1]
      <4>1. Start(s) \in applied'
        BY <1>2, <2>2, <3>1
      <4>2. rows'[<<s, e[2]>>] # "none"
        BY <1>1, <2>1, <3>1 DEF InsertAcctStart, TypeOK
      <4> QED
        BY <1>1, <4>1, <4>2 DEF Start
    <3>2. CASE s # e[1][1]
      <4>1. Start(s) # e[1]
        BY <3>2, <2>2 DEF Start
      <4>2. \A t \in Seconds : rows'[<<s, t>>] = rows[<<s, t>>]
        BY <1>1, <2>1, <3>2 DEF InsertAcctStart, TypeOK
      <4> QED
        BY <1>2, <4>1, <4>2 DEF RInv, StartHasRow, Start
    <3> QED
      BY <3>1, <3>2
  <2> QED
    BY <2>3, <2>4
<1>4. CASE e[1][2] \in {"interim", "stop"}
  <2>1. \/ UpdateAcctInterim(e[1][1], e[1][3])
        \/ e[1][2] = "stop" /\ UpdateAcctStop(e[1][1], e[1][3])
    BY <1>4 DEF Apply
  <2>2. \A s \in Sessions, t \in Seconds :
          rows'[<<s, t>>] # "none" <=> rows[<<s, t>>] # "none"
    BY <2>1 DEF UpdateAcctInterim, UpdateAcctStop, Open, TypeOK
  <2>3. \A s \in Sessions : Start(s) # e[1]
    BY <1>4 DEF Start
  <2>4. StartHasRow'
    BY <1>2, <2>2, <2>3 DEF RInv, StartHasRow, Start
  <2>5. ClosedIsFinal'
    <3>1. CASE UpdateAcctInterim(e[1][1], e[1][3])
      BY <3>1 DEF UpdateAcctInterim, Open, RInv, ClosedIsFinal, TypeOK, deviceVars
    <3>2. CASE e[1][2] = "stop" /\ UpdateAcctStop(e[1][1], e[1][3])
      <4>1. link[e[1][1]] = "down" /\ e[1][3] = used[e[1][1]] + 1
        BY <1>1, <3>2 DEF RInv, SentIsTrue
      <4> QED
        BY <3>2, <4>1 DEF UpdateAcctStop, Open, RInv, ClosedIsFinal, TypeOK, deviceVars
    <3> QED
      BY <2>1, <3>1, <3>2
  <2> QED
    BY <2>4, <2>5
<1> QED
  BY <1>1, <1>3, <1>4 DEF Kinds

\* Every step keeps the invariant for the rows.
LEMMA NextRows == TypeOK /\ RInv /\ [Next]_vars => RInv'
<1> SUFFICES ASSUME TypeOK, RInv, [Next]_vars PROVE RInv'
  OBVIOUS
<1>1. SentIsTrue'
  BY NextSent DEF RInv
<1>2. CASE UNCHANGED <<rows, usage, applied>>
  <2>1. ClosedIsFinal'
    BY <1>2, DownIsFinal DEF RInv, ClosedIsFinal
  <2>2. StartHasRow'
    BY <1>2 DEF RInv, StartHasRow, Start
  <2> QED
    BY <1>1, <2>1, <2>2 DEF RInv
<1>3. CASE /\ queue # <<>> /\ Apply(Head(queue))
           /\ UNCHANGED deviceVars
  BY <1>1, <1>3, ApplyRows DEF RInv
<1> QED
  BY <1>2, <1>3, BookSteps

\* The invariant for the rows holds throughout.
LEMMA RowsInvariant == Spec => [](TypeOK /\ RInv)
<1>1. Init => TypeOK /\ RInv
  BY InitType, InitRows
<1>2. TypeOK /\ RInv /\ [Next]_vars => (TypeOK /\ RInv)'
  BY NextType, NextRows
<1> QED
  BY <1>1, <1>2, PTL DEF Spec

\* Whatever the network, the handlers and the writer do, a closed row has the
\* counters of the session's end: radius_acct.sql's "acctstoptime IS NULL".
THEOREM ClosedRowsAreFinal == Spec => []ClosedIsFinal
<1>1. RInv => ClosedIsFinal
  BY DEF RInv
<1> QED
  BY <1>1, RowsInvariant, PTL

\* A session that is up and whose Start has been written has an open row, so
\* coasvc lists it.
THEOREM RecordedSessionsAreListed == Spec => []RecordedIsListed
<1>1. TypeOK /\ RInv => RecordedIsListed
  <2> SUFFICES ASSUME TypeOK, RInv, NEW s \in Sessions, link[s] = "up", Start(s) \in applied
               PROVE  Open(s) # {}
    BY DEF RecordedIsListed
  <2>1. PICK t \in Seconds : rows[<<s, t>>] # "none"
    BY DEF RInv, StartHasRow
  <2>2. rows[<<s, t>>] # "closed"
    BY DEF RInv, ClosedIsFinal
  <2>3. rows[<<s, t>>] = "open"
    BY <2>1, <2>2 DEF TypeOK
  <2> QED
    BY <2>3 DEF Open
<1> QED
  BY <1>1, RowsInvariant, PTL

-----------------------------------------------------------------------------
(* What has been answered.                                                   *)

\* What is still queued when the writer has stopped is lost.
LateIsExcused == writer = "stopped" => Pending \subseteq excused

\* The inductive invariant for what has been answered.
KInv == AnsweredIsKept /\ LateIsExcused

\* Queueing an event adds its packet to what is pending.
LEMMA AppendPending ==
  ASSUME TypeOK, NEW p \in sent, NEW t \in Seconds, queue' = Append(queue, <<p, t>>)
  PROVE  Pending' = Pending \cup {p}
<1>1. <<p, t>> \in sent \X Seconds /\ queue \in Seq(sent \X Seconds)
  BY DEF TypeOK
<1>2. /\ Len(queue') = Len(queue) + 1 /\ Len(queue) \in Nat
      /\ DOMAIN queue = 1..Len(queue) /\ DOMAIN queue' = 1..Len(queue')
      /\ \A i \in 1..Len(queue) : queue'[i] = queue[i]
      /\ queue'[Len(queue) + 1] = <<p, t>>
  BY <1>1, AppendFacts, LenProperties
<1> QED
  BY <1>2 DEF Pending

\* Taking one leaves the others.
LEMMA TailPending ==
  ASSUME TypeOK, queue # <<>>, queue' = Tail(queue)
  PROVE  Pending = Pending' \cup {Head(queue)[1]}
<1>1. queue \in Seq(sent \X Seconds)
  BY DEF TypeOK
<1>2. /\ Len(queue) \in Nat \ {0} /\ Len(queue') = Len(queue) - 1
      /\ DOMAIN queue = 1..Len(queue) /\ DOMAIN queue' = 1..Len(queue')
      /\ Head(queue) = queue[1]
      /\ \A i \in 1..Len(queue') : queue'[i] = queue[i + 1]
  BY <1>1, TailFacts, LenProperties
<1>3. \A i \in 1..Len(queue) : i = 1 \/ (i - 1 \in 1..Len(queue') /\ queue'[i - 1] = queue[i])
  BY <1>2
<1>4. \A i \in 1..Len(queue') : i + 1 \in 1..Len(queue)
  BY <1>2
<1>5. Pending' \subseteq Pending
  BY <1>2, <1>4 DEF Pending
<1>6. Head(queue)[1] \in Pending
  BY <1>2 DEF Pending
<1>7. Pending \subseteq Pending' \cup {Head(queue)[1]}
  <2> SUFFICES ASSUME NEW i \in 1..Len(queue), i # 1 PROVE queue[i][1] \in Pending'
    BY <1>2 DEF Pending
  <2>1. i - 1 \in DOMAIN queue' /\ queue'[i - 1] = queue[i]
    BY <1>2, <1>3
  <2> QED
    BY <2>1 DEF Pending
<1> QED
  BY <1>5, <1>6, <1>7

\* Every step keeps it.
LEMMA NextKept == TypeOK /\ KInv /\ [Next]_vars => KInv'
<1> SUFFICES ASSUME TypeOK, KInv, [Next]_vars PROVE KInv'
  OBVIOUS
<1> USE DEF KInv, AnsweredIsKept, LateIsExcused
<1>1. ASSUME UNCHANGED <<answered, applied, queue, excused>>, writer' # "stopped" \/ UNCHANGED writer
      PROVE KInv'
  BY <1>1 DEF Pending
<1>2. ASSUME NEW w \in Workers, Handle(w) PROVE KInv'
  <2>1. handling[w] \in sent /\ clock \in Seconds
    BY <1>2 DEF Handle, TypeOK
  <2>2. CASE Len(queue) < Buffer
    <3>1. Pending' = Pending \cup {handling[w]}
      BY <1>2, <2>1, <2>2, AppendPending DEF Handle
    <3> QED
      BY <1>2, <2>2, <3>1 DEF Handle
  <2>3. CASE ~(Len(queue) < Buffer)
    <3>1. Pending' = Pending
      BY <1>2, <2>3 DEF Handle, Pending
    <3> QED
      BY <1>2, <2>3, <3>1 DEF Handle
  <2> QED
    BY <2>2, <2>3
<1>3. CASE Write
  <2>1. Pending = Pending' \cup {Head(queue)[1]}
    BY <1>3, TailPending DEF Write
  <2> QED
    BY <1>3, <2>1 DEF Write, Apply, ApplyFails, serverVars, netVars, deviceVars
<1>4. CASE Drained
  BY <1>4 DEF Drained, Pending, deviceVars, ghostVars
<1>5. ASSUME Restart, Pending \subseteq excused', excused \subseteq excused' PROVE KInv'
  <2>1. Pending' = {}
    BY <1>5 DEF Restart, Pending
  <2> QED
    BY <1>5, <2>1 DEF Restart, deviceVars
<1>6. CASE Exit
  BY <1>5, <1>6 DEF Exit
<1>7. CASE Crash
  BY <1>5, <1>7 DEF Crash, Pending
<1> QED
  BY <1>1, <1>2, <1>3, <1>4, <1>6, <1>7 DEF Next, Device, Kick, Worker, Connect, Update, Hangup,
     Disconnect, DisconnectFails, End, Arrive, Take, Drop, List, Tick, Shutdown, Drain,
     vars, deviceVars, netVars, serverVars, writerVars, radacctVars, ghostVars

\* What the device has an answer for is in radacct or queued, or was lost to a
\* full queue, a failing write, a crash or a handler that outlived the writer.
THEOREM AnsweredIsNotForgotten == Spec => []AnsweredIsKept
<1>1. Init => TypeOK /\ KInv
  <2>1. Init => KInv
    BY DEF Init, KInv, AnsweredIsKept, LateIsExcused, Pending
  <2> QED
    BY <2>1, InitType
<1>2. TypeOK /\ KInv /\ [Next]_vars => (TypeOK /\ KInv)'
  BY NextType, NextKept
<1>3. KInv => AnsweredIsKept
  BY DEF KInv
<1> QED
  BY <1>1, <1>2, <1>3, PTL DEF Spec

-----------------------------------------------------------------------------
(* Sessions whose Start arrives once.                                        *)

InJobs(p)  == \E i \in 1..Len(jobs) : jobs[i] = p
InHand(p)  == \E w \in Workers : handling[w] = p
InQueue(p) == \E i \in 1..Len(queue) : queue[i][1] = p

\* At most one copy of the packet is on its way to radacct.
Single(p) ==
  /\ \A i, j \in 1..Len(jobs) : jobs[i] = p /\ jobs[j] = p => i = j
  /\ \A v, w \in Workers : handling[v] = p /\ handling[w] = p => v = w
  /\ \A i, j \in 1..Len(queue) : queue[i][1] = p /\ queue[j][1] = p => i = j
  /\ InJobs(p) => ~InHand(p) /\ ~InQueue(p)
  /\ InHand(p) => ~InQueue(p)

\* Until it arrives again it is in one place: at a handler, queued or written.
OnePlace ==
  \A p \in Packets :
    /\ p \notin arrived =>
         ~InJobs(p) /\ ~InHand(p) /\ ~InQueue(p) /\ p \notin applied /\ p \notin answered
    /\ p \notin repeated =>
         /\ Single(p)
         /\ p \in applied => ~InJobs(p) /\ ~InHand(p) /\ ~InQueue(p)
         /\ p \in answered => ~InJobs(p) /\ ~InHand(p)

StopOf(p, s) == p[1] = s /\ p[2] = "stop"

StopApplied(s) == \E p \in applied : StopOf(p, s)

\* A session whose Start arrives once and is answered in time.
Plain(s) == s \notin early /\ Start(s) \notin repeated

\* That is what "early" leaves out.
EndsAnswered ==
  \A s \in Sessions : link[s] = "down" /\ s \notin early => Start(s) \in answered

\* Its Start is before its Stop in the queue...
StartBeforeStop ==
  \A s \in Sessions : Plain(s) =>
    \A i, j \in 1..Len(queue) :
      queue[i][1] = Start(s) /\ StopOf(queue[j][1], s) => i < j

\* ...and is not queued any more once the Stop has been written...
NoLateStart ==
  \A s \in Sessions : Plain(s) /\ StopApplied(s) => ~InQueue(Start(s))

\* ...so that there is one row, closed by the Stop.
OneRow ==
  \A s \in Sessions : Plain(s) /\ Start(s) \in applied =>
    \E t \in Seconds :
      /\ rows[<<s, t>>] = IF StopApplied(s) THEN "closed" ELSE "open"
      /\ \A u \in Seconds \ {t} : rows[<<s, u>>] = "none"

\* The inductive invariant, on top of the one for the rows.
OInv == OnePlace /\ EndsAnswered /\ StartBeforeStop /\ NoLateStart /\ OneRow

\* It holds initially.
LEMMA InitOnce == Init => OInv
<1> SUFFICES ASSUME Init PROVE OInv
  OBVIOUS
<1>1. /\ \A i \in 1..Len(jobs) : FALSE
      /\ \A i \in 1..Len(queue) : FALSE
      /\ \A w \in Workers, p \in Packets : handling[w] # p
  BY AccountingAssumption DEF Init
<1>2. OnePlace
  BY <1>1 DEF Init, OnePlace, Single, InJobs, InHand, InQueue
<1>3. EndsAnswered
  BY DEF Init, EndsAnswered
<1>4. StartBeforeStop
  BY <1>1 DEF StartBeforeStop
<1>5. NoLateStart /\ OneRow
  BY DEF Init, NoLateStart, OneRow, StopApplied
<1> QED
  BY <1>2, <1>3, <1>4, <1>5 DEF OInv

\* A packet that arrives keeps every packet in its place.
LEMMA ArriveOnePlace ==
  ASSUME TypeOK, OnePlace, NEW a \in sent, Arrive(a) PROVE OnePlace'
<1> USE DEF InJobs, InHand, InQueue
<1>1. /\ Len(jobs) \in Nat /\ Len(jobs') = Len(jobs) + 1 /\ jobs'[Len(jobs) + 1] = a
      /\ \A i \in 1..Len(jobs) : jobs'[i] = jobs[i]
  BY AppendFacts, LenProperties DEF Arrive, TypeOK
<1>2. UNCHANGED <<handling, queue, applied, answered>>
  BY DEF Arrive, deviceVars, ghostVars, writerVars
<1> SUFFICES ASSUME NEW p \in Packets
    PROVE (/\ p \notin arrived =>
                ~InJobs(p) /\ ~InHand(p) /\ ~InQueue(p) /\ p \notin applied /\ p \notin answered
           /\ p \notin repeated =>
                /\ Single(p)
                /\ p \in applied => ~InJobs(p) /\ ~InHand(p) /\ ~InQueue(p)
                /\ p \in answered => ~InJobs(p) /\ ~InHand(p))'
  BY DEF OnePlace
<1>3. CASE p # a
  <2>1. \A i \in 1..Len(jobs') : jobs'[i] = p => i \in 1..Len(jobs) /\ jobs[i] = p
    BY <1>1, <1>3
  <2>2. (p \in arrived' <=> p \in arrived) /\ (p \in repeated' <=> p \in repeated)
    BY <1>3 DEF Arrive
  <2> QED
    BY <1>2, <2>1, <2>2 DEF OnePlace, Single
<1>4. CASE p = a /\ a \in arrived
  BY <1>4 DEF Arrive
<1>5. CASE p = a /\ a \notin arrived
  <2>1. ~InJobs(p) /\ ~InHand(p) /\ ~InQueue(p) /\ p \notin applied /\ p \notin answered
    BY <1>5 DEF OnePlace
  <2>2. \A i \in 1..Len(jobs') : jobs'[i] = p => i = Len(jobs) + 1
    BY <1>1, <2>1
  <2>3. p \in arrived'
    BY <1>5 DEF Arrive
  <2> QED
    BY <1>2, <2>1, <2>2, <2>3 DEF Single
<1> QED
  BY <1>3, <1>4, <1>5

\* So does a handler that takes one.
LEMMA TakeOnePlace ==
  ASSUME TypeOK, OnePlace, NEW w \in Workers, Take(w) PROVE OnePlace'
<1> USE DEF InJobs, InHand, InQueue
<1>1. /\ Len(jobs) \in Nat \ {0} /\ Len(jobs') = Len(jobs) - 1
      /\ \A i \in 1..Len(jobs') : i + 1 \in 1..Len(jobs) /\ jobs'[i] = jobs[i + 1]
      /\ 1 \in 1..Len(jobs)
  BY TailFacts DEF Take, TypeOK
<1>2. /\ handling'[w] = jobs[1] /\ handling[w] = NoPacket
      /\ \A v \in Workers \ {w} : handling'[v] = handling[v]
  BY TailFacts DEF Take, TypeOK
<1>3. UNCHANGED <<queue, applied, answered, arrived, repeated>>
  BY DEF Take, deviceVars, netVars, writerVars, ghostVars
<1> SUFFICES ASSUME NEW p \in Packets
    PROVE (/\ p \notin arrived =>
                ~InJobs(p) /\ ~InHand(p) /\ ~InQueue(p) /\ p \notin applied /\ p \notin answered
           /\ p \notin repeated =>
                /\ Single(p)
                /\ p \in applied => ~InJobs(p) /\ ~InHand(p) /\ ~InQueue(p)
                /\ p \in answered => ~InJobs(p) /\ ~InHand(p))'
  BY DEF OnePlace
<1>4. InJobs(p)' => InJobs(p)
  BY <1>1
<1>5. InHand(p)' => InHand(p) \/ p = jobs[1]
  BY <1>2
<1>6. p = jobs[1] => InJobs(p)
  BY <1>1
<1>7. ASSUME p \notin repeated PROVE Single(p)'
  <2>1. \A i, j \in 1..Len(jobs') : jobs'[i] = p /\ jobs'[j] = p => i = j
    <3>1. \A i, j \in 1..Len(jobs') : jobs[i + 1] = p /\ jobs[j + 1] = p => i + 1 = j + 1
      BY <1>1, <1>7 DEF OnePlace, Single
    <3> QED
      BY <1>1, <3>1
  <2>2. \A u, v \in Workers : handling'[u] = p /\ handling'[v] = p => u = v
    BY <1>2, <1>6, <1>7 DEF OnePlace, Single
  <2>3. InJobs(p)' => p # jobs[1]
    <3>1. \A i \in 1..Len(jobs') : jobs[i + 1] = p /\ jobs[1] = p => i + 1 = 1
      BY <1>1, <1>7 DEF OnePlace, Single
    <3> QED
      BY <1>1, <3>1
  <2> QED
    BY <1>3, <1>4, <1>5, <1>6, <1>7, <2>1, <2>2, <2>3 DEF OnePlace, Single
<1> QED
  BY <1>3, <1>4, <1>5, <1>6, <1>7 DEF OnePlace

\* One that lets go of it...
LEMMA DropOnePlace ==
  ASSUME TypeOK, OnePlace, NEW w \in Workers, Drop(w) PROVE OnePlace'
<1>1. /\ UNCHANGED <<jobs, queue, applied, answered, arrived, repeated>>
      /\ handling'[w] = NoPacket
      /\ \A v \in Workers \ {w} : handling'[v] = handling[v]
  BY DEF Drop, deviceVars, netVars, writerVars, ghostVars, TypeOK
<1>2. \A p \in Packets, v \in Workers : handling'[v] = p => handling[v] = p
  BY <1>1, AccountingAssumption
<1> QED
  BY <1>1, <1>2 DEF OnePlace, Single, InJobs, InHand, InQueue

\* ...and one that handles it.
LEMMA HandleOnePlace ==
  ASSUME TypeOK, OnePlace, NEW w \in Workers, Handle(w) PROVE OnePlace'
<1> USE DEF InJobs, InHand, InQueue
<1> DEFINE h == handling[w]
<1>1. /\ h \in sent /\ h \in Packets /\ <<h, clock>> \in sent \X Seconds
  BY DEF Handle, TypeOK
<1>2. /\ UNCHANGED <<jobs, applied, arrived, repeated>>
      /\ handling'[w] = NoPacket /\ NoPacket \notin Packets
      /\ \A v \in Workers \ {w} : handling'[v] = handling[v]
      /\ answered' \subseteq answered \cup {h}
  BY AccountingAssumption DEF Handle, netVars, TypeOK
<1>3. /\ Len(queue) \in Nat
      /\ \/ queue' = queue
         \/ /\ Len(queue') = Len(queue) + 1 /\ queue'[Len(queue) + 1][1] = h
            /\ \A i \in 1..Len(queue) : queue'[i] = queue[i]
  <2>1. queue' = queue \/ queue' = Append(queue, <<h, clock>>)
    BY DEF Handle
  <2>2. queue \in Seq(sent \X Seconds)
    BY DEF TypeOK
  <2> QED
    BY <1>1, <2>1, <2>2, AppendFacts, LenProperties
<1> SUFFICES ASSUME NEW p \in Packets
    PROVE (/\ p \notin arrived =>
                ~InJobs(p) /\ ~InHand(p) /\ ~InQueue(p) /\ p \notin applied /\ p \notin answered
           /\ p \notin repeated =>
                /\ Single(p)
                /\ p \in applied => ~InJobs(p) /\ ~InHand(p) /\ ~InQueue(p)
                /\ p \in answered => ~InJobs(p) /\ ~InHand(p))'
  BY DEF OnePlace
<1>4. \A v \in Workers : handling'[v] = p => handling[v] = p /\ v # w
  BY <1>2
<1>5. CASE p # h
  <2>1. \A i \in 1..Len(queue') : queue'[i][1] = p => i \in 1..Len(queue) /\ queue[i][1] = p
    BY <1>3, <1>5
  <2>2. p \in answered' => p \in answered
    BY <1>2, <1>5
  <2> QED
    BY <1>2, <1>4, <2>1, <2>2 DEF OnePlace, Single
<1>6. CASE p = h
  <2>1. InHand(p)
    BY <1>6
  <2>2. p \in arrived
    BY <2>1 DEF OnePlace
  <2>3. ASSUME p \notin repeated
        PROVE  ~InJobs(p)' /\ ~InHand(p)' /\ p \notin applied' /\ Single(p)'
    <3>1. ~InJobs(p) /\ ~InQueue(p) /\ p \notin applied
      BY <2>1, <2>3 DEF OnePlace, Single
    <3>2. ~InHand(p)'
      BY <1>4, <1>6, <2>3 DEF OnePlace, Single
    <3>3. \A i \in 1..Len(queue') : queue'[i][1] = p => i = Len(queue) + 1
      BY <1>3, <3>1
    <3> QED
      BY <1>2, <3>1, <3>2, <3>3 DEF Single
  <2> QED
    BY <1>2, <2>2, <2>3
<1> QED
  BY <1>5, <1>6

\* What the writer takes leaves the queue for good.
LEMMA WriteOnePlace ==
  ASSUME TypeOK, OnePlace, queue # <<>>, queue' = Tail(queue),
         Apply(Head(queue)) \/ UNCHANGED applied,
         UNCHANGED <<deviceVars, netVars, serverVars>>
  PROVE  OnePlace'
<1> USE DEF InJobs, InHand, InQueue
<1>1. /\ Len(queue) \in Nat \ {0} /\ Len(queue') = Len(queue) - 1
      /\ \A i \in 1..Len(queue') : i + 1 \in 1..Len(queue) /\ queue'[i] = queue[i + 1]
      /\ 1 \in 1..Len(queue) /\ Head(queue) = queue[1]
  BY TailFacts DEF TypeOK
<1>2. applied' \subseteq applied \cup {queue[1][1]}
  BY <1>1 DEF Apply
<1>3. UNCHANGED <<jobs, handling, answered, arrived, repeated>>
  BY DEF deviceVars, netVars, serverVars
<1> SUFFICES ASSUME NEW p \in Packets
    PROVE (/\ p \notin arrived =>
                ~InJobs(p) /\ ~InHand(p) /\ ~InQueue(p) /\ p \notin applied /\ p \notin answered
           /\ p \notin repeated =>
                /\ Single(p)
                /\ p \in applied => ~InJobs(p) /\ ~InHand(p) /\ ~InQueue(p)
                /\ p \in answered => ~InJobs(p) /\ ~InHand(p))'
  BY DEF OnePlace
<1>4. InQueue(p)' => InQueue(p)
  BY <1>1
<1>5. p = queue[1][1] => InQueue(p)
  BY <1>1
<1>6. p \notin arrived =>
        ~InJobs(p)' /\ ~InHand(p)' /\ ~InQueue(p)' /\ p \notin applied' /\ p \notin answered'
  BY <1>2, <1>3, <1>4, <1>5 DEF OnePlace
<1>7. ASSUME p \notin repeated
      PROVE  /\ Single(p)'
             /\ p \in applied' => ~InJobs(p)' /\ ~InHand(p)' /\ ~InQueue(p)'
  <2>1. \A i, j \in 1..Len(queue) : queue[i][1] = p /\ queue[j][1] = p => i = j
    BY <1>7 DEF OnePlace, Single
  <2>2. \A i, j \in 1..Len(queue') : queue'[i][1] = p /\ queue'[j][1] = p => i = j
    <3>1. \A i, j \in 1..Len(queue') : queue[i + 1][1] = p /\ queue[j + 1][1] = p => i + 1 = j + 1
      BY <1>1, <2>1
    <3> QED
      BY <1>1, <3>1
  <2>3. p = queue[1][1] => ~InQueue(p)'
    <3>1. \A i \in 1..Len(queue') : queue[i + 1][1] = p /\ queue[1][1] = p => i + 1 = 1
      BY <1>1, <2>1
    <3> QED
      BY <1>1, <3>1
  <2>4. Single(p)'
    BY <1>3, <1>4, <1>7, <2>2 DEF OnePlace, Single
  <2> QED
    BY <1>2, <1>3, <1>4, <1>5, <1>7, <2>3, <2>4 DEF OnePlace, Single
<1> QED
  BY <1>3, <1>6, <1>7 DEF OnePlace

\* Every step keeps every packet in its place.
LEMMA NextOnePlace == TypeOK /\ OnePlace /\ [Next]_vars => OnePlace'
<1> SUFFICES ASSUME TypeOK, OnePlace, [Next]_vars PROVE OnePlace'
  OBVIOUS
<1>1. CASE UNCHANGED <<arrived, repeated, answered, jobs, handling, queue, applied>>
  BY <1>1 DEF OnePlace, Single, InJobs, InHand, InQueue
<1>2. CASE UNCHANGED <<arrived, repeated, answered, jobs, handling, queue>>
  <2>1. UNCHANGED applied
    <3>1. queue # <<>> => queue # Tail(queue)
      BY TailFacts DEF TypeOK
    <3> QED
      BY <1>2, <3>1, BookSteps
  <2> QED
    BY <1>1, <1>2, <2>1
<1>3. CASE Restart
  <2>1. Len(jobs') = 0 /\ Len(queue') = 0
    BY <1>3 DEF Restart
  <2>2. UNCHANGED <<arrived, repeated, answered, applied>>
    BY <1>3 DEF Restart, deviceVars, netVars
  <2>3. \A p \in Packets : ~InJobs(p)' /\ ~InHand(p)' /\ ~InQueue(p)'
    BY <1>3, <2>1, AccountingAssumption DEF Restart, InJobs, InHand, InQueue
  <2>4. \A p \in Packets : Single(p)'
    BY <2>3 DEF Single, InJobs, InHand, InQueue
  <2> QED
    BY <2>2, <2>3, <2>4 DEF OnePlace
<1> QED
  BY <1>2, <1>3, ArriveOnePlace, TakeOnePlace, DropOnePlace, HandleOnePlace, WriteOnePlace,
     PacketSteps

\* A Start that a handler still has, or that still waits for one, has no answer;
\* so its session has sent no Stop.
LEMMA FreshStart ==
  ASSUME TypeOK, SentIsTrue, OnePlace, EndsAnswered,
         NEW s \in Sessions, Plain(s), InHand(Start(s))
  PROVE  \A p \in sent : ~StopOf(p, s)
<1>1. Start(s) \notin answered
  <2>1. Start(s) \in Packets
    BY PacketTypes
  <2> QED
    BY <2>1 DEF OnePlace, Plain
<1>2. link[s] # "down"
  BY <1>1 DEF EndsAnswered, Plain
<1> QED
  BY <1>2 DEF SentIsTrue, StopOf

\* What is queued has been sent.
LEMMA QueuedIsSent ==
  ASSUME TypeOK PROVE \A i \in 1..Len(queue) : queue[i] \in sent \X Seconds /\ queue[i][1] \in sent
  BY ElementOfSeq DEF TypeOK

\* Handling a packet keeps the queue in order.
LEMMA HandleOrder ==
  ASSUME TypeOK, SentIsTrue, OInv, NEW w \in Workers, Handle(w)
  PROVE  StartBeforeStop' /\ NoLateStart'
<1> DEFINE h == handling[w]
<1>1. h \in sent /\ InHand(h) /\ <<h, clock>> \in sent \X Seconds
  BY DEF Handle, TypeOK, InHand
<1>2. UNCHANGED <<applied, repeated, early>>
  BY DEF Handle, netVars
<1>3. \A s : Plain(s)' = Plain(s) /\ StopApplied(s)' = StopApplied(s) /\ Start(s)' = Start(s)
  BY <1>2 DEF Plain, StopApplied, Start
<1>4. /\ Len(queue) \in Nat
      /\ \/ queue' = queue
         \/ /\ Len(queue') = Len(queue) + 1 /\ queue'[Len(queue) + 1][1] = h
            /\ \A i \in 1..Len(queue) : queue'[i] = queue[i]
  <2>1. queue' = queue \/ queue' = Append(queue, <<h, clock>>)
    BY DEF Handle
  <2>2. queue \in Seq(sent \X Seconds)
    BY DEF TypeOK
  <2> QED
    BY <1>1, <2>1, <2>2, AppendFacts, LenProperties
<1>5. CASE queue' = queue
  BY <1>3, <1>5 DEF OInv, StartBeforeStop, NoLateStart, InQueue
<1>6. CASE /\ Len(queue') = Len(queue) + 1 /\ queue'[Len(queue) + 1][1] = h
           /\ \A i \in 1..Len(queue) : queue'[i] = queue[i]
  <2> SUFFICES ASSUME NEW s \in Sessions, Plain(s)
               PROVE  /\ \A i, j \in 1..Len(queue') :
                           queue'[i][1] = Start(s) /\ StopOf(queue'[j][1], s) => i < j
                      /\ StopApplied(s) => \A i \in 1..Len(queue') : queue'[i][1] # Start(s)
    BY <1>3 DEF StartBeforeStop, NoLateStart, InQueue
  <2>1. \A j \in 1..Len(queue') : j \in 1..Len(queue) \/ j = Len(queue) + 1
    BY <1>4, <1>6
  <2>2. /\ \A i, j \in 1..Len(queue) :
             queue[i][1] = Start(s) /\ StopOf(queue[j][1], s) => i < j
        /\ StopApplied(s) => \A i \in 1..Len(queue) : queue[i][1] # Start(s)
    BY DEF OInv, StartBeforeStop, NoLateStart, InQueue
  <2>3. CASE h = Start(s)
    <3>1. \A p \in sent : ~StopOf(p, s)
      BY <1>1, <2>3, FreshStart DEF OInv
    <3>2. \A j \in 1..Len(queue') : ~StopOf(queue'[j][1], s)
      BY <1>1, <1>6, <2>1, <3>1, QueuedIsSent
    <3>3. ~StopApplied(s)
      BY <3>1 DEF StopApplied, TypeOK
    <3> QED
      BY <3>2, <3>3
  <2>4. CASE h # Start(s)
    <3>1. \A i \in 1..Len(queue') :
            queue'[i][1] = Start(s) => i \in 1..Len(queue) /\ queue[i][1] = Start(s)
      BY <1>6, <2>1, <2>4
    <3> QED
      BY <1>4, <1>6, <2>1, <2>2, <3>1
  <2> QED
    BY <2>3, <2>4
<1> QED
  BY <1>4, <1>5, <1>6

\* So does writing an event.
LEMMA WriteOrder ==
  ASSUME TypeOK, OInv, queue # <<>>, queue' = Tail(queue),
         Apply(Head(queue)) \/ UNCHANGED applied,
         UNCHANGED <<deviceVars, netVars, serverVars>>
  PROVE  StartBeforeStop' /\ NoLateStart'
<1>1. /\ Len(queue) \in Nat \ {0} /\ Len(queue') = Len(queue) - 1
      /\ \A i \in 1..Len(queue') : i + 1 \in 1..Len(queue) /\ queue'[i] = queue[i + 1]
      /\ 1 \in 1..Len(queue) /\ Head(queue) = queue[1]
  BY TailFacts DEF TypeOK
<1>2. applied' \subseteq applied \cup {queue[1][1]}
  BY <1>1 DEF Apply
<1>3. \A s : Plain(s)' = Plain(s) /\ Start(s)' = Start(s)
  BY DEF Plain, Start, deviceVars, netVars
<1> SUFFICES ASSUME NEW s \in Sessions, Plain(s)
             PROVE  /\ \A i, j \in 1..Len(queue') :
                         queue'[i][1] = Start(s) /\ StopOf(queue'[j][1], s) => i < j
                    /\ StopApplied(s)' => \A i \in 1..Len(queue') : queue'[i][1] # Start(s)
  BY <1>3 DEF StartBeforeStop, NoLateStart, InQueue
<1>4. \A i, j \in 1..Len(queue) :
        queue[i][1] = Start(s) /\ StopOf(queue[j][1], s) => i < j
  BY DEF OInv, StartBeforeStop
<1>5. \A i, j \in 1..Len(queue') :
        queue'[i][1] = Start(s) /\ StopOf(queue'[j][1], s) => i < j
  <2>1. \A i, j \in 1..Len(queue') :
          queue[i + 1][1] = Start(s) /\ StopOf(queue[j + 1][1], s) => i + 1 < j + 1
    BY <1>1, <1>4
  <2> QED
    BY <1>1, <2>1
<1>6. ASSUME StopApplied(s)', NEW i \in 1..Len(queue') PROVE queue'[i][1] # Start(s)
  <2>1. CASE StopApplied(s)
    BY <1>1, <2>1 DEF OInv, NoLateStart, InQueue
  <2>2. CASE StopOf(queue[1][1], s)
    <3>1. queue[i + 1][1] = Start(s) => i + 1 < 1
      BY <1>1, <1>4, <2>2
    <3> QED
      BY <1>1, <3>1
  <2> QED
    BY <1>2, <1>6, <2>1, <2>2 DEF StopApplied
<1> QED
  BY <1>5, <1>6

\* Writing the Start of such a session opens its row, writing the Stop closes it.
LEMMA ApplyOneRow ==
  ASSUME TypeOK, RInv, OInv, queue # <<>>, queue' = Tail(queue), Apply(Head(queue)),
         UNCHANGED <<deviceVars, netVars, serverVars>>
  PROVE  OneRow'
<1> DEFINE e == Head(queue)
           One(s, r, a) == \E t \in Seconds :
             /\ r[<<s, t>>] = IF \E p \in a : StopOf(p, s) THEN "closed" ELSE "open"
             /\ \A u \in Seconds \ {t} : r[<<s, u>>] = "none"
<1>1. /\ e[1] \in sent /\ e[2] \in Seconds
      /\ e[1] = <<e[1][1], e[1][2], e[1][3]>>
      /\ e[1][1] \in Sessions /\ e[1][2] \in Kinds /\ e[1][3] \in Usage
  BY HeadIsSent
<1>2. applied' = applied \cup {e[1]}
  BY DEF Apply
<1>3. \A s : Plain(s)' = Plain(s) /\ Start(s)' = Start(s)
  BY DEF Plain, Start, deviceVars, netVars
<1> SUFFICES ASSUME NEW s \in Sessions, Plain(s), Start(s) \in applied' PROVE One(s, rows', applied')
  BY <1>3 DEF OneRow, StopApplied
<1>4. Start(s) \in applied => One(s, rows, applied)
  BY DEF OInv, OneRow, StopApplied
<1>5. CASE s # e[1][1]
  <2>1. Start(s) \in applied
    BY <1>2, <1>5 DEF Start
  <2>2. (\E p \in applied' : StopOf(p, s)) <=> (\E p \in applied : StopOf(p, s))
    BY <1>2, <1>5 DEF StopOf
  <2>3. \A t \in Seconds : rows'[<<s, t>>] = rows[<<s, t>>]
    BY <1>1, <1>5 DEF Apply, InsertAcctStart, UpdateAcctInterim, UpdateAcctStop, Open, Kinds, TypeOK
  <2> HIDE DEF e
  <2> QED
    BY <1>4, <2>1, <2>2, <2>3
<1>6. CASE s = e[1][1] /\ e[1][2] = "start"
  <2>1. e[1] = Start(s)
    BY <1>1, <1>6 DEF RInv, SentIsTrue, Start
  <2>2. InQueue(Start(s)) /\ Start(s) \in Packets
    <3>1. Len(queue) \in Nat \ {0} /\ e = queue[1]
      BY TailFacts DEF TypeOK
    <3>2. 1 \in 1..Len(queue)
      BY <3>1
    <3> QED
      BY <2>1, <3>1, <3>2, PacketTypes DEF InQueue
  <2>3. Start(s) \notin applied
    BY <2>2 DEF OInv, OnePlace, Plain
  <2>4. \A t \in Seconds : rows[<<s, t>>] = "none"
    BY <2>3 DEF RInv, StartHasRow
  <2>5. ~\E p \in applied : StopOf(p, s)
    BY <2>2 DEF OInv, NoLateStart, StopApplied
  <2>6. ~\E p \in applied' : StopOf(p, s)
    BY <1>2, <1>6, <2>5 DEF StopOf
  <2>7. /\ rows'[<<s, e[2]>>] = "open"
        /\ \A u \in Seconds \ {e[2]} : rows'[<<s, u>>] = "none"
    <3>1. InsertAcctStart(s, e[2])
      BY <1>6 DEF Apply
    <3> QED
      BY <1>1, <2>4, <3>1 DEF InsertAcctStart, TypeOK
  <2> QED
    BY <1>1, <2>6, <2>7
<1>7. CASE s = e[1][1] /\ e[1][2] = "interim"
  <2>1. Start(s) \in applied
    BY <1>2, <1>7 DEF Start
  <2>2. (\E p \in applied' : StopOf(p, s)) <=> (\E p \in applied : StopOf(p, s))
    BY <1>2, <1>7 DEF StopOf
  <2>3. rows' = rows
    BY <1>7 DEF Apply, UpdateAcctInterim
  <2> HIDE DEF e
  <2> QED
    BY <1>4, <2>1, <2>2, <2>3
<1>8. CASE s = e[1][1] /\ e[1][2] = "stop"
  <2>1. Start(s) \in applied
    BY <1>2, <1>8 DEF Start
  <2>2. \E p \in applied' : StopOf(p, s)
    BY <1>2, <1>8 DEF StopOf
  <2>3. PICK t \in Seconds :
          /\ rows[<<s, t>>] \in {"open", "closed"}
          /\ \A u \in Seconds \ {t} : rows[<<s, u>>] = "none"
    BY <1>4, <2>1
  <2>4. UpdateAcctStop(s, e[1][3])
    BY <1>8 DEF Apply
  <2>5. /\ rows'[<<s, t>>] = "closed"
        /\ \A u \in Seconds \ {t} : rows'[<<s, u>>] = "none"
    BY <2>3, <2>4 DEF UpdateAcctStop, Open, TypeOK
  <2> QED
    BY <2>2, <2>5
<1> QED
  BY <1>1, <1>5, <1>6, <1>7, <1>8 DEF Kinds

\* Every step keeps the invariant.
LEMMA NextOnce == TypeOK /\ RInv /\ OInv /\ [Next]_vars => OInv'
<1> SUFFICES ASSUME TypeOK, RInv, OInv, [Next]_vars PROVE OInv'
  OBVIOUS
<1>1. OnePlace'
  BY NextOnePlace DEF OInv
<1>2. early \subseteq early' /\ repeated \subseteq repeated' /\ answered \subseteq answered'
  <2>1. early \subseteq early'
    BY DeviceSteps DEF Connect, Update, End
  <2>2. repeated \subseteq repeated' /\ answered \subseteq answered'
    BY PacketSteps DEF Arrive, Take, Drop, Handle, Restart, deviceVars, netVars
  <2> QED
    BY <2>1, <2>2
<1>3. \A s : (Plain(s)' => Plain(s)) /\ Start(s)' = Start(s)
  BY <1>2 DEF Plain, Start
<1>4. EndsAnswered'
  <2>1. CASE UNCHANGED <<link, used, sent, early>>
    BY <1>2, <1>3, <2>1 DEF OInv, EndsAnswered
  <2>2. ASSUME NEW s \in Sessions, Connect(s) \/ Update(s) \/ (link[s] = "up" /\ End(s))
        PROVE  EndsAnswered'
    <3>1. \A r \in Sessions \ {s} : link'[r] = link[r] /\ (r \in early' <=> r \in early)
      BY <2>2 DEF Connect, Update, End, TypeOK
    <3>2. link'[s] = "down" => s \in early' \/ Start(s) \in answered \/ (link[s] = "down" /\ early' = early)
      BY <2>2 DEF Connect, Update, End, TypeOK
    <3> QED
      BY <1>2, <1>3, <3>1, <3>2 DEF OInv, EndsAnswered
  <2> QED
    BY <2>1, <2>2, DeviceSteps
<1>5. CASE /\ queue # <<>> /\ queue' = Tail(queue) /\ Apply(Head(queue))
           /\ UNCHANGED <<deviceVars, netVars, serverVars, writer, stopping>>
  BY <1>1, <1>4, <1>5, WriteOrder, ApplyOneRow DEF OInv
<1>6. ASSUME UNCHANGED <<rows, usage, applied>> PROVE StartBeforeStop' /\ NoLateStart'
  <2>1. CASE UNCHANGED queue
    BY <1>3, <1>6, <2>1 DEF OInv, StartBeforeStop, NoLateStart, StopApplied, InQueue
  <2>2. ASSUME NEW w \in Workers, Handle(w) PROVE StartBeforeStop' /\ NoLateStart'
    BY <2>2, HandleOrder DEF RInv
  <2>3. CASE Restart
    <3>1. \A i \in 1..Len(queue') : FALSE
      BY <2>3 DEF Restart
    <3> QED
      BY <3>1 DEF StartBeforeStop, NoLateStart, InQueue
  <2> QED
    BY <1>6, <2>1, <2>2, <2>3, WriteOrder, PacketSteps DEF Arrive, Take, Drop, writerVars
<1>7. CASE UNCHANGED <<rows, usage, applied>>
  <2>1. OneRow'
    BY <1>3, <1>7 DEF OInv, OneRow, StopApplied
  <2> QED
    BY <1>1, <1>4, <1>6, <1>7, <2>1 DEF OInv
<1> QED
  BY <1>5, <1>7, BookSteps

\* What the device has sent of a session's end is its Stop.
LEMMA StopIsStop ==
  ASSUME TypeOK, SentIsTrue, NEW s \in Sessions
  PROVE  StopApplied(s) <=> Stop(s) \in applied
<1>1. \A p \in applied : StopOf(p, s) => p = Stop(s)
  <2> SUFFICES ASSUME NEW p \in applied, StopOf(p, s) PROVE p = Stop(s)
    OBVIOUS
  <2>1. p \in sent /\ p = <<p[1], p[2], p[3]>>
    BY DEF TypeOK, Packets
  <2> QED
    BY <2>1 DEF SentIsTrue, StopOf, Stop
<1>2. StopOf(Stop(s), s)
  BY DEF StopOf, Stop
<1> QED
  BY <1>1, <1>2 DEF StopApplied

\* A session whose Start arrives once, and is answered before the session ends,
\* has one row, open until its Stop is written: acct.go's unique id and the
\* statements of radius_acct.sql need no more of the network.
THEOREM OnceIsRecordedOnce == Spec => []OnceIsExact
<1>1. Init => TypeOK /\ RInv /\ OInv
  BY InitType, InitRows, InitOnce
<1>2. TypeOK /\ RInv /\ OInv /\ [Next]_vars => (TypeOK /\ RInv /\ OInv)'
  BY NextType, NextRows, NextOnce
<1>3. TypeOK /\ RInv /\ OInv => OnceIsExact
  BY StopIsStop DEF RInv, OInv, OneRow, Plain, OnceIsExact
<1> QED
  BY <1>1, <1>2, <1>3, PTL DEF Spec

=============================================================================
