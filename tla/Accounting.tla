------------------------------ MODULE Accounting ------------------------------
(***************************************************************************)
(* RADIUS accounting: from the packets of an access device through the     *)
(* worker pool of platform/radiusserver, the handler of                    *)
(* transport/radiusapi/acct.go and the bounded queue of radiussvc          *)
(* (AcctWriter) to the rows of radacct; the shutdown of cmd/radius; and    *)
(* the disconnect of a user's sessions by coasvc, which reads those rows.  *)
(*                                                                         *)
(* The device is outside the system.  Over UDP a packet may be lost,       *)
(* delayed or repeated: it may arrive again as long as the device has no   *)
(* answer for it.  Handlers run concurrently, so packets overtake each     *)
(* other between the socket and the queue.                                 *)
(*                                                                         *)
(* A definition whose name ends in _Bug is the one that follows it with a  *)
(* mistake in it; no specification uses it.                                *)
(***************************************************************************)
EXTENDS Naturals, Sequences, FiniteSets

CONSTANTS
  Sessions,     \* sessions of one user, each with its own unique id
  Workers,      \* handlers of the accounting server
  NoPacket,     \* a handler without work
  Buffer,       \* capacity of the writer's queue (AcctBuffer)
  MaxClock,     \* the last second a packet may be handled in
  MaxUsage,     \* interim updates a session may send
  MaxRepeats,   \* arrivals of packets that have arrived before
  MaxFaults     \* failing writes and crashes considered

Seconds == 0..MaxClock
Usage   == 0..MaxUsage + 1
Kinds   == {"start", "interim", "stop"}
Packets == Sessions \X Kinds \X Usage
Events  == Packets \X Seconds     \* a packet and the second it was handled in

\* The channel between the read loop and the workers.
JobLimit == 2 * Cardinality(Workers)

ASSUME AccountingAssumption ==
  /\ IsFiniteSet(Workers)
  /\ NoPacket \notin Packets
  /\ Buffer \in Nat \ {0}
  /\ MaxClock \in Nat
  /\ MaxUsage \in Nat
  /\ MaxRepeats \in Nat
  /\ MaxFaults \in Nat

VARIABLES
  link,       \* the device: "off" (not dialled in yet), "up" or "down"
  used,       \* what it has counted for the session
  sent,       \* packets it has sent, and repeats until they are answered
  answered,   \* packets it has got an Accounting-Response for
  arrived,    \* packets that have reached the socket
  repeated,   \* those that have more than once
  repeats,    \* and how often that has happened
  early,      \* sessions that ended before their Start was answered
  jobs,       \* packets waiting for a worker
  handling,   \* the packet each worker is at
  queue,      \* the writer's channel
  writer,     \* "running", "draining" or "stopped"
  stopping,   \* the process has been told to stop
  clock,      \* the current second
  rows,       \* radacct by session and start second: "none", "open" or "closed"
  usage,      \* the counters in a row
  kicked,     \* sessions coasvc has listed and not disconnected yet
  applied,    \* packets that have been written to radacct
  excused,    \* packets that overflow, a failing write or the end of the process lost
  faults

deviceVars  == <<link, used, sent, answered, early>>
netVars     == <<arrived, repeated, repeats>>
serverVars  == <<jobs, handling>>
writerVars  == <<queue, writer, stopping>>
radacctVars == <<rows, usage>>
ghostVars   == <<applied, excused>>
vars == <<deviceVars, netVars, serverVars, writerVars, clock, radacctVars, kicked,
          ghostVars, faults>>

TypeOK ==
  /\ link \in [Sessions -> {"off", "up", "down"}]
  /\ used \in [Sessions -> 0..MaxUsage]
  /\ sent \subseteq Packets
  /\ answered \subseteq sent
  /\ arrived \subseteq sent /\ repeated \subseteq arrived
  /\ repeats \in 0..MaxRepeats
  /\ early \subseteq Sessions
  /\ jobs \in Seq(sent) /\ Len(jobs) <= JobLimit
  /\ handling \in [Workers -> sent \cup {NoPacket}]
  /\ queue \in Seq(sent \X Seconds) /\ Len(queue) <= Buffer
  /\ writer \in {"running", "draining", "stopped"}
  /\ stopping \in BOOLEAN
  /\ clock \in Seconds
  /\ rows \in [Sessions \X Seconds -> {"none", "open", "closed"}]
  /\ usage \in [Sessions \X Seconds -> Usage]
  /\ kicked \subseteq Sessions
  /\ applied \subseteq sent
  /\ excused \subseteq sent
  /\ faults \in 0..MaxFaults

Init ==
  /\ link = [s \in Sessions |-> "off"]
  /\ used = [s \in Sessions |-> 0]
  /\ sent = {}
  /\ answered = {}
  /\ arrived = {}
  /\ repeated = {}
  /\ repeats = 0
  /\ early = {}
  /\ jobs = <<>>
  /\ handling = [w \in Workers |-> NoPacket]
  /\ queue = <<>>
  /\ writer = "running"
  /\ stopping = FALSE
  /\ clock = 0
  /\ rows = [x \in Sessions \X Seconds |-> "none"]
  /\ usage = [x \in Sessions \X Seconds |-> 0]
  /\ kicked = {}
  /\ applied = {}
  /\ excused = {}
  /\ faults = 0

Start(s) == <<s, "start", 0>>
\* The end of a session counts what came after its last update.
Stop(s)  == <<s, "stop", used[s] + 1>>

Fault ==
  /\ faults < MaxFaults
  /\ faults' = faults + 1

-----------------------------------------------------------------------------
(* The device.                                                              *)

Connect(s) ==
  /\ link[s] = "off"
  /\ link' = [link EXCEPT ![s] = "up"]
  /\ sent' = sent \cup {Start(s)}
  /\ UNCHANGED <<used, answered, early, netVars, serverVars, writerVars, clock, radacctVars,
                 kicked, ghostVars, faults>>

Update(s) ==
  /\ link[s] = "up"
  /\ used[s] < MaxUsage
  /\ used' = [used EXCEPT ![s] = @ + 1]
  /\ sent' = sent \cup {<<s, "interim", used[s] + 1>>}
  /\ UNCHANGED <<link, answered, early, netVars, serverVars, writerVars, clock, radacctVars,
                 kicked, ghostVars, faults>>

\* A session ends and its Stop is sent, whatever else is unanswered.
End(s) ==
  /\ link[s] = "up"
  /\ link' = [link EXCEPT ![s] = "down"]
  /\ sent' = sent \cup {Stop(s)}
  /\ early' = IF Start(s) \in answered THEN early ELSE early \cup {s}
  /\ UNCHANGED <<used, answered>>

Hangup(s) ==
  /\ End(s)
  /\ UNCHANGED <<netVars, serverVars, writerVars, clock, radacctVars, kicked, ghostVars, faults>>

-----------------------------------------------------------------------------
(* The datagram server.                                                     *)

\* A packet reaches the socket.  When the channel is full it is dropped, which
\* is as if it had not arrived.
Arrive(p) ==
  /\ p \in sent \ answered
  /\ p \in arrived => repeats < MaxRepeats
  /\ ~stopping
  /\ Len(jobs) < JobLimit
  /\ arrived' = arrived \cup {p}
  /\ IF p \in arrived
       THEN repeated' = repeated \cup {p} /\ repeats' = repeats + 1
       ELSE UNCHANGED <<repeated, repeats>>
  /\ jobs' = Append(jobs, p)
  /\ UNCHANGED <<deviceVars, handling, writerVars, clock, radacctVars, kicked, ghostVars, faults>>

\* A worker takes the next packet and finds its NAS.  Once the context is done
\* that lookup fails, so what is left in the channel then comes to nothing.
Take(w) ==
  /\ handling[w] = NoPacket
  /\ jobs # <<>>
  /\ ~stopping
  /\ handling' = [handling EXCEPT ![w] = Head(jobs)]
  /\ jobs' = Tail(jobs)
  /\ UNCHANGED <<deviceVars, netVars, writerVars, clock, radacctVars, kicked, ghostVars, faults>>

\* The lookup of the NAS fails, the packet is malformed, or the handler panics.
Drop(w) ==
  /\ handling[w] # NoPacket
  /\ handling' = [handling EXCEPT ![w] = NoPacket]
  /\ UNCHANGED <<deviceVars, netVars, jobs, writerVars, clock, radacctVars, kicked, ghostVars, faults>>

HandleUnbounded_Bug(w) ==   \* the queue grows with the traffic
  LET p == handling[w] IN
  /\ p # NoPacket
  /\ queue' = Append(queue, <<p, clock>>)
  /\ UNCHANGED excused
  /\ \/ answered' = answered \cup {p}
     \/ UNCHANGED answered
  /\ handling' = [handling EXCEPT ![w] = NoPacket]
  /\ UNCHANGED <<link, used, sent, early, netVars, jobs, writer, stopping, clock, radacctVars,
                 kicked, applied, faults>>

\* AcctHandler.Handle: the start time is the server's clock, Submit does not
\* block, and the packet is answered either way.  The answer may get lost.
Handle(w) ==
  LET p == handling[w]
      room == Len(queue) < Buffer IN
  /\ p # NoPacket
  /\ queue' = IF room THEN Append(queue, <<p, clock>>) ELSE queue
  /\ excused' = IF room /\ writer # "stopped" THEN excused ELSE excused \cup {p}
  /\ \/ answered' = answered \cup {p}
     \/ UNCHANGED answered
  /\ handling' = [handling EXCEPT ![w] = NoPacket]
  /\ UNCHANGED <<link, used, sent, early, netVars, jobs, writer, stopping, clock, radacctVars,
                 kicked, applied, faults>>

\* A second goes by.
Tick ==
  /\ clock < MaxClock
  /\ clock' = clock + 1
  /\ UNCHANGED <<deviceVars, netVars, serverVars, writerVars, radacctVars, kicked, ghostVars, faults>>

-----------------------------------------------------------------------------
(* radacct: the statements of repo/queries/radius_acct.sql.                  *)

Open(s) == {x \in {s} \X Seconds : rows[x] = "open"}

InsertAcctStart(s, t) ==
  /\ rows' = [rows EXCEPT ![<<s, t>>] = IF @ = "none" THEN "open" ELSE @]
  /\ UNCHANGED usage

UpdateAcctInterim_Bug(s, n) ==    \* without "acctstoptime IS NULL"
  /\ usage' = [x \in DOMAIN usage |-> IF x[1] = s /\ rows[x] # "none" THEN n ELSE usage[x]]
  /\ UNCHANGED rows

UpdateAcctInterimStop_Bug(s, n) == \* an update that ends the session
  /\ usage' = [x \in DOMAIN usage |-> IF x \in Open(s) THEN n ELSE usage[x]]
  /\ rows'  = [x \in DOMAIN rows |-> IF x \in Open(s) THEN "closed" ELSE rows[x]]

UpdateAcctInterim(s, n) ==
  /\ usage' = [x \in DOMAIN usage |-> IF x \in Open(s) THEN n ELSE usage[x]]
  /\ UNCHANGED rows

UpdateAcctStop(s, n) ==
  /\ rows'  = [x \in DOMAIN rows |-> IF x \in Open(s) THEN "closed" ELSE rows[x]]
  /\ usage' = [x \in DOMAIN usage |-> IF x \in Open(s) THEN n ELSE usage[x]]

-----------------------------------------------------------------------------
(* AcctWriter: one goroutine.                                               *)

ApplyStop_Bug(e) ==   \* a Stop looks for the row of its own second
  LET p == e[1] IN
  /\ CASE p[2] = "start"   -> InsertAcctStart(p[1], e[2])
       [] p[2] = "interim" -> UpdateAcctInterim(p[1], p[3])
       [] p[2] = "stop"    ->
            /\ rows' = [rows EXCEPT ![<<p[1], e[2]>>] = IF @ = "open" THEN "closed" ELSE @]
            /\ usage' = [usage EXCEPT ![<<p[1], e[2]>>] = p[3]]
  /\ applied' = applied \cup {p}
  /\ UNCHANGED <<excused, faults>>

\* The select of Run takes the queue as long as it likes, also after the signal.
Apply(e) ==
  LET p == e[1] IN
  /\ CASE p[2] = "start"   -> InsertAcctStart(p[1], e[2])
       [] p[2] = "interim" -> UpdateAcctInterim(p[1], p[3])
       [] p[2] = "stop"    -> UpdateAcctStop(p[1], p[3])
  /\ applied' = applied \cup {p}
  /\ UNCHANGED <<excused, faults>>

\* The statement fails or takes more than five seconds: logged, and gone.
ApplyFails(e) ==
  /\ Fault
  /\ excused' = excused \cup {e[1]}
  /\ UNCHANGED <<radacctVars, applied>>

WriteRetry_Bug ==     \* a failing event goes back to the end of the queue
  /\ queue # <<>>
  /\ writer # "stopped"
  /\ \/ queue' = Tail(queue) /\ Apply(Head(queue))
     \/ /\ queue' = Append(Tail(queue), Head(queue))
        /\ UNCHANGED <<radacctVars, ghostVars, faults>>
  /\ UNCHANGED <<deviceVars, netVars, serverVars, writer, stopping, clock, kicked>>

Write ==
  /\ queue # <<>>
  /\ writer # "stopped"
  /\ queue' = Tail(queue)
  /\ Apply(Head(queue)) \/ ApplyFails(Head(queue))
  /\ UNCHANGED <<deviceVars, netVars, serverVars, writer, stopping, clock, kicked>>

\* SIGTERM: the context is done, the socket is closed.
Shutdown ==
  /\ ~stopping
  /\ stopping' = TRUE
  /\ UNCHANGED <<deviceVars, netVars, serverVars, queue, writer, clock, radacctVars,
                 kicked, ghostVars, faults>>

Drain ==
  /\ stopping
  /\ writer = "running"
  /\ writer' = "draining"
  /\ UNCHANGED <<deviceVars, netVars, serverVars, queue, stopping, clock, radacctVars,
                 kicked, ghostVars, faults>>

Drained_Bug ==        \* Run returns without emptying the queue
  /\ writer = "draining"
  /\ writer' = "stopped"
  /\ UNCHANGED <<deviceVars, netVars, serverVars, queue, stopping, clock, radacctVars,
                 kicked, ghostVars, faults>>

\* drain has found the queue empty.
Drained ==
  /\ writer = "draining"
  /\ queue = <<>>
  /\ writer' = "stopped"
  /\ UNCHANGED <<deviceVars, netVars, serverVars, queue, stopping, clock, radacctVars,
                 kicked, ghostVars, faults>>

\* The process is gone with all it held in memory, and starts again.
Restart ==
  /\ jobs' = <<>>
  /\ handling' = [w \in Workers |-> NoPacket]
  /\ queue' = <<>>
  /\ writer' = "running"
  /\ stopping' = FALSE
  /\ UNCHANGED <<deviceVars, netVars, clock, radacctVars, kicked, applied>>

\* main returns when the servers and the writer have; it does not wait for the
\* handlers.
Exit ==
  /\ writer = "stopped"
  /\ Restart
  /\ UNCHANGED <<excused, faults>>

Crash ==
  /\ Fault
  /\ Restart
  /\ excused' = excused \cup {queue[i][1] : i \in DOMAIN queue}

-----------------------------------------------------------------------------
(* coasvc.disconnectSessions, in cmd/api or cmd/scheduler.                   *)

List ==
  /\ kicked = {}
  /\ kicked' = {s \in Sessions : Open(s) # {}}
  /\ UNCHANGED <<deviceVars, netVars, serverVars, writerVars, clock, radacctVars, ghostVars, faults>>

\* The device ends the session, if it still has it.
Disconnect(s) ==
  /\ s \in kicked
  /\ kicked' = kicked \ {s}
  /\ IF link[s] = "up" THEN End(s) ELSE UNCHANGED deviceVars
  /\ UNCHANGED <<netVars, serverVars, writerVars, clock, radacctVars, ghostVars, faults>>

\* The device does not answer, or refuses: logged, and on to the next.
DisconnectFails(s) ==
  /\ s \in kicked
  /\ kicked' = kicked \ {s}
  /\ UNCHANGED <<deviceVars, netVars, serverVars, writerVars, clock, radacctVars, ghostVars, faults>>

-----------------------------------------------------------------------------
Device(s) == Connect(s) \/ Update(s) \/ Hangup(s)
Kick(s)   == Disconnect(s) \/ DisconnectFails(s)
Worker(w) == Take(w) \/ Handle(w) \/ Drop(w)

Next ==
  \/ \E s \in Sessions : Device(s) \/ Kick(s)
  \/ \E p \in sent : Arrive(p)
  \/ \E w \in Workers : Worker(w)
  \/ List \/ Tick
  \/ Write \/ Shutdown \/ Drain \/ Drained \/ Exit \/ Crash

Spec == Init /\ [][Next]_vars

(* The writer goes on, and a process that is told to stop does.             *)
Fairness == WF_vars(Write) /\ WF_vars(Drain) /\ WF_vars(Drained) /\ WF_vars(Exit)

FairSpec == Spec /\ Fairness

-----------------------------------------------------------------------------
\* Events that may still be written.
Pending == {queue[i][1] : i \in DOMAIN queue}

\* What the device got an answer for it will not send again.  It is in the books
\* or on its way there, unless the queue was full, the write failed, the process
\* died, or the handler was late for the drain: a shutdown in good order loses
\* nothing that was queued in time.
AnsweredIsKept == answered \subseteq applied \cup Pending \cup excused

\* Counters of a finished session are those of its end, in whatever order and
\* how often its packets came: a late interim update does not touch them.
ClosedIsFinal ==
  \A x \in Sessions \X Seconds :
    rows[x] = "closed" => link[x[1]] = "down" /\ usage[x] = used[x[1]] + 1

\* A session that is up and whose Start has been written is on the list from
\* which coasvc disconnects: it misses only what the queue or the network has
\* not brought yet, or has lost.
RecordedIsListed ==
  \A s \in Sessions : link[s] = "up" /\ Start(s) \in applied => Open(s) # {}

\* A session whose Start arrived once, and was answered before the session
\* ended, has one row, open until the Stop is written: repeated and reordered
\* interim updates and Stops, crashes and drains do no harm.
OnceIsExact ==
  \A s \in Sessions :
    s \notin early /\ Start(s) \in applied \ repeated =>
      \E t \in Seconds :
        /\ rows[s, t] = IF Stop(s) \in applied THEN "closed" ELSE "open"
        /\ \A u \in Seconds \ {t} : rows[s, u] = "none"

\* A process that is told to stop does, while handlers still fill its queue.
ShutdownEnds == stopping ~> ~stopping

=============================================================================
