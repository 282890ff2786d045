------------------------------ MODULE Tickets ------------------------------
(***************************************************************************)
(* Support tickets: ticketsvc.Create and Transition.  None of their         *)
(* statements share a transaction, so each is a step of its own.            *)
(*                                                                          *)
(* A definition whose name ends in _Bug is the one that follows it with a   *)
(* mistake in it; no specification uses it.                                 *)
(***************************************************************************)
EXTENDS Naturals, Sequences

CONSTANTS
  Agents,      \* requests on a ticket under way at once
  MaxEvents    \* events on its timeline

ASSUME TicketsAssumption == MaxEvents \in Nat

TicketStatuses == {"open", "in_progress", "resolved", "closed"}
Nowhere == "none"      \* before the ticket exists; the StatusFrom of its first event

VARIABLES
  ticket,      \* tickets.status
  timeline,    \* ticket_events: StatusFrom and StatusTo
  agent,       \* "idle", "read" or "wrote"
  from,        \* the status each request has read
  to,          \* and the one it asks for
  muddled      \* requests have overlapped, or an event was lost

ticketVars == <<ticket, timeline, agent, from, to, muddled>>

TicketInit ==
  /\ ticket = Nowhere
  /\ timeline = <<>>
  /\ agent = [a \in Agents |-> "idle"]
  /\ from = [a \in Agents |-> Nowhere]
  /\ to = [a \in Agents |-> Nowhere]
  /\ muddled = FALSE

TicketTypeOK ==
  /\ ticket \in TicketStatuses \cup {Nowhere}
  /\ timeline \in Seq([from : TicketStatuses \cup {Nowhere}, to : TicketStatuses])
  /\ Len(timeline) <= MaxEvents
  /\ agent \in [Agents -> {"idle", "read", "wrote"}]
  /\ from \in [Agents -> TicketStatuses \cup {Nowhere}]
  /\ to \in [Agents -> TicketStatuses \cup {Nowhere}]
  /\ muddled \in BOOLEAN

TicketTransitions ==
  [s \in TicketStatuses |-> CASE s = "open"        -> {"in_progress", "resolved", "closed"}
                              [] s = "in_progress" -> {"resolved", "closed", "open"}
                              [] s = "resolved"    -> {"closed", "in_progress"}
                              [] s = "closed"      -> {}]

MayTransition_Bug(s, t) == s # t      \* any move goes

MayTransition(s, t) == t \in TicketTransitions[s]

\* The request is over.
TicketDone(a) ==
  /\ agent' = [agent EXCEPT ![a] = "idle"]
  /\ from' = [from EXCEPT ![a] = Nowhere]
  /\ to' = [to EXCEPT ![a] = Nowhere]

Busy == \E a \in Agents : agent[a] # "idle"

\* Create: the INSERT.
CreateTicket(a) ==
  /\ ticket = Nowhere
  /\ ticket' = "open"
  /\ agent' = [agent EXCEPT ![a] = "wrote"]
  /\ from' = [from EXCEPT ![a] = Nowhere]
  /\ to' = [to EXCEPT ![a] = "open"]
  /\ UNCHANGED <<timeline, muddled>>

\* Transition up to its UPDATE: Get, nothing to do, or not allowed.
ReadTicket(a, t) ==
  /\ agent[a] = "idle"
  /\ Len(timeline) < MaxEvents
  /\ ticket # Nowhere
  /\ ticket # t
  /\ MayTransition(ticket, t)
  /\ agent' = [agent EXCEPT ![a] = "read"]
  /\ from' = [from EXCEPT ![a] = ticket]
  /\ to' = [to EXCEPT ![a] = t]
  /\ muddled' = (muddled \/ Busy)
  /\ UNCHANGED <<ticket, timeline>>

\* UpdateStatus does not ask what the status is now.
UpdateTicketStatus(a) ==
  /\ agent[a] = "read"
  /\ ticket' = to[a]
  /\ agent' = [agent EXCEPT ![a] = "wrote"]
  /\ UNCHANGED <<timeline, from, to, muddled>>

\* The UPDATE fails, and the request with it.
UpdateTicketFails(a) ==
  /\ agent[a] = "read"
  /\ TicketDone(a)
  /\ UNCHANGED <<ticket, timeline, muddled>>

AddTicketEvent(a) ==
  /\ agent[a] = "wrote"
  /\ Len(timeline) < MaxEvents
  /\ timeline' = Append(timeline, [from |-> from[a], to |-> to[a]])
  /\ TicketDone(a)
  /\ UNCHANGED <<ticket, muddled>>

\* A failing AddEvent is logged; the process may also have died.
LoseTicketEvent(a) ==
  /\ agent[a] = "wrote"
  /\ TicketDone(a)
  /\ muddled' = TRUE
  /\ UNCHANGED <<ticket, timeline>>

TicketNext ==
  \E a \in Agents :
    \/ CreateTicket(a) \/ UpdateTicketStatus(a) \/ UpdateTicketFails(a)
    \/ AddTicketEvent(a) \/ LoseTicketEvent(a)
    \/ \E t \in TicketStatuses : ReadTicket(a, t)

TicketSpec == TicketInit /\ [][TicketNext]_ticketVars

-----------------------------------------------------------------------------
\* The timeline of a ticket nobody is working on leads from its opening to the
\* status it has, by moves the table allows, unless requests overlapped or an
\* event was lost.  A ticket that was closed is therefore closed for good.
TimelineIsPath ==
  ticket # Nowhere /\ ~Busy /\ ~muddled =>
    /\ timeline # <<>>
    /\ timeline[1] = [from |-> Nowhere, to |-> "open"]
    /\ timeline[Len(timeline)].to = ticket
    /\ \A i \in 2..Len(timeline) :
         /\ timeline[i].from = timeline[i - 1].to
         /\ timeline[i].to \in TicketTransitions[timeline[i].from]

=============================================================================
