-------------------------- MODULE BackOfficeProofs --------------------------
(***************************************************************************)
(* The safety properties of plans, vouchers, tickets, resellers and the    *)
(* rate limiter, for any number of requests, and those of all parts as     *)
(* properties of BackOffice.                                                *)
(***************************************************************************)
EXTENDS BackOffice, RadiusLoginsProofs, StaffSessionsProofs, TestDoubleProofs

-----------------------------------------------------------------------------
(* Resellers.                                                               *)

BalanceInv == ResellerTypeOK /\ BalanceIsBacked

\* A step keeps the balance backed.
LEMMA BalanceNext == BalanceInv /\ [ResellerNext]_resellerVars => BalanceInv'
<1> SUFFICES ASSUME BalanceInv, [ResellerNext]_resellerVars PROVE BalanceInv'
  OBVIOUS
<1> USE ResellersAssumption DEF BalanceInv, ResellerTypeOK, BalanceIsBacked
<1>1. CASE UNCHANGED resellerVars
  BY <1>1 DEF resellerVars
<1>2. ASSUME NEW x \in Credits, NEW row \in {"deposit", "commission"}, NEW n \in Amounts,
             InsertCredit(x, row, n)
      PROVE  BalanceInv'
  BY <1>2 DEF InsertCredit, Amounts
<1>3. ASSUME NEW x \in Credits, AddBalance(x) \/ AbortCredit(x)
      PROVE  BalanceInv'
  BY <1>3 DEF AddBalance, AbortCredit, Rest
<1>4. ASSUME NEW x \in Credits, CommitCredit(x)
      PROVE  BalanceInv'
  <2>1. amount[x] \in Nat
    OBVIOUS
  <2> QED
    BY <1>4, <2>1 DEF CommitCredit
<1> QED
  BY <1>1, <1>2, <1>3, <1>4 DEF ResellerNext

\* A reseller's balance is what the rows of deposits and commissions add up to.
THEOREM BalancesAreBacked == ResellerSpec => []BalanceInv
<1>1. ResellerInit => BalanceInv
  BY ResellersAssumption DEF ResellerInit, BalanceInv, ResellerTypeOK, BalanceIsBacked
<1> QED
  BY <1>1, BalanceNext, PTL DEF ResellerSpec

-----------------------------------------------------------------------------
(* The rate limiter.                                                        *)

LimitInv == LimitTypeOK /\ KeyExpires

\* A step keeps the types,
LEMMA LimitTypes == LimitTypeOK /\ [LimitNext]_limitVars => LimitTypeOK'
<1> SUFFICES ASSUME LimitTypeOK, [LimitNext]_limitVars PROVE LimitTypeOK'
  OBVIOUS
<1> USE LimiterAssumption DEF LimitTypeOK, Never
<1>1. CASE UNCHANGED limitVars
  BY <1>1 DEF limitVars
<1>2. ASSUME NEW q \in Callers, Incr(q) PROVE LimitTypeOK'
  BY <1>2 DEF Incr
<1>3. ASSUME NEW q \in Callers, ExpireKey(q) PROVE LimitTypeOK'
  BY <1>3 DEF ExpireKey
<1>4. ASSUME NEW q \in Callers, ExpireFails(q) PROVE LimitTypeOK'
  <2>1. broken' \in BOOLEAN
    BY <1>4, Zenon DEF ExpireFails
  <2>2. /\ counter' \in 0..MaxCount
        /\ keyTTL' \in 1..Never
        /\ caller' \in [Callers -> {"idle", "expire"}]
    BY <1>4 DEF ExpireFails
  <2> QED
    BY <2>1, <2>2, Zenon
<1>5. CASE Elapse
  <2>1. broken' \in BOOLEAN
    <3>1. CASE keyTTL > 1
      BY <1>5, <3>1 DEF Elapse
    <3>2. CASE ~(keyTTL > 1)
      BY <1>5, <3>2, Zenon DEF Elapse
    <3> QED
      BY <3>1, <3>2
  <2>2. /\ counter' \in 0..MaxCount
        /\ keyTTL' \in 1..Never
        /\ caller' \in [Callers -> {"idle", "expire"}]
    BY <1>5 DEF Elapse
  <2> QED
    BY <2>1, <2>2, Zenon
<1> QED
  BY <1>1, <1>2, <1>3, <1>4, <1>5 DEF LimitNext

\* and an expiry on its way.
LEMMA ExpiryKept == LimitTypeOK /\ KeyExpires /\ [LimitNext]_limitVars => KeyExpires'
<1> SUFFICES ASSUME LimitTypeOK, KeyExpires, [LimitNext]_limitVars,
                    counter' > 0, keyTTL' = Never, ~broken'
             PROVE  \E q \in Callers : caller'[q] = "expire"
  BY DEF KeyExpires
<1> USE LimiterAssumption DEF LimitTypeOK, Never
<1>1. CASE UNCHANGED limitVars
  BY <1>1 DEF limitVars, KeyExpires
<1>2. ASSUME NEW q \in Callers, Incr(q) PROVE \E p \in Callers : caller'[p] = "expire"
  <2>1. CASE counter = 0
    BY <1>2, <2>1 DEF Incr
  <2>2. CASE counter > 0
    <3>1. PICK p \in Callers : caller[p] = "expire"
      BY <1>2, <2>2 DEF Incr, KeyExpires
    <3> QED
      BY <1>2, <2>2, <3>1 DEF Incr
  <2> QED
    BY <2>1, <2>2
<1>3. ASSUME NEW q \in Callers PROVE ~ExpireKey(q) /\ ~ExpireFails(q)
  BY DEF ExpireKey, ExpireFails
<1>4. ~Elapse
  BY DEF Elapse
<1> QED
  BY <1>1, <1>2, <1>3, <1>4 DEF LimitNext

\* A counter has an expiry or is about to be given one, unless EXPIRE failed.
THEOREM CountersExpire == LimitSpec => []LimitInv
<1>1. LimitInit => LimitInv
  <2> SUFFICES ASSUME LimitInit PROVE LimitTypeOK /\ KeyExpires
    BY DEF LimitInv
  <2>1. broken \in BOOLEAN
    BY Zenon DEF LimitInit
  <2>2. counter = 0 /\ keyTTL = Never /\ caller \in [Callers -> {"idle", "expire"}]
    BY DEF LimitInit
  <2> QED
    BY <2>1, <2>2, LimiterAssumption DEF LimitTypeOK, KeyExpires, Never
<1> QED
  BY <1>1, LimitTypes, ExpiryKept, PTL DEF LimitSpec, LimitInv

-----------------------------------------------------------------------------
(* Plans.                                                                   *)

\* The transaction that has written the plan's row holds its lock, and what it
\* has found there is still so.
PlanHeld ==
  \A r \in Planners :
    /\ planner[r] \in {"replies", "commit"} => planLock = r
    /\ planner[r] = "commit" => dropped[r] = replies
    /\ planner[r] # "idle" /\ doing[r] # "create" => plan # "none"
    /\ planner[r] \in {"replies", "commit"} /\ doing[r] = "update" => plan = "live"

\* While a plan is being created there is none, and nobody else is at it.
CreatedOnce ==
  \A r \in Planners :
    planner[r] # "idle" /\ doing[r] = "create" =>
      plan = "none" /\ \A q \in Planners \ {r} : planner[q] = "idle"

PInv ==
  /\ PlanTypeOK
  /\ dropped \in [Planners -> SUBSET UNION {GroupAttrs(i) : i \in PlanInputs}]
  /\ PlanHeld
  /\ CreatedOnce
  /\ RepliesMatchPlan

\* It holds initially.
LEMMA PlansInit == PlanInit => PInv
<1>1. SomeInput \in PlanInputs
  BY PlansAssumption DEF SomeInput
<1> QED
  BY <1>1 DEF PlanInit, PInv, PlanTypeOK, PlanHeld, CreatedOnce, RepliesMatchPlan, NoReplies

\* A request's steps up to its commit keep it.
LEMMA PlanningKeeps ==
  ASSUME PInv, NEW r \in Planners,
         \/ \E what \in {"create", "update", "delete"}, input \in PlanInputs : BeginPlanning(r, what, input)
         \/ WritePlan(r) \/ SetGroupReply(r) \/ AbortPlan(r)
  PROVE  PInv'
<1> USE PlansAssumption DEF PInv, PlanTypeOK
<1>1. ASSUME NEW what \in {"create", "update", "delete"}, NEW input \in PlanInputs,
             BeginPlanning(r, what, input)
      PROVE  PInv'
  BY <1>1 DEF BeginPlanning, PlanHeld, CreatedOnce, RepliesMatchPlan
<1>2. CASE WritePlan(r)
  BY <1>2 DEF WritePlan, PlanHeld, CreatedOnce, RepliesMatchPlan
<1>3. CASE SetGroupReply(r)
  BY <1>3 DEF SetGroupReply, PlanHeld, CreatedOnce, RepliesMatchPlan
<1>4. CASE AbortPlan(r)
  BY <1>4 DEF AbortPlan, PlanningDone, NoReplies, PlanHeld, CreatedOnce, RepliesMatchPlan
<1> QED
  BY <1>1, <1>2, <1>3, <1>4

\* So does the commit: nobody else is past the lock.
LEMMA PlanCommitKeeps == ASSUME PInv, NEW r \in Planners, CommitPlan(r) PROVE PInv'
<1> USE PlansAssumption DEF PInv, PlanTypeOK
<1>1. planLock = r /\ dropped[r] = replies /\ r # NoPlanner
  BY DEF CommitPlan, PlanHeld
<1>2. \A q \in Planners \ {r} : planner[q] \in {"idle", "write"}
  BY <1>1 DEF PlanHeld
<1>3. GroupAttrs(asks[r]) \subseteq UNION {GroupAttrs(i) : i \in PlanInputs}
  OBVIOUS
<1>4. planner' = [planner EXCEPT ![r] = "idle"] /\ doing' = doing /\ asks' = asks
      /\ planLock' = NoPlanner /\ dropped' = [dropped EXCEPT ![r] = {}]
  BY <1>1 DEF CommitPlan, PlanningDone, NoReplies
<1>5. CASE doing[r] = "delete"
  <2>1. plan' = "deleted" /\ replies' = {} /\ profile' = profile
    BY <1>1, <1>5 DEF CommitPlan
  <2>2. \A q \in Planners : planner[q] # "idle" => doing[q] # "create"
    BY <1>5 DEF CommitPlan, CreatedOnce
  <2> QED
    BY <1>2, <1>4, <2>1, <2>2 DEF PlanHeld, CreatedOnce, RepliesMatchPlan, NoReplies
<1>6. CASE doing[r] # "delete"
  <2>1. plan' = "live" /\ profile' = asks[r] /\ replies' = GroupAttrs(asks[r])
    BY <1>1, <1>6 DEF CommitPlan, PlanHeld
  <2>2. \A q \in Planners \ {r} : planner[q] # "idle" => doing[q] # "create"
    BY DEF CommitPlan, CreatedOnce
  <2> QED
    BY <1>2, <1>3, <1>4, <2>1, <2>2 DEF PlanHeld, CreatedOnce, RepliesMatchPlan
<1> QED
  BY <1>5, <1>6

\* The replies of a plan's group are those its row and its profile call for,
\* however edits and its deletion overlap.
THEOREM GroupsMatchPlans == PlanSpec => []PInv
<1>1. PInv /\ [PlanNext]_planVars => PInv'
  <2>1. PInv /\ UNCHANGED planVars => PInv'
    BY DEF planVars, PInv, PlanTypeOK, PlanHeld, CreatedOnce, RepliesMatchPlan
  <2> QED
    BY <2>1, PlanningKeeps, PlanCommitKeeps DEF PlanNext
<1> QED
  BY <1>1, PlansInit, PTL DEF PlanSpec

-----------------------------------------------------------------------------
(* Vouchers.                                                                *)

\* The codes an open transaction has inserted are nobody's yet, a batch that is
\* done has the ones its transaction inserted, each with its login, and any other
\* batch has none.
BatchStaged ==
  \A b \in Batches :
    /\ batch[b] = "none" => inserted[b] = {}
    /\ Open(b) => \A k \in inserted[b] : batchOf[k] = NoBatch
    /\ batch[b] # "done" => \A k \in Codes : batchOf[k] # b
    /\ batch[b] = "done" => /\ Cardinality(inserted[b]) = Qty
                            /\ inserted[b] \subseteq codeLogins
                            /\ \A k \in Codes : batchOf[k] = b <=> k \in inserted[b]

\* No two transactions under way have inserted the same code.
BatchesApart ==
  \A b, d \in Batches : Open(b) /\ Open(d) /\ b # d => inserted[b] \cap inserted[d] = {}

VInv == VoucherTypeOK /\ BatchStaged /\ BatchesApart

\* It holds initially,
LEMMA VouchersInit == VoucherInit => VInv
  BY VouchersAssumption DEF VoucherInit, VInv, VoucherTypeOK, BatchStaged, BatchesApart, Open

\* and a step keeps it.
LEMMA VouchersNext == VInv /\ [VoucherNext]_voucherVars => VInv'
<1> SUFFICES ASSUME VInv, [VoucherNext]_voucherVars PROVE VInv'
  OBVIOUS
<1> USE VouchersAssumption DEF VInv, VoucherTypeOK, Open
<1>1. CASE UNCHANGED voucherVars
  BY <1>1 DEF voucherVars, BatchStaged, BatchesApart
<1>2. ASSUME NEW b \in Batches, CreateBatch(b) PROVE VInv'
  BY <1>2 DEF CreateBatch, BatchStaged, BatchesApart
<1>3. ASSUME NEW b \in Batches, NEW k \in Codes, CreateVoucher(b, k) PROVE VInv'
  BY <1>3 DEF CreateVoucher, Between, BatchStaged, BatchesApart
<1>4. ASSUME NEW b \in Batches, NEW k \in Codes, CodeCollides(b, k) PROVE VInv'
  BY <1>4 DEF CodeCollides, BatchStaged, BatchesApart
<1>5. ASSUME NEW b \in Batches, Retry(b) \/ ProvisionVoucher(b) PROVE VInv'
  BY <1>5 DEF Retry, ProvisionVoucher, BatchStaged, BatchesApart
<1>6. ASSUME NEW b \in Batches, GiveUp(b) \/ FailBatch(b) PROVE VInv'
  BY <1>6 DEF GiveUp, FailBatch, Between, Rollback, BatchStaged, BatchesApart
<1>7. ASSUME NEW b \in Batches, CommitBatch(b) PROVE VInv'
  <2>1. VoucherTypeOK'
    BY <1>7 DEF CommitBatch
  <2>2. BatchStaged'
    <3> SUFFICES ASSUME NEW d \in Batches
                 PROVE  /\ batch'[d] = "none" => inserted'[d] = {}
                        /\ batch'[d] = "open" => \A k \in inserted'[d] : batchOf'[k] = NoBatch
                        /\ batch'[d] # "done" => \A k \in Codes : batchOf'[k] # d
                        /\ batch'[d] = "done" =>
                             /\ Cardinality(inserted'[d]) = Qty
                             /\ inserted'[d] \subseteq codeLogins'
                             /\ \A k \in Codes : batchOf'[k] = d <=> k \in inserted'[d]
      BY DEF BatchStaged
    <3>1. CASE d = b
      <4>1. /\ batch'[b] = "done" /\ inserted' = inserted /\ inserted[b] \subseteq codeLogins'
            /\ Cardinality(inserted[b]) = Qty
            /\ \A k \in Codes : batchOf'[k] = IF k \in inserted[b] THEN b ELSE batchOf[k]
        BY <1>7 DEF CommitBatch
      <4>2. \A k \in Codes : batchOf[k] # b
        BY <1>7 DEF CommitBatch, BatchStaged
      <4> QED
        BY <3>1, <4>1, <4>2
    <3>2. CASE d # b
      <4>1. /\ batch'[d] = batch[d] /\ inserted'[d] = inserted[d] /\ codeLogins \subseteq codeLogins'
            /\ \A k \in Codes : batchOf'[k] = IF k \in inserted[b] THEN b ELSE batchOf[k]
        BY <1>7, <3>2 DEF CommitBatch
      <4>2. \A k \in inserted[b] : k \in Codes /\ batchOf[k] = NoBatch
        BY <1>7 DEF CommitBatch, BatchStaged
      <4>3. \A k \in Codes : batchOf'[k] = d <=> batchOf[k] = d
        BY <3>2, <4>1, <4>2
      <4>4. batch[d] = "open" => \A k \in inserted[d] : batchOf'[k] = NoBatch
        BY <1>7, <3>2, <4>1 DEF CommitBatch, BatchStaged, BatchesApart
      <4> QED
        BY <4>1, <4>3, <4>4 DEF BatchStaged
    <3> QED
      BY <3>1, <3>2
  <2>3. BatchesApart'
    BY <1>7 DEF CommitBatch, BatchesApart
  <2> QED
    BY <2>1, <2>2, <2>3
<1>8. ASSUME NEW k \in Codes, Redeem(k) PROVE VInv'
  BY <1>8 DEF Redeem, BatchStaged, BatchesApart
<1> QED
  BY <1>1, <1>2, <1>3, <1>4, <1>5, <1>6, <1>7, <1>8 DEF VoucherNext, Batch

\* What it says of the vouchers of a batch, counted.
LEMMA VouchersCounted == VInv => BatchIsWhole
<1> SUFFICES ASSUME VInv, NEW b \in Batches
             PROVE  /\ Cardinality(VouchersOf(b)) = IF batch[b] = "done" THEN Qty ELSE 0
                    /\ VouchersOf(b) \subseteq codeLogins
  BY DEF BatchIsWhole
<1>1. VouchersOf(b) = IF batch[b] = "done" THEN inserted[b] ELSE {}
  <2>1. CASE batch[b] = "done"
    <3>1. \A k \in Codes : batchOf[k] = b <=> k \in inserted[b]
      BY <2>1 DEF VInv, BatchStaged
    <3>2. inserted[b] \subseteq Codes
      BY DEF VInv, VoucherTypeOK
    <3> QED
      BY <2>1, <3>1, <3>2 DEF VouchersOf
  <2>2. CASE batch[b] # "done"
    BY <2>2 DEF VInv, BatchStaged, VouchersOf
  <2> QED
    BY <2>1, <2>2
<1>2. batch[b] = "done" => Cardinality(inserted[b]) = Qty /\ inserted[b] \subseteq codeLogins
  BY DEF VInv, BatchStaged
<1>3. Cardinality({}) = 0
  BY FS_EmptySet
<1> QED
  BY <1>1, <1>2, <1>3

\* A batch has all its vouchers and their logins, or none: vouchersvc.GenerateBatch.
THEOREM BatchesAreWhole == VoucherSpec => [](VoucherTypeOK /\ BatchIsWhole)
<1>1. VInv => VoucherTypeOK
  BY DEF VInv
<1> QED
  BY <1>1, VouchersInit, VouchersNext, VouchersCounted, PTL DEF VoucherSpec

-----------------------------------------------------------------------------
(* Tickets.                                                                 *)

Events == [from : TicketStatuses \cup {Nowhere}, to : TicketStatuses]

\* The event may come next on the timeline.
Follows(tl, e) ==
  IF tl = <<>> THEN e = [from |-> Nowhere, to |-> "open"]
    ELSE e.from = tl[Len(tl)].to /\ e.to \in TicketTransitions[e.from]

\* A timeline that leads from the opening by moves the table allows.
Path(tl) ==
  tl # <<>> =>
    /\ tl[1] = [from |-> Nowhere, to |-> "open"]
    /\ \A i \in 2..Len(tl) : /\ tl[i].from = tl[i - 1].to
                            /\ tl[i].to \in TicketTransitions[tl[i].from]

\* An event that may come next extends a path to a path, with itself at the end.
LEMMA PathGrows ==
  ASSUME NEW tl \in Seq(Events), Path(tl), NEW e \in Events, Follows(tl, e)
  PROVE  /\ Append(tl, e) \in Seq(Events) /\ Append(tl, e) # <<>>
         /\ Path(Append(tl, e))
         /\ Append(tl, e)[Len(Append(tl, e))] = e
<1> DEFINE more == Append(tl, e)
<1>1. /\ more \in Seq(Events) /\ more # <<>> /\ Len(more) = Len(tl) + 1
      /\ Len(tl) \in Nat /\ more[Len(tl) + 1] = e
      /\ \A i \in 1..Len(tl) : more[i] = tl[i]
  OBVIOUS
<1>2. CASE tl = <<>>
  BY <1>1, <1>2 DEF Path, Follows
<1>3. CASE tl # <<>>
  <2>1. Len(tl) >= 1
    BY <1>3
  <2>2. more[1] = [from |-> Nowhere, to |-> "open"]
    BY <1>1, <1>3, <2>1 DEF Path
  <2>3. ASSUME NEW i \in 2..Len(more)
        PROVE  more[i].from = more[i - 1].to /\ more[i].to \in TicketTransitions[more[i].from]
    <3>1. CASE i = Len(tl) + 1
      BY <1>1, <1>3, <2>1, <3>1 DEF Follows
    <3>2. CASE i <= Len(tl)
      BY <1>1, <1>3, <3>2 DEF Path
    <3> QED
      BY <1>1, <3>1, <3>2
  <2> QED
    BY <1>1, <2>2, <2>3 DEF Path
<1> QED
  BY <1>2, <1>3

\* Nobody works on a ticket before it exists.
BeforeTicket ==
  ticket = Nowhere => timeline = <<>> /\ \A a \in Agents : agent[a] = "idle"

\* A request knows where it is going.
Bound == \A a \in Agents : agent[a] # "idle" => to[a] \in TicketStatuses

\* Unless requests overlapped or an event was lost: one request at a time works on
\* the ticket, and the event it will add follows those on the timeline; with none,
\* the timeline ends in the status the ticket has.
OrderlyWork ==
  ~muddled =>
    /\ Path(timeline)
    /\ \A a, b \in Agents : agent[a] # "idle" /\ agent[b] # "idle" => a = b
    /\ \A a \in Agents :
         /\ agent[a] # "idle" => Follows(timeline, [from |-> from[a], to |-> to[a]])
         /\ agent[a] = "read" => timeline # <<>> /\ timeline[Len(timeline)].to = ticket
         /\ agent[a] = "wrote" => to[a] = ticket
    /\ ticket # Nowhere /\ ~Busy => timeline # <<>> /\ timeline[Len(timeline)].to = ticket

TInv == TicketTypeOK /\ BeforeTicket /\ Bound /\ OrderlyWork

\* It holds initially.
LEMMA TicketsInit == TicketInit => TInv
<1> SUFFICES ASSUME TicketInit PROVE TInv
  OBVIOUS
<1>1. muddled \in BOOLEAN
  BY Zenon DEF TicketInit
<1>2. /\ ticket = Nowhere /\ timeline = <<>> /\ agent = [a \in Agents |-> "idle"]
      /\ from = [a \in Agents |-> Nowhere] /\ to = [a \in Agents |-> Nowhere]
  BY DEF TicketInit
<1> QED
  BY <1>1, <1>2, TicketsAssumption
     DEF TInv, TicketTypeOK, BeforeTicket, Bound, OrderlyWork, Path, Nowhere

\* A step keeps the types and what does not depend on order.
LEMMA TicketTypes ==
  TInv /\ [TicketNext]_ticketVars => (TicketTypeOK /\ BeforeTicket /\ Bound)'
<1> SUFFICES ASSUME TInv, [TicketNext]_ticketVars PROVE (TicketTypeOK /\ BeforeTicket /\ Bound)'
  OBVIOUS
<1> USE TicketsAssumption DEF TInv, BeforeTicket, Bound
<1>1. muddled' \in BOOLEAN
  BY Zenon DEF TicketTypeOK, TicketNext, ticketVars, CreateTicket, ReadTicket, UpdateTicketStatus,
     UpdateTicketFails, AddTicketEvent, LoseTicketEvent
<1> DEFINE Typed ==
      /\ ticket \in TicketStatuses \cup {Nowhere}
      /\ timeline \in Seq(Events) /\ Len(timeline) <= MaxEvents
      /\ agent \in [Agents -> {"idle", "read", "wrote"}]
      /\ from \in [Agents -> TicketStatuses \cup {Nowhere}]
      /\ to \in [Agents -> TicketStatuses \cup {Nowhere}]
<1>2. Typed
  BY DEF TicketTypeOK, Events
<1>3. (Typed /\ BeforeTicket /\ Bound)'
  <2> HIDE DEF Typed
  <2>1. CASE UNCHANGED ticketVars
    BY <1>2, <2>1 DEF ticketVars, Typed
  <2>2. ASSUME NEW a \in Agents, CreateTicket(a) PROVE (Typed /\ BeforeTicket /\ Bound)'
    BY <1>2, <2>2 DEF CreateTicket, Typed, TicketStatuses, Nowhere
  <2>3. ASSUME NEW a \in Agents, NEW t \in TicketStatuses, ReadTicket(a, t)
        PROVE  (Typed /\ BeforeTicket /\ Bound)'
    BY <1>2, <2>3 DEF ReadTicket, Typed
  <2>4. ASSUME NEW a \in Agents, UpdateTicketStatus(a) PROVE (Typed /\ BeforeTicket /\ Bound)'
    BY <1>2, <2>4 DEF UpdateTicketStatus, Typed, TicketStatuses, Nowhere
  <2>5. ASSUME NEW a \in Agents, UpdateTicketFails(a) \/ LoseTicketEvent(a)
        PROVE  (Typed /\ BeforeTicket /\ Bound)'
    BY <1>2, <2>5 DEF UpdateTicketFails, LoseTicketEvent, TicketDone, Typed
  <2>6. ASSUME NEW a \in Agents, AddTicketEvent(a) PROVE (Typed /\ BeforeTicket /\ Bound)'
    <3>1. [from |-> from[a], to |-> to[a]] \in Events
      BY <1>2, <2>6 DEF AddTicketEvent, Typed, Events
    <3> QED
      BY <1>2, <2>6, <3>1 DEF AddTicketEvent, TicketDone, Typed
  <2> QED
    BY <2>1, <2>2, <2>3, <2>4, <2>5, <2>6 DEF TicketNext
<1> QED
  BY <1>1, <1>3 DEF TicketTypeOK, Events

\* A step keeps the order.
LEMMA TicketOrder == TInv /\ [TicketNext]_ticketVars => OrderlyWork'
<1> SUFFICES ASSUME TInv, [TicketNext]_ticketVars, ~muddled' PROVE OrderlyWork'
  BY DEF OrderlyWork
<1>1. CASE UNCHANGED ticketVars
  BY <1>1 DEF ticketVars, TInv, OrderlyWork, Busy
<1>2. CASE TicketNext
  <2>1. ~muddled
    BY <1>2, Zenon DEF TicketNext, CreateTicket, ReadTicket, UpdateTicketStatus, UpdateTicketFails,
       AddTicketEvent, LoseTicketEvent
  <2>2. /\ Path(timeline)
        /\ \A a, b \in Agents : agent[a] # "idle" /\ agent[b] # "idle" => a = b
        /\ \A a \in Agents :
             /\ agent[a] # "idle" => Follows(timeline, [from |-> from[a], to |-> to[a]])
             /\ agent[a] = "read" => timeline # <<>> /\ timeline[Len(timeline)].to = ticket
             /\ agent[a] = "wrote" => to[a] = ticket
        /\ ticket # Nowhere /\ ~Busy => timeline # <<>> /\ timeline[Len(timeline)].to = ticket
    BY <2>1 DEF TInv, OrderlyWork
  <2>3. /\ timeline \in Seq(Events) /\ ticket \in TicketStatuses \cup {Nowhere}
        /\ agent \in [Agents -> {"idle", "read", "wrote"}]
        /\ from \in [Agents -> TicketStatuses \cup {Nowhere}]
        /\ to \in [Agents -> TicketStatuses \cup {Nowhere}]
        /\ \A a \in Agents : agent[a] # "idle" => to[a] \in TicketStatuses
    BY DEF TInv, TicketTypeOK, Events, Bound
  <2>4. ASSUME NEW a \in Agents, CreateTicket(a) PROVE OrderlyWork'
    <3>1. /\ timeline = <<>> /\ timeline' = timeline /\ ticket' = "open"
          /\ agent' = [agent EXCEPT ![a] = "wrote"] /\ from'[a] = Nowhere /\ to'[a] = "open"
          /\ \A b \in Agents : agent[b] = "idle"
      BY <2>3, <2>4 DEF CreateTicket, TInv, BeforeTicket
    <3>2. Path(timeline')
      BY <3>1 DEF Path
    <3>3. \A b \in Agents : agent'[b] # "idle" => b = a
      BY <2>3, <3>1
    <3>4. Follows(timeline', [from |-> from'[a], to |-> to'[a]])
      BY <3>1 DEF Follows
    <3>5. agent'[a] = "wrote"
      BY <2>3, <3>1
    <3>6. Busy'
      BY <3>5 DEF Busy
    <3> QED
      BY <3>1, <3>2, <3>3, <3>4, <3>5, <3>6 DEF OrderlyWork
  <2>5. ASSUME NEW a \in Agents, NEW t \in TicketStatuses, ReadTicket(a, t) PROVE OrderlyWork'
    <3>1. ~Busy
      BY <2>5, Zenon DEF ReadTicket
    <3>2. /\ timeline' = timeline /\ ticket' = ticket /\ ticket # Nowhere
          /\ agent' = [agent EXCEPT ![a] = "read"] /\ from'[a] = ticket /\ to'[a] = t
          /\ t \in TicketTransitions[ticket]
      BY <2>3, <2>5 DEF ReadTicket, MayTransition
    <3>3. timeline # <<>> /\ timeline[Len(timeline)].to = ticket
      BY <2>2, <3>1, <3>2
    <3>4. \A b \in Agents : agent'[b] # "idle" => b = a
      BY <2>3, <3>1, <3>2 DEF Busy
    <3>5. Follows(timeline', [from |-> from'[a], to |-> to'[a]])
      BY <3>2, <3>3 DEF Follows
    <3>6. agent'[a] = "read"
      BY <2>3, <3>2
    <3>7. Busy'
      BY <3>6 DEF Busy
    <3> QED
      BY <2>2, <3>2, <3>3, <3>4, <3>5, <3>6, <3>7 DEF OrderlyWork
  <2>6. ASSUME NEW a \in Agents, UpdateTicketStatus(a) PROVE OrderlyWork'
    <3>1. /\ timeline' = timeline /\ ticket' = to[a] /\ agent[a] = "read"
          /\ agent' = [agent EXCEPT ![a] = "wrote"] /\ from' = from /\ to' = to
      BY <2>6 DEF UpdateTicketStatus
    <3>2. agent'[a] = "wrote" /\ \A b \in Agents : agent'[b] # "idle" => b = a
      BY <2>2, <2>3, <3>1
    <3>3. Busy'
      BY <3>2 DEF Busy
    <3> QED
      BY <2>2, <3>1, <3>2, <3>3 DEF OrderlyWork
  <2>7. ASSUME NEW a \in Agents, UpdateTicketFails(a) PROVE OrderlyWork'
    <3>1. /\ timeline' = timeline /\ ticket' = ticket /\ agent[a] = "read"
          /\ agent' = [agent EXCEPT ![a] = "idle"]
      BY <2>7 DEF UpdateTicketFails, TicketDone
    <3>2. timeline # <<>> /\ timeline[Len(timeline)].to = ticket
      BY <2>2, <3>1
    <3>3. \A b \in Agents : agent'[b] = "idle"
      BY <2>2, <2>3, <3>1
    <3> QED
      BY <2>2, <3>1, <3>2, <3>3 DEF OrderlyWork
  <2>8. ASSUME NEW a \in Agents, AddTicketEvent(a) PROVE OrderlyWork'
    <3> DEFINE e == [from |-> from[a], to |-> to[a]]
    <3>1. /\ timeline' = Append(timeline, e) /\ ticket' = ticket /\ agent[a] = "wrote"
          /\ agent' = [agent EXCEPT ![a] = "idle"]
      BY <2>8 DEF AddTicketEvent, TicketDone
    <3>2. e \in Events /\ e.to = ticket
      BY <2>2, <2>3, <3>1 DEF Events
    <3>3. Follows(timeline, e)
      BY <2>2, <3>1
    <3> HIDE DEF e
    <3>4. /\ timeline' # <<>> /\ Path(timeline') /\ timeline'[Len(timeline')] = e
      BY <2>2, <2>3, <3>1, <3>2, <3>3, PathGrows
    <3>5. \A b \in Agents : agent'[b] = "idle"
      BY <2>2, <2>3, <3>1
    <3> QED
      BY <3>1, <3>2, <3>4, <3>5 DEF OrderlyWork
  <2>9. ASSUME NEW a \in Agents, LoseTicketEvent(a) PROVE FALSE
    BY <2>9 DEF LoseTicketEvent
  <2> QED
    BY <1>2, <2>4, <2>5, <2>6, <2>7, <2>8, <2>9 DEF TicketNext
<1> QED
  BY <1>1, <1>2

\* The timeline of a ticket nobody is working on leads to its status by moves the
\* table allows: ticketsvc.Transition, requests that overlap set aside.
THEOREM TimelinesArePaths == TicketSpec => [](TicketTypeOK /\ TimelineIsPath)
<1>1. TInv /\ [TicketNext]_ticketVars => TInv'
  BY TicketTypes, TicketOrder DEF TInv
<1>2. TInv => TicketTypeOK /\ TimelineIsPath
  BY DEF TInv, OrderlyWork, TimelineIsPath, Path
<1> QED
  BY <1>1, <1>2, TicketsInit, PTL DEF TicketSpec

-----------------------------------------------------------------------------
(* All of them.                                                             *)

\* A step of one part is a step of that part, and stutters for the others.
LEMMA PartsStep ==
  [BackOfficeNext]_backOfficeVars =>
    /\ [LoginNext]_loginVars /\ [SessionNext]_sessionVars /\ [PlanNext]_planVars
    /\ [VoucherNext]_voucherVars /\ [TicketNext]_ticketVars /\ [ResellerNext]_resellerVars
    /\ [LimitNext]_limitVars /\ [DoubleNext]_storeVars /\ UNCHANGED part
  BY DEF BackOfficeNext, backOfficeVars, CustomersStep, SessionsStep, PlansStep, VouchersStep,
     TicketsStep, ResellersStep, LimiterStep, DoubleStep

\* The program is each of its parts: what is proved of one holds of it.
THEOREM PartsAreKept ==
  BackOfficeSpec =>
    /\ LoginSpec /\ SessionSpec /\ PlanSpec /\ VoucherSpec /\ TicketSpec /\ ResellerSpec
    /\ LimitSpec /\ DoubleSpec /\ [](part \in Parts)
<1>1. BackOfficeInit =>
        /\ LoginInit /\ SessionInit /\ PlanInit /\ VoucherInit /\ TicketInit /\ ResellerInit
        /\ LimitInit /\ DoubleInit /\ part \in Parts
  BY DEF BackOfficeInit
<1>2. part \in Parts /\ UNCHANGED part => (part \in Parts)'
  BY DEF Parts
<1> QED
  BY <1>1, <1>2, PartsStep, PTL
     DEF BackOfficeSpec, LoginSpec, SessionSpec, PlanSpec, VoucherSpec, TicketSpec, ResellerSpec,
         LimitSpec, DoubleSpec

\* Every variable of every part stays in its type.
THEOREM BackOfficeTypes == BackOfficeSpec => []BackOfficeTypeOK
<1>1. BalanceInv => ResellerTypeOK
  BY DEF BalanceInv
<1>2. LimitInv => LimitTypeOK
  BY DEF LimitInv
<1>3. PInv => PlanTypeOK
  BY DEF PInv
<1> QED
  BY <1>1, <1>2, <1>3, PartsAreKept, LoginsTypeInvariant, SessionsTypeInvariant, GroupsMatchPlans,
     BatchesAreWhole, TimelinesArePaths, BalancesAreBacked, CountersExpire, PTL DEF BackOfficeTypeOK

\* Plans and their groups, batches and their vouchers, balances and the rows that
\* back them go together, however many requests overlap and whatever fails.
THEOREM TablesGoTogether == BackOfficeSpec => []TablesAgree
<1>1. PInv => RepliesMatchPlan
  BY DEF PInv
<1>2. BalanceInv => BalanceIsBacked
  BY DEF BalanceInv
<1> QED
  BY <1>1, <1>2, PartsAreKept, GroupsMatchPlans, BatchesAreWhole, BalancesAreBacked, PTL
     DEF TablesAgree

\* The logins, the statuses and the sessions are what RadiusLogins and
\* StaffSessions promise, the timelines paths, and the tests' repositories those of
\* PostgreSQL, in the program as a whole.
THEOREM PromisesAreKept ==
  BackOfficeSpec =>
    /\ []LoginsMatch /\ []OneLoginPerName /\ []StatusIsMeant
    /\ []OneHeir /\ SpentForGood /\ []TimelineIsPath /\ []DoubleAgrees
  BY PartsAreKept, LoginsAreTheCustomers, NamesHaveOneLogin, StatusesAreMeant,
     TokensHaveOneHeir, SpentTokensStaySpent, TimelinesArePaths, DoubleIsFaithful, PTL

=============================================================================
