---------------------------- MODULE StoreSupport ----------------------------
(***************************************************************************)
(* Notifications, vouchers, tickets, resellers and access devices' records, *)
(* in PostgreSQL and in the double.                                         *)
(***************************************************************************)
EXTENDS Stores

CountBound == 2      \* bounds attempts and balances

-----------------------------------------------------------------------------
(* Notifications.  The time of a row's next attempt is not a column here:   *)
(* the rows that are due are some of those queued.                          *)

NoticeRows == [id : RowIds, dedup : Keys, status : {"queued"}, attempts : {0}]
NoticeStatuses == {"sent", "queued", "failed"}

Queued(rows) == {n \in rows : n.status = "queued"}
Claimed(rows, found) == Change(rows, found, LAMBDA n : [n EXCEPT !.attempts = @ + 1])
EnqueuedOnce(rows, x) ==
  IF \E n \in rows : n.dedup = x.dedup THEN Answer(rows, {FALSE}) ELSE Answer(rows \cup {x}, {TRUE})

SqlEnqueueNotification(x) == EnqueuedOnce(sql, x)
MemEnqueue(x) == EnqueuedOnce(mem, x)
NoticeEnqueue(x) == Call(Wrap(SqlEnqueueNotification(x)), MemEnqueue(x), TRUE)

SqlClaimDueNotifications(due) == Claimed(sql, due)
MemClaimDue == Claimed(mem, Queued(mem))
\* The double knows no lease: it claims what is not due, and what is claimed.
NoticeClaimDue(due) == Call(Wrap(SqlClaimDueNotifications(due)), MemClaimDue, due = Queued(sql))

Marked(rows, id, status) == Silent(Change(rows, ById(rows, id), LAMBDA n : [n EXCEPT !.status = status]))

\* MarkSent, Retry and Fail.  The double keeps the status twice, beside the row
\* and in it, and Retry leaves the second one alone.  No method of the port asks
\* for that one, so the row here has the first.
SqlMarkNotification(id, status) == Marked(sql, id, status)
MemMarkNotification(id, status) == Marked(mem, id, status)
NoticeMark(id, status) == Call(Wrap(SqlMarkNotification(id, status)), MemMarkNotification(id, status), TRUE)

NoticeCalls ==
  /\ table = "notification_logs"
  /\ \/ \E x \in NoticeRows : x.id \in Fresh /\ NoticeEnqueue(x)
     \/ \E due \in SUBSET Queued(sql) : (\A n \in Queued(sql) : n.attempts < CountBound) /\ NoticeClaimDue(due)
     \/ \E id \in RowIds, s \in NoticeStatuses : NoticeMark(id, s)

-----------------------------------------------------------------------------
(* WhatsApp gateways, and the templates of messages.                        *)

GatewayRows == [id : RowIds, tenant : Owners, config : Keys, active : BOOLEAN]

\* A plain INSERT, for all its name.
SqlUpsertGateway(x) == Insert(sql, x)
MemCreateGateway(x) == Answer((mem \ Owned(mem, x.tenant)) \cup {x}, {x})
\* The double puts the new gateway in the place of the tenant's.
CreateGateway(x) == Call(Wrap(SqlUpsertGateway(x)), MemCreateGateway(x), Owned(sql, x.tenant) = {})

Oldest(rows) == {g \in rows : \A h \in rows : g.id <= h.id}

SqlGetActiveGateway(t) == One(sql, Oldest({g \in Owned(sql, t) : g.active}), NoRows)
MemActiveGateway(t) == One(mem, {g \in Owned(mem, t) : g.active}, "ErrNoGateway")
ActiveGateway(t) == Call(Adapt(SqlGetActiveGateway(t), [no_rows |-> "ErrNoGateway"]), MemActiveGateway(t), TRUE)

GatewayCalls ==
  /\ table = "wa_gateways"
  /\ \/ \E x \in GatewayRows : x.id \in Fresh /\ CreateGateway(x)
     \/ \E t \in Owners : ActiveGateway(t)

TemplateRows == [tenant : Owners, key : Keys, body : Keys, active : BOOLEAN]

TemplatesOf(rows, t, key) == {m \in Owned(rows, t) : m.key = key}
TemplateStored(rows, x) == Answer((rows \ TemplatesOf(rows, x.tenant, x.key)) \cup {x}, {x})

SqlUpsertTemplate(x) == TemplateStored(sql, x)
MemUpsertTemplate(x) == TemplateStored(mem, x)
UpsertTemplate(x) == Call(Wrap(SqlUpsertTemplate(x)), MemUpsertTemplate(x), TRUE)

SqlGetTemplate(t, key) == One(sql, {m \in TemplatesOf(sql, t, key) : m.active}, NoRows)
MemTemplate(t, key) == One(mem, {m \in TemplatesOf(mem, t, key) : m.active}, "ErrNoTemplate")
GetTemplate(t, key) == Call(Adapt(SqlGetTemplate(t, key), [no_rows |-> "ErrNoTemplate"]), MemTemplate(t, key), TRUE)

TemplateCalls ==
  /\ table = "message_templates"
  /\ \/ \E x \in TemplateRows : UpsertTemplate(x)
     \/ \E t \in Owners, k \in Keys : GetTemplate(t, k)

-----------------------------------------------------------------------------
(* Vouchers.                                                                *)

BatchRows == [id : RowIds, tenant : Owners, prefix : Keys]

SqlCreateVoucherBatch(x) == Insert(sql, x)
MemCreateBatch(x) == Insert(mem, x)
VoucherCreateBatch(x) == Call(Wrap(SqlCreateVoucherBatch(x)), MemCreateBatch(x), TRUE)

SqlGetVoucherBatch(t, id) == One(sql, ById(Owned(sql, t), id), NoRows)
MemGetBatch(t, id) == One(mem, ById(Owned(mem, t), id), "ErrBatchNotFound")
GetBatch(t, id) == Call(Adapt(SqlGetVoucherBatch(t, id), [no_rows |-> "ErrBatchNotFound"]), MemGetBatch(t, id), TRUE)

SqlListVoucherBatches(t) == Answer(sql, Owned(sql, t))
MemListBatches(t) == Answer(mem, Owned(mem, t))
ListBatches(t) == Call(Wrap(SqlListVoucherBatches(t)), MemListBatches(t), TRUE)

BatchCalls ==
  /\ table = "voucher_batches"
  /\ \/ \E x \in BatchRows : x.id \in Fresh /\ VoucherCreateBatch(x)
     \/ \E t \in Owners : ListBatches(t) \/ \E id \in RowIds : GetBatch(t, id)

VoucherRows == [id : RowIds, tenant : Owners, batch : RowIds, code : Keys, status : {"unused"}]

WithCode(rows, t, code) == {v \in Owned(rows, t) : v.code = code}
Used(rows, t, code) ==
  Silent(Change(rows, {v \in WithCode(rows, t, code) : v.status = "unused"}, LAMBDA v : [v EXCEPT !.status = "used"]))

SqlCreateVoucher(x) == InsertUnless(WithCode(sql, x.tenant, x.code) # {}, x)
MemCreateVoucher(x) == IF WithCode(mem, x.tenant, x.code) # {} THEN Refusal(mem, "wrapped") ELSE Insert(mem, x)
VoucherCreate(x) == Call(Wrap(SqlCreateVoucher(x)), MemCreateVoucher(x), TRUE)

SqlGetVoucherByCode(t, code) == One(sql, WithCode(sql, t, code), NoRows)
MemGetByCode(t, code) == One(mem, WithCode(mem, t, code), "ErrNotFound")
GetByCode(t, code) == Call(Adapt(SqlGetVoucherByCode(t, code), [no_rows |-> "ErrNotFound"]), MemGetByCode(t, code), TRUE)

SqlListVouchersByBatch(t, batch) == Answer(sql, {v \in Owned(sql, t) : v.batch = batch})
MemListByBatch(t, batch) == Answer(mem, {v \in Owned(mem, t) : v.batch = batch})
ListByBatch(t, batch) == Call(Wrap(SqlListVouchersByBatch(t, batch)), MemListByBatch(t, batch), TRUE)

SqlMarkVoucherUsed(t, code) == Used(sql, t, code)
MemMarkUsed(t, code) == Used(mem, t, code)
MarkUsed(t, code) == Call(Wrap(SqlMarkVoucherUsed(t, code)), MemMarkUsed(t, code), TRUE)

VoucherCalls ==
  /\ table = "vouchers"
  /\ \/ \E x \in VoucherRows : x.id \in Fresh /\ VoucherCreate(x)
     \/ \E t \in Owners :
          \/ \E k \in Keys : GetByCode(t, k) \/ MarkUsed(t, k)
          \/ \E b \in RowIds : ListByBatch(t, b)

-----------------------------------------------------------------------------
(* Tickets and their events.                                                *)

TicketRows == [id : RowIds, tenant : Owners, customer : Keys \cup {Nothing}, status : {"open"}, resolved : {FALSE}]
SetStatuses == {"open", "resolved", "closed"}

TicketIn(rows, t, id) == ById(Owned(rows, t), id)
ToStatus(status, x) == [x EXCEPT !.status = status, !.resolved = @ \/ status = "resolved"]

SqlCreateTicket(x) == Insert(sql, x)
MemTicketCreate(x) == Insert(mem, x)
TicketCreate(x) == Call(Wrap(SqlCreateTicket(x)), MemTicketCreate(x), TRUE)

SqlGetTicket(t, id) == One(sql, TicketIn(sql, t, id), NoRows)
MemTicketGet(t, id) == One(mem, TicketIn(mem, t, id), "ErrNotFound")
TicketGet(t, id) == Call(Adapt(SqlGetTicket(t, id), [no_rows |-> "ErrNotFound"]), MemTicketGet(t, id), TRUE)

SqlListTickets(t) == Answer(sql, Owned(sql, t))
MemTicketList(t) == Answer(mem, Owned(mem, t))
TicketList(t) == Call(Wrap(SqlListTickets(t)), MemTicketList(t), TRUE)

SqlListTicketsByCustomer(t, c) == Answer(sql, {x \in Owned(sql, t) : x.customer = c})
MemTicketListByCustomer(t, c) == Answer(mem, {x \in Owned(mem, t) : x.customer = c})
TicketListByCustomer(t, c) == Call(Wrap(SqlListTicketsByCustomer(t, c)), MemTicketListByCustomer(t, c), TRUE)

SqlUpdateTicketStatus(t, id, status) == Silent(Change(sql, TicketIn(sql, t, id), LAMBDA x : ToStatus(status, x)))
MemTicketUpdateStatus(t, id, status) ==
  Silent(ChangeOne(mem, TicketIn(mem, t, id), LAMBDA x : ToStatus(status, x), "ErrNotFound"))
\* The UPDATE does not mind finding no ticket.
TicketUpdateStatus(t, id, status) ==
  Call(Wrap(SqlUpdateTicketStatus(t, id, status)), MemTicketUpdateStatus(t, id, status), TicketIn(sql, t, id) # {})

TicketCalls ==
  /\ table = "tickets"
  /\ \/ \E x \in TicketRows : x.id \in Fresh /\ TicketCreate(x)
     \/ \E t \in Owners :
          \/ TicketList(t)
          \/ \E c \in Keys : TicketListByCustomer(t, c)
          \/ \E id \in RowIds : TicketGet(t, id) \/ \E s \in SetStatuses : TicketUpdateStatus(t, id, s)

EventRows == [id : RowIds, ticket : RowIds, note : Keys]

SqlAddTicketEvent(x) == Insert(sql, x)
MemAddEvent(x) == Insert(mem, x)
TicketAddEvent(x) == Call(Wrap(SqlAddTicketEvent(x)), MemAddEvent(x), TRUE)

SqlListTicketEvents(ticket) == Answer(sql, {e \in sql : e.ticket = ticket})
MemListEvents(ticket) == Answer(mem, {e \in mem : e.ticket = ticket})
TicketListEvents(ticket) == Call(Wrap(SqlListTicketEvents(ticket)), MemListEvents(ticket), TRUE)

EventCalls ==
  /\ table = "ticket_events"
  /\ \/ \E x \in EventRows : x.id \in Fresh /\ TicketAddEvent(x)
     \/ \E t \in RowIds : TicketListEvents(t)

-----------------------------------------------------------------------------
(* Resellers: what is credited to a user, and the user's balance.           *)

CreditRows == [id : RowIds, tenant : Owners, user : Keys, status : {Nothing, "pending", "settled"}]

\* No status is the status of a settled one.
Settled(x) == [x EXCEPT !.status = IF @ = Nothing THEN "settled" ELSE @]

SqlCreateDeposit(x) == Insert(sql, Settled(x))
MemCreateDeposit(x) == Insert(mem, Settled(x))
CreateDeposit(x) == Call(Wrap(SqlCreateDeposit(x)), MemCreateDeposit(x), TRUE)

SqlCreateCommission(x) == Insert(sql, [x EXCEPT !.status = "settled"])
MemCreateCommission(x) == Insert(mem, Settled(x))
\* The INSERT names the status itself.
CreateCommission(x) == Call(Wrap(SqlCreateCommission(x)), MemCreateCommission(x), x.status # "pending")

CreditsTo(rows, t, user) == {c \in Owned(rows, t) : c.user = user}

\* ListDeposits, and ListCommissions.
SqlListCredits(t, user) == Answer(sql, CreditsTo(sql, t, user))
MemListCredits(t, user) == Answer(mem, CreditsTo(mem, t, user))
ListCredits(t, user) == Call(Wrap(SqlListCredits(t, user)), MemListCredits(t, user), TRUE)

CreditCalls ==
  /\ table \in {"deposits", "commissions"}
  /\ \/ \E x \in CreditRows :
          /\ x.id \in Fresh
          /\ \/ table = "deposits" /\ CreateDeposit(x)
             \/ table = "commissions" /\ CreateCommission(x)
     \/ \E t \in Owners, u \in Keys : ListCredits(t, u)

BalanceRows == [id : RowIds, balance : {0}]

WithBalance(rows, found, delta, error) ==
  LET res == ChangeOne(rows, found, LAMBDA u : [u EXCEPT !.balance = @ + delta], error) IN
  Returning(res, {u.balance : u \in res.value})

BalanceOfNewUser(x) == Call(Insert(sql, x), Insert(mem, x), TRUE)

SqlAddUserBalance(id, delta) == WithBalance(sql, ById(sql, id), delta, NoRows)
\* No user is a user whose balance is zero.
MemAddBalance(id, delta) ==
  LET found == ById(mem, id) IN
  IF found # {} THEN WithBalance(mem, found, delta, "") ELSE Answer(mem \cup {[id |-> id, balance |-> delta]}, {delta})
\* The double makes the user whose balance it is to raise.
ResellerAddBalance(id, delta) ==
  Call(Wrap(SqlAddUserBalance(id, delta)), MemAddBalance(id, delta), ById(sql, id) # {})

BalanceCalls ==
  /\ table = "users, balance"
  /\ \/ \E x \in BalanceRows : x.id \in Fresh /\ BalanceOfNewUser(x)
     \/ \E id \in RowIds : (\A u \in ById(sql, id) : u.balance < CountBound) /\ ResellerAddBalance(id, 1)

-----------------------------------------------------------------------------
(* Customers' devices, as the ACS last reported them.                       *)

DeviceRows == [tenant : Owners, device : Keys, ssid : Keys]

DeviceIn(rows, t, device) == {d \in Owned(rows, t) : d.device = device}
Reported(rows, x) == Answer((rows \ DeviceIn(rows, x.tenant, x.device)) \cup {x}, {x})

SqlUpsertAcsDevice(x) == Reported(sql, x)
MemDeviceUpsert(x) == Reported(mem, x)
DeviceUpsert(x) == Call(Wrap(SqlUpsertAcsDevice(x)), MemDeviceUpsert(x), TRUE)

SqlListAcsDevices(t) == Answer(sql, Owned(sql, t))
MemDeviceList(t) == Answer(mem, Owned(mem, t))
DeviceList(t) == Call(Wrap(SqlListAcsDevices(t)), MemDeviceList(t), TRUE)

SqlGetAcsDevice(t, device) == One(sql, DeviceIn(sql, t, device), NoRows)
MemDeviceGet(t, device) == One(mem, DeviceIn(mem, t, device), "wrapped")
DeviceGet(t, device) == Call(Wrap(SqlGetAcsDevice(t, device)), MemDeviceGet(t, device), TRUE)

DeviceCalls ==
  /\ table = "acs_devices"
  /\ \/ \E x \in DeviceRows : DeviceUpsert(x)
     \/ \E t \in Owners : DeviceList(t) \/ \E k \in Keys : DeviceGet(t, k)

=============================================================================
