# TLA+ models and proofs of HSBillnRadius

HSBillnRadius is a multi-tenant billing and RADIUS backend for internet service
providers: it issues monthly invoices, takes payments by hand and through
payment gateways, keeps a cashbook, isolates customers who do not pay, answers
RADIUS authentication and accounting, and sends WhatsApp notifications.

This directory holds TLA+ modules that model parts of it, TLC configurations
that check small instances, and proofs, checked by TLAPS, that hold for every
instance. `PROJECT.json` lists the components, the runs, the source lines every
definition translates, the hazards and the theorems. Paths below are relative to
the repository.

    tlc -config MCSettlement.cfg MCSettlement
    tlapm SettlementProofs.tla

## The system

Five binaries share one PostgreSQL database (READ COMMITTED, `WithTx` in
`internal/platform/postgres`) and a Redis used as a cache and for rate limits.

| process | what it runs |
|---|---|
| `cmd/api` | REST API for staff and customers, webhooks of the payment gateways |
| `cmd/radius` | RADIUS authentication and accounting over UDP, the accounting writer |
| `cmd/scheduler` | overdue job (daily), isolation scan (every 15 minutes) |
| `cmd/worker` | polls the notification queue |
| `cmd/migrate` | schema migrations |

They never call each other: they meet in database rows (and in the RADIUS cache).
That is where the behaviour a test hardly reaches comes from, so the models are
built around rows, transactions and the order of statements.

### Inventory

| component | state it keeps | operations | what is hard | what makes it correct |
|---|---|---|---|---|
| invoices and manual payments (`billingsvc`) | `invoices`, `payments`, `ledger_entries`, `customers.active_until` | GenerateMonthly, MarkOverdue, Void, PayInvoice | status read before the transaction, rows written by id, racing with webhooks | cashbook and invoices agree; no payment counts twice; service follows income |
| gateway payments (`paymentsvc`) | `payments`; the provider's charges | CreateCharge, HandleCallback, settle | notifications late, repeated, contradictory; replay check outside the transaction | collected money is booked, once; nothing is booked before it is collected |
| transactions (`platform/postgres`, `repo/store.go`) | row locks, uncommitted writes | WithTx | abort at every statement, lock order | all or nothing; requests end |
| notification queue (`notifysvc`, `cmd/worker`) | `notification_logs` | Enqueue, ClaimDue, deliver, MarkSent, Retry, Fail | several workers, leases, deadlines, crashes, lost answers | no row has two workers; outcomes are final; every message ends |
| service access (`billingsvc` scan and restore, `repo/radiusmap.go`, `coasvc`) | `customers.status`, `radusergroup` | RunIsolirScan, Isolate, Restore, disconnect of sessions | scan of a stale list, best-effort steps, no transaction | the expired are isolated in the end, the paid are not |
| customers (`customersvc`) | `customers`, `radcheck` | Create, Update, Delete | rows read and written back, renames | a deleted customer cannot log in; an edit undoes nothing |
| RADIUS authentication (`radiussvc`, `platform/cache`) | cached users and NAS | Lookup, NasByIP, Invalidate | stale fill after an invalidation | a switch of the group takes effect within the TTL |
| RADIUS accounting (`transport/radiusapi`, `AcctWriter`) | `radacct`, bounded queues | Start, Interim, Stop, drain | retransmitted and reordered packets, overflow, shutdown | one row per session, closed in the end |
| staff sessions (`authsvc`) | `refresh_tokens` | Login, Refresh, Logout, Register | concurrent rotation, reuse detection against it | a token is good for one session; a spent one for none |
| plans and bandwidth (`plansvc`) | `plans`, `bandwidth_profiles`, `radgroupreply` | Create, Update, Delete | three tables rewritten by overlapping transactions | the group's replies are those of the plan |
| vouchers (`vouchersvc`) | `voucher_batches`, `vouchers`, `radcheck` | GenerateBatch, Redeem | a colliding code inside a transaction | a batch is whole or absent |
| tickets (`ticketsvc`) | `tickets`, `ticket_events` | Create, Transition | check, write and event are three statements | the timeline leads to the status |
| resellers (`resellersvc`) | `users.balance_idr`, `deposits`, `commissions` | Topup, Record | concurrent credits of one user | the balance is what the rows add up to |
| rate limiter (`platform/ratelimit`) | a Redis counter with a TTL | Allow | the key exists before its expiry does | nobody is locked out for ever |
| repositories and their test double (`repo`, `repo/sqlc`, `repo/memrepo`) | every table, twice | some 120 methods | the double is written by hand | a service that passes its tests on the double works on PostgreSQL |
| NAS registry (`nassvc`), TR-069 (`acssvc`), OLT | `nas`, `acs_devices` | rows of devices | single statements and device I/O | the repository calls only |
| HTTP, config, logging, passwords, tokens | – | – | pure functions and input and output | not modelled |

`PROJECT.json` "hazards" gives the line at which each hard behaviour bites, and
the properties that cover it; a note says where they stop, and why when there is none.

## What is modelled

### `Settlement`: invoices, payments, cashbook, paid-up service

A *worker* is a request of `cmd/api` that is under way. `pc` names the next SQL
statement it sends, and each statement is one action, so requests interleave as
they do under READ COMMITTED.

| state | code |
|---|---|
| `invoice` | committed `invoices.status` of each (customer, month) |
| `payment` | committed `payments.status` by idempotency key: `manual-inv-<id>` for a cashier, the order id for a charge |
| `income` | committed income rows of the ledger by payment |
| `service` | `customers.active_until` in plan periods ahead of the clock |
| `outbox` | payments whose "paid" message is enqueued |
| `provider`, `sent` | the gateway's side: its charges, the notifications it sent (a set: they repeat and come in any order) |
| `pc`, `key`, `verdict`, `owns`, `until` | what a request remembers: its place, payment, the status it was notified of, whether it holds the payment row, the expiry it computed |

Four requests share the worker:

    PayInvoice      PayRead -> InsertPayment -> MarkInvoicePaid -> ReadCustomer
                      -> SetActiveUntil -> Commit -> Notify
    HandleCallback  Callback -> MarkPaymentStatus                  (failed, expired)
                    Callback -> SettlePayment -> ReadInvoice       (settled)
                      -> CommitSettled  if the invoice is paid already
                      -> MarkInvoicePaid -> ... as above otherwise
    CreateCharge    ChargeRead -> GatewayCharge -> InsertPending
    Void            VoidRead -> SetVoid

`GenerateMonthly` and `MarkOverdue` are single statements or a transaction whose
intermediate states nobody sees. `Abort` ends a request at any statement: a
failing query, a client that went away, a killed process.

A transaction's writes become visible in `Commit` at once. Until then the rows
are locked; who holds what is not a variable but follows from `pc` (`HoldsPayment`,
`HoldsInvoice`, `HoldsCustomer`), and the actions that write such a row wait
(`PaymentFree`, ...). Reads never wait, as in PostgreSQL.

`MarkOverdue` waits for the rows it will write and is otherwise one step: whoever waits
for a row it has locked meanwhile holds no other invoice.

Abstractions: amounts, taxes and texts are left out. The clock does not advance
between settlements, so an expiry is a number of periods. No operation creates a
draft invoice, so the status "draft" is left out. `GenerateMonthly` creates the
invoice of one customer and month, as in the code. Foreign keys take KEY
SHARE locks, which do not conflict with the status updates. Customers have a phone
number, so `Notify` always enqueues.

### `InvoiceBook`: what billing promises

The status table of `internal/domain/billing` in which becoming paid, booking one
income row and extending the customer are a single step that an invoice takes at
most once. `Settlement!BookSpec` is this module under `status <- invoice,
periods <- service`.

### `SettlementInv`: the inductive invariants

`IInv` and `PaidFor`, and `WaitsFor`, which says whose row lock a request's next statement
waits for; used by the proofs and by the MC module.

### `NotificationQueue`: the message queue and its workers

| state | code |
|---|---|
| `status`, `wait`, `attempts` | a row of `notification_logs`; `wait` is the time until `next_attempt_at` |
| `batch`, `left` | the jobs a poll has claimed, and the time until its context is done |
| `current`, `outcome` | the job that was delivered and is not recorded, and how it went |
| `accepted`, `forgotten` | bookkeeping for the properties: how often the provider took the message, and whether that ever went unrecorded |

`Claim` is the one-statement `ClaimDue`; `Deliver` is the call to the provider with
every way it can go, the lost answer included; `Record` is MarkSent, Fail or Retry;
`RecordFails`, `Lapse` (deadline) and `Crash` are the ways it does not happen.

Abstractions: clocks of workers and database agree. Time is a countdown in units
of the poll interval. `Enqueue` enters only the dedup key. Which due rows a full
batch leaves out is any choice. After the deadline the calls that are left fail
without writing, so they are one step (`Lapse`). `accepted` stops counting at 2
and `attempts` at `MaxAttempts`, where the code's counters go on: nothing compares
them beyond that (`deliver` asks whether the attempts are used up, and then gives up). The backoff is
not given a width.

### `MessageDelivery`: what the queue promises

The same queue without workers, leases, deadlines and crashes: a message is enqueued,
taken by the provider any number of times, and concluded once. It may be handed over
again, or given up although the provider has it, only when it is in `lost`.
`NotificationQueue!DeliverySpec` is this module under `state <- status`,
`taken <- accepted` and `lost <- Lost`: an acceptance is lost once it is forgotten or
once the worker that holds it has run out of time, for then nothing will record it.

### `ServiceAccess`: who is served and who is cut off

A *switcher* is the isolation scan or a payment that has committed and restores
the customer; both run `coasvc.switchGroup`. A *lookup* is a RADIUS request that
missed the cache. They share nothing but rows and the cache entry, so every
statement outside a transaction is a step.

| state | code |
|---|---|
| `status`, `expired` | `customers.status`, and whether `active_until` has passed |
| `rows` | the groups in the customer's `radusergroup` rows: the plan's, the isolation group |
| `at`, `who`, `todo` | where a switcher stands, its customer, what is left of the scan's list |
| `cache`, `ttl` | the cached `AuthInfo` in Redis, by the groups it was made from |
| `reading`, `got`, `left` | a lookup between its query and its cache write, and its deadline |
| `grace`, `torn` | bookkeeping for the properties: how long a stale reply may still be around, and at whom a switch was disturbed |

    scan       List -> TakeOn -> DeleteRows -> InsertRow -> Forget -> Mark -> TakeOn ...
    payment    Settle -> DeleteRows -> InsertRow -> Forget
    lookup     Read -> Fill | GiveUp

`SwitchFails`, `ForgetFails` and `MarkFails` are the errors the code logs or drops
before it goes on; `Crash` is a dead process or the scan's five minutes. A customer
is `torn` when a switch failed half-way, was left behind after a payment, or when
the scan and a payment were at the same customer; the next switch that begins
alone mends that. Where nothing tore, the properties hold exactly.

Abstractions: one scan at a time (its deadline is shorter than the cron interval).
A plan period is longer than a request or a scan, so nobody expires while listed
or being restored. Group rows are a set: a second identical row changes no reply.
Which of too many due customers a list takes is any choice. A cache hit changes
nothing and is no step. Customers have a plan and a user name. Edits by
`customersvc` and the disconnect of running sessions are not modelled here.

### `Accounting`: sessions as the network reports them

The device, its packets, the handlers of the datagram server, the writer's bounded
queue, `radacct` and the disconnect that reads it, in one module: what is lost or
overtaken at one place shows at another.

| state | code |
|---|---|
| `link`, `used`, `sent`, `answered` | the device: its sessions, what it has counted, its packets, the ones it has an answer for |
| `arrived`, `repeated`, `repeats`, `early` | bookkeeping: what reached the socket, how often, and who hung up before the Start was answered |
| `jobs`, `handling` | `radiusserver`: the channel and the packet each worker is at |
| `queue`, `writer`, `stopping` | `AcctWriter`: its channel, whether it runs, drains or has stopped, and whether SIGTERM came |
| `rows`, `usage` | `radacct` by session and start second, with its counters |
| `kicked` | what `coasvc.disconnectSessions` has listed and not disconnected |
| `applied`, `excused` | bookkeeping: what was written, what was knowingly lost |

    device     Connect -> Update* -> Hangup
    packet     Arrive -> Take -> Handle | Drop           (any number of times until answered)
    writer     Write ... Drain -> Drained -> Exit
    coasvc     List -> Disconnect | DisconnectFails ...

The handler stamps a Start with the server's clock, so a repeated Start a second
later opens a second row; the comment of `ComputeUniqueID` ("collapse to one row")
holds within one second. `OnceIsExact` therefore speaks of Starts that arrived
once. `AnsweredIsKept` excuses what a full queue turned away, what a failing write or a
crash took, and what a handler submitted after the drain (`excused`); a shutdown must
bring everything else to the table. `Handle` answers whether or not there was room; `Drop` is a packet without
NAS, a malformed one or a panic; `Crash` and `Exit` empty what is in memory.

### `RadiusLogins`: customers and the logins kept for them

An *edit* is a request of `customersvc` (create, update, delete). It is a record: what
it has read (`seen`), what it writes (`new`), where it stands (`at`), and the rows
its transaction has deleted and inserted. The scan and payments give a customer a
status in a statement of their own (`SetStatus`). A customer is `StatusNew` unless the
request that creates it says otherwise. Nothing tells the other `Statuses` (active, isolated,
suspended, terminated, free) apart: they are given in the same three ways.

    create     InsertRow -> Provision -> CommitEdit
    update     (read) -> UpdateRow -> ClearUser if renamed -> Provision -> CommitEdit
    delete     (read) -> SoftDelete -> ClearUser -> CommitEdit

What an edit works on may be out of date, since `GetByID` takes no lock. Two
sets say where: `stale` holds the names an edit has cleared or filled from a row that
was no longer true, `overtaken` the customers whose status was changed between an
edit's SELECT and its UPDATE. `LoginsMatch` and `StatusIsMeant` hold exactly outside
them, `OneLoginPerName` everywhere: the unique index carries it even there.

### `StaffSessions`: refresh tokens

A *client* presents a token: `ReadToken` (which finds it live, or revoked and goes on to
revoke the family), `LockToken` (the transaction's UPDATE), `CommitRefresh` (the new
token). `RevokeAll` takes its snapshot in one step and writes in another, so a token
issued in between escapes it. `shared` are the tokens with which two refreshes
overlapped: each of those may get an heir, which is why `OneHeir` leaves them out.

### `Plans`, `Vouchers`, `Tickets`, `Resellers`, `RateLimit`

| module | state | a transaction or request |
|---|---|---|
| `Plans` | `plan`, `profile`, `replies` and, by request, `planner`, `doing`, `asks`, `dropped`; `planLock` | BeginPlanning -> WritePlan -> SetGroupReply -> CommitPlan |
| `Vouchers` | `batch`, `inserted`, `provisioned`, `attempts`, `refused`; `batchOf`, `redeemed`, `codeLogins` | CreateBatch -> (CreateVoucher -> ProvisionVoucher)* -> CommitBatch; CodeCollides -> Retry* -> GiveUp |
| `Tickets` | `ticket`, `timeline` and, by request, `agent`, `from`, `to`; `muddled` | ReadTicket -> UpdateTicketStatus -> AddTicketEvent |
| `Resellers` | `balance`, `deposits`, `commissions` and, by transaction, `credit`, `source`, `amount` | InsertCredit -> AddBalance -> CommitCredit |
| `RateLimit` | `counter`, `keyTTL`, `caller`, `broken` | Incr -> ExpireKey; Elapse |

Every statement may fail (`AbortPlan`, `FailBatch`, `LoseTicketEvent`, `AbortCredit`,
`ExpireFails`). In PostgreSQL a failed statement aborts its transaction: after a
code collided, `createOne`'s "retry with a new code" is refused whatever the code
(`Retry` only counts), and the batch fails. In `Tickets` no statements share a
transaction; `muddled` says that requests on one ticket overlapped or that an event
was lost, and `TimelineIsPath` leaves that case out. In `RateLimit`, `broken` says that
the EXPIRE of a key failed; `LockoutEnds` leaves that out, since the key never goes away.
`MikrotikRate` is the rate string as the set of its parts: up to the first that is
missing.

### `Stores`, `Store...`, `TestDouble`: the repositories and their double

Every test of a service runs on `internal/repo/memrepo` in place of `internal/repo`
and the generated statements of `internal/repo/sqlc`. `Stores` says what a call is:
both sides answer, with rows, error and value. `StoreDirectory` (tenants, users,
roles, tokens, audit), `StoreSubscribers` (plans, profiles, customers),
`StoreRadius` (radcheck and its kin, NAS, radacct), `StoreBilling` (invoices, payments,
ledger, gateways) and `StoreSupport` (notifications, templates, vouchers, tickets,
resellers, devices) translate each method three times: the statement (`Sql...`), the
double's method (`Mem...`), and the call, which adds the error mapping of the adapter
and names the cases where the two part. `DoubleAgrees` checks both directions: they
agree wherever the call says so, and part wherever it says that. `TestDouble` puts all
tables under one specification.

The calls name these differences, each at its definition: the double lets two invoices
have one number, two payments one reference, two tenants one domain, two roles or
plans one name, two customers one user name; it changes a tenant's slug, finds,
overwrites and deletes other tenants' users and moves other tenants' profiles; its
catalog of permissions has 10 codes and the table 16; it compares due dates with the
time of day, counts into closed sessions, knows no lease in `ClaimDue`, makes the user
whose balance is to be raised, minds updates that find nobody, and replaces a tenant's
WhatsApp gateway where the statement (an INSERT) adds one, which leaves the old one
in use. A service test that relies on one of these says nothing about
production.

Abstractions: a list is a set (order, limit and offset are left out); rows of other
tables a foreign key points to exist; citext does not fold case; ids of upserts and
timestamps are left out; so is `WithTx` of the double, which neither isolates nor rolls
back: concurrency is the subject of the other modules.

### `BackOffice`

The eight small parts side by side. They share no state, so a behaviour is one of a
single part (`part` says which), and one run checks them all. `TablesAgree` is what the
transactional ones have in common.

Definitions whose names end in `_Bug` are plausible mistakes in the action of the
same name. No specification uses them; each serves to see a property fail.

## What the runs check

| run | instance | shows |
|---|---|---|
| `settlement` | 2 requests, 1 invoice that can be paid by hand, charged, voided and fall overdue, 1 abort | `PaidMeansBooked`, `BookedMeansClosed`: cashbook and invoices agree; `ManualIncomeOnce`: one manual income row per invoice; `CollectedBeforeBooked`; `NoticeMeansBooked`; and under fairness `RequestsEnd` (no lock cycle, no lost wait) and `CollectedIsBooked` |
| `settlement_customer` | 2 requests, 2 invoices of one customer, one of them voidable | `IncomeOncePerPayment`, `SettledMeansPaid`, `PaidStaysPaid` where nobody voids; `ServiceWithinIncome` |
| `settlement_webhooks` | 2 overlapping webhooks or charges, 2 customers with one invoice each, 1 abort | `BookSpec`: settlement implements `InvoiceBook` when webhooks are the only way to pay and nothing is voided |
| `notifications` | 2 workers, 2 messages, 2 attempts, 1 fault | `LeaseExclusive`, `TwiceMeansForgotten`, `OutcomeIsFinal`; `DeliverySpec`: the queue implements `MessageDelivery`, so nothing counts as sent that was not taken, and nothing is given up that is known to be taken |
| `notifications_end` | 1 worker, 2 messages in one batch, 1 fault, fairness | `EveryMessageEnds` |
| `service_access` | the scan taking one customer at a time, 1 payment, 1 lookup, 2 customers, 1 fault | `ActiveIsServed`, `IsolatedIsCut`: status and group agree once nobody is at work, after every crash and failed mark; `StaleIsBrief`: a cached reply is outdated for one request and one cache life at most; under fairness `ExpiredIsIsolated`: nobody is overlooked |
| `accounting` | 1 session with an interim update, 2 handlers, a queue of 2, 2 seconds, 1 repeated packet, 1 failing write or crash | `AnsweredIsKept`: an acknowledged packet is written, queued or excused, so that a shutdown loses nothing queued in time; `ClosedIsFinal`: counters of a closed row are the session's last; `RecordedIsListed`: who is online and recorded can be disconnected; `OnceIsExact`: one row, closed by its Stop; under fairness `ShutdownEnds` |
| `back_office` | each part alone: 2 customers, 2 names, 2 statuses, 3 edits by 2 requests; 3 tokens, 2 clients; 2 plan requests; 2 batches of 2 vouchers, 5 codes; 2 agents on a ticket; 3 credits; 2 callers; 2 rows per table | `LoginsMatch`, `OneLoginPerName`, `StatusIsMeant`; `OneHeir`, `SpentForGood`; `TimelineIsPath`; `TablesAgree`; `DoubleAgrees`; under fairness `LockoutEnds` |
| `void_then_pay` | 1 request at a time | violated: `VoidIsTerminal` |
| `lost_period` | 2 requests, 2 invoices of one customer | violated: `ServiceMatchesIncome` |
| `replayed_callback` | 3 requests, 1 invoice | violated: `ReplayBooksOnce` |
| `paid_then_isolated` | the scan, 1 payment, 1 customer, no faults | violated: `OnlyExpiredIsolated` |

**Bounds.** Every property of `Settlement` relates at most two requests to one
payment, one invoice or one customer: two requests cover every race of a pair, and
two invoices of one customer make them meet in the customer row. `ReplayBooksOnce`
needs two webhooks and a void at once, hence three. One second is enough
for an order id to collide, since both requests may stamp it. One abort at any
statement is followed by a retry, so a half-done and a repeated request meet.
In the queue, two rows and a batch of two make a poll lapse in its middle, and two
workers meet on both; one fault already makes a duplicate or a stranded row
possible, two attempts include the last one and one before it.
`MaxAborts` and `MaxFaults` bound how often something fails; they are in the
guards of `Abort`, `RecordFails` and `Crash`. Workers are interchangeable, but
no run with a liveness property uses that symmetry.
In `ServiceAccess`, a limit of one below two customers makes the list too short,
one payment and the scan meet at a customer, and one lookup meets both; the cache
lives two units and a request one, so an entry can outlive a stale read and either
can run out first. One fault at any statement is followed by clean steps.
In `Accounting`, one session is enough: rows of different sessions never touch. Two
handlers overtake each other, a queue of two fills while a third packet is at hand,
two seconds give a repeated Start two rows, and one repeat, one failure or crash can
hit any packet (795,862 states).
In `BackOffice`, two requests meet in every order, and a third edit meets what two
racing ones left behind: it takes three to rename, reuse and delete a name. Two statuses
are the one of a new customer and one that is given later. Three tokens
make a chain and a fork; five codes for four vouchers make collisions unavoidable and
success possible; `MaxAttempts` of the code (4) is kept. Two ids, owners and keys per
table are two rows of one or two tenants, alike or not in each unique column. The
limiter counts past its limit (2) up to 5, through windows of two units. The parts
have, in this order, 123, 112, 5, 6, 90, 48, less than 1 and 115 thousand states.
`MaxEdits`, `MaxEvents`, `MaxBalance`, `MaxCount`, `MaxClock`, `MaxUsage`, `MaxRepeats` and
`MaxFaults` are in the guards of the actions they bound.
The runs of `Settlement`, `NotificationQueue` and `BackOffice` set `CHECK_DEADLOCK FALSE`: with
everything paid or sent, and no edit, token or call left, the system may rest. That no request hangs is `RequestsEnd`.

**Fairness.** In `Settlement`, a statement that is enabled again and again is
executed (SF): PostgreSQL queues those who wait for a row lock. The provider
repeats a "settled" notification until it has been taken (SF on `Callback`), as
gateways do while they get no success answer; nothing makes a request begin
otherwise. With `PollPending` counting only, this is the single way money the
provider holds reaches the books, and `CollectedIsBooked` depends on it. In
`NotificationQueue`, time passes and a done context ends its poll (WF). The claim
takes the oldest rows first, so a row is not passed over for ever (SF per row), and
a row that gets the time is delivered and recorded (SF per row): progress rests on
calls that sometimes return within the deadline, and cannot be had without. A
crash and a failing write are bounded instead. In `ServiceAccess`, cron runs the
scan again and a scan goes on (WF), and the list is ordered by `active_until`, so
one who stays expired comes to be listed (SF per customer). That last assumption
hides what more than 500 customers whose mark always fails would do: they would
stay at the head of the list. Restores are under no fairness: they are best
effort, and no liveness is claimed for them. In `Accounting` the writer goes on, and
a process told to stop returns from `Run`, drains and exits (WF); handlers may fill
its queue all the while, and nothing is assumed of them. In `RateLimit` time passes
for a key that has a TTL, and a request that has counted goes on to its EXPIRE, which
works or fails (WF).

## Where the code and its own words disagree

* **A void invoice can be paid** (`void_then_pay`). PayInvoice, CreateCharge and
  settle turn away paid invoices only; `billing_test.go:62` says "void is
  terminal". This is why `BookedMeansClosed` says "paid or void".
* **A paid period can be lost** (`lost_period`). Two invoices of one customer
  settled at once read the same expiry. Only `ServiceWithinIncome` holds.
* **A replayed notification can book twice** (`replayed_callback`) when a void
  slips between: settle ignores that its update changed no row, and Void writes
  over a paid invoice. This is why `IncomeOncePerPayment` and `SettledMeansPaid`
  except invoices somebody may void.
* **One who pays can be cut off for it** (`paid_then_isolated`). The scan works
  through the list it read first; a payment in between is followed by isolation,
  and nobody looks at that customer again before their next period. This is why
  `ActiveIsServed` and `IsolatedIsCut` except `torn` customers.

## What is proved

For every set of workers, invoices, customers, orders, sessions, tokens, edits, codes
and so on, and for every bound, from the assumptions on constants in the modules
themselves (`ConstantsAssumption`, `NoKeyAssumption`, `QueueAssumption`,
`BackoffAssumption`, `AccessAssumption`, `AccountingAssumption`, `LoginsAssumption`,
`SessionsAssumption`, `PlansAssumption`, `VouchersAssumption`, `TicketsAssumption`,
`ResellersAssumption`, `LimiterAssumption`, `StoresAssumption`) alone.

**`SettlementProofs`** proves type correctness, that `IInv` is inductive, action by action,
and from it `PaidMeansBooked`, `BookedMeansClosed`, `ManualIncomeOnce`,
`IncomeOncePerPayment`, `SettledMeansPaid`, `CollectedBeforeBooked`,
`NoticeMeansBooked` and `PaidStaysPaid`.

The safety properties speak of committed rows only and are not inductive: they
need to know what open transactions are about to commit. `IInv` adds

* `RequestKinds`: which payments a request can be about where it stands;
* `PaymentExclusive`: at most one open transaction holds a payment row, which is
  what the row lock gives;
* `ManualRows`: a cashier past the INSERT holds a key that has neither row nor
  income, so its commit brings the first;
* `BookedOnce`: for an invoice nobody voids, whoever is on the way to a booking
  holds the payment row and the payment has no income; whoever does not hold it
  will find the invoice paid. The re-read of the invoice *after* the payment row
  was locked is what carries this step: it sees the commit of the transaction it
  waited for;
* `CollectedFirst`, `NoticeFollows`: what is being booked was collected, what is
  being announced was booked.

`SettledMeansPaid` follows from `BookedOnce`.

`ServiceIsPaidFor` is `ServiceWithinIncome`, for any number of invoices and payments of a
customer. Income is the number of income rows, a cardinality, so the library's
facts about finite sets stand in for an induction over payments: a commit adds one
row (`CommitAddsRow`, `CommitCounts`) and no step takes one away. Its invariant
`PaidFor` bounds the expiry an open transaction has computed by the income at
that moment plus the one row it is about to commit; two requests that computed the
same expiry are why it is a bound and no equality.

`NobodyDeadlocks` says that requests cannot wait for each other in a circle:
`NoDeadlock` (in any set of requests one waits for none of the set) follows from the
order in which settle and PayInvoice take their locks, payment before invoice before
customer, and holds in every state, typed or not; and a statement is only executed by a
request that waits for nobody (`TakenMeansFree`), so `WaitsFor` is all the waiting
there is. `RequestsEnd` rests on this and on fairness.

**`NotificationProofs`** proves the inductive invariant `QInv` of the queue and from
it type correctness, `LeaseExclusive`, `SentMeansAccepted`, `TwiceMeansForgotten`,
`OutcomeIsFinal`, and `QueueImplementsDelivery`: every step is one of `MessageDelivery`
or a stutter. `Deliver` is its `Take` (a row that was taken before and is not lost would
still be held by a live worker, so it is not in anybody's batch), `Record` its `Sent`, `Failed` or nothing,
and a `Tick`, a `Lapse`, a `Crash` or a failing write its `Forget` of the acceptances
that can no longer be recorded. The heart is `HeldUnderLease`: as long as a worker can act,
its rows are queued and not due before its deadline. It needs
`PollInterval <= Lease`, which the defaults satisfy (5 seconds, 2 minutes) and
nothing enforces: with a longer `WORKER_POLL_INTERVAL` it is false.
`BatchesDisjoint` is `LeaseExclusive` in the form the steps preserve;
`AcceptedKnown` and `UnrecordedAccepted` tie what the provider took to what a
worker or the bookkeeping knows of it.

**`ServiceAccessProofs`** proves type correctness and two inductive invariants. `GInv`,
for the groups, gives `ActiveIsServed` and `IsolatedIsCut`. Its parts say what holds
*during* a switch: `Restoring`, that among overlapping payments the plan's row is
there or somebody is about to write it (two payments may delete each other's row,
but then the later one still inserts); `Isolating`, that a scan alone at a customer
leaves the isolation group behind before it marks; `RivalsTear`, that a payment and
the scan never meet untorn; `ListedAreActive` and `RestoredHavePaid`, that a switcher
that dies leaves a status its group fits. `CInv`, for the cache, gives
`StaleIsBrief`: an outdated entry lives no longer than its grace (`EntryInGrace`),
nor will one that a lookup may still write (`ReadInGrace`). It needs neither the
invalidation nor its order with the lookup: the deadline of a request and the
life of an entry carry it.

**`SettlementProofs`** also proves `SettlementImplementsBook`: under `OneWayToPay`
(webhooks are the only way to pay, an invoice has one order and a customer one
invoice, nothing is voided), every behaviour of `Settlement` is one of `InvoiceBook`. A
`Commit` is its `Settle`, and every other step an `Issue`, a `FallDue` or a stutter.
`OrdersOnly` is the invariant it needs beyond `IInv`: who is under way is about an order
of an issued invoice, and a computed expiry stays the next one, since nobody
else can extend that customer while the payment row is held. The violated runs
`lost_period` and `replayed_callback` show that the assumption cannot be dropped.

**`AccountingProofs`** proves type correctness and three inductive invariants. `RInv` gives
`ClosedIsFinal`: what is in flight with an end is the device's last word (`SentIsTrue`),
and a row needs a Start (`StartHasRow`). `KInv` gives `RecordedIsListed` and
`AnsweredIsKept`: a packet a handler, a channel or the queue holds is not forgotten
without an excuse (`LateIsExcused`). `OInv` gives `OnceIsExact`: a Start that arrived once
is at one place between socket and table (`OnePlace`), it is written before a Stop can
be, because the device had an answer for it before it sent that (`StartBeforeStop`, `EndsAnswered`,
`NoLateStart`), and so there is one row (`OneRow`).

**`RadiusLoginsProofs`** proves type correctness, `LoginsMatch`, `OneLoginPerName` and
`StatusIsMeant`. `LInv` ties what open transactions hold: `RowLocked` (one writer per
customer row), `NamesApart` and `NamesReserved` (the unique index also holds for names
about to be committed), `Covered` (the logins of a name that is not stale are the ones of its
customer, and what an edit has deleted and inserted keeps that so), `KeptStatus` (an edit
that leaves the status alone will write the one the row has, or the customer is
overtaken).

**`StaffSessionsProofs`** proves type correctness, `HeirsReplace` (a token with an heir is
revoked), `OneHeir` and `SpentForGood`. `LoneIsOnce` in `SInv` says that an unshared token is with
one refresh at a time and with none once it has an heir.

**`BackOfficeProofs`** proves the smaller parts: `GroupsMatchPlans` (`PlanHeld`: behind the lock
on the plan's row, what the DELETE found is what is there at the commit),
`BatchesAreWhole` (`BatchStaged`, `BatchesApart`), `TimelinesArePaths` (`OrderlyWork`: while one
request at a time works on a ticket, the event it will add follows the timeline),
`BalancesAreBacked`, `CountersExpire`; and then `PartsAreKept`, that `BackOffice` implements the
specification of each part, from which `BackOfficeTypes`, `TablesGoTogether` and
`PromisesAreKept` carry all of it over to the composition.

**`TestDoubleProofs`** proves `DoubleIsFaithful`, that is `DoubleAgrees` for any number of
rows, tenants and keys. TLC's two rows to a table are few for methods that read, filter and
rewrite sets of rows, so this is where the proof adds most. The invariant `DoubleInv` says
that until a call on which the two differ the double holds what PostgreSQL shows (`View`)
and that the rows are what the calls could have left (`Sound`). The second part is what
several of the agreements rest on: a row has an id of its own (users, tenants,
customers), a session one row, an address one access server, a tenant one gateway, as long
as nobody has made the call that ends this. There is one lemma to a table and in it one step to
a method, and each splits on the condition the call names. Where it holds, `AnswersAgree`
closes the step; where it does not, the proof exhibits the difference (`AnswersDiffer`,
`OnlyOneRefuses`): the named differences are all there are, and none of them is
named in vain.

Only model-checked: liveness (`RequestsEnd`, `CollectedIsBooked`,
`EveryMessageEnds`, `ExpiredIsIsolated`, `ShutdownEnds`, `LockoutEnds`), which is out of the
prover's reach.

## Noticed while modelling

Races and failures that the models contain and that a history variable takes out of a
property, so that the property says that nothing else goes wrong:

* An accounting event that a handler submits after the drain has found the queue empty
  is lost although nothing failed (`excused`); `acctwriter.go:57` says that the drain
  "flushes any buffered events on shutdown".
* Delete clears the user name it has read; with a rename in between, the deleted customer
  keeps a login (`stale`), against `customersvc.go:133`.
* Update without a status writes back the one it has read (`overtaken`).
* Two refreshes that have read one token before either commits both succeed, and the
  reuse is not noticed (`shared`; compare `authsvc_test.go:140`).
* A transition that read a ticket before it was closed moves it on (`muddled`;
  `ticketsvc_test.go:52` says "closed is terminal").
* A Redis that fails between INCR and EXPIRE locks a client out for good (`broken`),
  against `ratelimit.go:24`.

Not stated as properties, since no sentence of the repository promises otherwise or the
model abstracts from the part in question:

* A customer's update or deletion leaves the cached RADIUS reply in place until its
  TTL; only a switch of the group drops it.
* Voucher codes and PPPoE user names share `radcheck` without a common unique index.
* `authsvc` and `plansvc` write audit rows "logging (but not failing)" inside the
  transaction; in PostgreSQL a failing INSERT aborts it all the same.
* `UpsertGateway` (WhatsApp) is an INSERT: the row in use stays the old one.
* `NasByIP` ignores the tenant, while the unique index on `nas` is per tenant.
* Deleting a plan leaves its customers in a group without replies.
* `CreateTenant` reports `ErrSlugTaken` for a domain that is taken.
* `CreateCommission` ignores the status it is given. Commissions are recorded for
  manual payments only, after the commit and on a best-effort basis.
* `WORKER_POLL_INTERVAL` above the lease lets two workers deliver one row
  (`QueueAssumption` is not enforced).

## Not modelled

* HTTP transport, request validation, configuration, logging, password hashing, JWTs and
  webhook signatures: pure functions, or input and output; signatures are taken to work.
* TR-069, OLT and RouterOS devices beyond the rows they leave: device I/O.
* Amounts: invoice totals, proration and taxes are arithmetic on one request's
  data; the models tell amounts apart only where a balance or a counter is kept.
* `Register` as an operation (its statements are calls of `StoreDirectory`: inserts
  nobody else reads before the commit), `IDsByCodes`, `ConfigureGateway` and
  `PollPending` in `Settlement` (it counts).
* The commission after a manual payment as part of `Settlement`: `Resellers` has what
  it does to the balance, and no property relates the two, because nothing in the
  code makes one follow the other.
* Texts of notifications and errors, order and paging of lists.
* A charge that exists at the provider while the payment row was never stored is
  modelled, but no property speaks of it: nothing in the code promises anything for
  it.

## How it was built, and what is left

`Settlement` came first, with `InvoiceBook`, `NotificationQueue` and `ServiceAccess`; then
`Accounting`, `RadiusLogins` and `StaffSessions`; then the smaller parts and the
repositories. Proofs followed each module once TLC agreed with its invariant.
Left for later: the commit of `Settlement` and the restore of `ServiceAccess` in one
module (they meet in `customers.status` only), the cache in front of `RadiusLogins`, and
invoice arithmetic against a reference.
