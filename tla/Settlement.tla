----------------------------- MODULE Settlement -----------------------------
(***************************************************************************)
(* Invoices, payments, cashbook income and the paid-up service of the      *)
(* customers, as internal/service/billingsvc and internal/service/         *)
(* paymentsvc drive them through the SQL of internal/repo/queries.         *)
(*                                                                         *)
(* A worker is one in-flight request: an HTTP handler of cmd/api.  Every   *)
(* statement it sends to PostgreSQL is a step of its own, so requests      *)
(* interleave between statements as they do under READ COMMITTED.  What a  *)
(* transaction wrote becomes visible at its commit; until then the rows it *)
(* wrote are locked, which the operators Holds... derive from the          *)
(* worker's position.  The payment provider is outside the system: it      *)
(* takes charges and sends notifications that may arrive late, repeatedly  *)
(* and in any order.                                                       *)
(*                                                                         *)
(* A definition whose name ends in _Bug is the one that follows it with a  *)
(* mistake in it; no specification uses it.  PROJECT.json says which       *)
(* property notices which mistake.                                         *)
(***************************************************************************)
EXTENDS Naturals, FiniteSets

CONSTANTS
  Workers,          \* concurrent requests
  Invoices,         \* the (customer, month) pairs an invoice may exist for
  Customers,
  CustomerOf,       \* the customer an invoice bills
  Seconds,          \* wall-clock seconds an order id may be stamped with
  Payable,          \* invoices a cashier may settle by hand
  Voidable,         \* invoices an operator may void
  Manual,           \* marks the key of a payment taken by hand
  NoKey,            \* no request
  MaxAborts         \* how many requests may fail or crash half-way

ASSUME ConstantsAssumption ==
  /\ CustomerOf \in [Invoices -> Customers]
  /\ Payable \subseteq Invoices
  /\ Voidable \subseteq Invoices
  /\ Manual \notin Seconds
  /\ MaxAborts \in Nat

\* The idempotency keys of payments: manual-inv-<id>, and the order id
\* t<tenant>-inv<id>-<unix second> of a gateway charge.
OrderKeys  == Invoices \X Seconds
ManualKeys == Invoices \X {Manual}
Keys       == OrderKeys \cup ManualKeys

ASSUME NoKeyAssumption == NoKey \notin Keys

InvoiceStatus  == {"none", "unpaid", "overdue", "paid", "void"}
PaymentStatus  == {"none", "pending", "settled", "failed", "expired"}
ProviderStatus == {"none", "open", "settled", "expired"}
Verdicts       == {"settled", "failed", "expired"}

VARIABLES
  invoice,    \* committed invoices.status; "none": no row yet
  payment,    \* committed payments.status by idempotency key
  income,     \* how many ledger income rows were committed for a payment
  service,    \* customers.active_until, in plan periods ahead of the clock
  outbox,     \* payments whose "paid" message is in notification_logs
  provider,   \* the provider's own view of each charge
  sent,       \* notifications the provider has sent: <<order key, verdict>>
  pc,         \* where each worker stands
  key,        \* the payment each worker is about
  verdict,    \* the status its notification carries
  owns,       \* its transaction wrote the payment row and holds its lock
  until,      \* the active_until it has computed
  aborts      \* requests that have failed half-way so far

dbVars     == <<invoice, payment, income, service, outbox>>
netVars    == <<provider, sent>>
workerVars == <<pc, key, verdict, owns, until>>
vars       == <<dbVars, netVars, workerVars, aborts>>

Locations == {"idle", "insert_payment", "settle_payment", "read_invoice",
              "mark_status", "mark_invoice", "read_customer", "set_active",
              "commit", "commit_settled", "notify", "set_void",
              "gateway_charge", "insert_pending"}

TypeOK ==
  /\ invoice \in [Invoices -> InvoiceStatus]
  /\ payment \in [Keys -> PaymentStatus]
  /\ income \in [Keys -> Nat]
  /\ service \in [Customers -> Nat]
  /\ outbox \subseteq Keys
  /\ provider \in [OrderKeys -> ProviderStatus]
  /\ sent \subseteq OrderKeys \X Verdicts
  /\ pc \in [Workers -> Locations]
  /\ key \in [Workers -> Keys \cup {NoKey}]
  /\ \A w \in Workers : pc[w] # "idle" => key[w] \in Keys
  /\ verdict \in [Workers -> Verdicts]
  /\ owns \in [Workers -> BOOLEAN]
  /\ until \in [Workers -> Nat]
  /\ aborts \in 0..MaxAborts

Init ==
  /\ invoice  = [i \in Invoices |-> "none"]
  /\ payment  = [k \in Keys |-> "none"]
  /\ income   = [k \in Keys |-> 0]
  /\ service  = [c \in Customers |-> 0]
  /\ outbox   = {}
  /\ provider = [k \in OrderKeys |-> "none"]
  /\ sent     = {}
  /\ pc       = [w \in Workers |-> "idle"]
  /\ key      = [w \in Workers |-> NoKey]
  /\ verdict  = [w \in Workers |-> "settled"]
  /\ owns     = [w \in Workers |-> FALSE]
  /\ until    = [w \in Workers |-> 0]
  /\ aborts   = 0

-----------------------------------------------------------------------------
(* Row locks.  UPDATE and INSERT lock the row they write until the          *)
(* transaction ends; a statement that would write a locked row waits.       *)

InvoiceOf(k) == k[1]

HoldsPayment(w, k) ==
  /\ key[w] = k
  /\ owns[w]
  /\ pc[w] \in {"read_invoice", "mark_invoice", "read_customer", "set_active",
                "commit", "commit_settled"}

HoldsInvoice(w, i) ==
  /\ pc[w] \in {"read_customer", "set_active", "commit"}
  /\ InvoiceOf(key[w]) = i

HoldsCustomer(w, c) ==
  /\ pc[w] = "commit"
  /\ CustomerOf[InvoiceOf(key[w])] = c

PaymentFree(k)  == \A w \in Workers : ~HoldsPayment(w, k)
InvoiceFree(i)  == \A w \in Workers : ~HoldsInvoice(w, i)
CustomerFree(c) == \A w \in Workers : ~HoldsCustomer(w, c)

-----------------------------------------------------------------------------
(* Worker bookkeeping.                                                      *)

Goto(w, l) == pc' = [pc EXCEPT ![w] = l]

Start_Bug(w, k, l) ==       \* the request forgets what it is about
  /\ pc[w] = "idle"
  /\ UNCHANGED key
  /\ Goto(w, l)

Start(w, k, l) ==
  /\ pc[w] = "idle"
  /\ key' = [key EXCEPT ![w] = k]
  /\ Goto(w, l)

\* The request ends; what it remembered is gone.
Finish(w) ==
  /\ Goto(w, "idle")
  /\ key'     = [key EXCEPT ![w] = NoKey]
  /\ verdict' = [verdict EXCEPT ![w] = "settled"]
  /\ owns'    = [owns EXCEPT ![w] = FALSE]
  /\ until'   = [until EXCEPT ![w] = 0]

\* The allowed moves of an invoice (domain/billing, table transitions).
Transitions ==
  [none    |-> {},
   unpaid  |-> {"paid", "overdue", "void"},
   overdue |-> {"paid", "void"},
   paid    |-> {},
   void    |-> {}]

CanTransition(from, to) == to \in Transitions[from]

-----------------------------------------------------------------------------
(* billingsvc: invoices are issued, fall overdue and are voided.            *)

GenerateMonthly_Bug(i) ==   \* ON CONFLICT DO UPDATE SET status = 'unpaid'
  /\ invoice' = [invoice EXCEPT ![i] = "unpaid"]
  /\ UNCHANGED <<payment, income, service, outbox, netVars, workerVars, aborts>>

\* GenerateMonthly: one row per (customer, month); a second INSERT conflicts
\* and changes nothing, so only the first is a step.
GenerateMonthly(i) ==
  /\ invoice[i] = "none"
  /\ invoice' = [invoice EXCEPT ![i] = "unpaid"]
  /\ UNCHANGED <<payment, income, service, outbox, netVars, workerVars, aborts>>

MarkOverdue_Bug ==          \* without "status = 'unpaid'" in the WHERE clause
  \E due \in SUBSET {i \in Invoices : invoice[i] # "none"} :
    /\ due # {}
    /\ \A i \in due : InvoiceFree(i)
    /\ invoice' = [i \in Invoices |-> IF i \in due THEN "overdue" ELSE invoice[i]]
    /\ UNCHANGED <<payment, income, service, outbox, netVars, workerVars, aborts>>

\* MarkOverdue: one UPDATE over the unpaid invoices whose due date has passed
\* (which ones have is any choice).  It waits for locked rows.  That it locks them
\* one by one does not show: its writes appear together, and who waits for one of
\* its rows holds no other invoice, so that it is not waited for in return.
MarkOverdue ==
  \E due \in SUBSET {i \in Invoices : invoice[i] = "unpaid"} :
    /\ due # {}
    /\ \A i \in due : InvoiceFree(i)
    /\ invoice' = [i \in Invoices |-> IF i \in due THEN "overdue" ELSE invoice[i]]
    /\ UNCHANGED <<payment, income, service, outbox, netVars, workerVars, aborts>>

\* Void reads the invoice and checks the transition ...
VoidRead(w, i) ==
  /\ i \in Voidable
  /\ CanTransition(invoice[i], "void")
  /\ Start(w, <<i, Manual>>, "set_void")
  /\ UNCHANGED <<dbVars, netVars, verdict, owns, until, aborts>>

\* ... and writes the status with no condition on the row it finds.
SetVoid(w) ==
  LET i == InvoiceOf(key[w]) IN
  /\ pc[w] = "set_void"
  /\ InvoiceFree(i)
  /\ invoice' = [invoice EXCEPT ![i] = "void"]
  /\ Finish(w)
  /\ UNCHANGED <<payment, income, service, outbox, netVars, aborts>>

-----------------------------------------------------------------------------
(* billingsvc.PayInvoice: the first statements.                             *)

\* Only a paid invoice is turned away.
PayRead(w, i) ==
  /\ i \in Payable
  /\ invoice[i] \notin {"none", "paid"}
  /\ Start(w, <<i, Manual>>, "insert_payment")
  /\ UNCHANGED <<dbVars, netVars, verdict, owns, until, aborts>>

InsertPayment_Bug(w) ==     \* a key per attempt: never a conflict
  /\ pc[w] = "insert_payment"
  /\ PaymentFree(key[w])
  /\ owns' = [owns EXCEPT ![w] = TRUE]
  /\ Goto(w, "mark_invoice")
  /\ UNCHANGED <<dbVars, netVars, key, verdict, until, aborts>>

InsertPaymentRetry_Bug(w) == \* retry until the key is free
  /\ pc[w] = "insert_payment"
  /\ PaymentFree(key[w])
  /\ payment[key[w]] = "none"
  /\ owns' = [owns EXCEPT ![w] = TRUE]
  /\ Goto(w, "mark_invoice")
  /\ UNCHANGED <<dbVars, netVars, key, verdict, until, aborts>>

\* INSERT .. ON CONFLICT DO NOTHING waits for an uncommitted row with the
\* same key, then inserts, or reports the duplicate and rolls back.
InsertPayment(w) ==
  /\ pc[w] = "insert_payment"
  /\ PaymentFree(key[w])
  /\ IF payment[key[w]] = "none"
       THEN /\ owns' = [owns EXCEPT ![w] = TRUE]
            /\ Goto(w, "mark_invoice")
            /\ UNCHANGED <<key, verdict, until>>
       ELSE Finish(w)
  /\ UNCHANGED <<dbVars, netVars, aborts>>

-----------------------------------------------------------------------------
(* paymentsvc.CreateCharge.                                                 *)

ChargeRead(w, k) ==
  /\ invoice[InvoiceOf(k)] \notin {"none", "paid"}
  /\ Start(w, k, "gateway_charge")
  /\ UNCHANGED <<dbVars, netVars, verdict, owns, until, aborts>>

\* The provider takes the charge before anything is stored here.
GatewayCharge(w) ==
  LET k == key[w] IN
  /\ pc[w] = "gateway_charge"
  /\ provider' = [provider EXCEPT ![k] = IF @ = "none" THEN "open" ELSE @]
  /\ Goto(w, "insert_pending")
  /\ UNCHANGED <<dbVars, sent, key, verdict, owns, until, aborts>>

\* Two charges in the same second share their order id: the second INSERT
\* conflicts and the request fails.
InsertPending(w) ==
  LET k == key[w] IN
  /\ pc[w] = "insert_pending"
  /\ payment' = [payment EXCEPT ![k] = IF @ = "none" THEN "pending" ELSE @]
  /\ Finish(w)
  /\ UNCHANGED <<invoice, income, service, outbox, netVars, aborts>>

-----------------------------------------------------------------------------
(* The provider.  A charge may be declined and then paid; it is paid or     *)
(* expires once.                                                            *)

ProviderSettles(k) ==
  /\ provider[k] = "open"
  /\ provider' = [provider EXCEPT ![k] = "settled"]
  /\ sent' = sent \cup {<<k, "settled">>}
  /\ UNCHANGED <<dbVars, workerVars, aborts>>

ProviderDeclines(k) ==
  /\ provider[k] = "open"
  /\ <<k, "failed">> \notin sent
  /\ sent' = sent \cup {<<k, "failed">>}
  /\ UNCHANGED <<dbVars, provider, workerVars, aborts>>

ProviderExpires(k) ==
  /\ provider[k] = "open"
  /\ provider' = [provider EXCEPT ![k] = "expired"]
  /\ sent' = sent \cup {<<k, "expired">>}
  /\ UNCHANGED <<dbVars, workerVars, aborts>>

-----------------------------------------------------------------------------
(* paymentsvc.HandleCallback and settle: the first statements.              *)

Callback_Bug(w, k, v) ==    \* any verdict settles
  /\ <<k, v>> \in sent
  /\ payment[k] \notin {"none", "settled"}
  /\ Start(w, k, "settle_payment")
  /\ verdict' = [verdict EXCEPT ![w] = v]
  /\ UNCHANGED <<dbVars, netVars, owns, until, aborts>>

CallbackFinal_Bug(w, k, v) == \* failed and expired payments are no-ops too
  /\ <<k, v>> \in sent
  /\ payment[k] = "pending"
  /\ Start(w, k, IF v = "settled" THEN "settle_payment" ELSE "mark_status")
  /\ verdict' = [verdict EXCEPT ![w] = v]
  /\ UNCHANGED <<dbVars, netVars, owns, until, aborts>>

\* The payment is read outside any transaction; once it is settled a
\* notification is a no-op, otherwise the verdict decides.
Callback(w, k, v) ==
  /\ <<k, v>> \in sent
  /\ payment[k] \notin {"none", "settled"}
  /\ Start(w, k, IF v = "settled" THEN "settle_payment" ELSE "mark_status")
  /\ verdict' = [verdict EXCEPT ![w] = v]
  /\ UNCHANGED <<dbVars, netVars, owns, until, aborts>>

\* MarkPaymentStatus writes with no condition on the row it finds.
MarkPaymentStatus(w) ==
  /\ pc[w] = "mark_status"
  /\ PaymentFree(key[w])
  /\ payment' = [payment EXCEPT ![key[w]] = verdict[w]]
  /\ Finish(w)
  /\ UNCHANGED <<invoice, income, service, outbox, netVars, aborts>>

SettlePayment_Bug(w) ==     \* the row is updated last: no lock from here on
  /\ pc[w] = "settle_payment"
  /\ Goto(w, "read_invoice")
  /\ UNCHANGED <<dbVars, netVars, key, verdict, owns, until, aborts>>

SettlePaymentPool_Bug(w) == \* the row is updated outside the transaction
  /\ pc[w] = "settle_payment"
  /\ PaymentFree(key[w])
  /\ payment' = [payment EXCEPT ![key[w]] = "settled"]
  /\ Goto(w, "read_invoice")
  /\ UNCHANGED <<invoice, income, service, outbox, netVars, key, verdict, owns,
                 until, aborts>>

\* SettlePayment updates the row unless it is settled already; the number of
\* rows it changed is not looked at.
SettlePayment(w) ==
  LET k == key[w] IN
  /\ pc[w] = "settle_payment"
  /\ payment[k] = "settled" \/ PaymentFree(k)
  /\ owns' = [owns EXCEPT ![w] = payment[k] # "settled"]
  /\ Goto(w, "read_invoice")
  /\ UNCHANGED <<dbVars, netVars, key, verdict, until, aborts>>

ReadInvoice_Bug(w) ==       \* a paid invoice is settled again
  /\ pc[w] = "read_invoice"
  /\ Goto(w, "mark_invoice")
  /\ UNCHANGED <<dbVars, netVars, key, verdict, owns, until, aborts>>

\* GetInvoice inside the transaction: a paid invoice ends it early.
ReadInvoice(w) ==
  /\ pc[w] = "read_invoice"
  /\ Goto(w, IF invoice[InvoiceOf(key[w])] = "paid"
               THEN "commit_settled" ELSE "mark_invoice")
  /\ UNCHANGED <<dbVars, netVars, key, verdict, owns, until, aborts>>

CommitSettled_Bug(w) ==     \* the customer is notified in any case
  /\ pc[w] = "commit_settled"
  /\ payment' = IF owns[w] THEN [payment EXCEPT ![key[w]] = "settled"] ELSE payment
  /\ Goto(w, "notify")
  /\ UNCHANGED <<invoice, income, service, outbox, netVars, key, verdict, owns,
                 until, aborts>>

CommitSettledExtend_Bug(w) == \* the customer is extended in any case
  /\ pc[w] = "commit_settled"
  /\ payment' = IF owns[w] THEN [payment EXCEPT ![key[w]] = "settled"] ELSE payment
  /\ service' = [service EXCEPT ![CustomerOf[InvoiceOf(key[w])]] = @ + 1]
  /\ Finish(w)
  /\ UNCHANGED <<invoice, income, outbox, netVars, aborts>>

\* The early end commits the payment row alone.
CommitSettled(w) ==
  /\ pc[w] = "commit_settled"
  /\ payment' = IF owns[w] THEN [payment EXCEPT ![key[w]] = "settled"] ELSE payment
  /\ Finish(w)
  /\ UNCHANGED <<invoice, income, service, outbox, netVars, aborts>>

-----------------------------------------------------------------------------
(* The statements PayInvoice and settle have in common.                     *)

MarkInvoicePaid_Bug(w) ==   \* on the pool instead of the transaction
  /\ pc[w] = "mark_invoice"
  /\ InvoiceFree(InvoiceOf(key[w]))
  /\ invoice' = [invoice EXCEPT ![InvoiceOf(key[w])] = "paid"]
  /\ Goto(w, "read_customer")
  /\ UNCHANGED <<payment, income, service, outbox, netVars, key, verdict, owns,
                 until, aborts>>

\* MarkInvoicePaid waits for the invoice row and writes it whatever it holds.
MarkInvoicePaid(w) ==
  /\ pc[w] = "mark_invoice"
  /\ InvoiceFree(InvoiceOf(key[w]))
  /\ Goto(w, "read_customer")
  /\ UNCHANGED <<dbVars, netVars, key, verdict, owns, until, aborts>>

\* AddLedger, then Customer.GetByID, which takes no lock, and the new expiry:
\* one plan period on from the later of now and the current one.
ReadCustomer(w) ==
  /\ pc[w] = "read_customer"
  /\ until' = [until EXCEPT ![w] = service[CustomerOf[InvoiceOf(key[w])]] + 1]
  /\ Goto(w, "set_active")
  /\ UNCHANGED <<dbVars, netVars, key, verdict, owns, aborts>>

\* SetActiveUntil waits for the customer row.
SetActiveUntil(w) ==
  /\ pc[w] = "set_active"
  /\ CustomerFree(CustomerOf[InvoiceOf(key[w])])
  /\ Goto(w, "commit")
  /\ UNCHANGED <<dbVars, netVars, key, verdict, owns, until, aborts>>

\* The whole transaction becomes visible.
Commit(w) ==
  LET k == key[w]
      i == InvoiceOf(k) IN
  /\ pc[w] = "commit"
  /\ payment' = IF owns[w] THEN [payment EXCEPT ![k] = "settled"] ELSE payment
  /\ invoice' = [invoice EXCEPT ![i] = "paid"]
  /\ income'  = [income EXCEPT ![k] = @ + 1]
  /\ service' = [service EXCEPT ![CustomerOf[i]] = until[w]]
  /\ Goto(w, "notify")
  /\ UNCHANGED <<outbox, netVars, key, verdict, owns, until, aborts>>

\* Enqueue the "paid" message under its dedup key, best effort.
Notify(w) ==
  /\ pc[w] = "notify"
  /\ outbox' = outbox \cup {key[w]}
  /\ Finish(w)
  /\ UNCHANGED <<invoice, payment, income, service, netVars, aborts>>

\* A statement fails, the caller goes away or the process dies: an open
\* transaction rolls back and the rest of the request never happens.
Abort(w) ==
  /\ pc[w] # "idle"
  /\ aborts < MaxAborts
  /\ aborts' = aborts + 1
  /\ Finish(w)
  /\ UNCHANGED <<dbVars, netVars>>

-----------------------------------------------------------------------------
Request(w) ==
  \/ \E i \in Invoices : PayRead(w, i) \/ VoidRead(w, i)
  \/ \E k \in OrderKeys : ChargeRead(w, k)
  \/ \E k \in OrderKeys, v \in Verdicts : Callback(w, k, v)

\* The next statement of a request that is under way.
Statement(w) ==
  \/ InsertPayment(w) \/ GatewayCharge(w) \/ InsertPending(w)
  \/ MarkPaymentStatus(w) \/ SettlePayment(w) \/ ReadInvoice(w)
  \/ CommitSettled(w) \/ MarkInvoicePaid(w) \/ ReadCustomer(w)
  \/ SetActiveUntil(w) \/ Commit(w) \/ Notify(w) \/ SetVoid(w)

Provider == \E k \in OrderKeys :
  ProviderSettles(k) \/ ProviderDeclines(k) \/ ProviderExpires(k)

Next ==
  \/ \E i \in Invoices : GenerateMonthly(i)
  \/ MarkOverdue
  \/ Provider
  \/ \E w \in Workers : Request(w) \/ Statement(w) \/ Abort(w)

Spec == Init /\ [][Next]_vars

(* Requests under way are run to their end: PostgreSQL queues the waiters    *)
(* of a row lock, so a statement that keeps finding its row released is not *)
(* overtaken for ever, hence strong fairness.  The provider repeats a       *)
(* settled notification until a request has taken it to the payment.        *)
Fairness ==
  /\ \A w \in Workers : SF_vars(Statement(w))
  /\ \A k \in OrderKeys : SF_vars(\E w \in Workers : Callback(w, k, "settled"))

FairSpec == Spec /\ Fairness

-----------------------------------------------------------------------------
(* Properties of every configuration.                                       *)

\* The income rows of the payments in K, numbered by payment.
IncomeRows(K) == UNION {{k} \X (1..income[k]) : k \in K}

KeysOf(c) == {k \in Keys : CustomerOf[InvoiceOf(k)] = c}

\* How many rows the cashbook has for an invoice, and for a customer.
IncomeOf(i) == Cardinality(IncomeRows({k \in Keys : InvoiceOf(k) = i}))
IncomeFrom(c) == Cardinality(IncomeRows(KeysOf(c)))

\* The cashbook and the invoices agree: a paid invoice has income behind it,
\* and one with income is never open again (unpaid or overdue), where a second
\* payment would look legitimate.  MarkOverdue, Void and both settlement paths
\* write the same rows without coordinating.
PaidMeansBooked ==
  \A i \in Invoices :
    invoice[i] = "paid" => \E k \in Keys : InvoiceOf(k) = i /\ income[k] > 0

BookedMeansClosed ==
  \A k \in Keys : income[k] > 0 => invoice[InvoiceOf(k)] \in {"paid", "void"}

\* However many cashiers press "pay", and whatever is voided in between,
\* PayInvoice books one income row per invoice at most: the idempotency key
\* manual-inv-<id> decides, not the status it read.
ManualIncomeOnce == \A k \in ManualKeys : income[k] <= 1

\* As long as nobody tries to void the invoice, no payment books its income
\* twice, under any interleaving of repeated, late and contradictory
\* notifications with each other and with the cashier.
IncomeOncePerPayment ==
  \A k \in Keys : InvoiceOf(k) \notin Voidable => income[k] <= 1

\* A payment that counts as settled has not left its invoice open: the payment
\* row and the invoice move in one transaction (paymentsvc.settle).
SettledMeansPaid ==
  \A k \in Keys : payment[k] = "settled" /\ InvoiceOf(k) \notin Voidable
                     => invoice[InvoiceOf(k)] = "paid"

\* Nothing is booked, and no order counts as settled, before the provider has
\* the money; no verdict but "settled" leads to a booking.
CollectedBeforeBooked ==
  \A k \in OrderKeys : income[k] > 0 \/ payment[k] = "settled"
                          => provider[k] = "settled"

\* A customer is told "paid" only about a payment whose income is committed:
\* not after a rollback, a duplicate, or an invoice some other payment paid.
NoticeMeansBooked == \A k \in outbox : income[k] > 0

\* No interleaving gives a customer more plan periods than the cashbook has
\* income rows for (lost updates may give fewer).
ServiceWithinIncome == \A c \in Customers : service[c] <= IncomeFrom(c)

\* An invoice nobody tries to void stays paid once it is paid, and its income
\* rows stay with it.
PaidStaysPaid ==
  [][\A i \in Invoices \ Voidable : invoice[i] = "paid" => invoice'[i] = "paid"]_vars

\* Every request ends: no cycle of row locks among cashiers, webhooks, voids
\* and the overdue job, and no wait for a row that is never released.
RequestsEnd == \A w \in Workers : pc[w] # "idle" ~> pc[w] = "idle"

\* Money the provider has collected for a payment this system knows ends in
\* income booked for its invoice, although the notification may meet a failing
\* request, a late "failed" or "expired" verdict, a cashier or a void.
CollectedIsBooked ==
  \A k \in OrderKeys :
    provider[k] = "settled" /\ payment[k] # "none" ~> IncomeOf(InvoiceOf(k)) > 0

-----------------------------------------------------------------------------
(* The abstract invoice book.                                               *)

\* Settlement looks like one step (InvoiceBook!Settle) that happens once per
\* invoice, also when webhooks overlap at will, fail and repeat, as long as they
\* are the only way an invoice is paid and nothing is voided: one order per
\* invoice, one invoice per customer.
Book == INSTANCE InvoiceBook WITH status <- invoice, periods <- service
BookSpec == Book!Spec

-----------------------------------------------------------------------------
(* What the repository says and the code does not keep.                     *)

\* domain/billing: "void is terminal".
VoidIsTerminal ==
  [][\A i \in Invoices : invoice[i] = "void" => invoice'[i] = "void"]_vars

\* billingsvc: PayInvoice "extends the customer's service" from the "current
\* expiry": every income row has bought its plan period.
ServiceMatchesIncome == \A c \in Customers : service[c] = IncomeFrom(c)

\* paymentsvc_test: "Replaying the same callback must not double-book income".
ReplayBooksOnce == \A k \in OrderKeys : income[k] <= 1

=============================================================================
