---------------------------- MODULE SettlementInv ----------------------------
(***************************************************************************)
(* The inductive invariant behind the safety properties of Settlement.     *)
(***************************************************************************)
EXTENDS Settlement

Booking == {"mark_invoice", "read_customer", "set_active", "commit"}
Settling == {"settle_payment", "read_invoice", "commit_settled"}

\* A request is about a payment of the kind its statements are for.
RequestKinds ==
  \A w \in Workers :
    /\ pc[w] \in Settling \cup {"mark_status", "gateway_charge", "insert_pending"}
         => key[w] \in OrderKeys
    /\ pc[w] \in {"insert_payment", "set_void"} => key[w] \in ManualKeys
    /\ pc[w] = "set_void" => InvoiceOf(key[w]) \in Voidable
    /\ pc[w] = "mark_status" => verdict[w] # "settled"
    /\ pc[w] \in {"idle", "insert_payment", "settle_payment"} => ~owns[w]

\* A payment row is written by one open transaction at a time.
PaymentExclusive ==
  \A k \in Keys, v, w \in Workers :
    HoldsPayment(v, k) /\ HoldsPayment(w, k) => v = w

\* A payment by hand exists exactly when its income does, and a cashier's
\* transaction past its INSERT is the one that brings both.
ManualRows ==
  /\ \A k \in ManualKeys :
       \/ payment[k] = "none" /\ income[k] = 0
       \/ payment[k] = "settled" /\ income[k] = 1
  /\ \A w \in Workers :
       pc[w] \in Booking /\ key[w] \in ManualKeys
         => owns[w] /\ payment[key[w]] = "none"

\* An invoice nobody tries to void is closed for good by the first income: what
\* settles after that finds it paid, and what has not found it paid holds the
\* payment row and is the first to book it.
BookedOnce ==
  /\ \A k \in Keys :
       InvoiceOf(k) \notin Voidable /\ (payment[k] = "settled" \/ income[k] > 0)
         => invoice[InvoiceOf(k)] = "paid"
  /\ \A w \in Workers :
       pc[w] # "idle" /\ InvoiceOf(key[w]) \notin Voidable =>
         /\ pc[w] = "read_invoice" /\ ~owns[w] => invoice[InvoiceOf(key[w])] = "paid"
         /\ pc[w] = "commit_settled" => invoice[InvoiceOf(key[w])] = "paid"
         /\ pc[w] \in Booking => owns[w] /\ income[key[w]] = 0

\* Only what the provider has collected is on its way to be booked.
CollectedFirst ==
  /\ \A k \in OrderKeys : <<k, "settled">> \in sent => provider[k] = "settled"
  /\ \A w \in Workers :
       pc[w] \in Settling \cup Booking /\ key[w] \in OrderKeys
         => provider[key[w]] = "settled"

\* A message is on its way only after its income.
NoticeFollows == \A w \in Workers : pc[w] = "notify" => income[key[w]] > 0

IInv ==
  /\ TypeOK
  /\ RequestKinds
  /\ PaymentExclusive
  /\ ManualRows
  /\ BookedOnce
  /\ CollectedFirst
  /\ NoticeFollows
  /\ PaidMeansBooked
  /\ BookedMeansClosed
  /\ IncomeOncePerPayment
  /\ CollectedBeforeBooked
  /\ NoticeMeansBooked

\* A request that extends a customer's service adds one period to what the
\* cashbook had paid for when it read the customer, or has by now.
PaidFor ==
  /\ \A c \in Customers : IsFiniteSet(IncomeRows(KeysOf(c)))
  /\ \A w \in Workers :
       pc[w] \in {"set_active", "commit"}
         => until[w] <= IncomeFrom(CustomerOf[InvoiceOf(key[w])]) + 1
  /\ ServiceWithinIncome

-----------------------------------------------------------------------------
(* Who waits for whom.                                                      *)

\* The next statement of v writes a row that an open transaction of w has
\* locked.  SettlePayment finds no row to write once the payment is settled.
WaitsFor(v, w) ==
  \/ /\ pc[v] \in {"insert_payment", "mark_status", "settle_payment"}
     /\ pc[v] = "settle_payment" => payment[key[v]] # "settled"
     /\ HoldsPayment(w, key[v])
  \/ pc[v] \in {"mark_invoice", "set_void"} /\ HoldsInvoice(w, InvoiceOf(key[v]))
  \/ pc[v] = "set_active" /\ HoldsCustomer(w, CustomerOf[InvoiceOf(key[v])])

\* Rows are locked in one order, payment, invoice, customer, by cashiers, webhooks,
\* voids and declined orders alike: in any set of requests there is one that waits
\* for none of the set, hence no cycle of waits and no deadlock.
NoDeadlock ==
  \A S \in SUBSET Workers : S # {} => \E v \in S : \A w \in S : ~WaitsFor(v, w)

-----------------------------------------------------------------------------
(* What it takes for settlement to be one step that happens once.           *)

\* Webhooks are the only way to pay: nothing is paid by hand or voided, an invoice
\* has one order, and a customer one invoice.
OneWayToPay ==
  /\ Payable = {} /\ Voidable = {}
  /\ \A s, t \in Seconds : s = t
  /\ \A i, j \in Invoices : CustomerOf[i] = CustomerOf[j] => i = j

\* Then every request is about an order of an invoice that has been issued, and
\* the expiry that a request has computed is the next one, for nobody else can
\* extend that customer before it does.
OrdersOnly ==
  /\ \A k \in ManualKeys : income[k] = 0
  /\ \A i \in Invoices : invoice[i] # "void"
  /\ \A k \in OrderKeys : payment[k] # "none" => invoice[InvoiceOf(k)] # "none"
  /\ \A w \in Workers :
       /\ pc[w] # "idle" => key[w] \in OrderKeys /\ invoice[InvoiceOf(key[w])] # "none"
       /\ pc[w] \in {"set_active", "commit"}
            => until[w] = service[CustomerOf[InvoiceOf(key[w])]] + 1

=============================================================================
