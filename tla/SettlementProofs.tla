-------------------------- MODULE SettlementProofs --------------------------
(***************************************************************************)
(* Type correctness and the safety properties of Settlement, for every     *)
(* number of requests, invoices, customers and orders.  The properties     *)
(* follow from the inductive invariant IInv; the refinement of the invoice *)
(* book is at the end.                                                     *)
(***************************************************************************)
EXTENDS SettlementInv, FiniteSetTheorems, TLAPS

-----------------------------------------------------------------------------
(* Payment keys.                                                            *)

\* An order id is a payment key.
LEMMA OrderKeyIsKey == OrderKeys \subseteq Keys
  BY DEF Keys

\* So is manual-inv-<id>, and it names its invoice.
LEMMA ManualKeyIsKey == ASSUME NEW i \in Invoices
                        PROVE  <<i, Manual>> \in ManualKeys /\ <<i, Manual>> \in Keys
                               /\ InvoiceOf(<<i, Manual>>) = i
  BY DEF Keys, ManualKeys, InvoiceOf

\* Every key names an invoice ...
LEMMA InvoiceOfKey == ASSUME NEW k \in Keys
                      PROVE  InvoiceOf(k) \in Invoices
  BY DEF Keys, OrderKeys, ManualKeys, InvoiceOf

\* ... and through it a customer.
LEMMA CustomerOfKey == ASSUME NEW k \in Keys
                       PROVE  CustomerOf[InvoiceOf(k)] \in Customers
  BY InvoiceOfKey, ConstantsAssumption

\* The two kinds of keys are apart.
LEMMA ManualIsNotOrder == ASSUME NEW k \in ManualKeys
                          PROVE  k \notin OrderKeys /\ k \in Keys
  BY ConstantsAssumption DEF Keys, OrderKeys, ManualKeys

-----------------------------------------------------------------------------
(* Type correctness.                                                        *)

\* The empty database is well-typed.
LEMMA InitType == Init => TypeOK
  BY ConstantsAssumption, OrderKeyIsKey
  DEF Init, TypeOK, InvoiceStatus, PaymentStatus, ProviderStatus, Verdicts,
      Locations

\* A request that ends leaves the workers well-typed.
LEMMA FinishType ==
  ASSUME TypeOK, NEW w \in Workers, Finish(w)
  PROVE  /\ pc' \in [Workers -> Locations]
         /\ key' \in [Workers -> Keys \cup {NoKey}]
         /\ \A v \in Workers : pc'[v] # "idle" => key'[v] \in Keys
         /\ verdict' \in [Workers -> Verdicts]
         /\ owns' \in [Workers -> BOOLEAN]
         /\ until' \in [Workers -> Nat]
  BY DEF TypeOK, Finish, Goto, Locations, Verdicts

\* One that starts does so about a payment.
LEMMA StartType ==
  ASSUME TypeOK, NEW w \in Workers, NEW k \in Keys, NEW l \in Locations,
         Start(w, k, l)
  PROVE  /\ pc' \in [Workers -> Locations]
         /\ key' \in [Workers -> Keys \cup {NoKey}]
         /\ \A v \in Workers : pc'[v] # "idle" => key'[v] \in Keys
  BY DEF TypeOK, Start, Goto

\* Every step keeps the types.
LEMMA NextType == TypeOK /\ [Next]_vars => TypeOK'
<1> SUFFICES ASSUME TypeOK, [Next]_vars
             PROVE  TypeOK'
  OBVIOUS
<1> USE DEF dbVars, netVars, workerVars
<1>1. CASE UNCHANGED vars
  BY <1>1 DEF TypeOK, vars
<1>2. ASSUME NEW i \in Invoices, GenerateMonthly(i)
      PROVE  TypeOK'
  BY <1>2 DEF TypeOK, GenerateMonthly, InvoiceStatus
<1>3. CASE MarkOverdue
  BY <1>3 DEF TypeOK, MarkOverdue, InvoiceStatus
<1>4. ASSUME NEW k \in OrderKeys,
             ProviderSettles(k) \/ ProviderDeclines(k) \/ ProviderExpires(k)
      PROVE  TypeOK'
  BY <1>4, ConstantsAssumption
  DEF TypeOK, ProviderSettles, ProviderDeclines, ProviderExpires, ProviderStatus,
      Verdicts
<1>5. ASSUME NEW w \in Workers, NEW i \in Invoices, PayRead(w, i) \/ VoidRead(w, i)
      PROVE  TypeOK'
  <2>1. \E l \in Locations : Start(w, <<i, Manual>>, l)
    BY <1>5 DEF PayRead, VoidRead, Locations
  <2>2. QED
    BY <1>5, <2>1, StartType, ManualKeyIsKey DEF TypeOK, PayRead, VoidRead
<1>6. ASSUME NEW w \in Workers, NEW k \in OrderKeys, ChargeRead(w, k)
      PROVE  TypeOK'
  <2>1. "gateway_charge" \in Locations
    BY DEF Locations
  <2>2. QED
    BY <1>6, <2>1, StartType, OrderKeyIsKey DEF TypeOK, ChargeRead
<1>7. ASSUME NEW w \in Workers, NEW k \in OrderKeys, NEW v \in Verdicts,
             Callback(w, k, v)
      PROVE  TypeOK'
  <2>1. \E l \in Locations : Start(w, k, l)
    BY <1>7 DEF Callback, Locations
  <2>2. QED
    BY <1>7, <2>1, StartType, OrderKeyIsKey DEF TypeOK, Callback
<1>8. ASSUME NEW w \in Workers, InsertPayment(w)
      PROVE  TypeOK'
  <2>1. CASE Finish(w)
    BY <1>8, <2>1, FinishType DEF TypeOK, InsertPayment
  <2>2. CASE ~Finish(w)
    BY <1>8, <2>2 DEF TypeOK, InsertPayment, Goto, Locations
  <2>3. QED
    BY <2>1, <2>2
<1>9. ASSUME NEW w \in Workers, GatewayCharge(w)
      PROVE  TypeOK'
  BY <1>9 DEF TypeOK, GatewayCharge, Goto, Locations, ProviderStatus
<1>10. ASSUME NEW w \in Workers,
              InsertPending(w) \/ MarkPaymentStatus(w) \/ CommitSettled(w)
       PROVE  TypeOK'
  <2>1. Finish(w)
    BY <1>10 DEF InsertPending, MarkPaymentStatus, CommitSettled
  <2>2. payment' \in [Keys -> PaymentStatus]
    BY <1>10
    DEF TypeOK, InsertPending, MarkPaymentStatus, CommitSettled, PaymentStatus,
        Verdicts
  <2>3. QED
    BY <1>10, <2>1, <2>2, FinishType
    DEF TypeOK, InsertPending, MarkPaymentStatus, CommitSettled
<1>11. ASSUME NEW w \in Workers,
              SettlePayment(w) \/ ReadInvoice(w) \/ MarkInvoicePaid(w) \/ SetActiveUntil(w)
       PROVE  TypeOK'
  BY <1>11
  DEF TypeOK, SettlePayment, ReadInvoice, MarkInvoicePaid, SetActiveUntil, Goto,
      Locations
<1>12. ASSUME NEW w \in Workers, ReadCustomer(w)
       PROVE  TypeOK'
  <2>1. key[w] \in Keys
    BY <1>12 DEF TypeOK, ReadCustomer
  <2>2. service[CustomerOf[InvoiceOf(key[w])]] + 1 \in Nat
    BY <2>1, CustomerOfKey DEF TypeOK
  <2>3. until' \in [Workers -> Nat]
    BY <1>12, <2>2 DEF TypeOK, ReadCustomer
  <2>4. QED
    BY <1>12, <2>3 DEF TypeOK, ReadCustomer, Goto, Locations
<1>13. ASSUME NEW w \in Workers, Commit(w)
       PROVE  TypeOK'
  <2>1. key[w] \in Keys
    BY <1>13 DEF TypeOK, Commit
  <2>2. invoice' \in [Invoices -> InvoiceStatus] /\ payment' \in [Keys -> PaymentStatus]
    BY <1>13 DEF TypeOK, Commit, InvoiceStatus, PaymentStatus
  <2>3. income' \in [Keys -> Nat]
    <3>1. income[key[w]] + 1 \in Nat
      BY <2>1 DEF TypeOK
    <3>2. QED
      BY <1>13, <3>1 DEF TypeOK, Commit
  <2>4. service' \in [Customers -> Nat]
    BY <1>13 DEF TypeOK, Commit
  <2>5. QED
    BY <1>13, <2>2, <2>3, <2>4 DEF TypeOK, Commit, Goto, Locations
<1>14. ASSUME NEW w \in Workers, Notify(w)
       PROVE  TypeOK'
  <2>1. outbox' \subseteq Keys
    BY <1>14 DEF TypeOK, Notify
  <2>2. QED
    BY <1>14, <2>1, FinishType DEF TypeOK, Notify
<1>15. ASSUME NEW w \in Workers, SetVoid(w)
       PROVE  TypeOK'
  <2>1. invoice' \in [Invoices -> InvoiceStatus]
    BY <1>15 DEF TypeOK, SetVoid, InvoiceStatus
  <2>2. QED
    BY <1>15, <2>1, FinishType DEF TypeOK, SetVoid
<1>16. ASSUME NEW w \in Workers, Abort(w)
       PROVE  TypeOK'
  <2>1. aborts' \in 0..MaxAborts
    BY <1>16, ConstantsAssumption DEF TypeOK, Abort
  <2>2. QED
    BY <1>16, <2>1, FinishType DEF TypeOK, Abort
<1>17. QED
  BY <1>1, <1>2, <1>3, <1>4, <1>5, <1>6, <1>7, <1>8, <1>9, <1>10, <1>11, <1>12,
     <1>13, <1>14, <1>15, <1>16
  DEF Next, Request, Statement, Provider

\* Every reachable state is well-typed, whatever the numbers of requests,
\* invoices and orders (the tables of internal/repo/queries/billing.sql keep to
\* their enums, and a request under way knows its payment).
THEOREM TypeInvariant == Spec => []TypeOK
<1>1. QED
  BY InitType, NextType, PTL DEF Spec

-----------------------------------------------------------------------------
(* The inductive invariant.                                                 *)

\* The empty database satisfies the invariant.
LEMMA InitInv == Init => IInv
  BY InitType
  DEF Init, IInv, RequestKinds, PaymentExclusive, ManualRows, BookedOnce,
      CollectedFirst, NoticeFollows, PaidMeansBooked, BookedMeansClosed,
      IncomeOncePerPayment, CollectedBeforeBooked, NoticeMeansBooked, HoldsPayment,
      Settling, Booking, Keys

-----------------------------------------------------------------------------
(* The auxiliary conjuncts.                                                 *)

\* A request keeps to the statements of its kind.
LEMMA NextRequestKinds == IInv /\ TypeOK' /\ [Next]_vars => RequestKinds'
<1> SUFFICES ASSUME IInv, TypeOK', [Next]_vars
             PROVE  RequestKinds'
  OBVIOUS
<1> USE DEF IInv, TypeOK, dbVars, netVars, workerVars, Goto, RequestKinds,
            Settling
<1>1. CASE UNCHANGED vars
  BY <1>1 DEF vars
<1>2. ASSUME NEW i \in Invoices, GenerateMonthly(i)
      PROVE  RequestKinds'
  BY <1>2 DEF GenerateMonthly
<1>3. CASE MarkOverdue
  BY <1>3 DEF MarkOverdue
<1>4. CASE Provider
  BY <1>4 DEF Provider, ProviderSettles, ProviderDeclines, ProviderExpires
<1>5. ASSUME NEW w \in Workers, NEW i \in Invoices, PayRead(w, i) \/ VoidRead(w, i)
      PROVE  RequestKinds'
  BY <1>5, ManualKeyIsKey DEF PayRead, VoidRead, Start
<1>6. ASSUME NEW w \in Workers, NEW k \in OrderKeys, ChargeRead(w, k)
      PROVE  RequestKinds'
  BY <1>6 DEF ChargeRead, Start
<1>7. ASSUME NEW w \in Workers, NEW k \in OrderKeys, NEW v \in Verdicts,
             Callback(w, k, v)
      PROVE  RequestKinds'
  BY <1>7 DEF Callback, Start
<1>8. ASSUME NEW w \in Workers, InsertPayment(w)
      PROVE  RequestKinds'
  BY <1>8 DEF InsertPayment, Finish
<1>9. ASSUME NEW w \in Workers, SettlePayment(w)
      PROVE  RequestKinds'
  BY <1>9 DEF SettlePayment
<1>10. ASSUME NEW w \in Workers,
              \/ GatewayCharge(w) \/ ReadInvoice(w) \/ MarkInvoicePaid(w)
              \/ ReadCustomer(w) \/ SetActiveUntil(w)
       PROVE  RequestKinds'
  BY <1>10
  DEF GatewayCharge, ReadInvoice, MarkInvoicePaid, ReadCustomer, SetActiveUntil
<1>11. ASSUME NEW w \in Workers, Commit(w)
       PROVE  RequestKinds'
  BY <1>11 DEF Commit
<1>12. ASSUME NEW w \in Workers,
              \/ InsertPending(w) \/ MarkPaymentStatus(w) \/ CommitSettled(w)
              \/ Notify(w) \/ SetVoid(w) \/ Abort(w)
       PROVE  RequestKinds'
  BY <1>12
  DEF InsertPending, MarkPaymentStatus, CommitSettled, Notify, SetVoid, Abort,
      Finish
<1>13. QED
  BY <1>1, <1>2, <1>3, <1>4, <1>5, <1>6, <1>7, <1>8, <1>9, <1>10, <1>11, <1>12
  DEF Next, Request, Statement

\* Ending a request gives row locks back and takes none.
LEMMA FinishReleases ==
  ASSUME TypeOK, NEW w \in Workers, Finish(w), NEW v \in Workers, NEW k
  PROVE  HoldsPayment(v, k)' => HoldsPayment(v, k)
  BY DEF TypeOK, HoldsPayment, Finish, Goto

\* A transaction writes a payment row only while no other one holds it.
LEMMA NextPaymentExclusive == IInv /\ TypeOK' /\ [Next]_vars => PaymentExclusive'
<1> SUFFICES ASSUME IInv, TypeOK', [Next]_vars
             PROVE  PaymentExclusive'
  OBVIOUS
<1> USE DEF IInv, TypeOK, dbVars, netVars, workerVars, Goto, PaymentExclusive,
            HoldsPayment, PaymentFree, RequestKinds
<1>1. CASE UNCHANGED vars
  BY <1>1 DEF vars
<1>2. ASSUME NEW i \in Invoices, GenerateMonthly(i)
      PROVE  PaymentExclusive'
  BY <1>2 DEF GenerateMonthly
<1>3. CASE MarkOverdue
  BY <1>3 DEF MarkOverdue
<1>4. CASE Provider
  BY <1>4 DEF Provider, ProviderSettles, ProviderDeclines, ProviderExpires
<1>5. ASSUME NEW w \in Workers, NEW i \in Invoices, PayRead(w, i) \/ VoidRead(w, i)
      PROVE  PaymentExclusive'
  BY <1>5 DEF PayRead, VoidRead, Start
<1>6. ASSUME NEW w \in Workers, NEW k \in OrderKeys, ChargeRead(w, k)
      PROVE  PaymentExclusive'
  BY <1>6 DEF ChargeRead, Start
<1>7. ASSUME NEW w \in Workers, NEW k \in OrderKeys, NEW v \in Verdicts,
             Callback(w, k, v)
      PROVE  PaymentExclusive'
  BY <1>7 DEF Callback, Start
<1>8. ASSUME NEW w \in Workers, InsertPayment(w)
      PROVE  PaymentExclusive'
  BY <1>8 DEF InsertPayment, Finish
<1>9. ASSUME NEW w \in Workers, SettlePayment(w)
      PROVE  PaymentExclusive'
  BY <1>9 DEF SettlePayment
<1>10. ASSUME NEW w \in Workers,
              \/ GatewayCharge(w) \/ ReadInvoice(w) \/ MarkInvoicePaid(w)
              \/ ReadCustomer(w) \/ SetActiveUntil(w)
       PROVE  PaymentExclusive'
  BY <1>10
  DEF GatewayCharge, ReadInvoice, MarkInvoicePaid, ReadCustomer, SetActiveUntil
<1>11. ASSUME NEW w \in Workers, Commit(w)
       PROVE  PaymentExclusive'
  BY <1>11 DEF Commit
<1>12. ASSUME NEW w \in Workers,
              \/ InsertPending(w) \/ MarkPaymentStatus(w) \/ CommitSettled(w)
              \/ Notify(w) \/ SetVoid(w) \/ Abort(w)
       PROVE  PaymentExclusive'
  BY <1>12, FinishReleases
  DEF InsertPending, MarkPaymentStatus, CommitSettled, Notify, SetVoid, Abort,
      Finish
<1>13. QED
  BY <1>1, <1>2, <1>3, <1>4, <1>5, <1>6, <1>7, <1>8, <1>9, <1>10, <1>11, <1>12
  DEF Next, Request, Statement

\* The key manual-inv-<id> is inserted and booked by the same transaction.
LEMMA NextManualRows == IInv /\ TypeOK' /\ [Next]_vars => ManualRows'
<1> SUFFICES ASSUME IInv, TypeOK', [Next]_vars
             PROVE  ManualRows'
  OBVIOUS
<1> USE DEF IInv, TypeOK, dbVars, netVars, workerVars, Goto, ManualRows,
            PaymentExclusive, HoldsPayment, RequestKinds, Settling, Booking
<1>1. CASE UNCHANGED vars
  BY <1>1 DEF vars
<1>2. ASSUME NEW i \in Invoices, GenerateMonthly(i)
      PROVE  ManualRows'
  BY <1>2 DEF GenerateMonthly
<1>3. CASE MarkOverdue
  BY <1>3 DEF MarkOverdue
<1>4. CASE Provider
  BY <1>4 DEF Provider, ProviderSettles, ProviderDeclines, ProviderExpires
<1>5. ASSUME NEW w \in Workers, NEW i \in Invoices, PayRead(w, i) \/ VoidRead(w, i)
      PROVE  ManualRows'
  BY <1>5 DEF PayRead, VoidRead, Start
<1>6. ASSUME NEW w \in Workers, NEW k \in OrderKeys, ChargeRead(w, k)
      PROVE  ManualRows'
  BY <1>6 DEF ChargeRead, Start
<1>7. ASSUME NEW w \in Workers, NEW k \in OrderKeys, NEW v \in Verdicts,
             Callback(w, k, v)
      PROVE  ManualRows'
  BY <1>7 DEF Callback, Start
<1>8. ASSUME NEW w \in Workers, InsertPayment(w)
      PROVE  ManualRows'
  BY <1>8 DEF InsertPayment, Finish
<1>9. ASSUME NEW w \in Workers, SettlePayment(w)
      PROVE  ManualRows'
  BY <1>9 DEF SettlePayment
<1>10. ASSUME NEW w \in Workers,
              \/ GatewayCharge(w) \/ ReadInvoice(w) \/ MarkInvoicePaid(w)
              \/ ReadCustomer(w) \/ SetActiveUntil(w)
       PROVE  ManualRows'
  BY <1>10, ManualIsNotOrder
  DEF GatewayCharge, ReadInvoice, MarkInvoicePaid, ReadCustomer, SetActiveUntil
<1>11. ASSUME NEW w \in Workers, Commit(w)
       PROVE  ManualRows'
  BY <1>11 DEF Commit
<1>12. ASSUME NEW w \in Workers,
              \/ InsertPending(w) \/ MarkPaymentStatus(w) \/ CommitSettled(w)
              \/ Notify(w) \/ SetVoid(w) \/ Abort(w)
       PROVE  ManualRows'
  <2>1. CASE InsertPending(w)
    BY <2>1, ManualIsNotOrder DEF InsertPending, Finish
  <2>2. CASE MarkPaymentStatus(w)
    BY <2>2, ManualIsNotOrder DEF MarkPaymentStatus, Finish
  <2>3. CASE CommitSettled(w)
    BY <2>3, ManualIsNotOrder DEF CommitSettled, Finish
  <2>4. CASE Notify(w)
    BY <2>4 DEF Notify, Finish
  <2>5. CASE SetVoid(w)
    BY <2>5 DEF SetVoid, Finish
  <2>6. CASE Abort(w)
    BY <2>6 DEF Abort, Finish
  <2> QED
    BY <1>12, <2>1, <2>2, <2>3, <2>4, <2>5, <2>6
<1>13. QED
  BY <1>1, <1>2, <1>3, <1>4, <1>5, <1>6, <1>7, <1>8, <1>9, <1>10, <1>11, <1>12
  DEF Next, Request, Statement

\* The transaction of a notification does without the lock of the payment row
\* only if it found the payment settled.
LEMMA SettleWithoutLock ==
  ASSUME TypeOK, NEW w \in Workers, SettlePayment(w)
  PROVE  key[w] \in Keys /\ (~owns'[w] => payment[key[w]] = "settled")
<1>1. key[w] \in Keys
  BY DEF SettlePayment, TypeOK
<1>2. owns'[w] = (payment[key[w]] # "settled")
  BY DEF SettlePayment, TypeOK
<1> QED
  BY <1>1, <1>2

\* The first income closes an invoice that nobody voids.
LEMMA NextBookedOnce == IInv /\ TypeOK' /\ [Next]_vars => BookedOnce'
<1> SUFFICES ASSUME IInv, TypeOK', [Next]_vars
             PROVE  BookedOnce'
  OBVIOUS
<1> USE DEF IInv, TypeOK, dbVars, netVars, workerVars, Goto, BookedOnce,
            ManualRows, PaymentExclusive, HoldsPayment, RequestKinds,
            Settling, Booking
<1>1. CASE UNCHANGED vars
  BY <1>1 DEF vars
<1>2. ASSUME NEW i \in Invoices, GenerateMonthly(i)
      PROVE  BookedOnce'
  BY <1>2 DEF GenerateMonthly
<1>3. CASE MarkOverdue
  BY <1>3, InvoiceOfKey DEF MarkOverdue
<1>4. CASE Provider
  BY <1>4 DEF Provider, ProviderSettles, ProviderDeclines, ProviderExpires
<1>5. ASSUME NEW w \in Workers, NEW i \in Invoices, PayRead(w, i)
      PROVE  BookedOnce'
  BY <1>5 DEF PayRead, Start
<1>6. ASSUME NEW w \in Workers, NEW i \in Invoices, VoidRead(w, i)
      PROVE  BookedOnce'
  BY <1>6 DEF VoidRead, Start
<1>7. ASSUME NEW w \in Workers, NEW k \in OrderKeys, ChargeRead(w, k)
      PROVE  BookedOnce'
  BY <1>7 DEF ChargeRead, Start
<1>8. ASSUME NEW w \in Workers, NEW k \in OrderKeys, NEW v \in Verdicts,
             Callback(w, k, v)
      PROVE  BookedOnce'
  BY <1>8 DEF Callback, Start
<1>9. ASSUME NEW w \in Workers, InsertPayment(w)
      PROVE  BookedOnce'
  BY <1>9 DEF InsertPayment, Finish
<1>10. ASSUME NEW w \in Workers, SettlePayment(w)
       PROVE  BookedOnce'
  <2>1. ~owns'[w] /\ InvoiceOf(key[w]) \notin Voidable
           => invoice[InvoiceOf(key[w])] = "paid"
    BY <1>10, SettleWithoutLock
  <2>2. UNCHANGED <<dbVars, key>> /\ pc' = [pc EXCEPT ![w] = "read_invoice"]
    BY <1>10 DEF SettlePayment
  <2>3. owns' = [owns EXCEPT ![w] = owns'[w]]
    BY <1>10 DEF SettlePayment
  <2>4. QED
    BY <2>1, <2>2, <2>3
<1>11. ASSUME NEW w \in Workers, GatewayCharge(w)
       PROVE  BookedOnce'
  BY <1>11 DEF GatewayCharge
<1>12. ASSUME NEW w \in Workers, ReadInvoice(w)
       PROVE  BookedOnce'
  BY <1>12 DEF ReadInvoice
<1>13. ASSUME NEW w \in Workers, MarkInvoicePaid(w)
       PROVE  BookedOnce'
  BY <1>13 DEF MarkInvoicePaid
<1>14. ASSUME NEW w \in Workers, ReadCustomer(w)
       PROVE  BookedOnce'
  BY <1>14 DEF ReadCustomer
<1>15. ASSUME NEW w \in Workers, SetActiveUntil(w)
       PROVE  BookedOnce'
  BY <1>15 DEF SetActiveUntil
<1>16. ASSUME NEW w \in Workers, Commit(w)
       PROVE  BookedOnce'
  BY <1>16 DEF Commit
<1>17. ASSUME NEW w \in Workers, InsertPending(w)
       PROVE  BookedOnce'
  BY <1>17 DEF InsertPending, Finish
<1>18. ASSUME NEW w \in Workers, MarkPaymentStatus(w)
       PROVE  BookedOnce'
  BY <1>18 DEF MarkPaymentStatus, Finish
<1>19. ASSUME NEW w \in Workers, CommitSettled(w)
       PROVE  BookedOnce'
  BY <1>19 DEF CommitSettled, Finish
<1>20. ASSUME NEW w \in Workers, Notify(w)
       PROVE  BookedOnce'
  BY <1>20 DEF Notify, Finish
<1>21. ASSUME NEW w \in Workers, SetVoid(w)
       PROVE  BookedOnce'
  BY <1>21 DEF SetVoid, Finish
<1>22. ASSUME NEW w \in Workers, Abort(w)
       PROVE  BookedOnce'
  BY <1>22 DEF Abort, Finish
<1>23. QED
  BY <1>1, <1>2, <1>3, <1>4, <1>5, <1>6, <1>7, <1>8, <1>9, <1>10, <1>11, <1>12,
     <1>13, <1>14, <1>15, <1>16, <1>17, <1>18, <1>19, <1>20, <1>21, <1>22 DEF Next, Request, Statement

\* What is on its way to be booked carries the provider's word.
LEMMA NextCollectedFirst == IInv /\ TypeOK' /\ [Next]_vars => CollectedFirst'
<1> SUFFICES ASSUME IInv, TypeOK', [Next]_vars
             PROVE  CollectedFirst'
  OBVIOUS
<1> USE DEF IInv, TypeOK, dbVars, netVars, workerVars, Goto, CollectedFirst,
            RequestKinds, Settling, Booking
<1>1. CASE UNCHANGED vars
  BY <1>1 DEF vars
<1>2. ASSUME NEW i \in Invoices, GenerateMonthly(i)
      PROVE  CollectedFirst'
  BY <1>2 DEF GenerateMonthly
<1>3. CASE MarkOverdue
  BY <1>3 DEF MarkOverdue
<1>4. CASE Provider
  BY <1>4 DEF Provider, ProviderSettles, ProviderDeclines, ProviderExpires
<1>5. ASSUME NEW w \in Workers, NEW i \in Invoices, PayRead(w, i) \/ VoidRead(w, i)
      PROVE  CollectedFirst'
  BY <1>5 DEF PayRead, VoidRead, Start
<1>6. ASSUME NEW w \in Workers, NEW k \in OrderKeys, ChargeRead(w, k)
      PROVE  CollectedFirst'
  BY <1>6 DEF ChargeRead, Start
<1>7. ASSUME NEW w \in Workers, NEW k \in OrderKeys, NEW v \in Verdicts,
             Callback(w, k, v)
      PROVE  CollectedFirst'
  BY <1>7 DEF Callback, Start
<1>8. ASSUME NEW w \in Workers, InsertPayment(w)
      PROVE  CollectedFirst'
  BY <1>8, ManualIsNotOrder DEF InsertPayment, Finish
<1>9. ASSUME NEW w \in Workers, SettlePayment(w)
      PROVE  CollectedFirst'
  BY <1>9 DEF SettlePayment
<1>10. ASSUME NEW w \in Workers,
              \/ GatewayCharge(w) \/ ReadInvoice(w) \/ MarkInvoicePaid(w)
              \/ ReadCustomer(w) \/ SetActiveUntil(w)
       PROVE  CollectedFirst'
  BY <1>10
  DEF GatewayCharge, ReadInvoice, MarkInvoicePaid, ReadCustomer, SetActiveUntil
<1>11. ASSUME NEW w \in Workers, Commit(w)
       PROVE  CollectedFirst'
  BY <1>11 DEF Commit
<1>12. ASSUME NEW w \in Workers,
              \/ InsertPending(w) \/ MarkPaymentStatus(w) \/ CommitSettled(w)
              \/ Notify(w) \/ SetVoid(w) \/ Abort(w)
       PROVE  CollectedFirst'
  BY <1>12
  DEF InsertPending, MarkPaymentStatus, CommitSettled, Notify, SetVoid, Abort,
      Finish
<1>13. QED
  BY <1>1, <1>2, <1>3, <1>4, <1>5, <1>6, <1>7, <1>8, <1>9, <1>10, <1>11, <1>12
  DEF Next, Request, Statement

\* A request that is to send a message has committed.
LEMMA NextNoticeFollows == IInv /\ TypeOK' /\ [Next]_vars => NoticeFollows'
<1> SUFFICES ASSUME IInv, TypeOK', [Next]_vars
             PROVE  NoticeFollows'
  OBVIOUS
<1> USE DEF IInv, TypeOK, dbVars, netVars, workerVars, Goto, NoticeFollows
<1>1. CASE UNCHANGED vars
  BY <1>1 DEF vars
<1>2. ASSUME NEW i \in Invoices, GenerateMonthly(i)
      PROVE  NoticeFollows'
  BY <1>2 DEF GenerateMonthly
<1>3. CASE MarkOverdue
  BY <1>3 DEF MarkOverdue
<1>4. CASE Provider
  BY <1>4 DEF Provider, ProviderSettles, ProviderDeclines, ProviderExpires
<1>5. ASSUME NEW w \in Workers, NEW i \in Invoices, PayRead(w, i) \/ VoidRead(w, i)
      PROVE  NoticeFollows'
  BY <1>5 DEF PayRead, VoidRead, Start
<1>6. ASSUME NEW w \in Workers, NEW k \in OrderKeys, ChargeRead(w, k)
      PROVE  NoticeFollows'
  BY <1>6 DEF ChargeRead, Start
<1>7. ASSUME NEW w \in Workers, NEW k \in OrderKeys, NEW v \in Verdicts,
             Callback(w, k, v)
      PROVE  NoticeFollows'
  BY <1>7 DEF Callback, Start
<1>8. ASSUME NEW w \in Workers, InsertPayment(w)
      PROVE  NoticeFollows'
  BY <1>8 DEF InsertPayment, Finish
<1>9. ASSUME NEW w \in Workers, SettlePayment(w)
      PROVE  NoticeFollows'
  BY <1>9 DEF SettlePayment
<1>10. ASSUME NEW w \in Workers,
              \/ GatewayCharge(w) \/ ReadInvoice(w) \/ MarkInvoicePaid(w)
              \/ ReadCustomer(w) \/ SetActiveUntil(w)
       PROVE  NoticeFollows'
  BY <1>10
  DEF GatewayCharge, ReadInvoice, MarkInvoicePaid, ReadCustomer, SetActiveUntil
<1>11. ASSUME NEW w \in Workers, Commit(w)
       PROVE  NoticeFollows'
  BY <1>11 DEF Commit
<1>12. ASSUME NEW w \in Workers,
              \/ InsertPending(w) \/ MarkPaymentStatus(w) \/ CommitSettled(w)
              \/ Notify(w) \/ SetVoid(w) \/ Abort(w)
       PROVE  NoticeFollows'
  BY <1>12
  DEF InsertPending, MarkPaymentStatus, CommitSettled, Notify, SetVoid, Abort,
      Finish
<1>13. QED
  BY <1>1, <1>2, <1>3, <1>4, <1>5, <1>6, <1>7, <1>8, <1>9, <1>10, <1>11, <1>12
  DEF Next, Request, Statement

-----------------------------------------------------------------------------
(* The properties among the conjuncts.                                      *)

\* The only steps that touch an invoice or its income.
LEMMA InvoiceSteps ==
  ASSUME [Next]_vars
  PROVE  \/ UNCHANGED <<invoice, income>>
         \/ \E i \in Invoices : GenerateMonthly(i)
         \/ MarkOverdue
         \/ \E w \in Workers : SetVoid(w)
         \/ \E w \in Workers : Commit(w)
  BY DEF Next, Request, Statement, Provider, vars, dbVars, netVars, PayRead, VoidRead,
         ChargeRead, Callback, ProviderSettles, ProviderDeclines, ProviderExpires,
         InsertPayment, GatewayCharge, InsertPending, MarkPaymentStatus,
         SettlePayment, ReadInvoice, CommitSettled, MarkInvoicePaid, ReadCustomer,
         SetActiveUntil, Notify, Abort

\* What a commit does to the book.
LEMMA CommitBooks ==
  ASSUME IInv, NEW w \in Workers, Commit(w)
  PROVE  /\ key[w] \in Keys
         /\ InvoiceOf(key[w]) \in Invoices
         /\ invoice' = [invoice EXCEPT ![InvoiceOf(key[w])] = "paid"]
         /\ income' = [income EXCEPT ![key[w]] = @ + 1]
         /\ income[key[w]] \in Nat
         /\ UNCHANGED <<key, outbox, netVars>>
  BY InvoiceOfKey DEF IInv, TypeOK, Commit

\* An invoice becomes paid together with an income row.
LEMMA NextPaidMeansBooked == IInv /\ TypeOK' /\ [Next]_vars => PaidMeansBooked'
<1> SUFFICES ASSUME IInv, TypeOK', [Next]_vars,
                    NEW j \in Invoices, invoice'[j] = "paid"
             PROVE  \E k \in Keys : InvoiceOf(k) = j /\ income'[k] > 0
  BY DEF PaidMeansBooked
<1>1. invoice[j] = "paid" => \E k \in Keys : InvoiceOf(k) = j /\ income[k] > 0
  BY DEF IInv, PaidMeansBooked
<1>2. CASE UNCHANGED <<invoice, income>>
  BY <1>1, <1>2
<1>3. ASSUME NEW i \in Invoices, GenerateMonthly(i)
      PROVE  UNCHANGED income /\ invoice[j] = "paid"
  BY <1>3 DEF GenerateMonthly, IInv, TypeOK
<1>4. CASE MarkOverdue
  <2>1. UNCHANGED income /\ invoice[j] = "paid"
    BY <1>4 DEF MarkOverdue
  <2>2. QED
    BY <1>1, <2>1
<1>5. ASSUME NEW w \in Workers, SetVoid(w)
      PROVE  UNCHANGED income /\ invoice[j] = "paid"
  BY <1>5 DEF SetVoid, IInv, TypeOK
<1>6. ASSUME NEW w \in Workers, Commit(w)
      PROVE  \E k \in Keys : InvoiceOf(k) = j /\ income'[k] > 0
  <2>1. CASE InvoiceOf(key[w]) = j
    BY <1>6, <2>1, CommitBooks DEF IInv, TypeOK
  <2>2. CASE InvoiceOf(key[w]) # j
    <3>1. PICK k \in Keys : InvoiceOf(k) = j /\ income[k] > 0
      BY <1>1, <1>6, <2>2, CommitBooks DEF IInv, TypeOK
    <3>2. income'[k] > 0
      BY <1>6, <3>1, CommitBooks DEF IInv, TypeOK
    <3>3. QED
      BY <3>1, <3>2
  <2>3. QED
    BY <2>1, <2>2
<1>7. QED
  BY <1>1, <1>2, <1>3, <1>4, <1>5, <1>6, InvoiceSteps

\* No step reopens a booked invoice.
LEMMA NextBookedMeansClosed == IInv /\ TypeOK' /\ [Next]_vars => BookedMeansClosed'
<1> SUFFICES ASSUME IInv, TypeOK', [Next]_vars,
                    NEW k \in Keys, income'[k] > 0
             PROVE  invoice'[InvoiceOf(k)] \in {"paid", "void"}
  BY DEF BookedMeansClosed
<1> DEFINE j == InvoiceOf(k)
<1>1. income[k] > 0 => invoice[j] \in {"paid", "void"}
  BY DEF IInv, BookedMeansClosed
<1>2. j \in Invoices
  BY InvoiceOfKey
<1>3. CASE UNCHANGED <<invoice, income>>
  BY <1>1, <1>3
<1>4. ASSUME NEW i \in Invoices, GenerateMonthly(i)
      PROVE  invoice'[j] \in {"paid", "void"}
  BY <1>1, <1>2, <1>4 DEF GenerateMonthly, IInv, TypeOK
<1>5. CASE MarkOverdue
  BY <1>1, <1>2, <1>5 DEF MarkOverdue
<1>6. ASSUME NEW w \in Workers, SetVoid(w)
      PROVE  invoice'[j] \in {"paid", "void"}
  BY <1>1, <1>2, <1>6 DEF SetVoid, IInv, TypeOK
<1>7. ASSUME NEW w \in Workers, Commit(w)
      PROVE  invoice'[j] \in {"paid", "void"}
  BY <1>1, <1>2, <1>7, CommitBooks DEF IInv, TypeOK
<1>8. QED
  BY <1>3, <1>4, <1>5, <1>6, <1>7, InvoiceSteps

\* A commit finds no income for a payment of an invoice nobody voids.
LEMMA NextIncomeOncePerPayment == IInv /\ TypeOK' /\ [Next]_vars => IncomeOncePerPayment'
<1> SUFFICES ASSUME IInv, TypeOK', [Next]_vars,
                    NEW k \in Keys, InvoiceOf(k) \notin Voidable
             PROVE  income'[k] <= 1
  BY DEF IncomeOncePerPayment
<1>1. income[k] <= 1
  BY DEF IInv, IncomeOncePerPayment
<1>2. ASSUME NEW w \in Workers, Commit(w)
      PROVE  income'[k] <= 1
  <2>1. key[w] = k => income[k] = 0
    BY <1>2 DEF IInv, BookedOnce, Booking, Commit
  <2>2. QED
    BY <1>1, <1>2, <2>1, CommitBooks DEF IInv, TypeOK
<1>3. CASE UNCHANGED income
  BY <1>1, <1>3
<1>4. QED
  BY <1>2, <1>3, InvoiceSteps DEF GenerateMonthly, MarkOverdue, SetVoid

\* A message follows a commit, and income stays.
LEMMA NextNoticeMeansBooked == IInv /\ TypeOK' /\ [Next]_vars => NoticeMeansBooked'
<1> SUFFICES ASSUME IInv, TypeOK', [Next]_vars, NEW k \in outbox'
             PROVE  income'[k] > 0
  BY DEF NoticeMeansBooked
<1>1. k \in Keys
  BY DEF TypeOK
<1>2. income[k] > 0 => income'[k] > 0
  <2>1. ASSUME NEW w \in Workers, Commit(w)
        PROVE  income[k] > 0 => income'[k] > 0
    BY <1>1, <2>1, CommitBooks DEF IInv, TypeOK
  <2>2. QED
    BY <2>1, InvoiceSteps DEF GenerateMonthly, MarkOverdue, SetVoid
<1>3. k \in outbox \/ \E w \in Workers : pc[w] = "notify" /\ key[w] = k
  <2>1. CASE UNCHANGED outbox
    BY <2>1
  <2>2. ASSUME NEW w \in Workers, Notify(w)
        PROVE  k \in outbox \/ (pc[w] = "notify" /\ key[w] = k)
    BY <2>2 DEF Notify
  <2>3. QED
    BY <2>1, <2>2
    DEF Next, Request, Statement, Provider, vars, dbVars, PayRead, VoidRead,
        ChargeRead, Callback, ProviderSettles, ProviderDeclines, ProviderExpires,
        InsertPayment, GatewayCharge, InsertPending, MarkPaymentStatus,
        SettlePayment, ReadInvoice, CommitSettled, MarkInvoicePaid, ReadCustomer,
        SetActiveUntil, Abort, GenerateMonthly, MarkOverdue, SetVoid, Commit
<1>4. QED
  BY <1>2, <1>3 DEF IInv, NoticeMeansBooked, NoticeFollows

\* Only requests that carry the provider's word settle or book.
LEMMA NextCollectedBeforeBooked == IInv /\ TypeOK' /\ [Next]_vars => CollectedBeforeBooked'
<1> SUFFICES ASSUME IInv, TypeOK', [Next]_vars,
                    NEW k \in OrderKeys, income'[k] > 0 \/ payment'[k] = "settled"
             PROVE  provider'[k] = "settled"
  BY DEF CollectedBeforeBooked
<1>1. k \in Keys
  BY OrderKeyIsKey
<1>2. provider[k] = "settled" => provider'[k] = "settled"
  BY DEF IInv, TypeOK, Next, Request, Statement, Provider, vars, dbVars, netVars,
         PayRead, VoidRead, ChargeRead, Callback, ProviderSettles,
         ProviderDeclines, ProviderExpires, InsertPayment, GatewayCharge,
         InsertPending, MarkPaymentStatus, SettlePayment, ReadInvoice,
         CommitSettled, MarkInvoicePaid, ReadCustomer, SetActiveUntil, Notify,
         Abort, GenerateMonthly, MarkOverdue, SetVoid, Commit
<1> DEFINE Known ==
             \/ income[k] > 0 \/ payment[k] = "settled"
             \/ \E w \in Workers : pc[w] \in {"commit", "commit_settled"} /\ key[w] = k
<1>3. Known
  <2>1. ASSUME NEW w \in Workers, Commit(w) \/ CommitSettled(w)
        PROVE  Known
    BY <1>1, <2>1 DEF IInv, TypeOK, Commit, CommitSettled
  <2>2. ASSUME NEW w \in Workers, MarkPaymentStatus(w)
        PROVE  Known
    BY <1>1, <2>2 DEF IInv, TypeOK, MarkPaymentStatus, RequestKinds
  <2>3. ASSUME NEW w \in Workers, InsertPending(w)
        PROVE  Known
    BY <1>1, <2>3 DEF IInv, TypeOK, InsertPending
  <2>4. CASE UNCHANGED <<income, payment>>
    BY <2>4
  <2>5. QED
    BY <2>1, <2>2, <2>3, <2>4
    DEF Next, Request, Statement, Provider, vars, dbVars, PayRead, VoidRead,
        ChargeRead, Callback, ProviderSettles, ProviderDeclines, ProviderExpires,
        InsertPayment, GatewayCharge, SettlePayment, ReadInvoice,
        MarkInvoicePaid, ReadCustomer, SetActiveUntil, Notify, Abort,
        GenerateMonthly, MarkOverdue, SetVoid
<1>4. QED
  BY <1>2, <1>3
  DEF IInv, CollectedBeforeBooked, CollectedFirst, Settling, Booking

-----------------------------------------------------------------------------
(* The theorems.                                                            *)

\* The invariant is inductive.
LEMMA NextInv == IInv /\ [Next]_vars => IInv'
<1>1. IInv /\ [Next]_vars => TypeOK'
  BY NextType DEF IInv
<1>2. QED
  BY <1>1, NextRequestKinds, NextPaymentExclusive, NextManualRows, NextBookedOnce,
     NextCollectedFirst, NextNoticeFollows, NextPaidMeansBooked,
     NextBookedMeansClosed, NextIncomeOncePerPayment, NextNoticeMeansBooked,
     NextCollectedBeforeBooked
  DEF IInv

\* Every reachable state satisfies the inductive invariant: the kinds of requests
\* stay apart, a payment row has one writer, and what is on its way to be booked
\* was collected and not booked before (PayInvoice, HandleCallback and settle).
THEOREM Invariance == Spec => []IInv
<1>1. QED
  BY InitInv, NextInv, PTL DEF Spec

\* An invoice that is paid has income behind it, however requests interleave or
\* fail (MarkInvoicePaid and AddLedger share a transaction).
THEOREM PaidHasIncome == Spec => []PaidMeansBooked
<1>1. IInv => PaidMeansBooked
  BY DEF IInv
<1>2. QED
  BY <1>1, Invariance, PTL

\* An invoice with income is never open for payment again: MarkOverdue takes
\* unpaid invoices only, Void leads to "void" only.
THEOREM IncomeClosesInvoice == Spec => []BookedMeansClosed
<1>1. IInv => BookedMeansClosed
  BY DEF IInv
<1>2. QED
  BY <1>1, Invariance, PTL

\* PayInvoice books an invoice once at most, for any number of cashiers and
\* voids: the key manual-inv-<id> decides (payments' unique idempotency key).
THEOREM CashierBooksOnce == Spec => []ManualIncomeOnce
<1>1. IInv => ManualIncomeOnce
  BY DEF IInv, ManualRows, ManualIncomeOnce
<1>2. QED
  BY <1>1, Invariance, PTL

\* No payment of an invoice nobody voids is booked twice, whatever notifications
\* repeat, overlap or contradict each other (settle reads the invoice behind the
\* row lock of SettlePayment).
THEOREM WebhookBooksOnce == Spec => []IncomeOncePerPayment
<1>1. IInv => IncomeOncePerPayment
  BY DEF IInv
<1>2. QED
  BY <1>1, Invariance, PTL

\* A settled payment leaves no open invoice behind, unless it may be voided
\* (settle updates both in one transaction, and nothing reopens the invoice).
THEOREM SettledIsPaid == Spec => []SettledMeansPaid
<1>1. IInv => SettledMeansPaid
  BY DEF IInv, BookedOnce, SettledMeansPaid
<1>2. QED
  BY <1>1, Invariance, PTL

\* Nothing is booked, and no order settled, that the provider has not collected
\* (HandleCallback's branch on the verdict).
THEOREM MoneyBeforeIncome == Spec => []CollectedBeforeBooked
<1>1. IInv => CollectedBeforeBooked
  BY DEF IInv
<1>2. QED
  BY <1>1, Invariance, PTL

\* Customers are told "paid" only about committed income (the message is
\* enqueued after WithTx returns).
THEOREM NoticeAfterIncome == Spec => []NoticeMeansBooked
<1>1. IInv => NoticeMeansBooked
  BY DEF IInv
<1>2. QED
  BY <1>1, Invariance, PTL

\* An invoice nobody tries to void stays paid once it is: not even the overdue
\* job or a late invoice run takes it back (MarkOverdueInvoices, CreateInvoice's
\* ON CONFLICT DO NOTHING).
THEOREM PaidIsKept == Spec => PaidStaysPaid
<1>1. ASSUME IInv, [Next]_vars, NEW i \in Invoices \ Voidable, invoice[i] = "paid"
      PROVE  invoice'[i] = "paid"
  <2>1. CASE UNCHANGED <<invoice, income>>
    BY <1>1, <2>1
  <2>2. ASSUME NEW j \in Invoices, GenerateMonthly(j)
        PROVE  invoice'[i] = "paid"
    BY <1>1, <2>2 DEF GenerateMonthly
  <2>3. CASE MarkOverdue
    BY <1>1, <2>3 DEF MarkOverdue
  <2>4. ASSUME NEW w \in Workers, SetVoid(w)
        PROVE  invoice'[i] = "paid"
    <3>1. InvoiceOf(key[w]) # i
      BY <1>1, <2>4 DEF SetVoid, IInv, RequestKinds
    <3>2. QED
      BY <1>1, <2>4, <3>1 DEF SetVoid, IInv, TypeOK
  <2>5. ASSUME NEW w \in Workers, Commit(w)
        PROVE  invoice'[i] = "paid"
    BY <1>1, <2>5, CommitBooks DEF IInv, TypeOK
  <2>6. QED
    BY <1>1, <2>1, <2>2, <2>3, <2>4, <2>5, InvoiceSteps
<1>2. IInv /\ [Next]_vars
        => [\A i \in Invoices \ Voidable :
              invoice[i] = "paid" => invoice'[i] = "paid"]_vars
  BY <1>1
<1>3. QED
  BY <1>2, Invariance, PTL DEF Spec, PaidStaysPaid

-----------------------------------------------------------------------------
(* The cashbook pays for the service.                                       *)

\* A numbered row belongs to a payment that has as many.
LEMMA RowsByPayment ==
  ASSUME NEW f, NEW K, NEW r
  PROVE  r \in UNION {{k} \X (1..f[k]) : k \in K} <=> \E k \in K : \E n \in 1..f[k] : r = <<k, n>>
  OBVIOUS

\* A commit adds the next row of its payment to the rows of its customer, and
\* none to those of another.
LEMMA CommitAddsRow ==
  ASSUME TypeOK, NEW w \in Workers, Commit(w), NEW c \in Customers
  PROVE  IncomeRows(KeysOf(c))' =
           IF CustomerOf[InvoiceOf(key[w])] = c
             THEN IncomeRows(KeysOf(c)) \cup {<<key[w], income[key[w]] + 1>>}
             ELSE IncomeRows(KeysOf(c))
<1> DEFINE k0 == key[w]
<1>1. k0 \in Keys /\ income[k0] \in Nat
  BY DEF Commit, TypeOK
<1>2. income' = [income EXCEPT ![k0] = income[k0] + 1] /\ income \in [Keys -> Nat]
  BY DEF Commit, TypeOK
<1>3. KeysOf(c)' = KeysOf(c) /\ KeysOf(c) \subseteq Keys
  BY DEF KeysOf
<1>4. k0 \in KeysOf(c) <=> CustomerOf[InvoiceOf(k0)] = c
  BY <1>1 DEF KeysOf
<1> HIDE DEF k0
<1>5. \A k \in KeysOf(c) : income'[k] = IF k = k0 THEN income[k0] + 1 ELSE income[k]
  BY <1>2, <1>3
<1>6. \A n : n \in 1..(income[k0] + 1) <=> n \in 1..income[k0] \/ n = income[k0] + 1
  BY <1>1
<1>7. \A r : r \in IncomeRows(KeysOf(c))
                <=> \E k \in KeysOf(c) : \E n \in 1..income[k] : r = <<k, n>>
  BY RowsByPayment DEF IncomeRows
<1>8. \A r : r \in IncomeRows(KeysOf(c))'
                <=> \E k \in KeysOf(c) : \E n \in 1..income'[k] : r = <<k, n>>
  BY <1>3, RowsByPayment DEF IncomeRows
<1>9. CASE k0 \in KeysOf(c)
  <2>1. \A r : r \in IncomeRows(KeysOf(c))'
                 <=> r \in IncomeRows(KeysOf(c)) \/ r = <<k0, income[k0] + 1>>
    BY <1>5, <1>6, <1>7, <1>8, <1>9
  <2> QED
    BY <1>4, <1>9, <2>1 DEF k0
<1>10. CASE k0 \notin KeysOf(c)
  <2>1. \A r : r \in IncomeRows(KeysOf(c))' <=> r \in IncomeRows(KeysOf(c))
    BY <1>5, <1>7, <1>8, <1>10
  <2> QED
    BY <1>4, <1>10, <2>1 DEF k0
<1> QED
  BY <1>9, <1>10

\* So the customer whose invoice is settled has one more, and nobody fewer.
LEMMA CommitCounts ==
  ASSUME TypeOK, NEW w \in Workers, Commit(w), NEW c \in Customers,
         IsFiniteSet(IncomeRows(KeysOf(c)))
  PROVE  /\ IsFiniteSet(IncomeRows(KeysOf(c)))'
         /\ IncomeFrom(c) \in Nat
         /\ IncomeFrom(c)' = IF CustomerOf[InvoiceOf(key[w])] = c THEN IncomeFrom(c) + 1
                                                                 ELSE IncomeFrom(c)
<1> DEFINE new == <<key[w], income[key[w]] + 1>>
<1>1. new \notin IncomeRows(KeysOf(c))
  <2>1. income[key[w]] \in Nat
    BY DEF Commit, TypeOK
  <2>2. \A r \in IncomeRows(KeysOf(c)) : \E k \in KeysOf(c) : \E n \in 1..income[k] : r = <<k, n>>
    BY RowsByPayment DEF IncomeRows
  <2> QED
    BY <2>1, <2>2
<1>2. IncomeFrom(c) \in Nat
  BY FS_CardinalityType DEF IncomeFrom
<1> HIDE DEF new
<1>3. /\ IsFiniteSet(IncomeRows(KeysOf(c)) \cup {new})
      /\ Cardinality(IncomeRows(KeysOf(c)) \cup {new}) = IncomeFrom(c) + 1
  BY <1>1, FS_AddElement DEF IncomeFrom
<1> QED
  BY <1>2, <1>3, CommitAddsRow DEF new, IncomeFrom

\* Nobody owes the cashbook a period in the empty database.
LEMMA InitPaidFor == Init => PaidFor
<1> SUFFICES ASSUME Init
             PROVE  PaidFor
  OBVIOUS
<1>1. ASSUME NEW c \in Customers
      PROVE  IncomeRows(KeysOf(c)) = {}
  <2>1. \A k \in KeysOf(c) : income[k] = 0
    BY DEF Init, KeysOf
  <2>2. \A r : r \in IncomeRows(KeysOf(c))
                 <=> \E k \in KeysOf(c) : \E n \in 1..income[k] : r = <<k, n>>
    BY RowsByPayment DEF IncomeRows
  <2> QED
    BY <2>1, <2>2
<1>2. \A c \in Customers : IsFiniteSet(IncomeRows(KeysOf(c))) /\ IncomeFrom(c) = 0
  BY <1>1, FS_EmptySet DEF IncomeFrom
<1>3. ServiceWithinIncome
  BY <1>2 DEF Init, ServiceWithinIncome
<1>4. \A w \in Workers : pc[w] = "idle"
  BY DEF Init
<1> QED
  BY <1>2, <1>3, <1>4 DEF PaidFor

\* Only a request that reads the customer computes an expiry; the others carry
\* theirs along, and only a commit moves income or service.
LEMMA ExpiryIsCarried ==
  ASSUME TypeOK, [Next]_vars,
         \A w \in Workers : ~Commit(w) /\ ~ReadCustomer(w)
  PROVE  /\ UNCHANGED <<income, service>>
         /\ \A v \in Workers :
              pc'[v] \in {"set_active", "commit"} =>
                /\ pc[v] \in {"set_active", "commit"}
                /\ key'[v] = key[v] /\ until'[v] = until[v]
<1> USE DEF TypeOK, dbVars, netVars, workerVars, Goto
<1> DEFINE Carried ==
      /\ UNCHANGED <<income, service>>
      /\ \A v \in Workers :
           pc'[v] \in {"set_active", "commit"} =>
             /\ pc[v] \in {"set_active", "commit"}
             /\ key'[v] = key[v] /\ until'[v] = until[v]
<1>1. UNCHANGED <<income, service, pc, key, until>> => Carried
  OBVIOUS
<1>2. CASE UNCHANGED vars
  BY <1>1, <1>2 DEF vars
<1>3. CASE Provider \/ MarkOverdue \/ \E i \in Invoices : GenerateMonthly(i)
  BY <1>1, <1>3 DEF Provider, ProviderSettles, ProviderDeclines, ProviderExpires,
                    MarkOverdue, GenerateMonthly
<1>4. ASSUME NEW w \in Workers, Request(w)
      PROVE  Carried
  BY <1>4 DEF Request, PayRead, VoidRead, ChargeRead, Callback, Start
<1>5. ASSUME NEW w \in Workers, SetActiveUntil(w)
      PROVE  Carried
  BY <1>5 DEF SetActiveUntil
<1>6. ASSUME NEW w \in Workers, Abort(w)
      PROVE  Carried
  BY <1>6 DEF Abort, Finish
<1>7. ASSUME NEW w \in Workers, InsertPayment(w)
      PROVE  Carried
  BY <1>7 DEF InsertPayment, Finish
<1>8. ASSUME NEW w \in Workers,
             \/ InsertPending(w) \/ MarkPaymentStatus(w) \/ CommitSettled(w)
             \/ Notify(w) \/ SetVoid(w)
      PROVE  Carried
  BY <1>8 DEF InsertPending, MarkPaymentStatus, CommitSettled, Notify, SetVoid, Finish
<1>9. ASSUME NEW w \in Workers,
             \/ GatewayCharge(w) \/ SettlePayment(w) \/ ReadInvoice(w) \/ MarkInvoicePaid(w)
      PROVE  Carried
  BY <1>9 DEF GatewayCharge, SettlePayment, ReadInvoice, MarkInvoicePaid
<1> QED
  BY <1>2, <1>3, <1>4, <1>5, <1>6, <1>7, <1>8, <1>9 DEF Next, Statement

\* What a request will extend a customer to stays paid for.
LEMMA NextPaidFor == TypeOK /\ TypeOK' /\ PaidFor /\ [Next]_vars => PaidFor'
<1> SUFFICES ASSUME TypeOK, TypeOK', PaidFor, [Next]_vars
             PROVE  PaidFor'
  OBVIOUS
<1> DEFINE OnItsWay(v) == pc[v] \in {"set_active", "commit"}
           CustomerFor(v) == CustomerOf[InvoiceOf(key[v])]
<1>1. \A c \in Customers : IncomeFrom(c) \in Nat /\ service[c] \in Nat
  BY FS_CardinalityType DEF IncomeFrom, PaidFor, TypeOK
<1>2. \A v \in Workers : until[v] \in Nat /\ (OnItsWay(v) => CustomerFor(v) \in Customers)
  BY CustomerOfKey DEF TypeOK
<1>3. ASSUME NEW w \in Workers, Commit(w)
      PROVE  PaidFor'
  <2>1. ASSUME NEW c \in Customers
        PROVE  /\ IsFiniteSet(IncomeRows(KeysOf(c)))'
               /\ IncomeFrom(c)' = IF CustomerFor(w) = c THEN IncomeFrom(c) + 1
                                                         ELSE IncomeFrom(c)
    BY <1>3, <2>1, CommitCounts DEF PaidFor
  <2>2. /\ pc[w] = "commit" /\ pc' = [pc EXCEPT ![w] = "notify"]
        /\ service' = [service EXCEPT ![CustomerFor(w)] = until[w]]
        /\ UNCHANGED <<key, until>>
    BY <1>3 DEF Commit, Goto
  <2>3. ASSUME NEW v \in Workers, OnItsWay(v)'
        PROVE  until'[v] <= IncomeFrom(CustomerFor(v))' + 1
    <3>1. OnItsWay(v) /\ CustomerFor(v)' = CustomerFor(v)
      BY <2>2, <2>3 DEF TypeOK
    <3>2. until[v] <= IncomeFrom(CustomerFor(v)) + 1
      BY <3>1 DEF PaidFor
    <3>3. IncomeFrom(CustomerFor(v))' >= IncomeFrom(CustomerFor(v))
      BY <1>1, <1>2, <2>1, <3>1
    <3> QED
      BY <1>1, <1>2, <2>1, <2>2, <3>1, <3>2, <3>3
  <2>4. ASSUME NEW c \in Customers
        PROVE  service'[c] <= IncomeFrom(c)'
    <3>1. service[c] <= IncomeFrom(c)
      BY DEF PaidFor, ServiceWithinIncome
    <3>2. until[w] <= IncomeFrom(CustomerFor(w)) + 1
      BY <2>2 DEF PaidFor
    <3>3. service'[c] = IF c = CustomerFor(w) THEN until[w] ELSE service[c]
      BY <2>2 DEF TypeOK
    <3> QED
      BY <1>1, <2>1, <3>1, <3>2, <3>3
  <2> QED
    BY <2>1, <2>3, <2>4 DEF PaidFor, ServiceWithinIncome
<1>4. ASSUME UNCHANGED <<income, service>>
      PROVE  /\ \A c : KeysOf(c)' = KeysOf(c) /\ IncomeRows(KeysOf(c))' = IncomeRows(KeysOf(c))
             /\ \A c : IncomeFrom(c)' = IncomeFrom(c)
             /\ ServiceWithinIncome'
  BY <1>4 DEF KeysOf, IncomeRows, IncomeFrom, PaidFor, ServiceWithinIncome
<1>5. ASSUME NEW w \in Workers, ReadCustomer(w)
      PROVE  PaidFor'
  <2>1. /\ UNCHANGED <<income, service, key>>
        /\ pc[w] = "read_customer" /\ pc' = [pc EXCEPT ![w] = "set_active"]
        /\ until' = [until EXCEPT ![w] = service[CustomerFor(w)] + 1]
    BY <1>5 DEF ReadCustomer, Goto, dbVars
  <2>2. ASSUME NEW v \in Workers, OnItsWay(v)'
        PROVE  until'[v] <= IncomeFrom(CustomerFor(v))' + 1
    <3>1. CustomerFor(v)' = CustomerFor(v) /\ IncomeFrom(CustomerFor(v))' = IncomeFrom(CustomerFor(v))
      BY <1>4, <2>1
    <3>2. CASE v = w
      <4>1. CustomerFor(w) \in Customers
        BY <2>1, CustomerOfKey DEF TypeOK
      <4>2. until'[w] = service[CustomerFor(w)] + 1
        BY <2>1 DEF TypeOK
      <4> QED
        BY <1>1, <3>1, <3>2, <4>1, <4>2 DEF PaidFor, ServiceWithinIncome
    <3>3. CASE v # w
      <4>1. OnItsWay(v) /\ until'[v] = until[v]
        BY <2>1, <2>2, <3>3 DEF TypeOK
      <4> QED
        BY <3>1, <4>1 DEF PaidFor
    <3> QED
      BY <3>2, <3>3
  <2> QED
    BY <1>4, <2>1, <2>2 DEF PaidFor
<1>6. CASE \A w \in Workers : ~Commit(w) /\ ~ReadCustomer(w)
  <2>1. /\ UNCHANGED <<income, service>>
        /\ \A v \in Workers : OnItsWay(v)' =>
             OnItsWay(v) /\ key'[v] = key[v] /\ until'[v] = until[v]
    BY <1>6, ExpiryIsCarried
  <2> QED
    BY <1>4, <2>1 DEF PaidFor
<1> QED
  BY <1>3, <1>5, <1>6

\* No interleaving of cashiers and webhooks gives a customer more plan periods than
\* the cashbook has income rows for, although each computes the new expiry from a
\* customer it read without a lock (Customer.GetByID, then SetActiveUntil).
THEOREM ServiceIsPaidFor == Spec => []ServiceWithinIncome
<1>1. TypeOK /\ [Next]_vars => TypeOK'
  BY NextType
<1>2. Spec => []PaidFor
  BY <1>1, InitType, InitPaidFor, NextPaidFor, PTL DEF Spec
<1>3. PaidFor => ServiceWithinIncome
  BY DEF PaidFor
<1> QED
  BY <1>2, <1>3, PTL

-----------------------------------------------------------------------------
(* Who waits for whom.                                                      *)

\* WaitsFor is what the guards of the statements wait for: a request whose next
\* statement is taken waits for nobody.
LEMMA TakenMeansFree ==
  ASSUME NEW v \in Workers, Statement(v), NEW w \in Workers
  PROVE  ~WaitsFor(v, w)
<1>1. CASE InsertPayment(v) \/ MarkPaymentStatus(v) \/ SettlePayment(v)
  BY <1>1 DEF InsertPayment, MarkPaymentStatus, SettlePayment, PaymentFree, WaitsFor
<1>2. CASE MarkInvoicePaid(v) \/ SetVoid(v)
  BY <1>2 DEF MarkInvoicePaid, SetVoid, InvoiceFree, WaitsFor
<1>3. CASE SetActiveUntil(v)
  BY <1>3 DEF SetActiveUntil, CustomerFree, WaitsFor
<1>4. CASE pc[v] \notin {"insert_payment", "mark_status", "settle_payment",
                         "mark_invoice", "set_void", "set_active"}
  BY <1>4 DEF WaitsFor
<1> QED
  BY <1>1, <1>2, <1>3, <1>4
  DEF Statement, GatewayCharge, InsertPending, ReadInvoice, CommitSettled, ReadCustomer,
      Commit, Notify

\* The locks are taken in the order payment, invoice, customer.
LEMMA LocksAreOrdered == NoDeadlock
<1> SUFFICES ASSUME NEW S \in SUBSET Workers, S # {}
             PROVE  \E v \in S : \A w \in S : ~WaitsFor(v, w)
  BY DEF NoDeadlock
<1> DEFINE ForPayment  == {"insert_payment", "mark_status", "settle_payment"}
           ForInvoice  == {"mark_invoice", "set_void"}
           ForCustomer == {"set_active"}
<1>1. ASSUME NEW v \in S, NEW w \in S, WaitsFor(v, w)
      PROVE  \/ pc[v] \in ForPayment  /\ pc[w] \notin ForPayment
             \/ pc[v] \in ForInvoice  /\ pc[w] \notin ForPayment \cup ForInvoice
             \/ pc[v] \in ForCustomer /\ pc[w] \notin ForPayment \cup ForInvoice \cup ForCustomer
  BY <1>1 DEF WaitsFor, HoldsPayment, HoldsInvoice, HoldsCustomer
<1>2. CASE \E v \in S : pc[v] \notin ForPayment \cup ForInvoice \cup ForCustomer
  BY <1>1, <1>2
<1>3. CASE /\ \A v \in S : pc[v] \in ForPayment \cup ForInvoice \cup ForCustomer
           /\ \E v \in S : pc[v] \in ForCustomer
  BY <1>1, <1>3
<1>4. CASE /\ \A v \in S : pc[v] \in ForPayment \cup ForInvoice
           /\ \E v \in S : pc[v] \in ForInvoice
  BY <1>1, <1>4
<1>5. CASE \A v \in S : pc[v] \in ForPayment
  BY <1>1, <1>5
<1> QED
  BY <1>2, <1>3, <1>4, <1>5

\* No set of cashiers, webhooks and voids waits in a circle for each other's row
\* locks, and a statement is taken only by a request that waits for nobody
\* (settle and PayInvoice write payment, invoice and customer in this order).
THEOREM NobodyDeadlocks ==
  Spec => []NoDeadlock /\ [][\A v, w \in Workers : Statement(v) => ~WaitsFor(v, w)]_vars
<1>1. [Next]_vars => [\A v, w \in Workers : Statement(v) => ~WaitsFor(v, w)]_vars
  BY TakenMeansFree
<1> QED
  BY <1>1, LocksAreOrdered, PTL DEF Spec

-----------------------------------------------------------------------------
(* The refinement of the invoice book.                                      *)

\* It holds initially.
LEMMA InitOrders == Init => OrdersOnly
  BY OrderKeyIsKey, InvoiceOfKey DEF Init, OrdersOnly, Keys

\* The way is kept by every step of a request but its commit,
LEMMA OrdersKept ==
  ASSUME IInv, OneWayToPay, OrdersOnly, TypeOK', [Next]_vars,
         \A w \in Workers : ~Commit(w)
  PROVE  OrdersOnly'
<1> USE OrderKeyIsKey, InvoiceOfKey
    DEF IInv, TypeOK, dbVars, netVars, workerVars, Goto, OrdersOnly
<1>1. CASE UNCHANGED vars
  BY <1>1 DEF vars
<1>2. ASSUME NEW i \in Invoices, GenerateMonthly(i)
      PROVE  OrdersOnly'
  BY <1>2 DEF GenerateMonthly
<1>3. CASE MarkOverdue
  BY <1>3 DEF MarkOverdue
<1>4. CASE Provider
  BY <1>4 DEF Provider, ProviderSettles, ProviderDeclines, ProviderExpires
<1>5. ASSUME NEW w \in Workers, NEW i \in Invoices, PayRead(w, i) \/ VoidRead(w, i)
      PROVE  FALSE
  BY <1>5 DEF PayRead, VoidRead, OneWayToPay
<1>6. ASSUME NEW w \in Workers, NEW k \in OrderKeys, ChargeRead(w, k)
      PROVE  OrdersOnly'
  BY <1>6 DEF ChargeRead, Start
<1>7. ASSUME NEW w \in Workers, NEW k \in OrderKeys, NEW v \in Verdicts, Callback(w, k, v)
      PROVE  OrdersOnly'
  BY <1>7 DEF Callback, Start
<1>8. ASSUME NEW w \in Workers, InsertPayment(w) \/ SetVoid(w)
      PROVE  FALSE
  BY <1>8, ManualIsNotOrder DEF InsertPayment, SetVoid, RequestKinds
<1>9. ASSUME NEW w \in Workers,
             \/ GatewayCharge(w) \/ SettlePayment(w) \/ ReadInvoice(w)
             \/ MarkInvoicePaid(w) \/ ReadCustomer(w) \/ SetActiveUntil(w)
      PROVE  OrdersOnly'
  BY <1>9
  DEF GatewayCharge, SettlePayment, ReadInvoice, MarkInvoicePaid, ReadCustomer, SetActiveUntil
<1>10. ASSUME NEW w \in Workers, InsertPending(w) \/ MarkPaymentStatus(w) \/ CommitSettled(w)
       PROVE  OrdersOnly'
  BY <1>10 DEF InsertPending, MarkPaymentStatus, CommitSettled, Finish
<1>11. ASSUME NEW w \in Workers, Notify(w) \/ Abort(w)
       PROVE  OrdersOnly'
  BY <1>11 DEF Notify, Abort, Finish
<1> QED
  BY <1>1, <1>2, <1>3, <1>4, <1>5, <1>6, <1>7, <1>8, <1>9, <1>10, <1>11 DEF Next, Request, Statement

\* and a commit is the one settlement of its invoice.
LEMMA CommitSettles ==
  ASSUME IInv, OneWayToPay, OrdersOnly, TypeOK', NEW w \in Workers, Commit(w)
  PROVE  OrdersOnly' /\ Book!Settle(key[w])
<1> DEFINE k == key[w]
           i == InvoiceOf(k)
           c == CustomerOf[i]
<1>1. /\ k \in OrderKeys /\ k \in Keys /\ i \in Invoices /\ c \in Customers
      /\ invoice[i] \notin {"none", "void"} /\ until[w] = service[c] + 1
  BY OrderKeyIsKey, InvoiceOfKey, CustomerOfKey DEF OrdersOnly, Commit
<1>2. owns[w] /\ income[k] = 0
  BY <1>1 DEF IInv, BookedOnce, Booking, Commit, OneWayToPay
<1>3. \A j \in OrderKeys : InvoiceOf(j) = i => j = k
  BY <1>1 DEF OneWayToPay, OrderKeys, InvoiceOf
<1>4. \A j \in Keys : InvoiceOf(j) = i => income[j] = 0
  BY <1>2, <1>3 DEF Keys, OrdersOnly
<1>5. invoice[i] \in {"unpaid", "overdue"}
  <2>1. invoice[i] # "paid"
    BY <1>1, <1>4 DEF IInv, PaidMeansBooked
  <2> QED
    BY <1>1, <2>1 DEF IInv, TypeOK, InvoiceStatus
<1>6. Book!Settle(key[w])
  <2>1. /\ invoice' = [invoice EXCEPT ![k[1]] = "paid"]
        /\ income' = [income EXCEPT ![k] = 1]
        /\ service' = [service EXCEPT ![CustomerOf[k[1]]] = @ + 1]
    BY <1>1, <1>2 DEF Commit, InvoiceOf, IInv, TypeOK
  <2>2. invoice[k[1]] \in {"unpaid", "overdue"} /\ \A j \in Keys : j[1] = k[1] => income[j] = 0
    BY <1>4, <1>5 DEF InvoiceOf
  <2> QED
    BY <2>1, <2>2 DEF Book!Settle
<1>7. OrdersOnly'
  <2>1. /\ key' = key /\ until' = until /\ pc' = [pc EXCEPT ![w] = "notify"]
        /\ payment' = [payment EXCEPT ![k] = "settled"]
        /\ invoice' = [invoice EXCEPT ![i] = "paid"]
        /\ income' = [income EXCEPT ![k] = @ + 1]
        /\ service' = [service EXCEPT ![c] = until[w]]
    BY <1>2 DEF Commit, Goto
  <2>2. \A j \in ManualKeys : income'[j] = 0
    BY <1>1, <2>1, ManualIsNotOrder DEF OrdersOnly, IInv, TypeOK
  <2>3. \A j \in Invoices : invoice'[j] # "void" /\ (invoice[j] # "none" => invoice'[j] # "none")
    BY <2>1 DEF OrdersOnly, IInv, TypeOK
  <2>4. \A j \in OrderKeys : payment'[j] # "none" => invoice'[InvoiceOf(j)] # "none"
    BY <1>1, <2>1, <2>3, OrderKeyIsKey, InvoiceOfKey DEF OrdersOnly, IInv, TypeOK
  <2>5. ASSUME NEW v \in Workers, pc'[v] # "idle"
        PROVE  key'[v] \in OrderKeys /\ invoice'[InvoiceOf(key'[v])] # "none"
    BY <1>1, <2>1, <2>3, <2>5, OrderKeyIsKey, InvoiceOfKey DEF OrdersOnly, IInv, TypeOK, Commit
  <2>6. ASSUME NEW v \in Workers, pc'[v] \in {"set_active", "commit"}
        PROVE  until'[v] = service'[CustomerOf[InvoiceOf(key'[v])]] + 1
    <3>1. v # w /\ pc[v] = pc'[v]
      BY <2>1, <2>6 DEF IInv, TypeOK
    <3>2. key[v] \in OrderKeys /\ InvoiceOf(key[v]) \in Invoices /\ CustomerOf[InvoiceOf(key[v])] \in Customers
      BY <2>6, <3>1, OrderKeyIsKey, InvoiceOfKey, CustomerOfKey DEF OrdersOnly
    <3>3. owns[v]
      BY <2>6, <3>1, <3>2, OrderKeyIsKey DEF IInv, BookedOnce, Booking, OneWayToPay
    <3>4. key[v] # k
      BY <1>1, <1>2, <2>6, <3>1, <3>3 DEF IInv, PaymentExclusive, HoldsPayment, Commit
    <3>5. CustomerOf[InvoiceOf(key[v])] # c
      BY <1>1, <1>3, <3>2, <3>4 DEF OneWayToPay
    <3> QED
      BY <2>1, <2>6, <3>1, <3>2, <3>5 DEF OrdersOnly, IInv, TypeOK
  <2> QED
    BY <2>2, <2>3, <2>4, <2>5, <2>6 DEF OrdersOnly
<1> QED
  BY <1>6, <1>7

\* A step of settlement is a step of the invoice book or leaves it alone.
LEMMA BookStep ==
  IInv /\ OneWayToPay /\ OrdersOnly /\ [Next]_vars => [Book!Next]_(Book!vars) /\ OrdersOnly'
<1> SUFFICES ASSUME IInv, OneWayToPay, OrdersOnly, [Next]_vars
             PROVE  [Book!Next]_(Book!vars) /\ OrdersOnly'
  OBVIOUS
<1>1. TypeOK'
  BY NextType DEF IInv
<1>2. ASSUME NEW w \in Workers, Commit(w)
      PROVE  [Book!Next]_(Book!vars) /\ OrdersOnly'
  <2>1. key[w] \in Keys
    BY <1>2, CommitBooks
  <2> QED
    BY <1>1, <1>2, <2>1, CommitSettles DEF Book!Next
<1>3. CASE \A w \in Workers : ~Commit(w)
  <2>1. OrdersOnly'
    BY <1>1, <1>3, OrdersKept
  <2>2. ASSUME NEW i \in Invoices, GenerateMonthly(i)
        PROVE  Book!Next
    BY <2>2 DEF GenerateMonthly, Book!Next, Book!Issue
  <2>3. CASE MarkOverdue
    <3>1. PICK due \in SUBSET {i \in Invoices : invoice[i] = "unpaid"} :
            /\ invoice' = [i \in Invoices |-> IF i \in due THEN "overdue" ELSE invoice[i]]
            /\ UNCHANGED <<income, service>>
      BY <2>3 DEF MarkOverdue
    <3>2. due \in SUBSET Invoices /\ Book!FallDue(due)
      BY <3>1 DEF Book!FallDue
    <3> QED
      BY <2>1, <3>2 DEF Book!Next
  <2>4. ASSUME NEW w \in Workers
        PROVE  ~SetVoid(w)
    BY ManualIsNotOrder DEF SetVoid, IInv, RequestKinds, OrdersOnly
  <2>5. \/ UNCHANGED <<invoice, income, service>>
        \/ \E i \in Invoices : GenerateMonthly(i)
        \/ MarkOverdue
    BY <1>3, <2>4 DEF Next, Request, Statement, Provider, vars, dbVars, netVars, PayRead, VoidRead,
         ChargeRead, Callback, ProviderSettles, ProviderDeclines, ProviderExpires,
         InsertPayment, GatewayCharge, InsertPending, MarkPaymentStatus,
         SettlePayment, ReadInvoice, CommitSettled, MarkInvoicePaid, ReadCustomer,
         SetActiveUntil, Notify, Abort
  <2> QED
    BY <2>1, <2>2, <2>3, <2>5 DEF Book!vars
<1> QED
  BY <1>2, <1>3

\* Where webhooks are the only way to pay, settlement implements the invoice book,
\* for any number of overlapping, repeated and failing requests: becoming paid,
\* income and service are one step that happens once (paymentsvc.settle).
THEOREM SettlementImplementsBook == OneWayToPay => (Spec => BookSpec)
<1> SUFFICES ASSUME OneWayToPay PROVE Spec => BookSpec
  OBVIOUS
<1>1. Init => Book!Init
  BY DEF Init, Book!Init
<1>2. IInv /\ OrdersOnly /\ [Next]_vars => [Book!Next]_(Book!vars) /\ OrdersOnly'
  BY BookStep
<1> QED
  BY <1>1, <1>2, InitOrders, Invariance, PTL DEF Spec, BookSpec, Book!Spec

=============================================================================
