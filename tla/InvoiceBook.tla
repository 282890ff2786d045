----------------------------- MODULE InvoiceBook -----------------------------
(***************************************************************************)
(* What billing promises about invoices, without requests, transactions,   *)
(* locks or a payment provider: the status machine of internal/domain/     *)
(* billing (table transitions), where becoming paid, booking one income    *)
(* row and extending the customer by one plan period are a single step     *)
(* that happens to an invoice at most once.                                *)
(***************************************************************************)
EXTENDS Naturals

CONSTANTS
  Invoices, Customers, CustomerOf,
  Keys        \* payments: pairs whose first component is the invoice

VARIABLES
  status,     \* "none" until the invoice is issued
  income,     \* income rows by payment
  periods     \* plan periods a customer has been given

vars == <<status, income, periods>>

Init ==
  /\ status  = [i \in Invoices |-> "none"]
  /\ income  = [k \in Keys |-> 0]
  /\ periods = [c \in Customers |-> 0]

Issue(i) ==
  /\ status[i] = "none"
  /\ status' = [status EXCEPT ![i] = "unpaid"]
  /\ UNCHANGED <<income, periods>>

\* The overdue job takes any number of unpaid invoices at once.
FallDue(due) ==
  /\ \A i \in due : status[i] = "unpaid"
  /\ status' = [i \in Invoices |-> IF i \in due THEN "overdue" ELSE status[i]]
  /\ UNCHANGED <<income, periods>>

Void(i) ==
  /\ status[i] \in {"unpaid", "overdue"}
  /\ status' = [status EXCEPT ![i] = "void"]
  /\ UNCHANGED <<income, periods>>

Settle(k) ==
  LET i == k[1] IN
  /\ status[i] \in {"unpaid", "overdue"}
  /\ \A j \in Keys : j[1] = i => income[j] = 0
  /\ status'  = [status EXCEPT ![i] = "paid"]
  /\ income'  = [income EXCEPT ![k] = 1]
  /\ periods' = [periods EXCEPT ![CustomerOf[i]] = @ + 1]

Next ==
  \/ \E i \in Invoices : Issue(i) \/ Void(i)
  \/ \E due \in SUBSET Invoices : FallDue(due)
  \/ \E k \in Keys : Settle(k)

Spec == Init /\ [][Next]_vars

=============================================================================
