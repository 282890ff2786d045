---------------------------- MODULE StoreBilling ----------------------------
(***************************************************************************)
(* Invoices, their items, payments, the ledger and the configuration of     *)
(* payment gateways, in PostgreSQL and in the double.                       *)
(***************************************************************************)
EXTENDS Stores, FiniteSetsExt

-----------------------------------------------------------------------------
(* Invoices, of one amount each.                                            *)

InvoiceRows == [id : RowIds, tenant : Owners, no : Keys, customer : Keys, period : {"March", "April"},
                due : {"before today", "today"}, status : {"unpaid"}]
InvoiceStatuses == {"unpaid", "overdue", "paid"}

SamePeriod(i, x) == i.customer = x.customer /\ i.period = x.period
SameInvoiceNo(i, x) == i.tenant = x.tenant /\ i.no = x.no
InvoiceIn(rows, t, id) == ById(Owned(rows, t), id)

\* ON CONFLICT (customer_id, period_start) DO NOTHING returns no row; the other
\* unique index is not meant.
SqlCreateInvoice(x) ==
  IF \E i \in sql : SamePeriod(i, x) THEN Refusal(sql, NoRows)
    ELSE InsertUnless(\E i \in sql : SameInvoiceNo(i, x), x)
MemCreateInvoice(x) ==
  IF \E i \in mem : SamePeriod(i, x) THEN Refusal(mem, "ErrInvoiceExists") ELSE Insert(mem, x)
\* The double gives two invoices one number.
InvoiceCreate(x) ==
  Call(Adapt(SqlCreateInvoice(x), [no_rows |-> "ErrInvoiceExists"]), MemCreateInvoice(x),
       (\E i \in sql : SameInvoiceNo(i, x)) => \E i \in sql : SamePeriod(i, x))

SqlGetInvoiceByID(t, id) == One(sql, InvoiceIn(sql, t, id), NoRows)
MemGetInvoice(t, id) == One(mem, InvoiceIn(mem, t, id), "ErrInvoiceNotFound")
GetInvoice(t, id) ==
  Call(Adapt(SqlGetInvoiceByID(t, id), [no_rows |-> "ErrInvoiceNotFound"]), MemGetInvoice(t, id), TRUE)

SqlListInvoicesByTenant(t) == Answer(sql, Owned(sql, t))
MemListInvoices(t) == Answer(mem, Owned(mem, t))
ListInvoices(t) == Call(Wrap(SqlListInvoicesByTenant(t)), MemListInvoices(t), TRUE)

SqlListInvoicesByCustomer(t, c) == Answer(sql, {i \in Owned(sql, t) : i.customer = c})
MemListInvoicesByCustomer(t, c) == Answer(mem, {i \in Owned(mem, t) : i.customer = c})
ListInvoicesByCustomer(t, c) ==
  Call(Wrap(SqlListInvoicesByCustomer(t, c)), MemListInvoicesByCustomer(t, c), TRUE)

WithStatus(rows, found, status) == Silent(Change(rows, found, LAMBDA i : [i EXCEPT !.status = status]))

SqlSetInvoiceStatus(t, id, status) == WithStatus(sql, InvoiceIn(sql, t, id), status)
MemSetInvoiceStatus(t, id, status) == WithStatus(mem, InvoiceIn(mem, t, id), status)
SetInvoiceStatus(t, id, status) ==
  Call(Wrap(SqlSetInvoiceStatus(t, id, status)), MemSetInvoiceStatus(t, id, status), TRUE)

SqlMarkInvoicePaid_Bug(t, id) == WithStatus(sql, ById(sql, id), "paid")      \* in any tenant

SqlMarkInvoicePaid(t, id) == WithStatus(sql, InvoiceIn(sql, t, id), "paid")
MemMarkInvoicePaid(t, id) == WithStatus(mem, InvoiceIn(mem, t, id), "paid")
MarkInvoicePaid(t, id) == Call(Wrap(SqlMarkInvoicePaid(t, id)), MemMarkInvoicePaid(t, id), TRUE)

Overdue(rows, due) ==
  LET found == {i \in rows : i.status = "unpaid" /\ i.due \in due} IN
  Returning(WithStatus(rows, found, "overdue"), {Cardinality(found)})

SqlMarkOverdueInvoices == Overdue(sql, {"before today"})
MemMarkOverdue == Overdue(mem, {"before today", "today"})
\* The double compares the due date with the time of day.
MarkOverdue ==
  Call(Wrap(SqlMarkOverdueInvoices), MemMarkOverdue, \A i \in sql : i.status = "unpaid" => i.due # "today")

Owing(rows, t) == {Cardinality({i \in Owned(rows, t) : i.status \in {"unpaid", "overdue"}})}

SqlSumOutstanding(t) == Answer(sql, Owing(sql, t))
MemOutstanding(t) == Answer(mem, Owing(mem, t))
Outstanding(t) == Call(Wrap(SqlSumOutstanding(t)), MemOutstanding(t), TRUE)

InvoiceCalls ==
  /\ table = "invoices"
  /\ \/ MarkOverdue
     \/ \E x \in InvoiceRows : x.id \in Fresh /\ InvoiceCreate(x)
     \/ \E t \in Owners :
          \/ ListInvoices(t) \/ Outstanding(t)
          \/ \E c \in Keys : ListInvoicesByCustomer(t, c)
          \/ \E id \in RowIds :
               GetInvoice(t, id) \/ MarkInvoicePaid(t, id) \/ \E s \in InvoiceStatuses : SetInvoiceStatus(t, id, s)

ItemRows == [id : RowIds, invoice : RowIds, item : Keys]

SqlInsertInvoiceItem(x) == Insert(sql, x)
MemAddInvoiceItem(x) == Insert(mem, x)
AddInvoiceItem(x) == Call(Wrap(SqlInsertInvoiceItem(x)), MemAddInvoiceItem(x), TRUE)

SqlListInvoiceItems(invoice) == Answer(sql, {i \in sql : i.invoice = invoice})
MemInvoiceItems(invoice) == Answer(mem, {i \in mem : i.invoice = invoice})
InvoiceItems(invoice) == Call(Wrap(SqlListInvoiceItems(invoice)), MemInvoiceItems(invoice), TRUE)

ItemCalls ==
  /\ table = "invoice_items"
  /\ \/ \E x \in ItemRows : x.id \in Fresh /\ AddInvoiceItem(x)
     \/ \E i \in RowIds : InvoiceItems(i)

-----------------------------------------------------------------------------
(* Payments.                                                                *)

PaymentRows == [id : RowIds, tenant : Owners, key : Keys, ref : Keys \cup {Nothing},
                status : {"pending", "settled"}, method : {"gateway", "cash"}, old : BOOLEAN]

SqlCreatePayment(x) ==
  IF \E p \in sql : p.key = x.key THEN Refusal(sql, NoRows)
    ELSE InsertUnless(\E p \in sql : x.ref # Nothing /\ p.ref = x.ref, x)
MemCreatePayment(x) ==
  IF \E p \in mem : p.key = x.key THEN Refusal(mem, "ErrPaymentNotUnique") ELSE Insert(mem, x)
\* The double lets two payments have one reference.
PaymentCreate(x) ==
  Call(Adapt(SqlCreatePayment(x), [no_rows |-> "ErrPaymentNotUnique"]), MemCreatePayment(x),
       (\E p \in sql : x.ref # Nothing /\ p.ref = x.ref) => \E p \in sql : p.key = x.key)

SqlListPaymentsByTenant(t) == Answer(sql, Owned(sql, t))
MemListPayments(t) == Answer(mem, Owned(mem, t))
ListPayments(t) == Call(Wrap(SqlListPaymentsByTenant(t)), MemListPayments(t), TRUE)

SqlGetPaymentByGatewayRef(ref) == One(sql, {p \in sql : ref # Nothing /\ p.ref = ref}, NoRows)
MemGetPaymentByRef(ref) == One(mem, {p \in mem : p.ref = ref}, "ErrPaymentNotFound")
\* Asked for no reference, the double finds a payment without one.
GetPaymentByRef(ref) ==
  Call(Adapt(SqlGetPaymentByGatewayRef(ref), [no_rows |-> "ErrPaymentNotFound"]), MemGetPaymentByRef(ref),
       ref # Nothing \/ \A p \in sql : p.ref # Nothing)

SqlSettlePayment(id) == WithStatus(sql, {p \in ById(sql, id) : p.status # "settled"}, "settled")
MemSettlePayment(id) == WithStatus(mem, ById(mem, id), "settled")
SettlePayment(id) == Call(Wrap(SqlSettlePayment(id)), MemSettlePayment(id), TRUE)

SqlMarkPaymentStatus(id, status) == WithStatus(sql, ById(sql, id), status)
MemMarkPaymentStatus(id, status) == WithStatus(mem, ById(mem, id), status)
MarkPaymentStatus(id, status) ==
  Call(Wrap(SqlMarkPaymentStatus(id, status)), MemMarkPaymentStatus(id, status), TRUE)

PendingGateway(rows) == {p \in rows : p.status = "pending" /\ p.method = "gateway" /\ p.old}

SqlListPendingGatewayPayments == Answer(sql, PendingGateway(sql))
MemListPendingGatewayPayments == Answer(mem, PendingGateway(mem))
ListPendingGatewayPayments ==
  Call(Wrap(SqlListPendingGatewayPayments), MemListPendingGatewayPayments, TRUE)

PaymentCalls ==
  /\ table = "payments"
  /\ \/ ListPendingGatewayPayments
     \/ \E x \in PaymentRows : x.id \in Fresh /\ PaymentCreate(x)
     \/ \E t \in Owners : ListPayments(t)
     \/ \E r \in Keys \cup {Nothing} : GetPaymentByRef(r)
     \/ \E id \in RowIds :
          SettlePayment(id) \/ \E s \in {"pending", "settled", "failed"} : MarkPaymentStatus(id, s)

-----------------------------------------------------------------------------
(* The ledger; the month is the one a sum is asked for, or another.         *)

LedgerRows == [id : RowIds, tenant : Owners, type : {"income", "expense"}, amount : 1..2, asked : BOOLEAN]

LedgerSum(rows, t, type) ==
  MapThenSumSet(LAMBDA e : e.amount, {e \in Owned(rows, t) : e.asked /\ e.type = type})
LedgerSums(rows, t) == {[income |-> LedgerSum(rows, t, "income"), expense |-> LedgerSum(rows, t, "expense")]}

SqlInsertLedgerEntry(x) == Insert(sql, x)
MemAddLedger(x) == Insert(mem, x)
AddLedger(x) == Call(Wrap(SqlInsertLedgerEntry(x)), MemAddLedger(x), TRUE)

\* GROUP BY type: a type without entries has no row, and the adapter's sum is zero.
SqlSumLedgerByType(t) == Answer(sql, LedgerSums(sql, t))
MemSumLedger(t) == Answer(mem, LedgerSums(mem, t))
SumLedger(t) == Call(Wrap(SqlSumLedgerByType(t)), MemSumLedger(t), TRUE)

LedgerCalls ==
  /\ table = "ledger_entries"
  /\ \/ \E x \in LedgerRows : x.id \in Fresh /\ AddLedger(x)
     \/ \E t \in Owners : SumLedger(t)

-----------------------------------------------------------------------------
(* Payment gateways: one row to a tenant and provider.                      *)

ConfigRows == [tenant : Owners, provider : Keys, config : Keys, active : BOOLEAN]

ConfigOf(rows, t, provider) == {g \in rows : g.tenant = t /\ g.provider = provider}
Upserted(rows, x) == Answer((rows \ ConfigOf(rows, x.tenant, x.provider)) \cup {x}, {x})

SqlUpsertPaymentGateway(x) == Upserted(sql, x)
MemUpsertGatewayConfig(x) == Upserted(mem, x)
UpsertGatewayConfig(x) == Call(Wrap(SqlUpsertPaymentGateway(x)), MemUpsertGatewayConfig(x), TRUE)

SqlGetPaymentGateway(t, provider) == One(sql, {g \in ConfigOf(sql, t, provider) : g.active}, NoRows)
MemGetGatewayConfig(t, provider) == One(mem, {g \in ConfigOf(mem, t, provider) : g.active}, "ErrGatewayNotEnabled")
GetGatewayConfig(t, provider) ==
  Call(Adapt(SqlGetPaymentGateway(t, provider), [no_rows |-> "ErrGatewayNotEnabled"]),
       MemGetGatewayConfig(t, provider), TRUE)

ConfigCalls ==
  /\ table = "payment_gateways"
  /\ \/ \E x \in ConfigRows : UpsertGatewayConfig(x)
     \/ \E t \in Owners, p \in Keys : GetGatewayConfig(t, p)

=============================================================================
