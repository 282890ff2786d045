\* Two invoices of one customer paid at once: one period is lost.
CONSTANTS
  w1 = w1
  w2 = w2
  w3 = w3
  i1 = i1
  i2 = i2
  c1 = c1
  c2 = c2
  Workers = {w1, w2}
  Invoices = {i1, i2}
  Customers = {c1}
  CustomerOf <- OneCustomer
  Seconds = {1}
  Payable = {i1, i2}
  Voidable = {}
  Manual = Manual
  NoKey = NoKey
  MaxAborts = 0
SPECIFICATION Spec
INVARIANTS
  ServiceMatchesIncome
\* Once everything is paid or voided there may be nothing left to do.
CHECK_DEADLOCK FALSE
