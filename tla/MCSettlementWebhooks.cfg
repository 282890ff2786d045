\* Overlapping webhooks are the only way to pay: the invoice book.
CONSTANTS
  w1 = w1
  w2 = w2
  w3 = w3
  i1 = i1
  i2 = i2
  c1 = c1
  c2 = c2
  Workers = {w1, w2}
  Invoices = {i1, i2}
  Customers = {c1, c2}
  CustomerOf <- OneEach
  Seconds = {1}
  Payable = {}
  Voidable = {}
  Manual = Manual
  NoKey = NoKey
  MaxAborts = 1
SPECIFICATION Spec
PROPERTIES
  BookSpec
SYMMETRY WorkerSymmetry
\* Once everything is paid or voided there may be nothing left to do.
CHECK_DEADLOCK FALSE
