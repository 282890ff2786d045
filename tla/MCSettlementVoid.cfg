\* One request at a time: a voided invoice is paid by hand.
CONSTANTS
  w1 = w1
  w2 = w2
  w3 = w3
  i1 = i1
  i2 = i2
  c1 = c1
  c2 = c2
  Workers = {w1}
  Invoices = {i1}
  Customers = {c1}
  CustomerOf <- OneInvoice
  Seconds = {1}
  Payable = {i1}
  Voidable = {i1}
  Manual = Manual
  NoKey = NoKey
  MaxAborts = 0
SPECIFICATION Spec
PROPERTIES
  VoidIsTerminal
\* Once everything is paid or voided there may be nothing left to do.
CHECK_DEADLOCK FALSE
