\* Two requests of any kind at once on one invoice that may be paid by hand,
\* charged at the gateway and voided.
CONSTANTS
  w1 = w1
  w2 = w2
  w3 = w3
  i1 = i1
  i2 = i2
  c1 = c1
  c2 = c2
  Workers = {w1, w2}
  Invoices = {i1}
  Customers = {c1}
  CustomerOf <- OneInvoice
  Seconds = {1}
  Payable = {i1}
  Voidable = {i1}
  Manual = Manual
  NoKey = NoKey
  MaxAborts = 1
SPECIFICATION FairSpec
INVARIANTS
  TypeOK
  PaidMeansBooked
  BookedMeansClosed
  ManualIncomeOnce
  CollectedBeforeBooked
  NoticeMeansBooked
PROPERTIES
  RequestsEnd
  CollectedIsBooked
\* Once everything is paid or voided there may be nothing left to do.
CHECK_DEADLOCK FALSE
