\* Two customers, a payment, the scan taking on one at a time, and a RADIUS
\* request about the first; one fault.
CONSTANTS
  c1 = c1
  c2 = c2
  p1 = p1
  l1 = l1
  Customers = {c1, c2}
  Payments = {p1}
  Scanner = Scanner
  Lookups = {l1}
  Dialing = {c1}
  Nobody = Nobody
  Limit = 1
  CacheTTL = 2
  RequestTimeout = 1
  MaxFaults = 1
SPECIFICATION FairSpec
INVARIANTS
  TypeOK
  ActiveIsServed
  IsolatedIsCut
  StaleIsBrief
PROPERTIES
  ExpiredIsIsolated
