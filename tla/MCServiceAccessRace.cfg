\* A customer who pays after the scan has read its list is isolated.
CONSTANTS
  c1 = c1
  c2 = c2
  p1 = p1
  l1 = l1
  Customers = {c1}
  Payments = {p1}
  Scanner = Scanner
  Lookups = {}
  Dialing = {c1}
  Nobody = Nobody
  Limit = 1
  CacheTTL = 2
  RequestTimeout = 1
  MaxFaults = 0
SPECIFICATION Spec
PROPERTIES
  OnlyExpiredIsolated
