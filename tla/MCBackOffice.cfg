SPECIFICATION BackOfficeSpec
CONSTANTS
  Customers = {c1, c2}
  UserNames = {n1, n2}
  NoName = NoName
  Statuses = {StatusNew, StatusActive}
  StatusNew = StatusNew
  Editors = {w1, w2}
  Idle = Idle
  MaxEdits = 3
  Tokens = {t1, t2, t3}
  NoToken = NoToken
  Clients = {r1, r2}
  Planners = {p1, p2}
  NoPlanner = NoPlanner
  PlanInputs <- MCPlanInputs
  Codes = {v1, v2, v3, v4, v5}
  Batches = {b1, b2}
  NoBatch = NoBatch
  Qty = 2
  MaxAttempts = 4
  Agents = {a1, a2}
  MaxEvents = 3
  Credits = {x1, x2, x3}
  MaxAmount = 2
  MaxBalance = 6
  Callers = {q1, q2}
  CallLimit = 2
  Window = 2
  MaxCount = 5
  RowIds = {1, 2}
  Owners = {o1, o2}
  Keys = {k1, k2}
  Nothing = Nothing
INVARIANTS
  BackOfficeTypeOK
  LoginsMatch
  OneLoginPerName
  StatusIsMeant
  OneHeir
  TimelineIsPath
  TablesAgree
  DoubleAgrees
PROPERTIES
  SpentForGood
  LockoutEnds
CHECK_DEADLOCK FALSE
