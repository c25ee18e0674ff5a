SPECIFICATION LiveSpec
CONSTANTS
  r1 = r1
  r2 = r2
  k1 = k1
  k2 = k2
  k3 = k3
  Requests = {r1, r2}
  Keys = {k1, k2, k3}
  Plan <- MCPlan
  Capacity = 1
  Permits = 1
  MaxAttempts = 3
  Quota = 1
CHECK_DEADLOCK FALSE
INVARIANTS
  TypeOK
  CallsBounded
  CacheBounded
  OnlyRacesRaise
  BudgetHolds
PROPERTY
  EveryRequestEnds
