SPECIFICATION Spec
CONSTANTS
  Runs = {r1, r2}
  Clients = {c1}
  RunOf <- AllFollowFirst
  EventLimit = 2
  RunLimit = 1
  EarlyFailures = FALSE
  Pieces = 1
  MaxAttempts = 1
  MaxOutcomes = 1
  MaxConnects = 2
  MaxCrashes = 1
  MaxStoreFaults = 1
  r1 = r1
  r2 = r2
  c1 = c1
  c2 = c2
INVARIANT LogsAreOrdered
PROPERTY IdsIncrease
CHECK_DEADLOCK FALSE
