SPECIFICATION FairSpec
CONSTANTS
  Runs = {r1}
  Clients = {c1}
  RunOf <- AllFollowFirst
  EventLimit = 20
  RunLimit = 2
  EarlyFailures = FALSE
  Pieces = 2
  MaxAttempts = 2
  MaxOutcomes = 2
  MaxConnects = 3
  MaxCrashes = 0
  MaxStoreFaults = 0
  r1 = r1
  r2 = r2
  c1 = c1
  c2 = c2
INVARIANT NoPieceTwice
INVARIANT EndsTold
PROPERTY OutcomeIsCurrent
PROPERTY StreamsEnd
CHECK_DEADLOCK FALSE
