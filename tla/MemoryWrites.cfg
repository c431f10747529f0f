SPECIFICATION FairSpec
CONSTANTS
  Sessions = {s1}
  Turns <- OneTurn
  HalfMessages <- OneTurn
  Scopes = {o1}
  ScopeOf <- OneOwner
  Capacity = 1
  MaxAttempts = 2
  Trigger = 1
  Critical = 2
  CarefulClients = TRUE
  MaxCrashes = 2
  MaxStoreFaults = 1
  MaxRetries = 1
  s1 = s1
  s2 = s2
  o1 = o1
INVARIANT ReflectedOnce
PROPERTY JobsSettle
PROPERTY MemoryIsTended
CHECK_DEADLOCK FALSE
