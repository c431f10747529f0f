SPECIFICATION FairSpec
CONSTANTS
  Runs = {r1, r2}
  Chat = chat
  Keys = {}
  MaxAttempts = 2
  Nil = nil
  Sessions = {s1}
  SessionOf <- OneSession
  Requests = {}
  KeyOf <- SameKey
  SerialClients = FALSE
  Capacity = 1
  MaxCrashes = 1
  MaxStoreFaults = 0
  MaxChats = 0
  MaxCloses = 0
  r1 = r1
  r2 = r2
  s1 = s1
  s2 = s2
  k1 = k1
  k2 = k2
  q1 = q1
  q2 = q2
  q3 = q3
INVARIANT SessionExclusive
PROPERTY EveryRunSettles
CHECK_DEADLOCK FALSE
