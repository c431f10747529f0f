SPECIFICATION Spec
CONSTANTS
  Runs = {r1}
  Chat = chat
  Keys = {k1, k2}
  MaxAttempts = 1
  Nil = nil
  Sessions = {s1, s2}
  SessionOf <- OneSession
  Requests = {q1, q2, q3}
  KeyOf <- RepeatedKey
  SerialClients = FALSE
  Capacity = 1
  MaxCrashes = 1
  MaxStoreFaults = 0
  MaxChats = 1
  MaxCloses = 0
  r1 = r1
  r2 = r2
  s1 = s1
  s2 = s2
  k1 = k1
  k2 = k2
  q1 = q1
  q2 = q2
  q3 = q3
INVARIANT OneAnswerPerQuestion
INVARIANT SessionExclusive
PROPERTY WaitingIsDormant
CHECK_DEADLOCK FALSE
