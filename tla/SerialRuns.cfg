SPECIFICATION Spec
CONSTANTS
  Runs = {r1, r2}
  Chat = chat
  Keys = {k1}
  MaxAttempts = 2
  Nil = nil
  Sessions = {s1}
  SessionOf <- OneSession
  Requests = {q1}
  KeyOf <- SameKey
  SerialClients = TRUE
  Capacity = 1
  MaxCrashes = 1
  MaxStoreFaults = 1
  MaxChats = 0
  MaxCloses = 1
  r1 = r1
  r2 = r2
  s1 = s1
  s2 = s2
  k1 = k1
  k2 = k2
  q1 = q1
  q2 = q2
  q3 = q3
SYMMETRY RunSymmetry
INVARIANT TypeOK
INVARIANT AttemptBudget
INVARIANT RetriesAreClean
INVARIANT ExecutionIsRecorded
INVARIANT AtMostOncePerLeg
INVARIANT OutcomeOfOwnLeg
PROPERTY TerminalIsFinal
PROPERTY ImplementsLifecycle
CHECK_DEADLOCK FALSE
