SPECIFICATION FairSpec
CONSTANTS
  t1 = t1 t2 = t2 t3 = t3 s1 = s1 s2 = s2 s3 = s3
  Turns = {t1, t2, t3}
  Sessions = {s1, s2, s3}
  SessionOf <- TwoSessions
  ReadAttempts = 2
  Sizes = {1, 2, 3}
  MaxResults = 3
  MaxPerSession = 2
  MaxResultBytes = 2
  MaxBytes = 4
  Ttl = 2
  MaxTime = 2
  MaxQueries = 4
  Oss = TRUE
  MaxFiles = 1
  MaxAll = 2
  MaxExports = 3
  Earlier <- FilesLeft
  Workloads <- Loads
INVARIANT AnswersAreUsed
INVARIANT WithinLimits
INVARIANT ExportsAreWhole
PROPERTY OldestLeaveFirst
PROPERTY CallsReturn
CHECK_DEADLOCK FALSE
