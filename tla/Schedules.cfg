SPECIFICATION FairSpec
CONSTANTS
  c1 = c1
  c2 = c2
  Clients = {c1}
  MaxPeriods = 1
  MaxMarkers = 1
  MaxGenerations = 1
  MaxAttempts = 2
  Capacity = 1
  MaxCrashes = 1
  MaxDeletions = 1
  MaxJobs = 2
  MaxRequests = 1
  MaxRefusals = 1
  MaxLost = 1
INVARIANT OneTurnPerSession
INVARIANT SuccessHasReport
INVARIANT JobMatchesRecord
PROPERTY RunsSettle
CHECK_DEADLOCK FALSE
