SPECIFICATION Spec
CONSTANTS
  n1 = n1 n2 = n2 n3 = n3 o1 = o1 s1 = s1 s2 = s2 r1 = r1 r2 = r2
  None = None Cron = Cron
  Nodes = {n1, n2, n3}
  Leader = n1
  Scopes = {o1}
  Sessions = {s1, s2}
  OwnerOf <- OneOwner
  Requests = {r1, r2}
  Turns = {r1, r2}
  Modes <- CheckedModes
  MaxAttempts = 2
  MaxChanges = 2
  Limit = 1
SYMMETRY Alike
INVARIANT CallsAreHonest
INVARIANT SessionsFollowScope
INVARIANT OneHomePerOwner
INVARIANT NothingLeaks
PROPERTY MovesOnlyFromMissing
