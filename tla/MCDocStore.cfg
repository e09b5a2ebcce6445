CONSTANTS
  c1 = c1
  c2 = c2
  v1 = v1
  v2 = v2
  Clients = {c1, c2}
  Values = {v1, v2}
  Absent = Absent
  PutAttempts = 3
  MaxVersion = 3
SPECIFICATION FairSpec
INVARIANT WriteOutcome
PROPERTY VersionedDocSpec
