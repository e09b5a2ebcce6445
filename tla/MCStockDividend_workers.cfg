CONSTANTS
  w1 = w1
  w2 = w2
  NotHeld = NotHeld
  Free = NotHeld
  Workers = {w1, w2}
  Kind = "cash"
  PerShare = 1
  Owned = 1
  New = 1
  MaxCash = 2
  MaxShares = 1
  Discovery = 1
  Retention = 3
  RecordDays = {2}
  Faults = {}
  LastDay = 3
  MaxLives = 1
  MaxMessages = 2
SPECIFICATION FairSpec
INVARIANT NoLostUpdate
PROPERTY CallsReturn
