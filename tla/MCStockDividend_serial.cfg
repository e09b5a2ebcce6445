CONSTANTS
  w1 = w1
  w2 = w2
  NotHeld = NotHeld
  Free = NotHeld
  Workers = {w1}
  Kind = "cash"
  PerShare = 1
  Owned = 1
  New = 1
  MaxCash = 2
  MaxShares = 2
  Discovery = 1
  Retention = 3
  RecordDays = {0, 2}
  Faults = {"save", "lostReply", "send", "edit", "crash"}
  LastDay = 5
  MaxLives = 1
  MaxMessages = 2
SPECIFICATION Spec
INVARIANT CreditedOnce
PROPERTY CreditJustified
