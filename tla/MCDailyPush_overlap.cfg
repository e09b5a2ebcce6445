CONSTANTS
  p1 = p1
  p2 = p2
  a = a
  b = b
  Procs = {p1, p2}
  Pollers = {}
  Pairs <- TwoChats
  LastDay = 2
  Slots = 2
  MayBeQuiet = TRUE
  Faults = {"crash", "lostReply"}
SPECIFICATION Spec
INVARIANT OnePushPerDay
