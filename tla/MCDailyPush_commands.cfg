CONSTANTS
  p1 = p1
  p2 = p2
  a = a
  b = b
  Procs = {p1}
  Pollers = {p1}
  Pairs <- ThreePairs
  LastDay = 1
  Slots = 1
  MayBeQuiet = FALSE
  Faults = {"crash", "timeout", "send"}
SPECIFICATION FairSpec
INVARIANT SubscriptionsKept
PROPERTY OnlyUnreachablePruned
PROPERTY RunsEnd
