CONSTANTS
  p1 = p1
  p2 = p2
  a = a
  b = b
  Procs = {p1}
  Pollers = {}
  Pairs <- TwoChats
  LastDay = 1
  Slots = 2
  MayBeQuiet = TRUE
  Faults = {"send"}
SPECIFICATION Spec
INVARIANT ClaimedMeansAlerted
