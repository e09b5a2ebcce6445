SPECIFICATION ServicesSpec
CONSTANTS
  Last = 2
  Workers = 2
  Delay = 1
  Second = 1
  Retries = 1
  Callers <- MCCallers
  MaxCounts = 3
  Docs = {d1, d2}
  ConflictRetries = 2
  MaxFaults = 1
  MaxWrites = 2
INVARIANT RequestsSpaced
INVARIANT BookIsComplete
INVARIANT NoCountLost
INVARIANT JobsHaveStorage
INVARIANT HistoryKept
INVARIANT MarkerIsTrue
PROPERTY SlotComesBack
PROPERTY ShutdownEnds
PROPERTY InterruptedStartsResume
CHECK_DEADLOCK FALSE
