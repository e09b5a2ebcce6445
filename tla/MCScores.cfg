SPECIFICATION ScoresSpec
CONSTANTS
  NoName = NoName
  Anonymous = Anonymous
  Hooks = {h1, h2}
  Users = {a, b}
  Cmds = {start, play}
  Names = {x, y}
  Faults = {"fail"}
  MaxCommands = 3
  NoWord = NoWord
  WordleHandlers = {g1, g2}
  WordleWords = {crane, slate}
  WordleMaxGuesses = 2
  WordleMaxRounds = 3
  WordleMaxResults = 5
  NoChampion = NoChampion
  LoldleHandlers = {g1, g2}
  Champions = {ahri, jinx, lux}
  LoldleMaxGuesses = 1
  LoldleMaxCap = 2
  LoldleMaxRounds = 2
  LoldleMaxResults = 3
  Letters = {l1, l2, l3}
  WordLength = 4
SYMMETRY Symmetry
INVARIANT NameResolvesToOne
INVARIANT StatsAreTrue
INVARIANT RefreshHeals
INVARIANT WordleScoreIsTrue
INVARIANT LoldleScoreIsTrue
INVARIANT LoldleSavedRoundIsOpen
INVARIANT WordMarksAreRight
PROPERTY RoundsAreKept
CHECK_DEADLOCK FALSE
