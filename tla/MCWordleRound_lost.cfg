CONSTANTS
  h1 = h1
  h2 = h2
  crane = crane
  slate = slate
  NoWord = NoWord
  WordleHandlers = {h1}
  WordleWords = {crane, slate}
  WordleMaxGuesses = 2
  WordleMaxRounds = 3
  WordleMaxResults = 4
SPECIFICATION WordleSpec
CHECK_DEADLOCK FALSE
INVARIANT LossIsRecorded
