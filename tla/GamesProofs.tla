---------------------------- MODULE GamesProofs ----------------------------
(***************************************************************************)
(* The scores of wordle and loldle and the marking of a word are right for *)
(* any number of players, words, champions, rounds and letters.  The three *)
(* components share nothing: each has an inductive invariant of its own.   *)
(***************************************************************************)
EXTENDS MCScores, FiniteSetTheorems, SequenceTheorems, TLAPS

-----------------------------------------------------------------------------
(* Wordle: types and the lock *)

At(h) == wJob[h].at
WordlePlaces == {"load", "fresh", "save", "stats", "record"}
AnyWordleGame == WordleGame \cup {NoWordleGame}

\* Values the handlers build.
LEMMA WordleValues ==
  ASSUME NEW g \in WordleGame
  PROVE  /\ g # NoWordleGame /\ g.round \in 1..WordleMaxRounds
         /\ \A word \in WordleWords :
              /\ GuessedWord(g, word) \in WordleGame /\ GuessedWord(g, word).round = g.round
              /\ GuessedWord(g, word).target = g.target
              /\ GuessedWord(g, word).guesses = Append(g.guesses, word)
         /\ [g EXCEPT !.giveup = TRUE] \in WordleGame
         /\ [g EXCEPT !.giveup = TRUE].round = g.round
         /\ [g EXCEPT !.giveup = TRUE].target = g.target
         /\ [g EXCEPT !.giveup = TRUE].guesses = g.guesses
<1>1. g # NoWordleGame /\ g.round \in 1..WordleMaxRounds
  BY WordleAssumption DEF WordleGame, NoWordleGame
<1>2. ASSUME NEW word \in WordleWords
      PROVE  /\ GuessedWord(g, word) \in WordleGame /\ GuessedWord(g, word).round = g.round
             /\ GuessedWord(g, word).target = g.target
             /\ GuessedWord(g, word).guesses = Append(g.guesses, word)
  <2>1. Append(g.guesses, word) \in Seq(WordleWords)
    BY DEF WordleGame
  <2>2. (word = g.target) \in BOOLEAN
    OBVIOUS
  <2> DEFINE same == word = g.target
             more == Append(g.guesses, word)
  <2> HIDE DEF same, more
  <2>3. [g EXCEPT !.guesses = more, !.solved = same] \in WordleGame
    BY <2>1, <2>2 DEF WordleGame, same, more
  <2>4. GuessedWord(g, word) = [g EXCEPT !.guesses = more, !.solved = same]
    BY DEF GuessedWord, same, more
  <2> QED BY <2>3, <2>4 DEF WordleGame, more
<1> QED BY <1>1, <1>2 DEF WordleGame

LEMMA WordleRecord ==
  ASSUME NEW s \in WordleScore, NEW won \in BOOLEAN
  PROVE  Recorded(s, won) \in WordleScore
BY DEF WordleScore, Recorded

LEMMA WordleNoIdle == \A j \in WordleRunning : j # WordleIdle /\ j.at \in WordlePlaces
BY DEF WordleRunning, WordleIdle, WordlePlaces

\* The steps that end or continue a handler.
LEMMA WordleMoves ==
  ASSUME WordleTypeOK, NEW h \in WordleHandlers, wJob[h] # WordleIdle
  PROVE  /\ WordleFinish(h) =>
              /\ wJob' \in [WordleHandlers -> WordleRunning \cup {WordleIdle}]
              /\ wLock' \in WordleHandlers \cup {"free"}
              /\ wJob' = [wJob EXCEPT ![h] = WordleIdle]
         /\ \A at \in WordlePlaces, g \in AnyWordleGame :
              WordleGoto(h, at, g) =>
                /\ wJob' \in [WordleHandlers -> WordleRunning \cup {WordleIdle}]
                /\ wJob' = [wJob EXCEPT ![h] = wJob'[h]]
                /\ wJob'[h].at = at /\ wJob'[h].game = g /\ wJob'[h].cmd = wJob[h].cmd
                /\ wJob'[h].score = wJob[h].score
                /\ wLock' = wLock
<1>1. ASSUME WordleFinish(h) 
      PROVE  /\ wJob' \in [WordleHandlers -> WordleRunning \cup {WordleIdle}]
             /\ wLock' \in WordleHandlers \cup {"free"}
             /\ wJob' = [wJob EXCEPT ![h] = WordleIdle]
  BY <1>1 DEF WordleFinish, WordleTypeOK
<1>2. ASSUME NEW at \in WordlePlaces, NEW g \in AnyWordleGame, WordleGoto(h, at, g)
      PROVE  /\ wJob' \in [WordleHandlers -> WordleRunning \cup {WordleIdle}]
             /\ wJob' = [wJob EXCEPT ![h] = wJob'[h]]
             /\ wJob'[h].at = at /\ wJob'[h].game = g /\ wJob'[h].cmd = wJob[h].cmd
             /\ wJob'[h].score = wJob[h].score
             /\ wLock' = wLock
  <2> DEFINE new == [wJob[h] EXCEPT !.at = at, !.game = g]
  <2>1. wJob' = [wJob EXCEPT ![h] = new] /\ wLock' = wLock
    BY <1>2 DEF WordleGoto
  <2>2. new \in WordleRunning /\ new.at = at /\ new.game = g /\ new.cmd = wJob[h].cmd
        /\ new.score = wJob[h].score
    BY DEF WordleTypeOK, WordleRunning, WordlePlaces, AnyWordleGame
  <2> HIDE DEF new
  <2>3. wJob'[h] = new
    BY <2>1 DEF WordleTypeOK
  <2>4. wJob' \in [WordleHandlers -> WordleRunning \cup {WordleIdle}]
    BY <2>1, <2>2 DEF WordleTypeOK
  <2> QED BY <2>1, <2>2, <2>3, <2>4
<1> QED BY <1>1, <1>2

\* At most one handler runs, and it holds the lock.
WordleLocked == /\ \A h \in WordleHandlers : wJob[h] # WordleIdle => wLock = h
                /\ wLock # "free" => wJob[wLock] # WordleIdle

\* The rounds are numbered.
WordleNumbered == /\ wRounds = wGame.round
            /\ \A n \in DOMAIN wResults : wResults[n][1] \in 1..wRounds

\* What h carries from its load to its save and its record.
WordleCarries(h) ==
  LET g == wJob[h].game IN
  /\ At(h) = "save" => /\ wGame # NoWordleGame /\ ~IsFinished(wGame)
                       /\ \/ \E word \in WordleWords : g = GuessedWord(wGame, word)
                          \/ g = [wGame EXCEPT !.giveup = TRUE]
                       /\ wJob[h].cmd # "new"
  /\ At(h) \in {"stats", "record"} => /\ g = wGame /\ g # NoWordleGame
                                      /\ wJob[h].cmd = "new" <=> ~IsFinished(wGame)
  /\ At(h) = "fresh" => wGame = NoWordleGame \/ wJob[h].cmd = "new"
  /\ At(h) = "record" => wJob[h].score = wScore
WordleCarried == \A h \in WordleHandlers : WordleCarries(h)

LEMMA WordleBusy ==
  ASSUME WordleTypeOK, NEW h \in WordleHandlers, WordleStep(h)
  PROVE  wJob[h] # WordleIdle /\ wJob[h] \in WordleRunning
<1>1. wJob[h] # WordleIdle
  BY DEF WordleStep, LoadWordle, SaveWordle, LoadWordleStats, RecordWordleResult,
         AbandonWordle, StartFresh, WordleIdle
<1> QED BY <1>1 DEF WordleTypeOK

LEMMA WordleFresh ==
  ASSUME WordleTypeOK, wRounds < WordleMaxRounds, NEW answer \in WordleWords
  PROVE  FreshGame(answer) \in WordleGame /\ wRounds + 1 \in 0..WordleMaxRounds
BY WordleAssumption DEF FreshGame, WordleGame, WordleTypeOK

\* How a step leaves its handler.
LEMMA WordleSteps ==
  ASSUME WordleTypeOK, WordleCarried, NEW h \in WordleHandlers, WordleStep(h)
  PROVE  \/ WordleFinish(h) \/ LoadWordleStats(h)
         \/ \E at \in WordlePlaces, g \in AnyWordleGame : WordleGoto(h, at, g)
<1>1. wJob[h] # WordleIdle /\ wJob[h] \in WordleRunning
  BY WordleBusy
<1>2. wGame \in AnyWordleGame
  BY DEF WordleTypeOK, AnyWordleGame
<1>3. ASSUME NEW g \in WordleGame, PlayWordle(h, g)
      PROVE  WordleFinish(h) \/ \E at \in WordlePlaces, f \in AnyWordleGame : WordleGoto(h, at, f)
  BY <1>1, <1>3, WordleValues DEF PlayWordle, WordlePlaces, AnyWordleGame, WordleRunning
<1>4. CASE LoadWordle(h)
  <2>1. CASE New(h)
    BY <1>2, <2>1 DEF New, WordlePlaces
  <2>2. CASE GiveUp(h)
    BY <2>2, WordleValues DEF GiveUp, WordleTypeOK, WordlePlaces, AnyWordleGame
  <2>3. CASE WordleGoto(h, "fresh", wGame)
    BY <1>2, <2>3 DEF WordlePlaces
  <2>4. CASE wGame # NoWordleGame /\ PlayWordle(h, wGame)
    BY <1>3, <2>4 DEF WordleTypeOK
  <2> QED BY <1>4, <2>1, <2>2, <2>3, <2>4 DEF LoadWordle
<1>5. ASSUME NEW answer \in WordleWords, StartFresh(h, answer)
      PROVE  WordleFinish(h) \/ \E at \in WordlePlaces, f \in AnyWordleGame : WordleGoto(h, at, f)
  BY <1>3, <1>5, WordleFresh DEF StartFresh
<1>6. CASE SaveWordle(h)
  BY <1>1, <1>6 DEF SaveWordle, WordlePlaces, AnyWordleGame, WordleRunning
<1>7. CASE RecordWordleResult(h)
  BY <1>1, <1>7 DEF RecordWordleResult, WordlePlaces, AnyWordleGame, WordleRunning
<1> QED BY <1>4, <1>5, <1>6, <1>7 DEF WordleStep, AbandonWordle

LEMMA WordleTypeStep ==
  WordleTypeOK /\ WordleCarried /\ [WordleNext]_wordleVars => WordleTypeOK'
<1> SUFFICES ASSUME WordleTypeOK, WordleCarried, [WordleNext]_wordleVars PROVE WordleTypeOK'
  OBVIOUS
<1>0. CASE UNCHANGED wordleVars
  BY <1>0 DEF wordleVars, WordleTypeOK
<1>1. ASSUME NEW h \in WordleHandlers, NEW cmd \in WordleCommands,
             NEW word \in WordleWords \cup {NoWord}, StartWordle(h, cmd, word)
      PROVE  WordleTypeOK'
  <2> DEFINE new == [at |-> "load", cmd |-> cmd, word |-> word, game |-> NoWordleGame,
                     score |-> NoWordleScore]
  <2>1. new \in WordleRunning
    BY DEF WordleRunning, WordleScore, NoWordleScore
  <2>2. wJob' = [wJob EXCEPT ![h] = new]
    BY <1>1 DEF StartWordle
  <2> HIDE DEF new
  <2> QED BY <1>1, <2>1, <2>2 DEF StartWordle, WordleTypeOK
<1>2. ASSUME NEW h \in WordleHandlers, WordleStep(h) PROVE WordleTypeOK'
  <2>1. wJob[h] # WordleIdle /\ wJob[h] \in WordleRunning
    BY <1>2, WordleBusy
  <2>2. /\ wJob' \in [WordleHandlers -> WordleRunning \cup {WordleIdle}]
        /\ wLock' \in WordleHandlers \cup {"free"}
    <3>1. CASE LoadWordleStats(h)
      <4> DEFINE new == [wJob[h] EXCEPT !.at = "record", !.score = wScore]
      <4>1. new \in WordleRunning
        BY <2>1 DEF WordleRunning, WordleTypeOK
      <4>2. wJob' = [wJob EXCEPT ![h] = new]
        BY <3>1 DEF LoadWordleStats
      <4> HIDE DEF new
      <4> QED BY <3>1, <4>1, <4>2 DEF LoadWordleStats, WordleTypeOK
    <3> QED BY <1>2, <2>1, <3>1, WordleSteps, WordleMoves DEF WordleTypeOK
  <2>3. CASE LoadWordle(h) \/ LoadWordleStats(h)
    BY <2>2, <2>3 DEF LoadWordle, LoadWordleStats, WordleTypeOK
  <2>4. ASSUME NEW answer \in WordleWords, StartFresh(h, answer) PROVE WordleTypeOK'
    BY <2>2, <2>4, WordleFresh DEF StartFresh, WordleTypeOK
  <2>5. CASE SaveWordle(h)
    BY <2>1, <2>2, <2>5 DEF SaveWordle, WordleTypeOK, WordleRunning
  <2>6. CASE RecordWordleResult(h)
    <3>1. wJob[h].game \in WordleGame
      BY <2>1, <2>6 DEF WordleCarried, WordleCarries, At, RecordWordleResult, WordleRunning
    <3>2. wJob[h].game.solved \in BOOLEAN /\ wJob[h].game.round \in 1..WordleMaxRounds
      BY <3>1 DEF WordleGame
    <3>3. wScore' \in WordleScore
      BY <2>1, <2>6, <3>2, WordleRecord DEF RecordWordleResult, WordleRunning
    <3>4. wResults' \in Seq((1..WordleMaxRounds) \X BOOLEAN)
      BY <2>6, <3>2 DEF RecordWordleResult, WordleTypeOK
    <3> QED BY <2>2, <2>6, <3>3, <3>4 DEF RecordWordleResult, WordleTypeOK
  <2>7. CASE AbandonWordle(h)
    BY <2>1, <2>2, <2>7 DEF AbandonWordle, WordleTypeOK, WordleRunning
  <2> QED BY <1>2, <2>3, <2>4, <2>5, <2>6, <2>7 DEF WordleStep
<1> QED BY <1>0, <1>1, <1>2 DEF WordleNext

\* While h runs, the others are idle; when it ends, all are.
LEMMA WordleAlone ==
  ASSUME WordleTypeOK, WordleLocked, NEW h \in WordleHandlers, wJob[h] # WordleIdle
  PROVE  wLock = h /\ \A o \in WordleHandlers : o # h => wJob[o] = WordleIdle
BY DEF WordleLocked

LEMMA WordleLockStep ==
  WordleTypeOK /\ WordleLocked /\ WordleCarried /\ [WordleNext]_wordleVars => WordleLocked'
<1> SUFFICES ASSUME WordleTypeOK, WordleLocked, WordleCarried, [WordleNext]_wordleVars
             PROVE  WordleLocked'
  OBVIOUS
<1>0. CASE UNCHANGED wordleVars
  BY <1>0 DEF wordleVars, WordleLocked
<1>1. ASSUME NEW h \in WordleHandlers, NEW cmd \in WordleCommands,
             NEW word \in WordleWords \cup {NoWord}, StartWordle(h, cmd, word)
      PROVE  WordleLocked'
  <2> DEFINE new == [at |-> "load", cmd |-> cmd, word |-> word, game |-> NoWordleGame,
                     score |-> NoWordleScore]
  <2>1. new # WordleIdle
    BY DEF WordleIdle
  <2>2. wJob' = [wJob EXCEPT ![h] = new] /\ wLock' = h /\ wLock = "free"
    BY <1>1 DEF StartWordle
  <2> HIDE DEF new
  <2> QED BY <2>1, <2>2, WordleAssumption DEF WordleTypeOK, WordleLocked
<1>2. ASSUME NEW h \in WordleHandlers, WordleStep(h) PROVE WordleLocked'
  <2>1. wJob[h] # WordleIdle /\ wLock = h /\ \A o \in WordleHandlers : o # h => wJob[o] = WordleIdle
    BY <1>2, WordleAlone DEF WordleStep, LoadWordle, SaveWordle, LoadWordleStats, RecordWordleResult,
                AbandonWordle, StartFresh, WordleIdle
  <2>2. CASE WordleFinish(h)
    BY <2>1, <2>2, WordleAssumption DEF WordleFinish, WordleLocked, WordleTypeOK
  <2>3. ASSUME NEW new, new.at \in WordlePlaces, wJob' = [wJob EXCEPT ![h] = new], wLock' = wLock
        PROVE  WordleLocked'
    BY <2>1, <2>3 DEF WordleLocked, WordleTypeOK, WordlePlaces, WordleIdle
  <2>4. ASSUME NEW at \in WordlePlaces, NEW g \in AnyWordleGame, WordleGoto(h, at, g)
        PROVE  WordleLocked'
    BY <2>1, <2>3, <2>4, WordleMoves
  <2>5. \/ WordleFinish(h) \/ LoadWordleStats(h)
        \/ \E at \in WordlePlaces, g \in AnyWordleGame : WordleGoto(h, at, g)
    BY <1>2, <2>1, WordleSteps
  <2>6. CASE LoadWordleStats(h)
    <3> DEFINE new == [wJob[h] EXCEPT !.at = "record", !.score = wScore]
    <3>1. new.at \in WordlePlaces
      BY <2>1 DEF WordleRunning, WordleTypeOK, WordlePlaces
    <3>2. wJob' = [wJob EXCEPT ![h] = new] /\ wLock' = wLock
      BY <2>6 DEF LoadWordleStats
    <3> HIDE DEF new
    <3> QED BY <2>3, <3>1, <3>2
  <2> QED BY <2>2, <2>4, <2>5, <2>6
<1> QED BY <1>0, <1>1, <1>2 DEF WordleNext

-----------------------------------------------------------------------------
(* Wordle: the score *)

\* Only one run ends at a result.
LEMMA OneRun ==
  ASSUME NEW s, NEW i \in Nat, NEW m \in 0..i, NEW n \in 0..i, IsRun(s, m, i), IsRun(s, n, i)
  PROVE  m = n
<1>1. ASSUME NEW j \in 0..i, NEW k \in 0..i, IsRun(s, j, i), IsRun(s, k, i), j < k PROVE FALSE
  <2>1. i - j \in (i - k + 1)..i
    BY <1>1
  <2> QED BY <1>1, <2>1 DEF IsRun
<1> QED BY <1>1

\* The runs of a sequence of results with one more.
LEMMA RunsGrow ==
  ASSUME NEW R, NEW s \in Seq(R \X BOOLEAN), NEW x \in R \X BOOLEAN,
         NEW k \in 0..Len(s), IsRun(s, k, Len(s))
  PROVE  /\ x[2] => IsRun(Append(s, x), k + 1, Len(s) + 1)
         /\ ~x[2] => IsRun(Append(s, x), 0, Len(s) + 1)
         /\ \A i \in 1..Len(s) : \A n \in 0..i : IsRun(Append(s, x), n, i) <=> IsRun(s, n, i)
<1> DEFINE t == Append(s, x)
           L == Len(s)
<1>1. L \in Nat /\ t[L + 1] = x /\ \A j \in 1..L : t[j] = s[j]
  OBVIOUS
<1> HIDE DEF t, L
<1>2. IsRun(s, k, L) /\ k \in 0..L
  BY DEF L
<1>3. ASSUME x[2] PROVE IsRun(t, k + 1, L + 1)
  <2>1. ASSUME NEW j \in ((L + 1) - (k + 1) + 1)..(L + 1) PROVE t[j][2]
    <3>1. j = L + 1 \/ (j \in (L - k + 1)..L /\ j \in 1..L)
      <4>1. L \in Nat /\ k \in Nat /\ k <= L
        BY <1>1, <1>2
      <4>2. j \in Int /\ L - k + 1 <= j /\ j <= L + 1
        BY <4>1
      <4> QED BY <4>1, <4>2
    <3> QED BY <1>1, <1>2, <1>3, <3>1 DEF IsRun
  <2>2. k + 1 = L + 1 \/ ~t[(L + 1) - (k + 1)][2]
    <3>1. k = L \/ (~s[L - k][2] /\ L - k \in 1..L)
      BY <1>1, <1>2 DEF IsRun
    <3> QED BY <1>1, <1>2, <3>1
  <2> QED BY <2>1, <2>2 DEF IsRun
<1>4. ASSUME ~x[2] PROVE IsRun(t, 0, L + 1)
  BY <1>1, <1>4 DEF IsRun
<1>5. ASSUME NEW i \in 1..L, NEW n \in 0..i PROVE IsRun(t, n, i) <=> IsRun(s, n, i)
  <2>1. \A j \in (i - n + 1)..i : j \in 1..L
    BY <1>1
  <2>2. n = i \/ i - n \in 1..L
    BY <1>1
  <2> QED BY <1>1, <2>1, <2>2 DEF IsRun
<1> QED BY <1>3, <1>4, <1>5 DEF t, L

\* The score of one more result.
LEMMA ScoreGrows ==
  ASSUME WordleTypeOK, ScoreIsOfResults, NEW r \in 1..WordleMaxRounds, NEW won \in BOOLEAN,
         wResults' = Append(wResults, <<r, won>>), wScore' = Recorded(wScore, won)
  PROVE  ScoreIsOfResults'
<1> DEFINE L == Len(wResults)
           wins == {n \in DOMAIN wResults : wResults[n][2]}
<1>1. /\ L \in Nat /\ DOMAIN wResults = 1..L /\ Len(wResults') = L + 1
      /\ DOMAIN wResults' = 1..(L + 1)
      /\ \A j \in 1..L : wResults'[j] = wResults[j]
      /\ wResults'[L + 1] = <<r, won>> /\ wResults'[L + 1][2] = won
  BY DEF WordleTypeOK
<1>2. /\ wScore.played \in Nat /\ wScore.wins \in Nat /\ wScore.streak \in Nat /\ wScore.best \in Nat
      /\ wScore'.played = wScore.played + 1
      /\ wScore'.wins = wScore.wins + (IF won THEN 1 ELSE 0)
      /\ wScore'.streak = IF won THEN wScore.streak + 1 ELSE 0
      /\ wScore'.best = IF wScore'.streak > wScore.best THEN wScore'.streak ELSE wScore.best
  BY DEF WordleTypeOK, WordleScore, Recorded
<1>3. IsRun(wResults, wScore.streak, L) /\ wScore.streak \in 0..L
  BY DEF ScoreIsOfResults
<1>r. /\ won => IsRun(wResults', wScore.streak + 1, L + 1)
      /\ ~won => IsRun(wResults', 0, L + 1)
      /\ \A i \in 1..L : \A n \in 0..i : IsRun(wResults', n, i) <=> IsRun(wResults, n, i)
  <2> DEFINE x == <<r, won>>
             k == wScore.streak
             s == wResults
  <2>1. x \in (1..WordleMaxRounds) \X BOOLEAN /\ s \in Seq((1..WordleMaxRounds) \X BOOLEAN)
        /\ k \in 0..Len(s) /\ IsRun(s, k, Len(s))
    BY <1>3 DEF WordleTypeOK
  <2>2. x[2] = won
    OBVIOUS
  <2>3. wResults' = Append(s, x)
    OBVIOUS
  <2> HIDE DEF x, k, s
  <2>4. /\ x[2] => IsRun(Append(s, x), k + 1, Len(s) + 1)
        /\ ~x[2] => IsRun(Append(s, x), 0, Len(s) + 1)
        /\ \A i \in 1..Len(s) : \A n \in 0..i : IsRun(Append(s, x), n, i) <=> IsRun(s, n, i)
    BY <2>1, RunsGrow
  <2> QED BY <2>2, <2>3, <2>4, Zenon DEF k, s
<1>4. ASSUME NEW i \in 1..L, NEW n \in 0..i PROVE IsRun(wResults', n, i) <=> IsRun(wResults, n, i)
  BY <1>r
<1>5. wScore'.streak \in 0..(L + 1) /\ IsRun(wResults', wScore'.streak, L + 1)
  <2>1. CASE won
    BY <1>1, <1>2, <1>3, <1>r, <2>1
  <2>2. CASE ~won
    BY <1>1, <1>2, <1>3, <1>r, <2>2
  <2> QED BY <2>1, <2>2
<1>6. wScore'.wins = Cardinality({n \in DOMAIN wResults' : wResults'[n][2]})
  <2>1. IsFiniteSet(wins) /\ wScore.wins = Cardinality(wins) /\ L + 1 \notin wins
    <3>1. IsFiniteSet(1..L) /\ wins \in SUBSET (1..L)
      BY <1>1, FS_Interval
    <3>2. IsFiniteSet(wins)
      <4> HIDE DEF wins
      <4> QED BY <3>1, FS_Subset
    <3> QED BY <1>1, <3>2 DEF ScoreIsOfResults
  <2>2. {n \in DOMAIN wResults' : wResults'[n][2]} = IF won THEN wins \cup {L + 1} ELSE wins
    BY <1>1
  <2> DEFINE now == {n \in DOMAIN wResults' : wResults'[n][2]}
  <2>3. now = IF won THEN wins \cup {L + 1} ELSE wins
    BY <2>2
  <2> HIDE DEF wins, now
  <2>4. Cardinality(wins \cup {L + 1}) = Cardinality(wins) + 1
    BY <2>1, FS_AddElement
  <2>5. wScore'.wins = Cardinality(now)
    BY <1>2, <2>1, <2>3, <2>4
  <2> QED BY <2>5 DEF now
<1>7. ASSUME NEW i \in 1..(L + 1), NEW n \in 0..i, IsRun(wResults', n, i) PROVE n <= wScore'.best
  <2>1. CASE i = L + 1
    <3>1. L + 1 \in Nat /\ n \in 0..(L + 1) /\ IsRun(wResults', n, L + 1)
      BY <1>1, <1>7, <2>1
    <3>2. n = wScore'.streak
      <4> HIDE DEF L
      <4> QED BY <1>5, <3>1, OneRun, Zenon
    <3> QED BY <1>2, <3>2
  <2>2. CASE i \in 1..L
    <3>1. IsRun(wResults, n, i)
      BY <1>4, <1>7, <2>2
    <3>2. n <= wScore.best
      BY <1>1, <2>2, <3>1 DEF ScoreIsOfResults
    <3>3. n \in Nat
      BY <1>1, <2>2
    <3> QED BY <1>2, <3>2, <3>3
  <2> QED BY <1>1, <2>1, <2>2
<1>8. wScore'.best = 0 \/ \E i \in 1..(L + 1) : wScore'.best \in 0..i /\ IsRun(wResults', wScore'.best, i)
  <2>1. CASE wScore'.best = wScore'.streak
    BY <1>1, <1>5, <2>1
  <2>2. CASE wScore'.best = wScore.best
    BY <1>1, <1>4, <2>2 DEF ScoreIsOfResults
  <2> QED BY <1>2, <2>1, <2>2
<1>9. wScore'.played = L + 1
  BY <1>2 DEF ScoreIsOfResults
<1> HIDE DEF L, wins
<1> QED BY <1>1, <1>5, <1>6, <1>7, <1>8, <1>9 DEF ScoreIsOfResults

-----------------------------------------------------------------------------
(* Wordle: what a handler carries *)

\* In a step of h the others are idle.
LEMMA WordleOthers ==
  ASSUME WordleTypeOK, WordleLocked, WordleCarried, NEW h \in WordleHandlers, WordleStep(h)
  PROVE  \A o \in WordleHandlers : o # h => wJob[o] = WordleIdle /\ wJob'[o] = WordleIdle
<1>1. wJob[h] # WordleIdle
  BY WordleBusy
<1>2. \A o \in WordleHandlers : o # h => wJob[o] = WordleIdle
  BY <1>1, WordleAlone
<1>3. \A o \in WordleHandlers : o # h => wJob'[o] = wJob[o]
  <2>1. CASE LoadWordleStats(h)
    BY <2>1 DEF LoadWordleStats, WordleTypeOK
  <2> QED BY <1>1, <2>1, WordleSteps, WordleMoves DEF WordleTypeOK
<1> QED BY <1>2, <1>3

LEMMA WordleIdleCarries ==
  ASSUME NEW h, wJob[h] = WordleIdle
  PROVE  WordleCarries(h) /\ At(h) = "idle"
BY DEF WordleCarries, At, WordleIdle

LEMMA WordleCarriedStep ==
  WordleTypeOK /\ WordleLocked /\ WordleCarried /\ [WordleNext]_wordleVars => WordleCarried'
<1> SUFFICES ASSUME WordleTypeOK, WordleLocked, WordleCarried, [WordleNext]_wordleVars
             PROVE  WordleCarried'
  OBVIOUS
<1>0. CASE UNCHANGED wordleVars
  BY <1>0 DEF wordleVars, WordleCarried, WordleCarries, At, IsFinished, GuessedWord
<1>i. \A o \in WordleHandlers : wJob'[o] = WordleIdle => WordleCarries(o)'
  BY DEF WordleCarries, At, WordleIdle
<1>1. ASSUME NEW h \in WordleHandlers, NEW cmd \in WordleCommands,
             NEW word \in WordleWords \cup {NoWord}, StartWordle(h, cmd, word)
      PROVE  WordleCarried'
  <2> DEFINE new == [at |-> "load", cmd |-> cmd, word |-> word, game |-> NoWordleGame,
                     score |-> NoWordleScore]
  <2>1. new.at = "load"
    OBVIOUS
  <2>2. wJob' = [wJob EXCEPT ![h] = new] /\ wLock = "free"
    BY <1>1 DEF StartWordle
  <2> HIDE DEF new
  <2>3. \A o \in WordleHandlers : o # h => wJob'[o] = WordleIdle
    BY <2>2, WordleAssumption DEF WordleTypeOK, WordleLocked
  <2>4. wJob'[h].at = "load"
    BY <2>1, <2>2 DEF WordleTypeOK
  <2>5. WordleCarries(h)'
    BY <2>4 DEF WordleCarries, At
  <2> QED BY <1>i, <2>3, <2>5 DEF WordleCarried
<1>2. ASSUME NEW h \in WordleHandlers, WordleStep(h) PROVE WordleCarried'
  <2>1. wJob[h] # WordleIdle /\ wJob[h] \in WordleRunning
    BY <1>2, WordleBusy
  <2>2. SUFFICES WordleCarries(h)'
    BY <1>2, <1>i, <2>2, WordleOthers DEF WordleCarried
  <2>c. WordleCarries(h)
    BY DEF WordleCarried
  <2>w. wGame \in WordleGame \/ wGame = NoWordleGame
    BY DEF WordleTypeOK
  <2>f. ASSUME WordleFinish(h) PROVE WordleCarries(h)'
    <3>1. wJob'[h] = WordleIdle
      BY <2>f DEF WordleFinish, WordleTypeOK
    <3> QED BY <1>i, <3>1
  <2>g. ASSUME NEW at \in WordlePlaces, NEW g \in AnyWordleGame, WordleGoto(h, at, g)
        PROVE  /\ wJob'[h].at = at /\ wJob'[h].game = g /\ wJob'[h].cmd = wJob[h].cmd
               /\ wJob'[h].score = wJob[h].score
    BY <2>1, <2>g, WordleMoves
  \* A guess on the round that is saved after the step.
  <2>p. ASSUME NEW g \in WordleGame, PlayWordle(h, g), wGame' = g, wJob[h].cmd # "new"
        PROVE  WordleCarries(h)'
    <3>1. CASE WordleFinish(h)
      BY <2>f, <3>1
    <3>2. CASE ~IsFinished(g) /\ wJob[h].word # NoWord /\ WordleGoto(h, "save", GuessedWord(g, wJob[h].word))
      <4>1. wJob[h].word \in WordleWords /\ GuessedWord(g, wJob[h].word) \in AnyWordleGame
        BY <2>1, <3>2, WordleValues DEF WordleRunning, AnyWordleGame
      <4>2. /\ wJob'[h].at = "save" /\ wJob'[h].game = GuessedWord(g, wJob[h].word)
            /\ wJob'[h].cmd = wJob[h].cmd
        BY <2>g, <3>2, <4>1 DEF WordlePlaces
      <4>3. ~IsFinished(wGame') /\ wGame' # NoWordleGame
            /\ wJob'[h].game = GuessedWord(wGame', wJob[h].word)
        BY <2>p, <3>2, <4>2, WordleValues
      <4> QED BY <2>p, <4>1, <4>2, <4>3 DEF WordleCarries, At, IsFinished, GuessedWord
    <3> QED BY <2>p, <3>1, <3>2 DEF PlayWordle
  <2>3. CASE LoadWordle(h)
    <3>1. wGame' = wGame /\ IsFinished(wGame)' = IsFinished(wGame)
      BY <2>3 DEF LoadWordle, IsFinished
    <3>2. CASE wJob[h].cmd = "new" /\ New(h)
      <4>1. /\ wJob'[h].at = IF Open THEN "stats" ELSE "fresh"
            /\ wJob'[h].game = wGame /\ wJob'[h].cmd = "new"
        BY <2>g, <2>w, <3>2 DEF New, WordlePlaces, AnyWordleGame
      <4> QED BY <3>1, <4>1 DEF Open, WordleCarries, At
    <3>3. CASE wJob[h].cmd = "giveup" /\ GiveUp(h)
      <4>1. CASE WordleFinish(h)
        BY <2>f, <4>1
      <4>2. CASE wGame # NoWordleGame /\ ~IsFinished(wGame)
                 /\ WordleGoto(h, "save", [wGame EXCEPT !.giveup = TRUE])
        <5>1. [wGame EXCEPT !.giveup = TRUE] \in AnyWordleGame
          BY <2>w, <4>2, WordleValues DEF AnyWordleGame
        <5>2. wJob'[h].at = "save" /\ wJob'[h].game = [wGame EXCEPT !.giveup = TRUE]
              /\ wJob'[h].cmd = "giveup"
          BY <2>g, <3>3, <4>2, <5>1 DEF WordlePlaces
        <5> QED BY <3>1, <4>2, <5>2 DEF WordleCarries, At
      <4> QED BY <3>3, <4>1, <4>2 DEF GiveUp
    <3>4. CASE wJob[h].cmd = "guess" /\ wGame = NoWordleGame /\ WordleGoto(h, "fresh", wGame)
      <4>1. wJob'[h].at = "fresh"
        BY <2>g, <3>4 DEF WordlePlaces, AnyWordleGame
      <4> QED BY <3>1, <3>4, <4>1 DEF WordleCarries, At
    <3>5. CASE wJob[h].cmd = "guess" /\ wGame # NoWordleGame /\ PlayWordle(h, wGame)
      BY <2>p, <2>w, <3>1, <3>5
    <3> QED BY <2>3, <3>2, <3>3, <3>4, <3>5 DEF LoadWordle
  <2>4. ASSUME NEW answer \in WordleWords, StartFresh(h, answer) PROVE WordleCarries(h)'
    <3>1. FreshGame(answer) \in WordleGame /\ wGame' = FreshGame(answer)
      BY <2>4, WordleFresh DEF StartFresh
    <3> QED BY <2>f, <2>p, <2>4, <3>1 DEF StartFresh
  <2>5. CASE SaveWordle(h)
    <3>1. CASE WordleFinish(h)
      BY <2>f, <3>1
    <3>2. CASE IsFinished(wJob[h].game) /\ WordleGoto(h, "stats", wJob[h].game)
      <4>1. wJob'[h].at = "stats" /\ wJob'[h].game = wJob[h].game /\ wJob'[h].cmd = wJob[h].cmd
        BY <2>1, <2>g, <3>2 DEF WordlePlaces, AnyWordleGame, WordleRunning
      <4>2. wJob[h].cmd # "new" /\ wJob[h].game # NoWordleGame
        BY <2>c, <2>w, <2>5, WordleValues DEF SaveWordle, WordleCarries, At
      <4>3. wGame' = wJob[h].game /\ IsFinished(wGame')
        BY <2>5, <3>2 DEF SaveWordle
      <4> QED BY <4>1, <4>2, <4>3 DEF WordleCarries, At, IsFinished
    <3> QED BY <2>5, <3>1, <3>2 DEF SaveWordle
  <2>6. CASE LoadWordleStats(h)
    <3> DEFINE new == [wJob[h] EXCEPT !.at = "record", !.score = wScore]
    <3>1. new.at = "record" /\ new.game = wJob[h].game /\ new.cmd = wJob[h].cmd /\ new.score = wScore
      BY <2>1 DEF WordleRunning
    <3>2. wJob' = [wJob EXCEPT ![h] = new] /\ wGame' = wGame /\ wScore' = wScore
      BY <2>6 DEF LoadWordleStats
    <3> HIDE DEF new
    <3>3. wJob'[h] = new
      BY <3>2 DEF WordleTypeOK
    <3>4. At(h) = "stats"
      BY <2>6 DEF LoadWordleStats, At
    <3> QED BY <2>c, <3>1, <3>2, <3>3, <3>4 DEF WordleCarries, At, IsFinished
  <2>7. CASE RecordWordleResult(h)
    <3>1. CASE WordleFinish(h)
      BY <2>f, <3>1
    <3>2. CASE wJob[h].cmd = "new" /\ WordleGoto(h, "fresh", wJob[h].game)
      <4>1. wJob'[h].at = "fresh" /\ wJob'[h].cmd = "new"
        BY <2>1, <2>g, <3>2 DEF WordlePlaces, AnyWordleGame, WordleRunning
      <4> QED BY <4>1 DEF WordleCarries, At
    <3> QED BY <2>7, <3>1, <3>2 DEF RecordWordleResult
  <2>8. CASE AbandonWordle(h)
    BY <2>f, <2>8 DEF AbandonWordle
  <2> QED BY <1>2, <2>3, <2>4, <2>5, <2>6, <2>7, <2>8 DEF WordleStep
<1> QED BY <1>0, <1>1, <1>2 DEF WordleNext

-----------------------------------------------------------------------------
(* Wordle: how often a round is counted *)

Recording == \E h \in WordleHandlers : At(h) \in {"stats", "record"}
Starting == \E h \in WordleHandlers : At(h) = "fresh"

\* Unless a /wordle_new has failed.
NotCounted ==
  "new" \notin wFailed =>
    /\ CountedAtMostOnce
    /\ wGame # NoWordleGame /\ (Recording \/ (~Starting /\ ~IsFinished(wGame)))
         => WordleCounts(wGame.round) = {}

\* Unless a command has failed.
AllCounted ==
  wFailed = {} =>
    /\ \A r \in 1..wRounds : r # wGame.round => WordleCounts(r) # {}
    /\ wGame # NoWordleGame /\ ~Recording /\ (Starting \/ IsFinished(wGame))
         => WordleCounts(wGame.round) # {}

WordleCounted == WordleNumbered /\ NotCounted /\ AllCounted

\* One more result counts its round once more.
LEMMA CountsGrow ==
  ASSUME WordleTypeOK, NEW r \in 1..WordleMaxRounds, NEW won \in BOOLEAN,
         wResults' = Append(wResults, <<r, won>>)
  PROVE  /\ \A q : q # r => WordleCounts(q)' = WordleCounts(q)
         /\ WordleCounts(r)' # {}
         /\ WordleCounts(r) = {} => \A m, n \in WordleCounts(r)' : m = n
         /\ \A n \in DOMAIN wResults' : \/ n \in DOMAIN wResults /\ wResults'[n] = wResults[n]
                                       \/ wResults'[n][1] = r
<1> DEFINE L == Len(wResults)
<1>1. /\ L \in Nat /\ DOMAIN wResults = 1..L /\ DOMAIN wResults' = 1..(L + 1)
      /\ \A j \in 1..L : wResults'[j] = wResults[j]
      /\ wResults'[L + 1] = <<r, won>> /\ wResults'[L + 1][1] = r
  BY DEF WordleTypeOK
<1> HIDE DEF L
<1>2. ASSUME NEW q, q # r PROVE WordleCounts(q)' = WordleCounts(q)
  BY <1>1, <1>2 DEF WordleCounts
<1>3. WordleCounts(r)' = WordleCounts(r) \cup {L + 1}
  BY <1>1 DEF WordleCounts
<1>4. ASSUME NEW n \in DOMAIN wResults'
      PROVE  (n \in DOMAIN wResults /\ wResults'[n] = wResults[n]) \/ wResults'[n][1] = r
  BY <1>1
<1> QED BY <1>2, <1>3, <1>4

LEMMA WordleCountedStep ==
  WordleTypeOK /\ WordleLocked /\ WordleCarried /\ WordleCounted /\ [WordleNext]_wordleVars
    => WordleCounted'
<1> SUFFICES ASSUME WordleTypeOK, WordleLocked, WordleCarried, WordleCounted,
                    [WordleNext]_wordleVars
             PROVE  WordleCounted'
  OBVIOUS
<1>n. WordleNumbered /\ NotCounted /\ AllCounted
  BY DEF WordleCounted
<1>0. CASE UNCHANGED wordleVars
  BY <1>0 DEF wordleVars, WordleCounted, WordleNumbered, NotCounted, AllCounted, CountedAtMostOnce,
              Recording, Starting, At, IsFinished, WordleCounts
<1>1. ASSUME NEW h \in WordleHandlers, NEW cmd \in WordleCommands,
             NEW word \in WordleWords \cup {NoWord}, StartWordle(h, cmd, word)
      PROVE  WordleCounted'
  <2> DEFINE new == [at |-> "load", cmd |-> cmd, word |-> word, game |-> NoWordleGame,
                     score |-> NoWordleScore]
  <2>1. new.at = "load"
    OBVIOUS
  <2>2. wJob' = [wJob EXCEPT ![h] = new] /\ wLock = "free" /\ wJob[h] = WordleIdle
    BY <1>1 DEF StartWordle
  <2> HIDE DEF new
  <2>3. \A o \in WordleHandlers : wJob[o] = WordleIdle
    BY <2>2, WordleAssumption DEF WordleTypeOK, WordleLocked
  <2>4. ~Recording /\ ~Starting
    BY <2>3 DEF Recording, Starting, At, WordleIdle
  <2>5. ~Recording' /\ ~Starting'
    BY <2>1, <2>2, <2>3 DEF Recording, Starting, At, WordleIdle, WordleTypeOK
  <2> QED BY <1>1, <1>n, <2>4, <2>5
          DEF StartWordle, WordleCounted, WordleNumbered, NotCounted, AllCounted, CountedAtMostOnce,
              IsFinished, WordleCounts
<1>2. ASSUME NEW h \in WordleHandlers, WordleStep(h) PROVE WordleCounted'
  <2>1. wJob[h] # WordleIdle /\ wJob[h] \in WordleRunning
    BY <1>2, WordleBusy
  <2>c. WordleCarries(h) /\ WordleCarries(h)'
    BY WordleCarriedStep DEF WordleCarried
  <2>w. wGame \in WordleGame \/ wGame = NoWordleGame
    BY DEF WordleTypeOK
  <2>o. /\ Recording <=> wJob[h].at \in {"stats", "record"}
        /\ Recording' <=> wJob'[h].at \in {"stats", "record"}
        /\ Starting <=> wJob[h].at = "fresh"
        /\ Starting' <=> wJob'[h].at = "fresh"
    BY <1>2, WordleOthers DEF Recording, Starting, At, WordleIdle
  <2>v. \A r : wResults' = wResults => WordleCounts(r)' = WordleCounts(r)
    BY DEF WordleCounts
  \* A step that keeps the round and the results.
  <2>k. ASSUME UNCHANGED <<wRounds, wResults, wFailed>>, wGame'.round = wGame.round,
               wGame' = NoWordleGame <=> wGame = NoWordleGame,
               Recording' => Recording \/ (~Starting /\ ~IsFinished(wGame)),
               ~Starting' /\ ~IsFinished(wGame') => Recording \/ (~Starting /\ ~IsFinished(wGame)),
               wGame # NoWordleGame /\ ~Recording' /\ (Starting' \/ IsFinished(wGame'))
                 => ~Recording /\ (Starting \/ IsFinished(wGame))
        PROVE  WordleCounted'
    <3>1. WordleNumbered'
      BY <1>n, <2>k DEF WordleNumbered
    <3>2. CountedAtMostOnce' <=> CountedAtMostOnce
      BY <2>k, <2>v DEF CountedAtMostOnce
    <3>3. NotCounted'
      BY <1>n, <2>k, <2>v, <3>2 DEF NotCounted, IsFinished
    <3>4. AllCounted'
      BY <1>n, <2>k, <2>v DEF AllCounted, IsFinished
    <3> QED BY <3>1, <3>3, <3>4 DEF WordleCounted
  <2>f. ASSUME WordleFinish(h) PROVE wJob'[h].at = "idle"
    BY <2>f DEF WordleFinish, WordleTypeOK, WordleIdle
  <2>g. ASSUME NEW at \in WordlePlaces, NEW g \in AnyWordleGame, WordleGoto(h, at, g)
        PROVE  wJob'[h].at = at /\ wJob'[h].cmd = wJob[h].cmd
    BY <2>1, <2>g, WordleMoves
  <2>p. ASSUME NEW g \in WordleGame, PlayWordle(h, g)
        PROVE  wJob'[h].at \in {"idle", "save"}
    <3>1. wJob[h].word \in WordleWords => GuessedWord(g, wJob[h].word) \in AnyWordleGame
      BY WordleValues DEF AnyWordleGame
    <3> QED BY <2>1, <2>f, <2>g, <2>p, <3>1 DEF PlayWordle, WordlePlaces, WordleRunning
  <2>3. CASE LoadWordle(h)
    <3>1. ~Recording /\ ~Starting
      BY <2>3, <2>o DEF LoadWordle
    <3>2. UNCHANGED <<wGame, wRounds, wResults, wFailed>> /\ IsFinished(wGame)' = IsFinished(wGame)
      BY <2>3 DEF LoadWordle, IsFinished
    <3>3. \/ wJob'[h].at = IF Open THEN "stats" ELSE "fresh"
          \/ wJob'[h].at \in {"idle", "save"}
          \/ wJob'[h].at = "fresh" /\ wGame = NoWordleGame
      <4>1. CASE New(h)
        BY <2>g, <2>w, <4>1 DEF New, WordlePlaces, AnyWordleGame
      <4>2. CASE GiveUp(h)
        <5>1. wGame # NoWordleGame => [wGame EXCEPT !.giveup = TRUE] \in AnyWordleGame
          BY <2>w, WordleValues DEF AnyWordleGame
        <5> QED BY <2>f, <2>g, <4>2, <5>1 DEF GiveUp, WordlePlaces
      <4>3. CASE wGame = NoWordleGame /\ WordleGoto(h, "fresh", wGame)
        BY <2>g, <4>3 DEF WordlePlaces, AnyWordleGame
      <4>4. CASE wGame # NoWordleGame /\ PlayWordle(h, wGame)
        BY <2>p, <2>w, <4>4
      <4> QED BY <2>3, <4>1, <4>2, <4>3, <4>4 DEF LoadWordle
    <3>4. /\ Recording' => wGame # NoWordleGame /\ ~IsFinished(wGame)
          /\ Starting' /\ wGame # NoWordleGame => IsFinished(wGame)
      BY <2>o, <3>3 DEF Open
    <3> QED BY <2>k, <3>1, <3>2, <3>4
  <2>4. ASSUME NEW answer \in WordleWords, StartFresh(h, answer) PROVE WordleCounted'
    <3>1. /\ FreshGame(answer) \in WordleGame /\ wGame' = FreshGame(answer) /\ wRounds \in Nat
          /\ wGame'.round = wRounds + 1 /\ wRounds' = wRounds + 1 /\ wResults' = wResults
          /\ wFailed' = wFailed
      BY <2>4, WordleFresh DEF StartFresh, FreshGame, WordleTypeOK
    <3>2. wJob'[h].at \in {"idle", "save"}
      BY <2>f, <2>p, <2>4, <3>1 DEF StartFresh
    <3>3. ~Recording' /\ ~Starting' /\ Starting /\ ~Recording
      BY <2>4, <2>o, <3>2 DEF StartFresh
    <3>4. WordleCounts(wRounds + 1) = {}
      BY <1>n, <3>1 DEF WordleNumbered, WordleCounts
    <3>5. ~IsFinished(wGame')
      BY <3>1, WordleAssumption DEF FreshGame, IsFinished
    <3>6. WordleNumbered'
      BY <1>n, <3>1 DEF WordleNumbered
    <3>7. NotCounted'
      <4>1. ASSUME CountedAtMostOnce, "new" \notin wFailed PROVE CountedAtMostOnce'
        BY <2>v, <3>1, <3>4, <4>1 DEF CountedAtMostOnce
      <4> QED BY <1>n, <2>v, <3>1, <3>4, <4>1 DEF NotCounted
    <3>8. AllCounted'
      <4>1. SUFFICES ASSUME wFailed = {}, NEW r \in 1..wRounds PROVE WordleCounts(r) # {}
        BY <2>v, <3>1, <3>3, <3>5 DEF AllCounted, IsFinished
      <4>2. CASE r # wGame.round
        BY <1>n, <4>1, <4>2 DEF AllCounted
      <4>3. CASE r = wGame.round
        BY <1>n, <3>3, <4>1, <4>3 DEF AllCounted, NoWordleGame
      <4> QED BY <4>2, <4>3
    <3> QED BY <3>6, <3>7, <3>8 DEF WordleCounted
  <2>5. CASE SaveWordle(h)
    <3>1. wGame # NoWordleGame /\ ~IsFinished(wGame) /\ ~Recording /\ ~Starting
          /\ wGame' = wJob[h].game /\ UNCHANGED <<wRounds, wResults, wFailed>>
      BY <2>5, <2>c, <2>o DEF SaveWordle, WordleCarries, At
    <3>2. wGame' \in WordleGame /\ wGame'.round = wGame.round
      <4>1. \/ \E word \in WordleWords : wGame' = GuessedWord(wGame, word)
            \/ wGame' = [wGame EXCEPT !.giveup = TRUE]
        BY <2>5, <2>c, <3>1 DEF SaveWordle, WordleCarries, At
      <4> QED BY <2>w, <3>1, <4>1, WordleValues
    <3>3. wJob'[h].at = IF IsFinished(wGame') THEN "stats" ELSE "idle"
      BY <2>5, <2>f, <2>g, <3>1, <3>2 DEF SaveWordle, WordlePlaces, AnyWordleGame
    <3> QED BY <2>k, <2>o, <3>1, <3>2, <3>3, WordleValues
  <2>6. CASE LoadWordleStats(h)
    <3>1. wJob'[h].at = "record"
      BY <2>1, <2>6 DEF LoadWordleStats, WordleTypeOK, WordleRunning
    <3>2. Recording /\ Recording' /\ ~Starting' /\ ~Starting
      BY <2>6, <2>o, <3>1 DEF LoadWordleStats
    <3> QED BY <2>6, <2>k, <3>2 DEF LoadWordleStats
  <2>7. CASE RecordWordleResult(h)
    <3> DEFINE r == wGame.round
    <3>1. /\ wJob[h].game = wGame /\ wGame # NoWordleGame /\ wGame \in WordleGame
          /\ wJob[h].cmd = "new" <=> ~IsFinished(wGame)
          /\ r \in 1..WordleMaxRounds /\ wGame.solved \in BOOLEAN
      BY <2>7, <2>c, <2>w DEF RecordWordleResult, WordleCarries, At, WordleGame
    <3>2. /\ wResults' = Append(wResults, <<r, wGame.solved>>)
          /\ UNCHANGED <<wGame, wRounds, wFailed>>
      BY <2>7, <3>1 DEF RecordWordleResult
    <3>3. Recording /\ ~Starting
      BY <2>7, <2>o DEF RecordWordleResult
    <3>4. /\ \A q : q # r => WordleCounts(q)' = WordleCounts(q)
          /\ WordleCounts(r)' # {}
          /\ WordleCounts(r) = {} => \A m, n \in WordleCounts(r)' : m = n
          /\ \A n \in DOMAIN wResults' : \/ n \in DOMAIN wResults /\ wResults'[n] = wResults[n]
                                        \/ wResults'[n][1] = r
      BY <3>1, <3>2, CountsGrow
    <3>5. wJob'[h].at = IF IsFinished(wGame) THEN "idle" ELSE "fresh"
      BY <2>7, <2>f, <2>g, <3>1 DEF RecordWordleResult, WordlePlaces, AnyWordleGame
    <3>6. ~Recording' /\ (Starting' <=> ~IsFinished(wGame))
      BY <2>o, <3>5
    <3>7. WordleNumbered'
      BY <1>n, <3>1, <3>2, <3>4 DEF WordleNumbered
    <3>8. NotCounted'
      <4>1. ASSUME "new" \notin wFailed PROVE CountedAtMostOnce'
        <5>1. WordleCounts(r) = {} /\ CountedAtMostOnce
          BY <1>n, <3>1, <3>3, <4>1 DEF NotCounted
        <5> QED BY <3>2, <3>4, <4>1, <5>1 DEF CountedAtMostOnce
      <4>2. IsFinished(wGame)' = IsFinished(wGame)
        BY <3>2 DEF IsFinished
      <4> QED BY <3>2, <3>6, <4>1, <4>2 DEF NotCounted
    <3>9. AllCounted'
      <4>1. wRounds = r
        BY <1>n DEF WordleNumbered
      <4> QED BY <1>n, <3>2, <3>4, <4>1 DEF AllCounted
    <3> QED BY <3>7, <3>8, <3>9 DEF WordleCounted
  <2>8. CASE AbandonWordle(h)
    <3>1. /\ UNCHANGED <<wGame, wRounds, wResults>> /\ wFailed' = wFailed \cup {wJob[h].cmd}
          /\ wJob'[h].at = "idle" /\ wFailed' # {}
      BY <2>8, <2>f DEF AbandonWordle
    <3>2. ~Recording' /\ ~Starting' /\ IsFinished(wGame)' = IsFinished(wGame)
      BY <2>o, <3>1 DEF IsFinished
    <3>3. wJob[h].cmd # "new" => /\ Recording => IsFinished(wGame)
                                 /\ Starting => wGame = NoWordleGame
      BY <2>c, <2>o DEF WordleCarries, At
    <3>4. WordleNumbered'
      BY <1>n, <3>1 DEF WordleNumbered
    <3>5. NotCounted'
      <4>1. CountedAtMostOnce => CountedAtMostOnce'
        BY <2>v, <3>1 DEF CountedAtMostOnce
      <4> QED BY <1>n, <2>v, <3>1, <3>2, <3>3, <4>1 DEF NotCounted
    <3>6. AllCounted'
      BY <3>1 DEF AllCounted
    <3> QED BY <3>4, <3>5, <3>6 DEF WordleCounted
  <2> QED BY <1>2, <2>3, <2>4, <2>5, <2>6, <2>7, <2>8 DEF WordleStep
<1> QED BY <1>0, <1>1, <1>2 DEF WordleNext

-----------------------------------------------------------------------------
(* Wordle: the theorems *)

WordleInv == WordleTypeOK /\ WordleLocked /\ WordleCarried /\ ScoreIsOfResults /\ WordleCounted

LEMMA WordleScoreStep ==
  WordleTypeOK /\ WordleCarried /\ ScoreIsOfResults /\ [WordleNext]_wordleVars => ScoreIsOfResults'
<1> SUFFICES ASSUME WordleTypeOK, WordleCarried, ScoreIsOfResults, [WordleNext]_wordleVars
             PROVE  ScoreIsOfResults'
  OBVIOUS
<1>1. ASSUME NEW h \in WordleHandlers, RecordWordleResult(h) PROVE ScoreIsOfResults'
  <2>1. wJob[h].game \in WordleGame /\ wJob[h].score = wScore
    <3>1. WordleStep(h)
      BY <1>1 DEF WordleStep
    <3> QED BY <1>1, <3>1, WordleBusy
            DEF WordleCarried, WordleCarries, At, RecordWordleResult, WordleRunning
  <2>2. wJob[h].game.solved \in BOOLEAN /\ wJob[h].game.round \in 1..WordleMaxRounds
    BY <2>1 DEF WordleGame
  <2> QED BY <1>1, <2>1, <2>2, ScoreGrows DEF RecordWordleResult
<1>2. CASE UNCHANGED <<wScore, wResults>>
  BY <1>2 DEF ScoreIsOfResults
<1> QED BY <1>1, <1>2 DEF WordleNext, WordleStep, StartWordle, LoadWordle, StartFresh, SaveWordle,
                          LoadWordleStats, AbandonWordle, wordleVars

LEMMA WordleStart == WordleInit => WordleInv
<1> SUFFICES ASSUME WordleInit PROVE WordleInv
  OBVIOUS
<1>1. WordleTypeOK
  BY WordleAssumption DEF WordleInit, WordleTypeOK, WordleScore, NoWordleScore
<1>2. WordleLocked /\ WordleCarried
  BY WordleIdleCarries DEF WordleInit, WordleLocked, WordleCarried
<1>3. ScoreIsOfResults
  <2>1. DOMAIN wResults = {} /\ Len(wResults) = 0 /\ {n \in DOMAIN wResults : wResults[n][2]} = {}
    BY DEF WordleInit
  <2>2. IsRun(wResults, 0, 0)
    BY DEF IsRun
  <2> QED BY <2>1, <2>2, FS_EmptySet DEF WordleInit, ScoreIsOfResults, NoWordleScore
<1>4. WordleCounted
  BY DEF WordleInit, WordleCounted, WordleNumbered, NotCounted, AllCounted, CountedAtMostOnce, NoWordleGame
<1> QED BY <1>1, <1>2, <1>3, <1>4 DEF WordleInv

LEMMA WordleInvStep == WordleInv /\ [WordleNext]_wordleVars => WordleInv'
BY WordleTypeStep, WordleLockStep, WordleCarriedStep, WordleScoreStep, WordleCountedStep
   DEF WordleInv

\* The inductive invariant of wordle, types and lock included.
THEOREM WordleInvCorrect == WordleSpec => []WordleInv
BY WordleStart, WordleInvStep, PTL DEF WordleSpec

\* The wordle score is that of the results in order, and the rounds are counted as often as
\* the order of the writes allows, with any number of players, words and rounds.
THEOREM WordleScoreCorrect == WordleSpec => []WordleScoreIsTrue
<1>1. WordleInv => WordleScoreIsTrue
  <2> SUFFICES ASSUME WordleInv PROVE WordleCountedOnce /\ CountedAtMostOnce
    BY DEF WordleInv, WordleScoreIsTrue
  <2>1. CountedAtMostOnce
    BY DEF WordleInv, WordleCounted, NotCounted, CountedAtMostOnce
  <2>2. ASSUME WordleAtRest, wFailed = {}, NEW r \in 1..wRounds
        PROVE  IF Over(r) THEN \E n \in DOMAIN wResults : WordleCounts(r) = {n}
               ELSE WordleCounts(r) = {}
    <3>1. \A h \in WordleHandlers : wJob[h] = WordleIdle
      BY <2>2, WordleAssumption DEF WordleInv, WordleLocked, WordleAtRest
    <3>2. ~Recording /\ ~Starting
      BY <3>1 DEF Recording, Starting, At, WordleIdle
    <3>3. \A m, n \in WordleCounts(r) : m = n
      BY <2>1, <2>2 DEF CountedAtMostOnce
    <3>4. wGame # NoWordleGame /\ wRounds = wGame.round /\ wRounds \in Nat
      BY <2>2 DEF WordleInv, WordleCounted, WordleNumbered, NoWordleGame, WordleTypeOK
    <3>5. CASE Over(r)
      <4>1. WordleCounts(r) # {}
        BY <2>2, <3>2, <3>4, <3>5 DEF WordleInv, WordleCounted, AllCounted, Over
      <4>2. PICK n : n \in WordleCounts(r)
        BY <4>1
      <4>3. n \in DOMAIN wResults /\ WordleCounts(r) = {n}
        BY <3>3, <4>2 DEF WordleCounts
      <4> QED BY <3>5, <4>3
    <3>6. CASE ~Over(r)
      <4>1. r = wGame.round /\ ~IsFinished(wGame)
        BY <2>2, <3>4, <3>6 DEF Over
      <4> QED BY <2>2, <3>2, <3>4, <3>6, <4>1 DEF WordleInv, WordleCounted, NotCounted
    <3> QED BY <3>5, <3>6
  <2> QED BY <2>1, <2>2 DEF WordleCountedOnce
<1> QED BY <1>1, WordleInvCorrect, PTL

\* No step of wordle reopens or rewrites a round.
LEMMA KeepsRoundStep == WordleInv /\ [WordleNext]_wordleVars => KeepsRound
<1> SUFFICES ASSUME WordleInv, [WordleNext]_wordleVars, wGame # NoWordleGame,
                    wGame'.round = wGame.round
             PROVE  /\ IsFinished(wGame) => wGame' = wGame
                    /\ wGame'.target = wGame.target
                    /\ IsPrefix(wGame.guesses, wGame'.guesses)
  BY DEF KeepsRound
<1>1. WordleTypeOK /\ WordleCarried /\ wRounds = wGame.round /\ wGame \in WordleGame /\ wRounds \in Nat
  BY DEF WordleInv, WordleCounted, WordleNumbered, WordleTypeOK
<1>s. ASSUME NEW s \in Seq(WordleWords) PROVE IsPrefix(s, s)
  BY DEF IsPrefix
<1>2. ASSUME NEW s \in Seq(WordleWords), NEW word \in WordleWords
      PROVE  IsPrefix(s, Append(s, word))
  <2>1. SubSeq(s, 1, Len(s)) = s
    BY SubSeqFull
  <2> DEFINE t == Append(s, word)
             u == SubSeq(t, 1, Len(s))
  <2>2. t \in Seq(WordleWords) /\ Len(t) = Len(s) + 1 /\ \A i \in 1..Len(s) : t[i] = s[i]
    OBVIOUS
  <2>3. u \in Seq(WordleWords) /\ Len(u) = Len(s) /\ \A i \in 1..Len(s) : u[i] = t[1 + i - 1]
    <3> HIDE DEF t
    <3>1. \A i \in 1..Len(s) : t[i] \in WordleWords
      BY <2>2
    <3> QED BY <3>1, SubSeqProperties
  <2> HIDE DEF t, u
  <2>4. u = s
    BY <2>2, <2>3, SeqEqual
  <2> QED BY <2>1, <2>2, <2>4 DEF IsPrefix, t, u
<1>3. wGame.guesses \in Seq(WordleWords)
  BY <1>1 DEF WordleGame
<1>4. CASE wGame' = wGame
  BY <1>s, <1>3, <1>4
<1>5. ASSUME NEW h \in WordleHandlers, SaveWordle(h)
      PROVE  /\ ~IsFinished(wGame) /\ wGame'.target = wGame.target
             /\ IsPrefix(wGame.guesses, wGame'.guesses)
  <2>1. /\ ~IsFinished(wGame)
        /\ \/ \E word \in WordleWords : wGame' = GuessedWord(wGame, word)
           \/ wGame' = [wGame EXCEPT !.giveup = TRUE]
    BY <1>1, <1>5 DEF SaveWordle, WordleCarried, WordleCarries, At
  <2>2. /\ wGame'.target = wGame.target
        /\ \/ wGame'.guesses = wGame.guesses
           \/ \E word \in WordleWords : wGame'.guesses = Append(wGame.guesses, word)
    BY <1>1, <2>1, WordleValues
  <2>3. IsPrefix(wGame.guesses, wGame'.guesses)
    BY <1>s, <1>2, <1>3, <2>2
  <2> QED BY <2>1, <2>2, <2>3
<1>6. ASSUME NEW h \in WordleHandlers, NEW answer \in WordleWords, StartFresh(h, answer)
      PROVE  FALSE
  BY <1>1, <1>6 DEF StartFresh, FreshGame
<1> QED BY <1>4, <1>5, <1>6 DEF WordleNext, WordleStep, StartWordle, LoadWordle, LoadWordleStats,
                                RecordWordleResult, AbandonWordle, wordleVars

-----------------------------------------------------------------------------
(* Loldle: types and the lock *)

LoldlePlaces == {"config", "load", "freeze", "save", "play", "fresh", "stats", "record", "clear"}
AnyLoldleGame == LoldleGame \cup {NoLoldleGame}

\* At most one handler runs, and it holds the lock.
LoldleLocked == /\ \A h \in LoldleHandlers : lJob[h] # LoldleIdle => lLock = h
                /\ lLock # "free" => lJob[lLock] # LoldleIdle

\* What h carries from its load to its save, its record and its clear.
LoldleCarries(h) ==
  LET at == lJob[h].at
      g == lJob[h].game
  IN /\ at = "load" /\ lJob[h].cmd = "guess" => lJob[h].max \in 1..LoldleMaxCap
     /\ at \in {"config", "fresh", "freeze", "play"} => lJob[h].cmd = "guess"
     /\ at = "fresh" => /\ lJob[h].max \in 1..LoldleMaxCap
                        /\ lGame = NoLoldleGame \/ lGame.round \in lSpent
     /\ at \in {"freeze", "save", "play", "stats", "record", "clear"} =>
          /\ lGame # NoLoldleGame /\ g \in LoldleGame
          /\ g.round = lGame.round /\ g.target = lGame.target
     /\ at = "freeze" => /\ g = [lGame EXCEPT !.max = RoundMaxGuesses(lGame)]
                        /\ ~Exhausted(lGame)
     /\ at = "play" => g = lGame
     /\ at = "save" => ~Ends(g) /\ g.max = lGame.max
     /\ at \in {"stats", "record"} /\ lJob[h].cmd = "guess" => g.target \in lChampions
     /\ at = "record" => lJob[h].played = lPlayed
     /\ at = "clear" => \/ lJob[h].cmd = "guess" /\ g.target \notin lChampions
                        \/ LoldleCounts(lGame.round) # {}
LoldleCarried == \A h \in LoldleHandlers : LoldleCarries(h)

\* The rounds are numbered, and the one that is saved is the last.
LoldleNumbered == /\ lGame # NoLoldleGame => lRounds = lGame.round /\ lGame.round \notin lDropped
                  /\ \A n \in DOMAIN lResults : lResults[n] \in 1..lRounds
                  /\ \A r \in lDropped : r \in 1..lRounds

LEMMA LoldleBudget ==
  ASSUME NEW g
  PROVE  RoundMaxGuesses(g) \in 1..LoldleMaxCap
BY LoldleAssumption DEF RoundMaxGuesses

\* Values the handlers build.
LEMMA LoldleValues ==
  ASSUME NEW g \in LoldleGame
  PROVE  /\ g # NoLoldleGame /\ g.round \in 1..LoldleMaxRounds /\ g.target \in Champions
         /\ \A name \in Champions :
              /\ GuessedChampion(g, name) \in LoldleGame /\ GuessedChampion(g, name).round = g.round
              /\ GuessedChampion(g, name).target = g.target /\ GuessedChampion(g, name).max = g.max
         /\ \A n \in 1..LoldleMaxCap :
              /\ [g EXCEPT !.max = n] \in LoldleGame /\ [g EXCEPT !.max = n].round = g.round
              /\ [g EXCEPT !.max = n].target = g.target /\ [g EXCEPT !.max = n].guesses = g.guesses
              /\ [g EXCEPT !.max = n].max = n
<1>1. g # NoLoldleGame /\ g.round \in 1..LoldleMaxRounds /\ g.target \in Champions
  BY LoldleAssumption DEF LoldleGame, NoLoldleGame
<1>2. ASSUME NEW name \in Champions
      PROVE  /\ GuessedChampion(g, name) \in LoldleGame /\ GuessedChampion(g, name).round = g.round
             /\ GuessedChampion(g, name).target = g.target /\ GuessedChampion(g, name).max = g.max
  <2>1. Append(g.guesses, name) \in Seq(Champions)
    BY DEF LoldleGame
  <2> QED BY <2>1 DEF GuessedChampion, LoldleGame
<1>3. ASSUME NEW n \in 1..LoldleMaxCap
      PROVE  /\ [g EXCEPT !.max = n] \in LoldleGame /\ [g EXCEPT !.max = n].round = g.round
             /\ [g EXCEPT !.max = n].target = g.target /\ [g EXCEPT !.max = n].guesses = g.guesses
             /\ [g EXCEPT !.max = n].max = n
  <2>1. n \in Budgets
    BY LoldleAssumption DEF Budgets
  <2> QED BY <2>1 DEF LoldleGame
<1> QED BY <1>1, <1>2, <1>3

LEMMA LoldleBusy ==
  ASSUME LoldleTypeOK, NEW h \in LoldleHandlers, LoldleStep(h)
  PROVE  lJob[h] # LoldleIdle /\ lJob[h] \in LoldleRunning
<1>1. lJob[h] # LoldleIdle
  BY DEF LoldleStep, GetMaxGuesses, LoadLoldle, FreezeBudget, SaveLoldle, PlayLoldle, LoadLoldleStats,
         RecordLoldleResult, ClearLoldle, AbandonLoldle, StartFreshGame, LoldleIdle
<1> QED BY <1>1 DEF LoldleTypeOK

\* What the step of a handler leaves of it.
LEMMA LoldleMoves ==
  ASSUME LoldleTypeOK, NEW h \in LoldleHandlers, lJob[h] # LoldleIdle
  PROVE  /\ LoldleFinish(h) => /\ lLock' \in LoldleHandlers \cup {"free"}
                               /\ lJob' = [lJob EXCEPT ![h] = LoldleIdle]
         /\ \A at \in LoldlePlaces, g \in AnyLoldleGame : LoldleGoto(h, at, g) =>
              /\ lLock' = lLock
              /\ \E new \in LoldleRunning :
                   /\ lJob' = [lJob EXCEPT ![h] = new]
                   /\ new.at = at /\ new.game = g /\ new.cmd = lJob[h].cmd
                   /\ new.guess = lJob[h].guess /\ new.max = lJob[h].max
                   /\ new.played = lJob[h].played
<1>1. ASSUME LoldleFinish(h)
      PROVE  /\ lLock' \in LoldleHandlers \cup {"free"}
             /\ lJob' = [lJob EXCEPT ![h] = LoldleIdle]
  BY <1>1 DEF LoldleFinish, LoldleTypeOK
<1>2. ASSUME NEW at \in LoldlePlaces, NEW g \in AnyLoldleGame, LoldleGoto(h, at, g)
      PROVE  /\ lLock' = lLock
             /\ \E new \in LoldleRunning :
                  /\ lJob' = [lJob EXCEPT ![h] = new]
                  /\ new.at = at /\ new.game = g /\ new.cmd = lJob[h].cmd
                  /\ new.guess = lJob[h].guess /\ new.max = lJob[h].max
                  /\ new.played = lJob[h].played
  <2> DEFINE new == [lJob[h] EXCEPT !.at = at, !.game = g]
  <2>1. lJob' = [lJob EXCEPT ![h] = new] /\ lLock' = lLock
    BY <1>2 DEF LoldleGoto
  <2>2. /\ new \in LoldleRunning /\ new.at = at /\ new.game = g /\ new.cmd = lJob[h].cmd
        /\ new.guess = lJob[h].guess /\ new.max = lJob[h].max /\ new.played = lJob[h].played
    BY DEF LoldleTypeOK, LoldleRunning, LoldlePlaces, AnyLoldleGame
  <2> HIDE DEF new
  <2> QED BY <2>1, <2>2
<1> QED BY <1>1, <1>2

LEMMA LoldleLoads ==
  ASSUME LoldleTypeOK, NEW h \in LoldleHandlers, lJob[h] # LoldleIdle
  PROVE  /\ GetMaxGuesses(h) => \E new \in LoldleRunning :
              /\ lJob' = [lJob EXCEPT ![h] = new] /\ new.at = "load" /\ new.cmd = lJob[h].cmd
              /\ new.max \in 1..LoldleMaxCap
         /\ LoadLoldleStats(h) => \E new \in LoldleRunning :
              /\ lJob' = [lJob EXCEPT ![h] = new] /\ new.at = "record" /\ new.cmd = lJob[h].cmd
              /\ new.game = lJob[h].game /\ new.played = lPlayed
<1>r. lJob[h] \in LoldleRunning
  BY DEF LoldleTypeOK
<1>1. ASSUME GetMaxGuesses(h)
      PROVE  \E new \in LoldleRunning :
               /\ lJob' = [lJob EXCEPT ![h] = new] /\ new.at = "load" /\ new.cmd = lJob[h].cmd
               /\ new.max \in 1..LoldleMaxCap
  <2> DEFINE new == [lJob[h] EXCEPT !.at = "load", !.max = Effective]
  <2>1. Effective \in 1..LoldleMaxCap /\ Effective \in Budgets
    BY LoldleAssumption DEF Effective, Budgets
  <2>2. lJob' = [lJob EXCEPT ![h] = new]
    BY <1>1 DEF GetMaxGuesses
  <2>3. new \in LoldleRunning /\ new.at = "load" /\ new.cmd = lJob[h].cmd /\ new.max \in 1..LoldleMaxCap
    BY <1>r, <2>1 DEF LoldleRunning
  <2> HIDE DEF new
  <2> QED BY <2>2, <2>3
<1>2. ASSUME LoadLoldleStats(h)
      PROVE  \E new \in LoldleRunning :
               /\ lJob' = [lJob EXCEPT ![h] = new] /\ new.at = "record" /\ new.cmd = lJob[h].cmd
               /\ new.game = lJob[h].game /\ new.played = lPlayed
  <2> DEFINE new == [lJob[h] EXCEPT !.at = "record", !.played = lPlayed]
  <2>1. lJob' = [lJob EXCEPT ![h] = new]
    BY <1>2 DEF LoadLoldleStats
  <2>2. /\ new \in LoldleRunning /\ new.at = "record" /\ new.cmd = lJob[h].cmd
        /\ new.game = lJob[h].game /\ new.played = lPlayed
    BY <1>r DEF LoldleRunning, LoldleTypeOK
  <2> HIDE DEF new
  <2> QED BY <2>1, <2>2
<1> QED BY <1>1, <1>2

LEMMA LoldleFresh ==
  ASSUME LoldleTypeOK, NEW h \in LoldleHandlers, NEW answer \in lChampions, StartFreshGame(h, answer)
  PROVE  /\ lGame' \in LoldleGame /\ lRounds' \in 0..LoldleMaxRounds /\ lRounds' = lRounds + 1
         /\ lGame'.round = lRounds + 1 /\ lGame'.guesses = <<>> /\ lGame'.max = lJob[h].max
<1>1. lJob[h].max \in Budgets
  BY LoldleBusy DEF LoldleStep, LoldleRunning
<1>2. <<>> \in Seq(Champions) /\ answer \in Champions
  BY DEF LoldleTypeOK
<1>3. lRounds + 1 \in 1..LoldleMaxRounds
  BY LoldleAssumption DEF StartFreshGame, LoldleTypeOK
<1> QED BY <1>1, <1>2, <1>3, LoldleAssumption DEF StartFreshGame, LoldleGame

\* How a step leaves its handler.
LEMMA LoldleSteps ==
  ASSUME LoldleTypeOK, LoldleCarried, NEW h \in LoldleHandlers, LoldleStep(h)
  PROVE  \/ LoldleFinish(h) \/ GetMaxGuesses(h) \/ LoadLoldleStats(h)
         \/ \E at \in LoldlePlaces, g \in AnyLoldleGame : LoldleGoto(h, at, g)
<1>1. lJob[h] \in LoldleRunning /\ lJob[h].game \in AnyLoldleGame
  BY LoldleBusy DEF LoldleRunning, AnyLoldleGame
<1>2. lGame \in AnyLoldleGame
  BY DEF LoldleTypeOK, AnyLoldleGame
<1>3. CASE LoadLoldle(h)
  <2>1. lGame # NoLoldleGame => [lGame EXCEPT !.max = RoundMaxGuesses(lGame)] \in AnyLoldleGame
    BY <1>2, LoldleValues, LoldleBudget DEF AnyLoldleGame
  <2> QED BY <1>2, <1>3, <2>1 DEF LoadLoldle, LoldlePlaces
<1>4. CASE FreezeBudget(h) \/ RecordLoldleResult(h)
  BY <1>1, <1>4 DEF FreezeBudget, RecordLoldleResult, LoldlePlaces
<1>5. CASE SaveLoldle(h) \/ ClearLoldle(h) \/ AbandonLoldle(h)
  BY <1>5 DEF SaveLoldle, ClearLoldle, AbandonLoldle
<1>6. CASE PlayLoldle(h)
  <2> DEFINE g == lJob[h].game
             champion == lJob[h].guess
  <2>1. CASE LoldleFinish(h)
    BY <2>1
  <2>2. CASE LoldleGoto(h, "clear", g)
    BY <1>1, <2>2 DEF LoldlePlaces
  <2>3. CASE /\ champion \in lChampions
             /\ LoldleGoto(h, IF Ends(GuessedChampion(g, champion)) THEN "stats" ELSE "save",
                           GuessedChampion(g, champion))
    <3>1. champion \in Champions
      BY <2>3 DEF LoldleTypeOK
    <3>2. GuessedChampion(g, champion) \in AnyLoldleGame
      BY <1>6, <3>1, LoldleValues
         DEF PlayLoldle, LoldleCarried, LoldleCarries, AnyLoldleGame
    <3> QED BY <2>3, <3>2 DEF LoldlePlaces
  <2> QED BY <1>6, <2>1, <2>2, <2>3 DEF PlayLoldle
<1>7. ASSUME NEW answer \in lChampions, StartFreshGame(h, answer)
      PROVE  \E at \in LoldlePlaces, g \in AnyLoldleGame : LoldleGoto(h, at, g)
  BY <1>7, LoldleFresh DEF StartFreshGame, LoldlePlaces, AnyLoldleGame
<1> QED BY <1>3, <1>4, <1>5, <1>6, <1>7 DEF LoldleStep

LEMMA LoldleTypeStep ==
  LoldleTypeOK /\ LoldleCarried /\ [LoldleNext]_loldleVars => LoldleTypeOK'
<1> SUFFICES ASSUME LoldleTypeOK, LoldleCarried, [LoldleNext]_loldleVars PROVE LoldleTypeOK'
  OBVIOUS
<1>0. CASE UNCHANGED loldleVars
  BY <1>0 DEF loldleVars, loldleHistory, LoldleTypeOK
<1>1. ASSUME NEW h \in LoldleHandlers, NEW cmd \in {"guess", "giveup"},
             NEW champion \in Champions \cup {NoChampion}, StartLoldle(h, cmd, champion)
      PROVE  LoldleTypeOK'
  <2> DEFINE new == [at |-> IF cmd = "guess" THEN "config" ELSE "load",
                     cmd |-> cmd, guess |-> champion, game |-> NoLoldleGame,
                     max |-> 0, played |-> 0]
  <2>1. new \in LoldleRunning
    BY LoldleAssumption DEF LoldleRunning, Budgets
  <2>2. lJob' = [lJob EXCEPT ![h] = new]
    BY <1>1 DEF StartLoldle
  <2> HIDE DEF new
  <2> QED BY <1>1, <2>1, <2>2 DEF StartLoldle, LoldleTypeOK, loldleHistory
<1>2. ASSUME NEW h \in LoldleHandlers, NEW n \in 0..(LoldleMaxCap + 1), SetMax(h, n)
      PROVE  LoldleTypeOK'
  BY <1>2, LoldleAssumption DEF SetMax, LoldleTypeOK, Budgets, loldleHistory
<1>3. ASSUME NEW some \in SUBSET Champions, Upgrade(some) PROVE LoldleTypeOK'
  BY <1>3 DEF Upgrade, LoldleTypeOK, loldleHistory
<1>4. ASSUME NEW h \in LoldleHandlers, LoldleStep(h) PROVE LoldleTypeOK'
  <2>1. lJob[h] # LoldleIdle /\ lJob[h] \in LoldleRunning
    BY <1>4, LoldleBusy
  <2>2. /\ lJob' \in [LoldleHandlers -> LoldleRunning \cup {LoldleIdle}]
        /\ lLock' \in LoldleHandlers \cup {"free"}
    <3>1. CASE GetMaxGuesses(h) \/ LoadLoldleStats(h)
      BY <2>1, <3>1, LoldleLoads DEF LoldleTypeOK, GetMaxGuesses, LoadLoldleStats
    <3> QED BY <1>4, <2>1, <3>1, LoldleSteps, LoldleMoves DEF LoldleTypeOK
  <2>c. /\ lJob[h].at \in {"freeze", "save", "stats", "record", "clear"} =>
             lJob[h].game \in LoldleGame
        /\ lJob[h].played \in Nat
    BY <2>1 DEF LoldleCarried, LoldleCarries, LoldleRunning
  <2>3. CASE GetMaxGuesses(h) \/ LoadLoldle(h) \/ PlayLoldle(h) \/ LoadLoldleStats(h)
    BY <2>2, <2>3
       DEF GetMaxGuesses, LoadLoldle, PlayLoldle, LoadLoldleStats, LoldleTypeOK, loldleHistory
  <2>4. CASE FreezeBudget(h) \/ SaveLoldle(h)
    BY <2>2, <2>c, <2>4 DEF FreezeBudget, SaveLoldle, LoldleTypeOK, loldleHistory
  <2>5. CASE RecordLoldleResult(h)
    <3>1. lResults' \in Seq(1..LoldleMaxRounds)
      BY <2>c, <2>5, LoldleValues DEF RecordLoldleResult, LoldleTypeOK
    <3> QED BY <2>2, <2>c, <2>5, <3>1 DEF RecordLoldleResult, LoldleTypeOK
  <2>6. CASE ClearLoldle(h)
    <3>1. lJob[h].game.round \in 1..LoldleMaxRounds
      BY <2>c, <2>6, LoldleValues DEF ClearLoldle
    <3> QED BY <2>2, <2>6, <3>1 DEF ClearLoldle, LoldleTypeOK
  <2>7. CASE AbandonLoldle(h)
    BY <2>2, <2>7 DEF AbandonLoldle, LoldleTypeOK
  <2>8. ASSUME NEW champion \in lChampions, StartFreshGame(h, champion) PROVE LoldleTypeOK'
    BY <2>2, <2>8, LoldleFresh DEF StartFreshGame, LoldleTypeOK
  <2> QED BY <1>4, <2>3, <2>4, <2>5, <2>6, <2>7, <2>8 DEF LoldleStep
<1> QED BY <1>0, <1>1, <1>2, <1>3, <1>4 DEF LoldleNext

\* While h runs the others are idle, before and after its step.
LEMMA LoldleOthers ==
  ASSUME LoldleTypeOK, LoldleLocked, LoldleCarried, NEW h \in LoldleHandlers, LoldleStep(h)
  PROVE  /\ lLock = h
         /\ \A o \in LoldleHandlers : o # h => lJob[o] = LoldleIdle /\ lJob'[o] = LoldleIdle
<1>1. lJob[h] # LoldleIdle
  BY LoldleBusy
<1>2. lLock = h /\ \A o \in LoldleHandlers : o # h => lJob[o] = LoldleIdle
  BY <1>1 DEF LoldleLocked
<1>3. \A o \in LoldleHandlers : o # h => lJob'[o] = lJob[o]
  BY <1>1, LoldleSteps, LoldleMoves, LoldleLoads DEF LoldleTypeOK
<1> QED BY <1>2, <1>3

LEMMA LoldleLockStep ==
  LoldleTypeOK /\ LoldleLocked /\ LoldleCarried /\ [LoldleNext]_loldleVars => LoldleLocked'
<1> SUFFICES ASSUME LoldleTypeOK, LoldleLocked, LoldleCarried, [LoldleNext]_loldleVars
             PROVE  LoldleLocked'
  OBVIOUS
<1>0. CASE UNCHANGED <<lJob, lLock>>
  BY <1>0 DEF LoldleLocked
<1>1. ASSUME NEW h \in LoldleHandlers, NEW cmd \in {"guess", "giveup"},
             NEW champion \in Champions \cup {NoChampion}, StartLoldle(h, cmd, champion)
      PROVE  LoldleLocked'
  <2> DEFINE new == [at |-> IF cmd = "guess" THEN "config" ELSE "load",
                     cmd |-> cmd, guess |-> champion, game |-> NoLoldleGame,
                     max |-> 0, played |-> 0]
  <2>1. new # LoldleIdle
    BY DEF LoldleIdle
  <2>2. lJob' = [lJob EXCEPT ![h] = new] /\ lLock' = h /\ lLock = "free"
    BY <1>1 DEF StartLoldle
  <2> HIDE DEF new
  <2> QED BY <2>1, <2>2, LoldleAssumption DEF LoldleTypeOK, LoldleLocked
<1>2. ASSUME NEW h \in LoldleHandlers, LoldleStep(h) PROVE LoldleLocked'
  <2>1. /\ lJob[h] # LoldleIdle /\ lLock = h
        /\ \A o \in LoldleHandlers : o # h => lJob'[o] = LoldleIdle
    BY <1>2, LoldleBusy, LoldleOthers
  <2>2. CASE LoldleFinish(h)
    BY <2>1, <2>2 DEF LoldleFinish, LoldleLocked, LoldleTypeOK
  <2>3. ASSUME NEW new \in LoldleRunning, lJob' = [lJob EXCEPT ![h] = new], lLock' = lLock
        PROVE  LoldleLocked'
    <3>1. new # LoldleIdle
      BY DEF LoldleRunning, LoldleIdle
    <3> QED BY <2>1, <2>3, <3>1 DEF LoldleLocked, LoldleTypeOK
  <2>4. CASE GetMaxGuesses(h) \/ LoadLoldleStats(h)
    <3>1. lLock' = lLock
      BY <2>4 DEF GetMaxGuesses, LoadLoldleStats
    <3> QED BY <2>1, <2>3, <2>4, <3>1, LoldleLoads
  <2>5. ASSUME NEW at \in LoldlePlaces, NEW g \in AnyLoldleGame, LoldleGoto(h, at, g)
        PROVE  LoldleLocked'
    BY <2>1, <2>3, <2>5, LoldleMoves
  <2> QED BY <1>2, <2>2, <2>4, <2>5, LoldleSteps
<1> QED BY <1>0, <1>1, <1>2 DEF LoldleNext, SetMax, Upgrade, loldleVars

LEMMA LoldleCarriedStep ==
  /\ LoldleTypeOK /\ LoldleLocked /\ LoldleCarried /\ LoldleSavedRoundIsOpen
  /\ [LoldleNext]_loldleVars
  => LoldleCarried'
<1> SUFFICES ASSUME LoldleTypeOK, LoldleLocked, LoldleCarried, LoldleSavedRoundIsOpen,
                    [LoldleNext]_loldleVars
             PROVE  LoldleCarried'
  OBVIOUS
<1>i. \A o \in LoldleHandlers : lJob'[o] = LoldleIdle => LoldleCarries(o)'
  BY DEF LoldleCarries, LoldleIdle
<1>0. CASE UNCHANGED <<lGame, lPlayed, lJob, lChampions, lResults, lSpent>>
  BY <1>0 DEF LoldleCarried, LoldleCarries, LoldleCounts, RoundMaxGuesses, Ends, Exhausted, Won
<1>1. ASSUME NEW h \in LoldleHandlers, NEW cmd \in {"guess", "giveup"},
             NEW champion \in Champions \cup {NoChampion}, StartLoldle(h, cmd, champion)
      PROVE  LoldleCarried'
  <2> DEFINE new == [at |-> IF cmd = "guess" THEN "config" ELSE "load",
                     cmd |-> cmd, guess |-> champion, game |-> NoLoldleGame,
                     max |-> 0, played |-> 0]
  <2>1. new.cmd = cmd /\ new.at = IF cmd = "guess" THEN "config" ELSE "load"
    OBVIOUS
  <2>2. lJob' = [lJob EXCEPT ![h] = new] /\ lLock = "free"
    BY <1>1 DEF StartLoldle
  <2> HIDE DEF new
  <2>3. \A o \in LoldleHandlers : o # h => lJob'[o] = LoldleIdle
    BY <2>2, LoldleAssumption DEF LoldleTypeOK, LoldleLocked
  <2>4. lJob'[h] = new
    BY <2>2 DEF LoldleTypeOK
  <2>5. LoldleCarries(h)'
    BY <2>1, <2>4 DEF LoldleCarries
  <2> QED BY <1>i, <2>3, <2>5 DEF LoldleCarried
<1>2. ASSUME NEW some \in SUBSET Champions, Upgrade(some) PROVE LoldleCarried'
  BY <1>i, <1>2 DEF Upgrade, LoldleCarried
<1>3. ASSUME NEW h \in LoldleHandlers, LoldleStep(h) PROVE LoldleCarried'
  <2>1. lJob[h] # LoldleIdle /\ lJob[h] \in LoldleRunning
    BY <1>3, LoldleBusy
  <2>2. SUFFICES LoldleCarries(h)'
    BY <1>3, <1>i, <2>2, LoldleOthers DEF LoldleCarried
  <2>c. LoldleCarries(h)
    BY DEF LoldleCarried
  <2>w. lGame \in AnyLoldleGame /\ (lGame # NoLoldleGame => lGame \in LoldleGame)
    BY DEF LoldleTypeOK, AnyLoldleGame
  <2>f. ASSUME LoldleFinish(h) PROVE LoldleCarries(h)'
    <3>1. lJob'[h] = LoldleIdle
      BY <2>f DEF LoldleFinish, LoldleTypeOK
    <3> QED BY <1>i, <3>1
  <2>g. ASSUME NEW at \in LoldlePlaces, NEW g \in AnyLoldleGame, LoldleGoto(h, at, g)
        PROVE  /\ lJob'[h].at = at /\ lJob'[h].game = g /\ lJob'[h].cmd = lJob[h].cmd
               /\ lJob'[h].max = lJob[h].max /\ lJob'[h].played = lJob[h].played
    BY <2>1, <2>g, LoldleMoves DEF LoldleTypeOK
  <2>3. CASE GetMaxGuesses(h)
    <3>1. lJob'[h].at = "load" /\ lJob'[h].max \in 1..LoldleMaxCap
      BY <2>1, <2>3, LoldleLoads DEF LoldleTypeOK
    <3> QED BY <3>1 DEF LoldleCarries
  <2>4. CASE LoadLoldle(h)
    <3>1. UNCHANGED <<lGame, lChampions, lSpent>>
      BY <2>4 DEF LoadLoldle, loldleHistory
    <3>2. CASE lJob[h].cmd = "giveup" /\ lGame # NoLoldleGame /\ LoldleGoto(h, "stats", lGame)
      <4>1. lJob'[h].at = "stats" /\ lJob'[h].game = lGame /\ lJob'[h].cmd = "giveup"
        BY <2>g, <2>w, <3>2 DEF LoldlePlaces
      <4> QED BY <2>w, <3>1, <3>2, <4>1 DEF LoldleCarries
    <3>3. CASE /\ lJob[h].cmd = "guess" /\ LoldleGoto(h, "fresh", lGame)
               /\ lGame = NoLoldleGame \/ Exhausted(lGame)
      <4>1. lJob'[h].at = "fresh" /\ lJob'[h].cmd = "guess" /\ lJob'[h].max = lJob[h].max
        BY <2>g, <2>w, <3>3 DEF LoldlePlaces
      <4>2. lJob[h].max \in 1..LoldleMaxCap
        BY <2>4, <2>c, <3>3 DEF LoldleCarries, LoadLoldle
      <4>3. lGame = NoLoldleGame \/ lGame.round \in lSpent
        BY <3>3 DEF LoldleSavedRoundIsOpen
      <4> QED BY <3>1, <4>1, <4>2, <4>3 DEF LoldleCarries
    <3>5. CASE lJob[h].cmd = "guess" /\ lGame # NoLoldleGame /\ LoldleGoto(h, "play", lGame)
      <4>1. lJob'[h].at = "play" /\ lJob'[h].game = lGame /\ lJob'[h].cmd = "guess"
        BY <2>g, <2>w, <3>5 DEF LoldlePlaces
      <4> QED BY <2>w, <3>1, <3>5, <4>1 DEF LoldleCarries
    <3>6. CASE /\ lJob[h].cmd = "guess" /\ lGame # NoLoldleGame /\ ~Exhausted(lGame)
               /\ LoldleGoto(h, "freeze", [lGame EXCEPT !.max = RoundMaxGuesses(lGame)])
      <4> DEFINE frozen == [lGame EXCEPT !.max = RoundMaxGuesses(lGame)]
      <4>1. /\ frozen \in LoldleGame /\ frozen.round = lGame.round /\ frozen.target = lGame.target
        BY <2>w, <3>6, LoldleValues, LoldleBudget
      <4>2. lJob'[h].at = "freeze" /\ lJob'[h].game = frozen /\ lJob'[h].cmd = "guess"
        <5>1. frozen \in AnyLoldleGame
          BY <4>1 DEF AnyLoldleGame
        <5> HIDE DEF frozen
        <5> QED BY <2>g, <3>6, <5>1 DEF LoldlePlaces, frozen
      <4>3. frozen' = frozen /\ ~Exhausted(lGame)'
        BY <3>1, <3>6 DEF RoundMaxGuesses, Exhausted
      <4> QED BY <3>1, <3>6, <4>1, <4>2, <4>3 DEF LoldleCarries
    <3> QED BY <2>1, <2>4, <2>f, <3>2, <3>3, <3>5, <3>6 DEF LoadLoldle, LoldleRunning
  <2>5. CASE FreezeBudget(h)
    <3>1. /\ lJob[h].game \in LoldleGame /\ lJob[h].cmd = "guess" /\ lGame' = lJob[h].game
          /\ LoldleGoto(h, "play", lJob[h].game)
      BY <2>5, <2>c DEF FreezeBudget, LoldleCarries
    <3>2. lJob'[h].at = "play" /\ lJob'[h].game = lGame' /\ lJob'[h].cmd = "guess"
      BY <2>g, <3>1 DEF LoldlePlaces, AnyLoldleGame
    <3> QED BY <3>1, <3>2, LoldleValues DEF LoldleCarries
  <2>6. CASE SaveLoldle(h) \/ ClearLoldle(h) \/ AbandonLoldle(h)
    BY <2>6, <2>f DEF SaveLoldle, ClearLoldle, AbandonLoldle
  <2>7. CASE PlayLoldle(h)
    <3> DEFINE g == lJob[h].game
               champion == lJob[h].guess
               more == GuessedChampion(g, champion)
    <3>1. /\ lGame # NoLoldleGame /\ g \in LoldleGame /\ g = lGame /\ lJob[h].cmd = "guess"
          /\ UNCHANGED <<lGame, lChampions>>
      BY <2>7, <2>c DEF PlayLoldle, LoldleCarries
    <3>2. CASE LoldleGoto(h, "clear", g) /\ g.target \notin lChampions
      <4>1. lJob'[h].at = "clear" /\ lJob'[h].game = g /\ lJob'[h].cmd = "guess"
        BY <2>g, <3>1, <3>2 DEF LoldlePlaces, AnyLoldleGame
      <4> QED BY <3>1, <3>2, <4>1 DEF LoldleCarries
    <3>3. CASE /\ champion \in lChampions /\ g.target \in lChampions
               /\ LoldleGoto(h, IF Ends(more) THEN "stats" ELSE "save", more)
      <4>1. champion \in Champions
        BY <3>3 DEF LoldleTypeOK
      <4>2. /\ more \in LoldleGame /\ more.round = g.round /\ more.target = g.target
            /\ more.max = g.max /\ more \in AnyLoldleGame
        BY <3>1, <4>1, LoldleValues DEF AnyLoldleGame
      <4> HIDE DEF more
      <4>3. /\ lJob'[h].at = IF Ends(more) THEN "stats" ELSE "save"
            /\ lJob'[h].game = more /\ lJob'[h].cmd = "guess"
        BY <2>g, <3>1, <3>3, <4>2 DEF LoldlePlaces
      <4>4. lJob'[h].at = "save" => ~Ends(lJob[h].game)'
        BY <4>3 DEF Ends, Exhausted, Won, RoundMaxGuesses
      <4> QED BY <3>1, <3>3, <4>2, <4>3, <4>4 DEF LoldleCarries
    <3> QED BY <2>7, <2>f, <3>2, <3>3 DEF PlayLoldle
  <2>8. CASE LoadLoldleStats(h)
    <3>1. /\ lJob'[h].at = "record" /\ lJob'[h].game = lJob[h].game
          /\ lJob'[h].cmd = lJob[h].cmd /\ lJob'[h].played = lPlayed
      BY <2>1, <2>8, LoldleLoads DEF LoldleTypeOK
    <3>2. lJob[h].at = "stats" /\ UNCHANGED <<lGame, lPlayed, lChampions>>
      BY <2>8 DEF LoadLoldleStats
    <3> QED BY <2>c, <3>1, <3>2 DEF LoldleCarries
  <2>9. CASE RecordLoldleResult(h)
    <3>1. /\ lJob[h].at = "record" /\ lGame # NoLoldleGame /\ lJob[h].game \in LoldleGame
          /\ lJob[h].game.round = lGame.round /\ lJob[h].game.target = lGame.target
          /\ UNCHANGED <<lGame, lChampions>>
      BY <2>9, <2>c DEF RecordLoldleResult, LoldleCarries
    <3>2. lJob'[h].at = "clear" /\ lJob'[h].game = lJob[h].game
      BY <2>9, <2>g, <3>1 DEF RecordLoldleResult, LoldlePlaces, AnyLoldleGame
    <3>3. Len(lResults) + 1 \in LoldleCounts(lGame.round)'
      <4>1. lGame.round \in 1..LoldleMaxRounds /\ lResults' = Append(lResults, lGame.round)
        BY <2>9, <3>1, LoldleValues DEF RecordLoldleResult
      <4> QED BY <3>1, <4>1 DEF LoldleCounts, LoldleTypeOK
    <3> QED BY <3>1, <3>2, <3>3 DEF LoldleCarries
  <2>10. ASSUME NEW answer \in lChampions, StartFreshGame(h, answer) PROVE LoldleCarries(h)'
    <3>1. lGame' \in LoldleGame /\ LoldleGoto(h, "play", lGame') /\ lJob[h].cmd = "guess"
      BY <2>10, <2>c, LoldleFresh DEF StartFreshGame, LoldleCarries
    <3>2. lJob'[h].at = "play" /\ lJob'[h].game = lGame' /\ lJob'[h].cmd = "guess"
      BY <2>g, <3>1 DEF LoldlePlaces, AnyLoldleGame
    <3> QED BY <3>1, <3>2, LoldleValues DEF LoldleCarries
  <2> QED BY <1>3, <2>3, <2>4, <2>5, <2>6, <2>7, <2>8, <2>9, <2>10 DEF LoldleStep
<1> QED BY <1>0, <1>1, <1>2, <1>3 DEF LoldleNext, SetMax, loldleVars, loldleHistory

\* The saved round stays open, and keeps its budget: freezing it writes the budget it had.
LEMMA LoldleRoundStep ==
  LoldleTypeOK /\ LoldleCarried /\ LoldleNumbered /\ LoldleSavedRoundIsOpen
  /\ [LoldleNext]_loldleVars
    => LoldleSavedRoundIsOpen' /\ KeepsBudget
<1> SUFFICES ASSUME LoldleTypeOK, LoldleCarried, LoldleNumbered, LoldleSavedRoundIsOpen,
                    [LoldleNext]_loldleVars
             PROVE  LoldleSavedRoundIsOpen' /\ KeepsBudget
  OBVIOUS
<1>s. lSpent' = lSpent
  BY DEF LoldleNext, LoldleStep, StartLoldle, SetMax, Upgrade, GetMaxGuesses, LoadLoldle,
         FreezeBudget, SaveLoldle, StartFreshGame, PlayLoldle, LoadLoldleStats,
         RecordLoldleResult, ClearLoldle, AbandonLoldle, loldleVars, loldleHistory
<1>0. CASE lGame' = lGame
  BY <1>s, <1>0 DEF LoldleSavedRoundIsOpen, KeepsBudget, Ends, Exhausted, Won, RoundMaxGuesses
<1>1. ASSUME NEW h \in LoldleHandlers, FreezeBudget(h)
      PROVE  LoldleSavedRoundIsOpen' /\ KeepsBudget
  <2> DEFINE n == RoundMaxGuesses(lGame)
  <2>1. /\ lGame \in LoldleGame /\ lGame # NoLoldleGame /\ lGame' = [lGame EXCEPT !.max = n]
        /\ ~Exhausted(lGame)
    BY <1>1 DEF FreezeBudget, LoldleCarried, LoldleCarries, LoldleTypeOK
  <2>2. n \in 1..LoldleMaxCap
    BY LoldleBudget
  <2>3. ~Won(lGame) /\ ~(Len(lGame.guesses) >= n)
    BY <2>1 DEF LoldleSavedRoundIsOpen, Exhausted
  <2> HIDE DEF n
  <2>4. lGame'.guesses = lGame.guesses /\ lGame'.target = lGame.target /\ lGame'.max = n
    BY <2>1, <2>2, LoldleValues
  <2>5. RoundMaxGuesses(lGame') = n
    BY <2>2, <2>4 DEF RoundMaxGuesses
  <2>6. RoundMaxGuesses(lGame') = RoundMaxGuesses(lGame)
    BY <2>5 DEF n
  <2> QED BY <2>3, <2>4, <2>5, <2>6
          DEF LoldleSavedRoundIsOpen, KeepsBudget, Ends, Exhausted, Won, RoundMaxGuesses
<1>2. ASSUME NEW h \in LoldleHandlers, SaveLoldle(h)
      PROVE  LoldleSavedRoundIsOpen' /\ KeepsBudget
  <2>1. lGame' = lJob[h].game /\ ~Ends(lJob[h].game) /\ lJob[h].game.max = lGame.max
    BY <1>2 DEF SaveLoldle, LoldleCarried, LoldleCarries
  <2> QED BY <2>1 DEF LoldleSavedRoundIsOpen, KeepsBudget, Ends, Exhausted, Won, RoundMaxGuesses
<1>3. ASSUME NEW h \in LoldleHandlers, ClearLoldle(h)
      PROVE  LoldleSavedRoundIsOpen' /\ KeepsBudget
  <2>1. lGame' = NoLoldleGame /\ lGame'.round = 0
    BY <1>3 DEF ClearLoldle, NoLoldleGame
  <2>2. lGame # NoLoldleGame => lGame.round # 0
    BY LoldleValues DEF LoldleTypeOK
  <2> QED BY <2>1, <2>2 DEF LoldleSavedRoundIsOpen, KeepsBudget
<1>4. ASSUME NEW h \in LoldleHandlers, NEW answer \in lChampions, StartFreshGame(h, answer)
      PROVE  LoldleSavedRoundIsOpen' /\ KeepsBudget
  <2>1. lGame'.guesses = <<>> /\ lGame'.round = lRounds + 1
    BY <1>4, LoldleFresh
  <2>2. RoundMaxGuesses(lGame') \in 1..LoldleMaxCap
    BY LoldleBudget
  <2>3. ~Ends(lGame')
    BY <2>1, <2>2, LoldleAssumption DEF Ends, Exhausted, Won, Contains
  <2>4. lGame # NoLoldleGame => lGame'.round # lGame.round
    BY <2>1 DEF LoldleNumbered, LoldleTypeOK
  <2> QED BY <2>3, <2>4 DEF LoldleSavedRoundIsOpen, KeepsBudget, Ends, Exhausted, Won, RoundMaxGuesses
<1> QED BY <1>0, <1>1, <1>2, <1>3, <1>4
        DEF LoldleNext, LoldleStep, StartLoldle, SetMax, Upgrade, GetMaxGuesses, LoadLoldle,
            PlayLoldle, LoadLoldleStats, RecordLoldleResult, AbandonLoldle, loldleVars

-----------------------------------------------------------------------------
(* Loldle: how often a round is counted *)

\* A handler is about to clear the round it has recorded.
ClearsCounted == \E h \in LoldleHandlers :
                   /\ lJob[h].at = "clear"
                   /\ lJob[h].cmd = "giveup" \/ lJob[h].game.target \in lChampions

\* Unless a command has failed.
CountedUntilClear ==
  ~lFailed =>
    /\ \A r \in 1..lRounds : \A m, n \in LoldleCounts(r) : m = n
    /\ \A r \in lDropped : LoldleCounts(r) = {}
    /\ lGame # NoLoldleGame /\ ~ClearsCounted => LoldleCounts(lGame.round) = {}

LoldleCounted == /\ LoldleNumbered /\ NoResultLost /\ CountedUntilClear
                 /\ lPlayed = Len(lResults)

\* One more result counts its round once more.
LEMMA LoldleCountsGrow ==
  ASSUME LoldleTypeOK, NEW r \in 1..LoldleMaxRounds, lResults' = Append(lResults, r)
  PROVE  /\ \A q : q # r => LoldleCounts(q)' = LoldleCounts(q)
         /\ LoldleCounts(r)' = LoldleCounts(r) \cup {Len(lResults) + 1}
         /\ Len(lResults') = Len(lResults) + 1
         /\ \A n \in DOMAIN lResults' : \/ n \in DOMAIN lResults /\ lResults'[n] = lResults[n]
                                       \/ lResults'[n] = r
<1> DEFINE L == Len(lResults)
<1>1. /\ L \in Nat /\ DOMAIN lResults = 1..L /\ DOMAIN lResults' = 1..(L + 1)
      /\ \A j \in 1..L : lResults'[j] = lResults[j]
      /\ lResults'[L + 1] = r /\ Len(lResults') = L + 1
  BY DEF LoldleTypeOK
<1> HIDE DEF L
<1>2. ASSUME NEW q, q # r PROVE LoldleCounts(q)' = LoldleCounts(q)
  BY <1>1, <1>2 DEF LoldleCounts
<1>3. LoldleCounts(r)' = LoldleCounts(r) \cup {L + 1}
  BY <1>1 DEF LoldleCounts
<1>4. ASSUME NEW n \in DOMAIN lResults'
      PROVE  (n \in DOMAIN lResults /\ lResults'[n] = lResults[n]) \/ lResults'[n] = r
  BY <1>1
<1> QED BY <1>1, <1>2, <1>3, <1>4 DEF L

LEMMA LoldleCountedStep ==
  /\ LoldleTypeOK /\ LoldleLocked /\ LoldleCarried /\ LoldleCounted
  /\ [LoldleNext]_loldleVars
  => LoldleCounted'
<1> SUFFICES ASSUME LoldleTypeOK, LoldleLocked, LoldleCarried, LoldleCounted,
                    [LoldleNext]_loldleVars
             PROVE  LoldleCounted'
  OBVIOUS
<1>n. LoldleNumbered /\ NoResultLost /\ CountedUntilClear /\ lPlayed = Len(lResults)
  BY DEF LoldleCounted
<1>w. /\ lGame \in LoldleGame \/ lGame = NoLoldleGame
      /\ NoLoldleGame.round = 0 /\ (lGame # NoLoldleGame => lGame.round # 0) /\ lRounds \in Nat
  BY LoldleValues DEF LoldleTypeOK, NoLoldleGame
\* A step that keeps the round and the results.
<1>k. ASSUME UNCHANGED <<lPlayed, lRounds, lResults, lDropped, lSpent>>, lGame'.round = lGame.round,
             lGame' = NoLoldleGame <=> lGame = NoLoldleGame, lFailed => lFailed',
             ~lFailed' /\ ClearsCounted => ClearsCounted'
      PROVE  LoldleCounted'
  <2>1. \A r : LoldleCounts(r)' = LoldleCounts(r)
    BY <1>k DEF LoldleCounts
  <2>2. LoldleNumbered'
    BY <1>k, <1>n DEF LoldleNumbered
  <2>3. NoResultLost'
    BY <1>k, <1>n, <2>1 DEF NoResultLost
  <2>4. CountedUntilClear'
    BY <1>k, <1>n, <2>1 DEF CountedUntilClear
  <2> QED BY <1>k, <1>n, <2>2, <2>3, <2>4 DEF LoldleCounted
<1>i. (\A o \in LoldleHandlers : lJob[o] = LoldleIdle) => ~ClearsCounted
  BY DEF ClearsCounted, LoldleIdle
<1>0. CASE UNCHANGED <<lGame, lPlayed, lJob, lChampions, loldleHistory>>
  BY <1>0, <1>k DEF ClearsCounted, loldleHistory
<1>1. ASSUME NEW h \in LoldleHandlers, NEW cmd \in {"guess", "giveup"},
             NEW champion \in Champions \cup {NoChampion}, StartLoldle(h, cmd, champion)
      PROVE  LoldleCounted'
  <2>1. \A o \in LoldleHandlers : lJob[o] = LoldleIdle
    BY <1>1, LoldleAssumption DEF StartLoldle, LoldleLocked
  <2> QED BY <1>1, <1>i, <1>k, <2>1 DEF StartLoldle, loldleHistory
<1>2. ASSUME NEW some \in SUBSET Champions, Upgrade(some) PROVE LoldleCounted'
  BY <1>2, <1>i, <1>k DEF Upgrade, loldleHistory
<1>3. ASSUME NEW h \in LoldleHandlers, LoldleStep(h) PROVE LoldleCounted'
  <2>1. lJob[h] # LoldleIdle /\ lJob[h] \in LoldleRunning
    BY <1>3, LoldleBusy
  <2>c. LoldleCarries(h)
    BY DEF LoldleCarried
  <2>o. ClearsCounted <=> /\ lJob[h].at = "clear"
                          /\ lJob[h].cmd = "giveup" \/ lJob[h].game.target \in lChampions
    BY <1>3, LoldleOthers DEF ClearsCounted, LoldleIdle
  <2>2. CASE GetMaxGuesses(h) \/ LoadLoldle(h) \/ PlayLoldle(h) \/ LoadLoldleStats(h)
    BY <1>k, <2>2, <2>o
       DEF GetMaxGuesses, LoadLoldle, PlayLoldle, LoadLoldleStats, loldleHistory
  <2>3. CASE FreezeBudget(h) \/ SaveLoldle(h)
    <3>1. /\ lGame # NoLoldleGame /\ lGame' \in LoldleGame /\ lGame'.round = lGame.round
          /\ lGame' # NoLoldleGame
      BY <2>3, <2>c, LoldleValues DEF FreezeBudget, SaveLoldle, LoldleCarries
    <3> QED BY <1>k, <2>3, <2>o, <3>1 DEF FreezeBudget, SaveLoldle, loldleHistory
  <2>4. CASE AbandonLoldle(h)
    BY <1>k, <2>4 DEF AbandonLoldle
  <2>5. CASE RecordLoldleResult(h)
    <3> DEFINE r == lGame.round
    <3>1. /\ lGame # NoLoldleGame /\ lJob[h].game \in LoldleGame /\ lJob[h].game.round = r
          /\ r \in 1..LoldleMaxRounds
          /\ lJob[h].cmd = "guess" => lJob[h].game.target \in lChampions
          /\ lJob[h].played = lPlayed
      BY <2>5, <2>c, LoldleValues DEF RecordLoldleResult, LoldleCarries
    <3>2. /\ UNCHANGED <<lGame, lChampions, lRounds, lDropped, lSpent, lFailed>>
          /\ lResults' = Append(lResults, r) /\ lPlayed' = lPlayed + 1
      BY <2>5, <3>1 DEF RecordLoldleResult
    <3>3. /\ \A q : q # r => LoldleCounts(q)' = LoldleCounts(q)
          /\ LoldleCounts(r)' = LoldleCounts(r) \cup {Len(lResults) + 1}
          /\ Len(lResults') = Len(lResults) + 1
          /\ \A n \in DOMAIN lResults' : \/ n \in DOMAIN lResults /\ lResults'[n] = lResults[n]
                                        \/ lResults'[n] = r
      BY <3>1, <3>2, LoldleCountsGrow
    <3>4. r = lRounds /\ r \notin lDropped /\ r \in 1..lRounds
      BY <1>n, <3>1 DEF LoldleNumbered
    <3>5. LoldleNumbered'
      BY <1>n, <3>2, <3>3, <3>4 DEF LoldleNumbered
    <3>6. NoResultLost'
      BY <1>n, <3>2, <3>3 DEF NoResultLost
    <3>7. ClearsCounted'
      <4>1. lJob'[h].at = "clear" /\ lJob'[h].game = lJob[h].game /\ lJob'[h].cmd = lJob[h].cmd
        BY <2>1, <2>5, <3>1, LoldleMoves
           DEF RecordLoldleResult, LoldlePlaces, AnyLoldleGame, LoldleTypeOK
      <4> QED BY <2>1, <3>1, <3>2, <4>1 DEF ClearsCounted, LoldleRunning
    <3>8. CountedUntilClear'
      <4>1. SUFFICES ASSUME ~lFailed
                     PROVE  /\ \A q \in 1..lRounds : \A m, n \in LoldleCounts(q)' : m = n
                            /\ \A q \in lDropped : LoldleCounts(q)' = {}
        BY <3>2, <3>7 DEF CountedUntilClear
      <4>2. LoldleCounts(r) = {}
        BY <1>n, <2>5, <2>o, <3>1, <4>1 DEF CountedUntilClear, RecordLoldleResult
      <4>3. /\ \A q \in 1..lRounds : \A m, n \in LoldleCounts(q) : m = n
            /\ \A q \in lDropped : LoldleCounts(q) = {}
        BY <1>n, <4>1 DEF CountedUntilClear
      <4>4. LoldleCounts(r)' = {Len(lResults) + 1}
        BY <3>3, <4>2
      <4>5. ASSUME NEW q \in 1..lRounds PROVE \A m, n \in LoldleCounts(q)' : m = n
        <5>1. q # r => LoldleCounts(q)' = LoldleCounts(q)
          BY <3>3
        <5>2. q = r => LoldleCounts(q)' = {Len(lResults) + 1}
          BY <3>2, <4>4 DEF LoldleCounts
        <5> QED BY <4>3, <5>1, <5>2
      <4>6. ASSUME NEW q \in lDropped PROVE LoldleCounts(q)' = {}
        BY <3>3, <3>4, <4>3
      <4> QED BY <4>5, <4>6
    <3> QED BY <1>n, <3>2, <3>3, <3>5, <3>6, <3>8 DEF LoldleCounted
  <2>6. CASE ClearLoldle(h)
    <3> DEFINE r == lGame.round
    <3>1. /\ lGame # NoLoldleGame /\ lJob[h].game.round = r
          /\ \/ lJob[h].cmd = "guess" /\ lJob[h].game.target \notin lChampions
             \/ LoldleCounts(r) # {}
          /\ lJob[h].at = "clear"
      BY <2>6, <2>c DEF ClearLoldle, LoldleCarries
    <3>2. /\ lGame' = NoLoldleGame /\ UNCHANGED <<lPlayed, lRounds, lResults, lSpent, lFailed>>
          /\ \/ ClearsCounted /\ lDropped' = lDropped
             \/ ~ClearsCounted /\ lDropped' = lDropped \cup {r}
      BY <2>6, <2>o, <3>1 DEF ClearLoldle
    <3>3. \A q : LoldleCounts(q)' = LoldleCounts(q)
      BY <3>2 DEF LoldleCounts
    <3>4. r = lRounds /\ r \in 1..lRounds
      BY <1>n, <1>w, <3>1 DEF LoldleNumbered
    <3>5. LoldleNumbered'
      BY <1>n, <3>2, <3>4 DEF LoldleNumbered
    <3>6. NoResultLost'
      BY <1>n, <2>o, <3>1, <3>2, <3>3 DEF NoResultLost
    <3>7. CountedUntilClear'
      <4>1. ~lFailed /\ ~ClearsCounted => LoldleCounts(r) = {}
        BY <1>n, <3>1 DEF CountedUntilClear
      <4> QED BY <1>n, <3>1, <3>2, <3>3, <4>1 DEF CountedUntilClear
    <3> QED BY <1>n, <3>2, <3>5, <3>6, <3>7 DEF LoldleCounted
  <2>7. ASSUME NEW answer \in lChampions, StartFreshGame(h, answer) PROVE LoldleCounted'
    <3>1. /\ lGame = NoLoldleGame \/ lGame.round \in lSpent
          /\ lGame'.round = lRounds + 1 /\ lRounds' = lRounds + 1
          /\ UNCHANGED <<lPlayed, lResults, lDropped, lSpent, lFailed>>
      BY <2>7, <2>c, LoldleFresh DEF StartFreshGame, LoldleCarries
    <3>2. \A q : LoldleCounts(q)' = LoldleCounts(q)
      BY <3>1 DEF LoldleCounts
    <3>3. LoldleCounts(lRounds + 1) = {}
      BY <1>n, <1>w DEF LoldleNumbered, LoldleCounts
    <3>4. LoldleNumbered'
      BY <1>n, <1>w, <3>1 DEF LoldleNumbered
    <3>5. NoResultLost'
      BY <1>n, <1>w, <3>1, <3>2 DEF NoResultLost
    <3>6. CountedUntilClear'
      <4>1. \A q \in 1..(lRounds + 1) : q \in 1..lRounds \/ q = lRounds + 1
        BY <1>w
      <4> QED BY <1>n, <3>1, <3>2, <3>3, <4>1 DEF CountedUntilClear
    <3> QED BY <1>n, <3>1, <3>4, <3>5, <3>6 DEF LoldleCounted
  <2> QED BY <1>3, <2>2, <2>3, <2>4, <2>5, <2>6, <2>7 DEF LoldleStep
<1> QED BY <1>0, <1>1, <1>2, <1>3 DEF LoldleNext, SetMax, loldleVars, loldleHistory

-----------------------------------------------------------------------------
(* Loldle: the theorems *)

LoldleInv == /\ LoldleTypeOK /\ LoldleLocked /\ LoldleCarried /\ LoldleCounted
             /\ LoldleSavedRoundIsOpen

LEMMA LoldleStart == LoldleInit => LoldleInv
<1> SUFFICES ASSUME LoldleInit PROVE LoldleInv
  OBVIOUS
<1>1. \A g \in Legacy : g \in LoldleGame /\ g.round = 1 /\ g.max = 0 /\ ~Won(g)
  <2> SUFFICES ASSUME NEW g \in Legacy
               PROVE  g \in LoldleGame /\ g.round = 1 /\ g.max = 0 /\ ~Won(g)
    OBVIOUS
  <2> DEFINE Left(t) == {gs \in SeqOf(Champions \ {t}, LoldleMaxCap - 1) : IsInjective(gs)}
  <2>1. PICK t \in Champions : g \in [round : {1}, target : {t}, max : {0}, guesses : Left(t)]
    BY DEF Legacy
  <2>2. Left(t) \subseteq SeqOf(Champions \ {t}, LoldleMaxCap - 1)
    OBVIOUS
  <2> HIDE DEF Left
  <2>3. /\ g = [round |-> 1, target |-> t, max |-> 0, guesses |-> g.guesses]
        /\ g.guesses \in Left(t)
    BY <2>1
  <2>4. g.guesses \in Seq(Champions) /\ \A n \in DOMAIN g.guesses : g.guesses[n] # t
    BY <2>2, <2>3, LoldleAssumption DEF SeqOf
  <2>5. 1 \in 1..LoldleMaxRounds /\ 0 \in Budgets
    BY LoldleAssumption DEF Budgets
  <2>6. ~Won(g)
    BY <2>3, <2>4 DEF Won, Contains
  <2> QED BY <2>3, <2>4, <2>5, <2>6 DEF LoldleGame
<1>2. /\ lGame \in LoldleGame \cup {NoLoldleGame} /\ lRounds \in {0, 1}
      /\ lGame # NoLoldleGame => lRounds = 1 /\ lGame \in Legacy
      /\ lGame = NoLoldleGame => lRounds = 0
      /\ lGame \in Legacy => lGame # NoLoldleGame
  <2>1. lGame \in Legacy \/ lGame = NoLoldleGame
    BY DEF LoldleInit
  <2>2. NoLoldleGame.round = 0 /\ lRounds = lGame.round
    BY DEF LoldleInit, NoLoldleGame
  <2>3. CASE lGame = NoLoldleGame
    BY <1>1, <2>2, <2>3, LoldleValues
  <2>4. CASE lGame \in Legacy
    BY <1>1, <2>2, <2>4, LoldleValues
  <2> QED BY <2>1, <2>3, <2>4
<1>t. LoldleTypeOK
  <2>1. /\ lConfig \in Budgets /\ lPlayed \in Nat /\ lRounds \in 0..LoldleMaxRounds
        /\ lChampions \in (SUBSET Champions) \ {{}}
    BY <1>2, LoldleAssumption DEF LoldleInit, Budgets
  <2>2. /\ lResults \in Seq(1..LoldleMaxRounds) /\ lDropped \in SUBSET (1..LoldleMaxRounds)
        /\ lSpent \in SUBSET (1..LoldleMaxRounds)
    BY LoldleAssumption DEF LoldleInit
  <2> QED BY <1>2, <2>1, <2>2 DEF LoldleInit, LoldleTypeOK
<1>3. LoldleLocked /\ LoldleCarried
  BY DEF LoldleInit, LoldleLocked, LoldleCarried, LoldleCarries, LoldleIdle
<1>4. lResults = <<>> /\ lDropped = {} /\ DOMAIN lResults = {} /\ Len(lResults) = 0 /\ lPlayed = 0
  BY DEF LoldleInit
<1>5. LoldleCounted
  <2>1. \A r : LoldleCounts(r) = {}
    BY <1>4 DEF LoldleCounts
  <2>2. LoldleNumbered /\ CountedUntilClear
    BY <1>1, <1>2, <1>4, <2>1 DEF LoldleNumbered, CountedUntilClear
  <2>3. NoResultLost
    BY <1>1, <1>2 DEF NoResultLost
  <2> QED BY <1>4, <2>2, <2>3 DEF LoldleCounted
<1>6. LoldleSavedRoundIsOpen
  <2> SUFFICES ASSUME lGame # NoLoldleGame
               PROVE  ~Won(lGame) /\ (Exhausted(lGame) => lGame.round \in lSpent /\ lGame.max = 0)
    BY DEF LoldleSavedRoundIsOpen
  <2>1. ~Won(lGame) /\ lGame.round = 1 /\ lGame.max = 0
    BY <1>1, <1>2
  <2>2. RoundMaxGuesses(lGame) = LoldleMaxGuesses
    BY <2>1 DEF RoundMaxGuesses
  <2>3. Exhausted(lGame) => 1 \in lSpent
    BY <2>2 DEF Exhausted, LoldleInit
  <2> QED BY <2>1, <2>3
<1> QED BY <1>t, <1>3, <1>5, <1>6 DEF LoldleInv

LEMMA LoldleInvStep == LoldleInv /\ [LoldleNext]_loldleVars => LoldleInv'
BY LoldleTypeStep, LoldleLockStep, LoldleCarriedStep, LoldleRoundStep, LoldleCountedStep
   DEF LoldleInv, LoldleCounted

\* The inductive invariant of loldle, types and lock included.
THEOREM LoldleInvCorrect == LoldleSpec => []LoldleInv
BY LoldleStart, LoldleInvStep, PTL DEF LoldleSpec

\* No loldle round that ends goes uncounted, whatever fails, and without failures each is
\* counted once, with any number of players, champions, builds and rounds, and whatever
\* round an older build left: only one it left exhausted may be replaced uncounted.
THEOREM LoldleScoreCorrect == LoldleSpec => []LoldleScoreIsTrue
<1>1. LoldleInv => LoldleScoreIsTrue
  <2> SUFFICES ASSUME LoldleInv PROVE LoldleCountedOnce
    BY DEF LoldleInv, LoldleCounted, LoldleScoreIsTrue
  <2>n. LoldleNumbered /\ NoResultLost /\ CountedUntilClear /\ lPlayed = Len(lResults)
    BY DEF LoldleInv, LoldleCounted
  <2>1. ASSUME LoldleAtRest, ~lFailed, NEW r \in 1..lRounds
        PROVE  IF r = lGame.round \/ r \in lDropped THEN LoldleCounts(r) = {}
               ELSE \/ \E n \in DOMAIN lResults : LoldleCounts(r) = {n}
                    \/ r \in lSpent /\ LoldleCounts(r) = {}
    <3>1. ~ClearsCounted
      BY <2>1, LoldleAssumption
         DEF LoldleInv, LoldleAtRest, LoldleLocked, ClearsCounted, LoldleIdle
    <3>2. CASE r = lGame.round \/ r \in lDropped
      BY <2>1, <2>n, <3>1, <3>2 DEF CountedUntilClear, NoLoldleGame
    <3>3. CASE ~(r = lGame.round \/ r \in lDropped) /\ LoldleCounts(r) # {}
      <4>1. PICK n : n \in LoldleCounts(r)
        BY <3>3
      <4>2. n \in DOMAIN lResults /\ LoldleCounts(r) = {n}
        BY <2>1, <2>n, <4>1 DEF CountedUntilClear, LoldleCounts
      <4> QED BY <3>3, <4>2
    <3>4. CASE ~(r = lGame.round \/ r \in lDropped) /\ LoldleCounts(r) = {}
      BY <2>1, <2>n, <3>4 DEF NoResultLost
    <3> QED BY <3>2, <3>3, <3>4
  <2> QED BY <2>1, <2>n DEF LoldleCountedOnce
<1> QED BY <1>1, LoldleInvCorrect, PTL

\* A saved loldle round can always be played on, whatever budgets are set, builds replace the
\* champions or calls fail, unless an older build left it without a frozen budget and with no
\* guess left under the default.
THEOREM SavedRoundOpen == LoldleSpec => []LoldleSavedRoundIsOpen
BY LoldleInvCorrect, PTL DEF LoldleInv

-----------------------------------------------------------------------------
(* The marking of a word *)

\* The places up to n where the target has c and the guess another letter.
Displaced(c, n) == {q \in 1..n : target[q] = c /\ guess[q] # target[q]}

\* The places where c was found elsewhere in the target.
Spent(c) == {q \in Positions : guess[q] = c /\ out[q] = "partial"}

\* The first pass has marked what is in place, and pooled the rest of the target.
Pooling == /\ \A q \in Positions :
                out[q] = IF q < pos /\ guess[q] = target[q] THEN "correct" ELSE "none"
           /\ \A c \in Letters : pool[c] = Cardinality(Displaced(c, pos - 1))

\* The places before Reached have their mark.
Reached == IF pass = 2 THEN pos ELSE WordLength + 1

\* Each letter in the pool or spent is one the target has out of place, and a letter is
\* called wrong only when its pool is empty.
Spending ==
  /\ \A q \in Positions :
       IF guess[q] = target[q] THEN out[q] = "correct"
       ELSE IF q < Reached THEN out[q] \in {"partial", "wrong"} ELSE out[q] = "none"
  /\ \A c \in Letters :
       pool[c] + Cardinality(Spent(c)) = Cardinality(Displaced(c, WordLength))
  /\ \A q \in Positions : out[q] = "wrong" => pool[guess[q]] = 0
  /\ \A p, q \in Positions : p < q /\ guess[p] = guess[q] /\ out[q] = "partial"
                               => out[p] # "wrong"

MarkingInv == /\ MarkingTypeOK
              /\ pass = 1 => Pooling
              /\ pass # 1 => Spending

LEMMA PlacesFinite ==
  ASSUME NEW S \in SUBSET Positions
  PROVE  IsFiniteSet(S) /\ Cardinality(S) \in Nat
<1>1. IsFiniteSet(Positions)
  BY ScoreAssumption, FS_Interval DEF Positions
<1> QED BY <1>1, FS_Subset, FS_CardinalityType

LEMMA DisplacedGrows ==
  ASSUME MarkingTypeOK, NEW n \in Positions, NEW c
  PROVE  Cardinality(Displaced(c, n)) =
           Cardinality(Displaced(c, n - 1))
             + (IF target[n] = c /\ guess[n] # target[n] THEN 1 ELSE 0)
<1>1. Displaced(c, n - 1) \in SUBSET Positions /\ n \notin Displaced(c, n - 1)
  BY ScoreAssumption DEF Displaced, Positions
<1>2. IsFiniteSet(Displaced(c, n - 1)) /\ Cardinality(Displaced(c, n - 1)) \in Nat
  BY <1>1, PlacesFinite
<1>3. CASE target[n] = c /\ guess[n] # target[n]
  <2>1. Displaced(c, n) = Displaced(c, n - 1) \cup {n}
    BY <1>3, ScoreAssumption DEF Displaced, Positions
  <2> QED BY <1>1, <1>2, <1>3, <2>1, FS_AddElement
<1>4. CASE ~(target[n] = c /\ guess[n] # target[n])
  <2>1. Displaced(c, n) = Displaced(c, n - 1)
    BY <1>4, ScoreAssumption DEF Displaced, Positions
  <2> QED BY <1>2, <1>4, <2>1
<1> QED BY <1>3, <1>4

LEMMA MarkingTypeStep == MarkingTypeOK /\ [MarkingNext]_markingVars => MarkingTypeOK'
<1> SUFFICES ASSUME MarkingTypeOK, [MarkingNext]_markingVars PROVE MarkingTypeOK'
  OBVIOUS
<1>1. CASE UNCHANGED markingVars
  BY <1>1 DEF markingVars, MarkingTypeOK
<1>2. CASE MarkingNext
  <2>1. pos' \in Positions /\ pass' \in 1..3
    <3>1. pass \in 1..2 /\ pos \in 1..WordLength /\ NextPosition
      BY <1>2 DEF MarkingNext, Pass1, Pass2, MarkingTypeOK, Positions
    <3> QED BY <3>1, ScoreAssumption DEF NextPosition, Positions
  <2>2. guess[pos] \in Letters /\ target[pos] \in Letters
    BY DEF MarkingTypeOK, Word
  <2>3. out' \in [Positions -> Marks \cup {"none"}]
    BY <1>2 DEF MarkingNext, Pass1, Pass2, MarkingTypeOK, Marks
  <2>4. pool' \in [Letters -> Nat]
    <3>1. pool[target[pos]] + 1 \in Nat /\ (pool[guess[pos]] > 0 => pool[guess[pos]] - 1 \in Nat)
      BY <2>2 DEF MarkingTypeOK
    <3>2. \/ pool' = pool
          \/ pool' = [pool EXCEPT ![target[pos]] = @ + 1]
          \/ pool[guess[pos]] > 0 /\ pool' = [pool EXCEPT ![guess[pos]] = @ - 1]
      BY <1>2 DEF MarkingNext, Pass1, Pass2
    <3> QED BY <2>2, <3>1, <3>2 DEF MarkingTypeOK
  <2> QED BY <1>2, <2>1, <2>3, <2>4 DEF MarkingNext, Pass1, Pass2, MarkingTypeOK
<1> QED BY <1>1, <1>2

\* The first pass.
LEMMA PoolStep == MarkingInv /\ Pass1 => (pass' = 1 => Pooling') /\ (pass' # 1 => Spending')
<1> SUFFICES ASSUME MarkingInv, Pass1
             PROVE  (pass' = 1 => Pooling') /\ (pass' # 1 => Spending')
  OBVIOUS
<1>1. /\ MarkingTypeOK /\ Pooling /\ pass = 1 /\ guess' = guess /\ target' = target
      /\ pos \in 1..WordLength /\ WordLength \in Nat \ {0}
      /\ target[pos] \in Letters
  BY ScoreAssumption DEF MarkingInv, Pass1, MarkingTypeOK, Positions, Word
<1>2. ASSUME NEW q \in Positions
      PROVE  out'[q] = IF q <= pos /\ guess[q] = target[q] THEN "correct" ELSE "none"
  <2>1. out[q] = IF q < pos /\ guess[q] = target[q] THEN "correct" ELSE "none"
    BY <1>1 DEF Pooling
  <2>2. q # pos => out'[q] = out[q]
    BY <1>1 DEF Pass1, MarkingTypeOK
  <2>3. q = pos /\ guess[q] = target[q] => out'[q] = "correct"
    BY <1>1 DEF Pass1, MarkingTypeOK
  <2>4. q = pos /\ guess[q] # target[q] => out'[q] = out[q]
    BY <1>1 DEF Pass1, MarkingTypeOK
  <2>5. q \in Nat /\ pos \in Nat
    BY <1>1 DEF Positions
  <2> QED BY <2>1, <2>2, <2>3, <2>4, <2>5
<1>3. \A c \in Letters : pool'[c] = Cardinality(Displaced(c, pos))
  <2> SUFFICES ASSUME NEW c \in Letters PROVE pool'[c] = Cardinality(Displaced(c, pos))
    OBVIOUS
  <2>1. pool[c] = Cardinality(Displaced(c, pos - 1)) /\ pool[c] \in Nat
    BY <1>1 DEF Pooling, MarkingTypeOK
  <2>2. pool'[c] = pool[c] + (IF target[pos] = c /\ guess[pos] # target[pos] THEN 1 ELSE 0)
    BY <1>1, <2>1 DEF Pass1, MarkingTypeOK
  <2> QED BY <1>1, <2>1, <2>2, DisplacedGrows DEF Positions
<1>4. \A c, n : Displaced(c, n)' = Displaced(c, n)
  BY <1>1 DEF Displaced
<1>5. CASE pos < WordLength
  <2>1. pos' = pos + 1 /\ pass' = 1 /\ pos' - 1 = pos
    BY <1>1, <1>5 DEF Pass1, NextPosition
  <2>2. \A q \in Positions : q <= pos <=> q < pos'
    BY <1>1, <2>1 DEF Positions
  <2>3. \A c : Displaced(c, pos - 1)' = Displaced(c, pos)
    BY <1>1, <2>1 DEF Displaced
  <2>4. Pooling'
    BY <1>1, <1>2, <1>3, <2>2, <2>3 DEF Pooling
  <2> QED BY <2>1, <2>4
<1>6. CASE pos = WordLength
  <2>1. pos' = 1 /\ pass' = 2 /\ Reached' = 1
    BY <1>1, <1>6 DEF Pass1, NextPosition, Reached
  <2>2. \A q \in Positions : out'[q] = IF guess[q] = target[q] THEN "correct" ELSE "none"
    BY <1>1, <1>2, <1>6 DEF Positions
  <2>3. \A q \in Positions : ~(q < Reached')
    BY <2>1 DEF Positions
  <2>4. \A c : Spent(c)' = {}
    BY <1>1, <2>2 DEF Spent
  <2>5. ASSUME NEW c \in Letters
        PROVE  pool'[c] + Cardinality(Spent(c)') = Cardinality(Displaced(c, WordLength))
    <3>1. Displaced(c, WordLength) \in SUBSET Positions
      BY DEF Displaced, Positions
    <3> QED BY <1>3, <1>6, <2>4, <3>1, PlacesFinite, FS_EmptySet
  <2>6. Spending'
    BY <1>1, <1>4, <2>2, <2>3, <2>5 DEF Spending
  <2> QED BY <2>1, <2>6
<1> QED BY <1>1, <1>5, <1>6

\* The second pass.
LEMMA SpendStep == MarkingInv /\ Pass2 => pass' # 1 /\ Spending'
<1> SUFFICES ASSUME MarkingInv, Pass2 PROVE pass' # 1 /\ Spending'
  OBVIOUS
<1>1. /\ MarkingTypeOK /\ Spending /\ pass = 2 /\ guess' = guess /\ target' = target
      /\ pos \in Positions /\ WordLength \in Nat \ {0} /\ Positions = 1..WordLength
      /\ guess[pos] \in Letters /\ Reached = pos /\ pool[guess[pos]] \in Nat
  BY ScoreAssumption DEF MarkingInv, Pass2, MarkingTypeOK, Positions, Word, Reached
<1>2. pass' # 1 /\ Reached' = pos + 1 /\ \A q \in Positions : q < Reached' <=> q < pos \/ q = pos
  BY <1>1 DEF Pass2, NextPosition, Reached
<1>3. \A c : Displaced(c, WordLength)' = Displaced(c, WordLength)
  BY <1>1 DEF Displaced
<1>s. \A c : Spent(c) \in SUBSET Positions
  BY DEF Spent
<1>4. CASE guess[pos] = target[pos]
  <2>1. out' = out /\ pool' = pool
    BY <1>1, <1>4 DEF Pass2, Spending
  <2>2. \A c : Spent(c)' = Spent(c)
    BY <1>1, <2>1 DEF Spent
  <2>3. \A q \in Positions :
          IF guess[q] = target[q] THEN out[q] = "correct"
          ELSE IF q < Reached' THEN out[q] \in {"partial", "wrong"} ELSE out[q] = "none"
    BY <1>1, <1>2, <1>4 DEF Spending
  <2> QED BY <1>1, <1>2, <1>3, <2>1, <2>2, <2>3 DEF Spending
<1>5. CASE guess[pos] # target[pos] /\ pool[guess[pos]] > 0
  <2> DEFINE c == guess[pos]
  <2>1. /\ out[pos] = "none" /\ out' = [out EXCEPT ![pos] = "partial"]
        /\ pool' = [pool EXCEPT ![c] = @ - 1]
    BY <1>1, <1>5 DEF Pass2, Spending
  <2>2. out'[pos] = "partial" /\ \A q \in Positions : q # pos => out'[q] = out[q]
    BY <1>1, <2>1 DEF MarkingTypeOK
  <2>3. /\ pool'[c] = pool[c] - 1 /\ pool'[c] \in Nat
        /\ \A d \in Letters : d # c => pool'[d] = pool[d]
    BY <1>1, <1>5, <2>1 DEF MarkingTypeOK
  <2>4. \A q \in Positions :
          IF guess[q] = target[q] THEN out'[q] = "correct"
          ELSE IF q < Reached' THEN out'[q] \in {"partial", "wrong"} ELSE out'[q] = "none"
    BY <1>1, <1>2, <1>5, <2>2 DEF Spending
  <2>5. ASSUME NEW d \in Letters
        PROVE  pool'[d] + Cardinality(Spent(d)') = Cardinality(Displaced(d, WordLength))
    <3>1. CASE d = c
      <4>1. Spent(d)' = Spent(d) \cup {pos} /\ pos \notin Spent(d)
        BY <1>1, <2>1, <2>2, <3>1 DEF Spent
      <4>2. IsFiniteSet(Spent(d)) /\ Cardinality(Spent(d)) \in Nat
        BY <1>s, PlacesFinite
      <4>3. Cardinality(Spent(d) \cup {pos}) = Cardinality(Spent(d)) + 1
        BY <4>1, <4>2, FS_AddElement
      <4>4. pool[d] + Cardinality(Spent(d)) = Cardinality(Displaced(d, WordLength))
        BY <1>1 DEF Spending
      <4> QED BY <1>1, <2>3, <3>1, <4>1, <4>2, <4>3, <4>4
    <3>2. CASE d # c
      <4>1. Spent(d)' = Spent(d)
        BY <1>1, <2>1, <2>2, <3>2 DEF Spent
      <4> QED BY <1>1, <2>3, <3>2, <4>1 DEF Spending
    <3> QED BY <3>1, <3>2
  <2>6. \A q \in Positions : out'[q] = "wrong" => guess[q] # c /\ pool'[guess[q]] = 0
    <3> SUFFICES ASSUME NEW q \in Positions, out'[q] = "wrong"
                 PROVE  guess[q] # c /\ pool'[guess[q]] = 0
      OBVIOUS
    <3>1. q # pos /\ out[q] = "wrong" /\ guess[q] \in Letters
      BY <1>1, <2>2 DEF MarkingTypeOK, Word
    <3>2. pool[guess[q]] = 0
      BY <1>1, <3>1 DEF Spending
    <3> QED BY <1>5, <2>3, <3>1, <3>2
  <2>7. \A p, q \in Positions : p < q /\ guess[p] = guess[q] /\ out'[q] = "partial"
                                  => out'[p] # "wrong"
    <3> SUFFICES ASSUME NEW p \in Positions, NEW q \in Positions, p < q, guess[p] = guess[q],
                        out'[q] = "partial", out'[p] = "wrong"
                 PROVE  FALSE
      OBVIOUS
    <3>1. q # pos /\ p # pos
      BY <2>2, <2>6
    <3> QED BY <1>1, <2>2, <3>1 DEF Spending
  <2> QED BY <1>1, <1>2, <1>3, <2>4, <2>5, <2>6, <2>7 DEF Spending
<1>6. CASE guess[pos] # target[pos] /\ ~(pool[guess[pos]] > 0)
  <2>1. out[pos] = "none" /\ out' = [out EXCEPT ![pos] = "wrong"] /\ pool' = pool
    BY <1>1, <1>6 DEF Pass2, Spending
  <2>2. out'[pos] = "wrong" /\ \A q \in Positions : q # pos => out'[q] = out[q]
    BY <1>1, <2>1 DEF MarkingTypeOK
  <2>3. \A q \in Positions :
          IF guess[q] = target[q] THEN out'[q] = "correct"
          ELSE IF q < Reached' THEN out'[q] \in {"partial", "wrong"} ELSE out'[q] = "none"
    BY <1>1, <1>2, <1>6, <2>2 DEF Spending
  <2>4. \A c : Spent(c)' = Spent(c)
    BY <1>1, <2>1, <2>2 DEF Spent
  <2>5. \A q \in Positions : out'[q] = "wrong" => pool[guess[q]] = 0
    BY <1>1, <1>6, <2>2 DEF Spending
  <2>6. \A p, q \in Positions : p < q /\ guess[p] = guess[q] /\ out'[q] = "partial"
                                  => out'[p] # "wrong"
    <3> SUFFICES ASSUME NEW p \in Positions, NEW q \in Positions, p < q, guess[p] = guess[q],
                        out'[q] = "partial", out'[p] = "wrong"
                 PROVE  FALSE
      OBVIOUS
    <3>1. q # pos /\ out[q] = "partial" /\ q < pos
      BY <1>1, <2>2 DEF Spending
    <3>2. p # pos /\ out[p] = "wrong"
      BY <1>1, <2>2, <3>1
    <3> QED BY <1>1, <3>1, <3>2 DEF Spending
  <2> QED BY <1>1, <1>2, <1>3, <2>1, <2>3, <2>4, <2>5, <2>6 DEF Spending
<1> QED BY <1>4, <1>5, <1>6

\* The marks are right for words of any length over any letters, however often a letter
\* comes in either word.
THEOREM MarksCorrect == MarkingSpec => []WordMarksAreRight
<1>1. MarkingInit => MarkingInv
  <2> SUFFICES ASSUME MarkingInit PROVE MarkingInv
    OBVIOUS
  <2>1. MarkingTypeOK
    BY ScoreAssumption DEF MarkingInit, MarkingTypeOK, Positions
  <2>2. \A c : Displaced(c, pos - 1) = {}
    BY DEF MarkingInit, Displaced
  <2>3. Pooling
    BY <2>2, FS_EmptySet DEF MarkingInit, Pooling, Positions
  <2> QED BY <2>1, <2>3 DEF MarkingInit, MarkingInv
<1>2. MarkingInv /\ [MarkingNext]_markingVars => MarkingInv'
  <2> SUFFICES ASSUME MarkingInv, [MarkingNext]_markingVars PROVE MarkingInv'
    OBVIOUS
  <2>1. MarkingTypeOK'
    BY MarkingTypeStep DEF MarkingInv
  <2>2. CASE UNCHANGED markingVars
    BY <2>1, <2>2 DEF markingVars, MarkingInv, Pooling, Spending, Reached, Displaced, Spent
  <2> QED BY <2>1, <2>2, PoolStep, SpendStep DEF MarkingInv, MarkingNext
<1>3. MarkingInv => WordMarksAreRight
  <2> SUFFICES ASSUME MarkingInv, pass = 3 PROVE WordMarksAreRight
    BY DEF WordMarksAreRight
  <2>1. /\ Spending /\ MarkingTypeOK /\ Reached = WordLength + 1
        /\ \A q \in Positions : q < Reached
    BY ScoreAssumption DEF MarkingInv, Reached, Positions
  <2>2. \A q \in Positions : /\ guess[q] = target[q] => out[q] = "correct"
                             /\ guess[q] # target[q] => out[q] \in {"partial", "wrong"}
    BY <2>1 DEF Spending
  <2>3. ASSUME NEW c \in Letters
        PROVE  Cardinality({p \in PlacesOf(guess, c) : out[p] # "wrong"})
                 = Minimum(Cardinality(PlacesOf(guess, c)), Cardinality(PlacesOf(target, c)))
    <3> DEFINE G == PlacesOf(guess, c)
               T == PlacesOf(target, c)
               M == {p \in G : out[p] # "wrong"}
               I == {q \in Positions : guess[q] = c /\ target[q] = c}
               S == Spent(c)
               D == Displaced(c, WordLength)
    <3>1. /\ G \in SUBSET Positions /\ T \in SUBSET Positions /\ M \in SUBSET Positions
          /\ I \in SUBSET Positions /\ S \in SUBSET Positions /\ D \in SUBSET Positions
      BY DEF PlacesOf, Spent, Displaced, Positions
    <3>2. M = I \cup S /\ I \cap S = {}
      BY <2>2 DEF PlacesOf, Spent
    <3>3. T = I \cup D /\ I \cap D = {}
      BY DEF PlacesOf, Displaced, Positions
    <3>4. M \subseteq G /\ ((\A q \in G : out[q] # "wrong") => M = G)
      OBVIOUS
    <3>5. (\E q \in G : out[q] = "wrong") => pool[c] = 0
      BY <2>1 DEF PlacesOf, Spending
    <3>6. pool[c] + Cardinality(S) = Cardinality(D) /\ pool[c] \in Nat
      BY <2>1 DEF Spending, MarkingTypeOK
    <3> HIDE DEF G, T, M, I, S, D
    <3>7. /\ IsFiniteSet(G) /\ IsFiniteSet(I) /\ IsFiniteSet(S) /\ IsFiniteSet(D)
          /\ Cardinality(G) \in Nat /\ Cardinality(I) \in Nat /\ Cardinality(S) \in Nat
          /\ Cardinality(D) \in Nat
      BY <3>1, PlacesFinite
    <3>8. Cardinality(M) = Cardinality(I) + Cardinality(S)
      <4>1. Cardinality(I \cup S) = Cardinality(I) + Cardinality(S) - Cardinality(I \cap S)
        BY <3>7, FS_Union
      <4> QED BY <3>2, <3>7, <4>1, FS_EmptySet
    <3>9. Cardinality(T) = Cardinality(I) + Cardinality(D)
      <4>1. Cardinality(I \cup D) = Cardinality(I) + Cardinality(D) - Cardinality(I \cap D)
        BY <3>7, FS_Union
      <4> QED BY <3>3, <3>7, <4>1, FS_EmptySet
    <3>10. Cardinality(M) <= Cardinality(G)
      BY <3>4, <3>7, FS_Subset
    <3>11. Cardinality(M) = Minimum(Cardinality(G), Cardinality(T))
      <4>1. CASE \A q \in G : out[q] # "wrong"
        BY <3>4, <3>6, <3>7, <3>8, <3>9, <4>1 DEF Minimum
      <4>2. CASE \E q \in G : out[q] = "wrong"
        BY <3>5, <3>6, <3>7, <3>8, <3>9, <3>10, <4>2 DEF Minimum
      <4> QED BY <4>1, <4>2
    <3> QED BY <3>11 DEF G, T, M
  <2>4. \A p, q \in Positions : p < q /\ guess[p] = guess[q] /\ out[q] = "partial"
                                  => out[p] # "wrong"
    BY <2>1 DEF Spending
  <2> QED BY <2>2, <2>3, <2>4 DEF WordMarksAreRight
<1> QED BY <1>1, <1>2, <1>3, PTL DEF MarkingSpec

-----------------------------------------------------------------------------
(* The rounds, as they are explored side by side *)

LEMMA ScoresParts == /\ ScoresInit => WordleInit /\ LoldleInit
                     /\ [ScoresNext]_scoreVars => /\ [WordleNext]_wordleVars
                                                  /\ [LoldleNext]_loldleVars
<1>1. ScoresInit => WordleInit /\ LoldleInit
  BY DEF ScoresInit, LoldleRest
<1>2. [ScoresNext]_scoreVars => [WordleNext]_wordleVars /\ [LoldleNext]_loldleVars
  BY DEF ScoresNext, scoreVars
<1> QED BY <1>1, <1>2

\* No step of wordle reopens or rewrites a round, and no step of loldle changes the budget of
\* one, whatever fails half-way and whatever budgets are set.
THEOREM RoundsKept == ScoresSpec => RoundsAreKept
<1>1. ScoresInit => WordleInv /\ LoldleInv
  BY ScoresParts, WordleStart, LoldleStart
<1>2. WordleInv /\ LoldleInv /\ [ScoresNext]_scoreVars => WordleInv' /\ LoldleInv'
  BY ScoresParts, WordleInvStep, LoldleInvStep
<1>3. WordleInv /\ LoldleInv /\ [ScoresNext]_scoreVars
        => [KeepsRound /\ KeepsBudget]_<<wordleVars, loldleVars>>
  BY ScoresParts, KeepsRoundStep, LoldleRoundStep DEF LoldleInv, LoldleCounted
<1> QED BY <1>1, <1>2, <1>3, PTL DEF ScoresSpec, RoundsAreKept
=============================================================================
