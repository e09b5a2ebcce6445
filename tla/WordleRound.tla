---------------------------- MODULE WordleRound ----------------------------
(***************************************************************************)
(* The rounds of one Wordle subject (a user in private, a group chat) and  *)
(* its lifetime score.  A command holds the lock of the subject; the round *)
(* and the score are two documents, written one after the other: a guess   *)
(* or a giveup saves the round and then records its result, a new round    *)
(* records the abandoned one before it replaces it.  Any of these calls    *)
(* may fail, and the program may stop between them.                        *)
(***************************************************************************)
EXTENDS Integers, Sequences, FiniteSets, SequencesExt

CONSTANTS WordleHandlers,   \* handler goroutines; the bot runs one at a time, the lock allows more
          WordleWords,      \* the word list
          NoWord,           \* no argument, or one that is not in the list
          WordleMaxGuesses,
          WordleMaxRounds,  \* bound: rounds started
          WordleMaxResults  \* bound: results recorded

ASSUME WordleAssumption == /\ "free" \notin WordleHandlers
                           /\ WordleWords # {} /\ NoWord \notin WordleWords
                           /\ WordleMaxGuesses \in Nat \ {0}
                           /\ WordleMaxRounds \in Nat /\ WordleMaxResults \in Nat

VARIABLES wGame,    \* the saved round; round = 0 is "none"
          wScore,   \* the saved lifetime score
          wLock,    \* who holds the subject's lock, or "free"
          wJob,     \* what each handler is doing
          wRounds,  \* history: rounds started
          wResults, \* history: the results recorded, as <<round, won>>
          wFailed   \* history: the commands that have failed half-way

wordleVars == <<wGame, wScore, wLock, wJob, wRounds, wResults, wFailed>>

WordleGame == [round : 1..WordleMaxRounds, target : WordleWords, guesses : Seq(WordleWords),
               solved : BOOLEAN, giveup : BOOLEAN]
NoWordleGame == [round |-> 0]
WordleScore == [played : Nat, wins : Nat, streak : Nat, best : Nat]
NoWordleScore == [played |-> 0, wins |-> 0, streak |-> 0, best |-> 0]
WordleCommands == {"guess", "new", "giveup"}
WordleIdle == [at |-> "idle"]
WordleRunning == [at : {"load", "fresh", "save", "stats", "record"},
                  cmd : WordleCommands, word : WordleWords \cup {NoWord},
                  game : WordleGame \cup {NoWordleGame}, score : WordleScore]

WordleTypeOK == /\ wGame \in WordleGame \cup {NoWordleGame}
                /\ wScore \in WordleScore
                /\ wLock \in WordleHandlers \cup {"free"}
                /\ wJob \in [WordleHandlers -> WordleRunning \cup {WordleIdle}]
                /\ wRounds \in 0..WordleMaxRounds
                /\ wResults \in Seq((1..WordleMaxRounds) \X BOOLEAN)
                /\ wFailed \subseteq WordleCommands

WordleInit == /\ wGame = NoWordleGame
              /\ wScore = NoWordleScore
              /\ wLock = "free"
              /\ wJob = [h \in WordleHandlers |-> WordleIdle]
              /\ wRounds = 0
              /\ wResults = <<>>
              /\ wFailed = {}

-----------------------------------------------------------------------------
(* The round and the score as values *)

IsFinished(g) == g.solved \/ g.giveup \/ Len(g.guesses) >= WordleMaxGuesses
GuessedWord(g, word) == [g EXCEPT !.guesses = Append(@, word), !.solved = word = g.target]
FreshGame(target) == [round |-> wRounds + 1, target |-> target, guesses |-> <<>>,
                      solved |-> FALSE, giveup |-> FALSE]

\* Mutant: a loss does not end the streak.
MutRecorded(s, won) ==
  LET streak == IF won THEN s.streak + 1 ELSE s.streak
  IN [played |-> s.played + 1, wins |-> s.wins + (IF won THEN 1 ELSE 0),
      streak |-> streak, best |-> IF streak > s.best THEN streak ELSE s.best]

Recorded(s, won) ==
  LET streak == IF won THEN s.streak + 1 ELSE 0
  IN [played |-> s.played + 1, wins |-> s.wins + (IF won THEN 1 ELSE 0),
      streak |-> streak, best |-> IF streak > s.best THEN streak ELSE s.best]

-----------------------------------------------------------------------------
(* Handlers *)

StartWordle(h, cmd, word) ==
  /\ cmd # "guess" => word = NoWord
  /\ wJob[h] = WordleIdle /\ wLock = "free"
  /\ wLock' = h
  /\ wJob' = [wJob EXCEPT ![h] = [at |-> "load", cmd |-> cmd, word |-> word,
                                  game |-> NoWordleGame, score |-> NoWordleScore]]
  /\ UNCHANGED <<wGame, wScore, wRounds, wResults, wFailed>>

WordleGoto(h, at, g) == /\ wJob' = [wJob EXCEPT ![h] = [@ EXCEPT !.at = at, !.game = g]]
                        /\ UNCHANGED wLock

\* The handler has replied; its lock is released by the defer.
WordleFinish(h) == /\ wJob' = [wJob EXCEPT ![h] = WordleIdle]
                   /\ wLock' = IF wLock = h THEN "free" ELSE wLock

\* Mutant: a round that is over takes another guess.
MutPlayWordle(h, g) == IF wJob[h].word = NoWord THEN WordleFinish(h)
                       ELSE WordleGoto(h, "save", GuessedWord(g, wJob[h].word))

\* /wordle on the round it has loaded or started.
PlayWordle(h, g) == IF wJob[h].word = NoWord \/ IsFinished(g) THEN WordleFinish(h)
                    ELSE WordleGoto(h, "save", GuessedWord(g, wJob[h].word))

\* /wordle_giveup
GiveUp(h) == IF wGame = NoWordleGame THEN WordleFinish(h)
             ELSE IF IsFinished(wGame) THEN WordleFinish(h)
             ELSE WordleGoto(h, "save", [wGame EXCEPT !.giveup = TRUE])

\* /wordle_new
Open == IF wGame = NoWordleGame THEN FALSE ELSE ~IsFinished(wGame)
New(h) == WordleGoto(h, IF Open THEN "stats" ELSE "fresh", wGame)

LoadWordle(h) ==
  /\ wJob[h].at = "load"
  /\ \/ wJob[h].cmd = "new" /\ New(h)
     \/ wJob[h].cmd = "giveup" /\ GiveUp(h)
     \/ wJob[h].cmd = "guess" /\ IF wGame = NoWordleGame THEN WordleGoto(h, "fresh", wGame)
                                 ELSE PlayWordle(h, wGame)
  /\ UNCHANGED <<wGame, wScore, wRounds, wResults, wFailed>>

StartFresh(h, target) ==
  /\ wJob[h].at = "fresh"
  /\ wRounds < WordleMaxRounds
  /\ wGame' = FreshGame(target)
  /\ wRounds' = wRounds + 1
  /\ IF wJob[h].cmd = "new" THEN WordleFinish(h) ELSE PlayWordle(h, FreshGame(target))
  /\ UNCHANGED <<wScore, wResults, wFailed>>

SaveWordle(h) ==
  /\ wJob[h].at = "save"
  /\ wGame' = wJob[h].game
  /\ IF IsFinished(wJob[h].game) THEN WordleGoto(h, "stats", wJob[h].game) ELSE WordleFinish(h)
  /\ UNCHANGED <<wScore, wRounds, wResults, wFailed>>

LoadWordleStats(h) ==
  /\ wJob[h].at = "stats"
  /\ wJob' = [wJob EXCEPT ![h] = [@ EXCEPT !.at = "record", !.score = wScore]]
  /\ UNCHANGED <<wGame, wScore, wLock, wRounds, wResults, wFailed>>

RecordWordleResult(h) ==
  /\ wJob[h].at = "record"
  /\ Len(wResults) < WordleMaxResults
  /\ wScore' = Recorded(wJob[h].score, wJob[h].game.solved)
  /\ wResults' = Append(wResults, <<wJob[h].game.round, wJob[h].game.solved>>)
  /\ IF wJob[h].cmd = "new" THEN WordleGoto(h, "fresh", wJob[h].game) ELSE WordleFinish(h)
  /\ UNCHANGED <<wGame, wRounds, wFailed>>

\* The next call fails, the reply to the last one was lost, or the program stops.
AbandonWordle(h) ==
  /\ wJob[h] # WordleIdle
  /\ WordleFinish(h)
  /\ wFailed' = wFailed \cup {wJob[h].cmd}
  /\ UNCHANGED <<wGame, wScore, wRounds, wResults>>

WordleStep(h) == \/ LoadWordle(h) \/ SaveWordle(h) \/ LoadWordleStats(h)
                 \/ RecordWordleResult(h) \/ AbandonWordle(h)
                 \/ \E target \in WordleWords : StartFresh(h, target)

WordleNext == \E h \in WordleHandlers :
                \/ \E cmd \in WordleCommands, word \in WordleWords \cup {NoWord} :
                     StartWordle(h, cmd, word)
                \/ WordleStep(h)

WordleSpec == WordleInit /\ [][WordleNext]_wordleVars
-----------------------------------------------------------------------------
(* Properties *)

WordleAtRest == wLock = "free"

\* The places of the results of round r.
WordleCounts(r) == {n \in DOMAIN wResults : wResults[n][1] = r}
Over(r) == r < wGame.round \/ IsFinished(wGame)

\* As long as nothing has failed, every round that is over, solved, lost, given up or abandoned, has
\* been counted once, and the open one has not been counted.
WordleCountedOnce ==
  WordleAtRest /\ wFailed = {} =>
    \A r \in 1..wRounds : IF Over(r) THEN \E n \in DOMAIN wResults : WordleCounts(r) = {n}
                          ELSE WordleCounts(r) = {}

\* The run of wins that ends at result i of s has n results.
IsRun(s, n, i) == /\ \A j \in (i - n + 1)..i : s[j][2]
                  /\ n = i \/ ~s[i - n][2]

\* The score is that of the results in the order they were recorded, also when
\* commands fail half-way.
ScoreIsOfResults ==
  /\ wScore.played = Len(wResults)
  /\ wScore.wins = Cardinality({n \in DOMAIN wResults : wResults[n][2]})
  /\ wScore.streak \in 0..Len(wResults) /\ IsRun(wResults, wScore.streak, Len(wResults))
  /\ \A i \in DOMAIN wResults : \A n \in 0..i : IsRun(wResults, n, i) => n <= wScore.best
  /\ wScore.best = 0 \/ \E i \in DOMAIN wResults : wScore.best \in 0..i /\ IsRun(wResults, wScore.best, i)

\* A round is saved before it is counted, so a guess or a giveup that failed half-way
\* cannot be counted again by its retry, nor by the /wordle_new that follows it.
CountedAtMostOnce ==
  "new" \notin wFailed => \A r \in 1..wRounds : \A m, n \in WordleCounts(r) : m = n

\* The lifetime score of wordle is that of the results in the order they were
\* recorded; without failures every round that is over has one result, and a
\* guess or a giveup that failed half-way is not counted again by its retry
\* (wordle/handlers.go:115-129, 197-198).
WordleScoreIsTrue == ScoreIsOfResults /\ WordleCountedOnce /\ CountedAtMostOnce

\* A finished round stays as it is until a new one replaces it, whatever has failed
\* half-way; an open one keeps its target and its guesses.
KeepsRound ==
  wGame # NoWordleGame /\ wGame'.round = wGame.round =>
    /\ IsFinished(wGame) => wGame' = wGame
    /\ wGame'.target = wGame.target
    /\ IsPrefix(wGame.guesses, wGame'.guesses)

\* handleGiveup: "A round lost by running out of guesses already recorded its loss in
\* handleWordle".
LossIsRecorded ==
  WordleAtRest /\ wGame # NoWordleGame =>
    (Len(wGame.guesses) >= WordleMaxGuesses => WordleCounts(wGame.round) # {})
=============================================================================
