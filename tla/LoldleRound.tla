---------------------------- MODULE LoldleRound ----------------------------
(***************************************************************************)
(* The rounds of one Loldle subject, its lifetime score and its guess      *)
(* budget.  Here the result of a round is recorded before the round is     *)
(* cleared, and the guess that ends a round is never saved with it.  The   *)
(* champions are data of the build: an upgrade may take some away while a  *)
(* round on them is saved.                                                 *)
(***************************************************************************)
EXTENDS Integers, Sequences, SequencesExt

CONSTANTS LoldleHandlers,   \* handler goroutines; the bot runs one at a time, the lock allows more
          Champions,        \* champions of any build
          NoChampion,       \* no argument, or one that names no champion
          LoldleMaxGuesses, \* the default budget
          LoldleMaxCap,     \* MaxGuessesCap
          LoldleMaxRounds,  \* bound: rounds started
          LoldleMaxResults  \* bound: results recorded

ASSUME LoldleAssumption ==
  /\ "free" \notin LoldleHandlers
  /\ Champions # {} /\ NoChampion \notin Champions
  /\ LoldleMaxGuesses \in Nat \ {0}
  /\ LoldleMaxCap \in Nat /\ LoldleMaxGuesses <= LoldleMaxCap
  /\ LoldleMaxRounds \in Nat \ {0} /\ LoldleMaxResults \in Nat

VARIABLES lGame,      \* the saved round; round = 0 is "none"
          lPlayed,    \* rounds in the saved lifetime score
          lConfig,    \* the saved budget; 0 is "none"
          lChampions, \* champions of the running build
          lLock,      \* who holds the subject's lock, or "free"
          lJob,       \* what each handler is doing
          lRounds,    \* history: rounds started
          lResults,   \* history: the rounds whose result was recorded
          lDropped,   \* history: rounds cleared because their target was gone
          lSpent,     \* history: rounds saved before budgets were frozen, with no guess left
          lFailed     \* history: a command has failed half-way

loldleHistory == <<lRounds, lResults, lDropped, lSpent, lFailed>>
loldleVars == <<lGame, lPlayed, lConfig, lChampions, lLock, lJob, loldleHistory>>

Budgets == 0..LoldleMaxCap
LoldleGame == [round : 1..LoldleMaxRounds, target : Champions, guesses : Seq(Champions),
               max : Budgets]
NoLoldleGame == [round |-> 0]
LoldleIdle == [at |-> "idle"]
LoldleRunning == [at : {"config", "load", "freeze", "save", "play", "fresh", "stats", "record",
                        "clear"},
                  cmd : {"guess", "giveup"}, guess : Champions \cup {NoChampion},
                  game : LoldleGame \cup {NoLoldleGame}, max : Budgets, played : Nat]

LoldleTypeOK == /\ lGame \in LoldleGame \cup {NoLoldleGame}
                /\ lPlayed \in Nat
                /\ lConfig \in Budgets
                /\ lChampions \in (SUBSET Champions) \ {{}}
                /\ lLock \in LoldleHandlers \cup {"free"}
                /\ lJob \in [LoldleHandlers -> LoldleRunning \cup {LoldleIdle}]
                /\ lRounds \in 0..LoldleMaxRounds
                /\ lResults \in Seq(1..LoldleMaxRounds)
                /\ lDropped \in SUBSET (1..LoldleMaxRounds)
                /\ lSpent \in SUBSET (1..LoldleMaxRounds)
                /\ lFailed \in BOOLEAN

-----------------------------------------------------------------------------
(* The round as a value *)

RoundMaxGuesses(g) == IF g.max \in 1..LoldleMaxCap THEN g.max ELSE LoldleMaxGuesses
Effective == IF lConfig \in 1..LoldleMaxCap THEN lConfig ELSE LoldleMaxGuesses
GuessedChampion(g, name) == [g EXCEPT !.guesses = Append(@, name)]
Won(g) == Contains(g.guesses, g.target)

\* Mutant: the last guess of the budget does not end the round.
MutEnds(g) == Won(g) \/ Len(g.guesses) > RoundMaxGuesses(g)

Exhausted(g) == Len(g.guesses) >= RoundMaxGuesses(g)
Ends(g) == Won(g) \/ Exhausted(g)

\* A round saved before rounds froze their budget: it was open under the budget of its
\* time, at most the cap, and may have no guess left under the default it gets now.
Legacy == UNION {[round : {1}, target : {t}, max : {0},
                  guesses : {gs \in SeqOf(Champions \ {t}, LoldleMaxCap - 1) : IsInjective(gs)}]
                   : t \in Champions}

LoldleInit == /\ lGame \in Legacy \cup {NoLoldleGame}
              /\ lPlayed = 0
              /\ lConfig = 0
              /\ lChampions = Champions
              /\ lLock = "free"
              /\ lJob = [h \in LoldleHandlers |-> LoldleIdle]
              /\ lRounds = lGame.round
              /\ lResults = <<>>
              /\ lDropped = {}
              /\ lSpent = IF lGame = NoLoldleGame THEN {}
                          ELSE IF Len(lGame.guesses) >= LoldleMaxGuesses THEN {1} ELSE {}
              /\ lFailed = FALSE

-----------------------------------------------------------------------------
(* Handlers *)

StartLoldle(h, cmd, guess) ==
  /\ cmd = "giveup" => guess = NoChampion
  /\ lJob[h] = LoldleIdle /\ lLock = "free"
  /\ lLock' = h
  /\ lJob' = [lJob EXCEPT ![h] = [at |-> IF cmd = "guess" THEN "config" ELSE "load",
                                  cmd |-> cmd, guess |-> guess, game |-> NoLoldleGame,
                                  max |-> 0, played |-> 0]]
  /\ UNCHANGED <<lGame, lPlayed, lConfig, lChampions, loldleHistory>>

\* /loldle_setmax: one Put, without the lock.
SetMax(h, n) ==
  /\ lJob[h] = LoldleIdle
  /\ n \in 1..LoldleMaxCap
  /\ lConfig' = n
  /\ UNCHANGED <<lGame, lPlayed, lChampions, lLock, lJob, loldleHistory>>

LoldleGoto(h, at, g) == /\ lJob' = [lJob EXCEPT ![h] = [@ EXCEPT !.at = at, !.game = g]]
                        /\ UNCHANGED lLock
LoldleFinish(h) == /\ lJob' = [lJob EXCEPT ![h] = LoldleIdle]
                   /\ lLock' = IF lLock = h THEN "free" ELSE lLock

GetMaxGuesses(h) ==
  /\ lJob[h].at = "config"
  /\ lJob' = [lJob EXCEPT ![h] = [@ EXCEPT !.at = "load", !.max = Effective]]
  /\ UNCHANGED <<lGame, lPlayed, lConfig, lChampions, lLock, loldleHistory>>

\* getOrInitGame's Get, or handleGiveup's.
LoadLoldle(h) ==
  /\ lJob[h].at = "load"
  /\ IF lJob[h].cmd = "giveup"
     THEN IF lGame = NoLoldleGame THEN LoldleFinish(h) ELSE LoldleGoto(h, "stats", lGame)
     ELSE IF lGame = NoLoldleGame THEN LoldleGoto(h, "fresh", lGame)
          ELSE IF Exhausted(lGame) THEN LoldleGoto(h, "fresh", lGame)
          ELSE IF lGame.max = RoundMaxGuesses(lGame) THEN LoldleGoto(h, "play", lGame)
          ELSE LoldleGoto(h, "freeze", [lGame EXCEPT !.max = RoundMaxGuesses(lGame)])
  /\ UNCHANGED <<lGame, lPlayed, lConfig, lChampions, loldleHistory>>

FreezeBudget(h) ==
  /\ lJob[h].at = "freeze"
  /\ lGame' = lJob[h].game
  /\ LoldleGoto(h, "play", lJob[h].game)
  /\ UNCHANGED <<lPlayed, lConfig, lChampions, loldleHistory>>

SaveLoldle(h) ==
  /\ lJob[h].at = "save"
  /\ lGame' = lJob[h].game
  /\ LoldleFinish(h)
  /\ UNCHANGED <<lPlayed, lConfig, lChampions, loldleHistory>>

StartFreshGame(h, target) ==
  /\ lJob[h].at = "fresh"
  /\ lRounds < LoldleMaxRounds
  /\ lGame' = [round |-> lRounds + 1, target |-> target, guesses |-> <<>>, max |-> lJob[h].max]
  /\ lRounds' = lRounds + 1
  /\ LoldleGoto(h, "play", lGame')
  /\ UNCHANGED <<lPlayed, lConfig, lChampions, lResults, lDropped, lSpent, lFailed>>

\* Mutant: the guess that ends the round is saved too.
MutPlayLoldle(h) ==
  /\ lJob[h].at = "play"
  /\ LET g == lJob[h].game
         guess == lJob[h].guess
     IN IF guess \notin lChampions \/ Contains(g.guesses, guess) THEN LoldleFinish(h)
        ELSE IF g.target \notin lChampions THEN LoldleGoto(h, "clear", g)
        ELSE LoldleGoto(h, "save", GuessedChampion(g, guess))
  /\ UNCHANGED <<lGame, lPlayed, lConfig, lChampions, loldleHistory>>

\* /loldle on its round: the board, a refusal, a guess, or a target that is gone.
PlayLoldle(h) ==
  /\ lJob[h].at = "play"
  /\ LET g == lJob[h].game
         guess == lJob[h].guess
     IN IF guess \notin lChampions \/ Contains(g.guesses, guess) THEN LoldleFinish(h)
        ELSE IF g.target \notin lChampions THEN LoldleGoto(h, "clear", g)
        ELSE LoldleGoto(h, IF Ends(GuessedChampion(g, guess)) THEN "stats" ELSE "save",
                        GuessedChampion(g, guess))
  /\ UNCHANGED <<lGame, lPlayed, lConfig, lChampions, loldleHistory>>

LoadLoldleStats(h) ==
  /\ lJob[h].at = "stats"
  /\ lJob' = [lJob EXCEPT ![h] = [@ EXCEPT !.at = "record", !.played = lPlayed]]
  /\ UNCHANGED <<lGame, lPlayed, lConfig, lChampions, lLock, loldleHistory>>

RecordLoldleResult(h) ==
  /\ lJob[h].at = "record"
  /\ Len(lResults) < LoldleMaxResults
  /\ lPlayed' = lJob[h].played + 1
  /\ lResults' = Append(lResults, lJob[h].game.round)
  /\ LoldleGoto(h, "clear", lJob[h].game)
  /\ UNCHANGED <<lGame, lConfig, lChampions, lRounds, lDropped, lSpent, lFailed>>

ClearLoldle(h) ==
  /\ lJob[h].at = "clear"
  /\ lGame' = NoLoldleGame
  /\ lDropped' = IF lJob[h].game.target \in lChampions \/ lJob[h].cmd = "giveup" THEN lDropped
                 ELSE lDropped \cup {lJob[h].game.round}
  /\ LoldleFinish(h)
  /\ UNCHANGED <<lPlayed, lConfig, lChampions, lRounds, lResults, lSpent, lFailed>>

\* The next call fails, the reply to the last one was lost, or the program stops.
AbandonLoldle(h) ==
  /\ lJob[h] # LoldleIdle
  /\ LoldleFinish(h)
  /\ lFailed' = TRUE
  /\ UNCHANGED <<lGame, lPlayed, lConfig, lChampions, lRounds, lResults, lDropped, lSpent>>

\* The program starts again from another build.
Upgrade(some) ==
  /\ some # {}
  /\ \A h \in LoldleHandlers : lJob[h] = LoldleIdle
  /\ lChampions' = some
  /\ UNCHANGED <<lGame, lPlayed, lConfig, lLock, lJob, loldleHistory>>

LoldleStep(h) == \/ GetMaxGuesses(h) \/ LoadLoldle(h) \/ FreezeBudget(h) \/ SaveLoldle(h)
                 \/ PlayLoldle(h) \/ LoadLoldleStats(h) \/ RecordLoldleResult(h)
                 \/ ClearLoldle(h) \/ AbandonLoldle(h)
                 \/ \E target \in lChampions : StartFreshGame(h, target)

LoldleNext == \/ \E h \in LoldleHandlers :
                   \/ \E cmd \in {"guess", "giveup"}, guess \in Champions \cup {NoChampion} :
                        StartLoldle(h, cmd, guess)
                   \/ \E n \in 0..(LoldleMaxCap + 1) : SetMax(h, n)
                   \/ LoldleStep(h)
              \/ \E some \in SUBSET Champions : Upgrade(some)

LoldleSpec == LoldleInit /\ [][LoldleNext]_loldleVars
-----------------------------------------------------------------------------
(* Properties *)

LoldleAtRest == lLock = "free"

\* The places of the results of round r.
LoldleCounts(r) == {n \in DOMAIN lResults : lResults[n] = r}

\* As long as nothing has failed every round is counted once when it ends, in the score
\* too, and not at all while it is saved or when its target was taken away.  A round that
\* was spent from the start is counted at most once: by /loldle_giveup, while the next
\* /loldle puts a new round over it.
LoldleCountedOnce ==
  LoldleAtRest /\ ~lFailed =>
    /\ \A r \in 1..lRounds :
         IF r = lGame.round \/ r \in lDropped THEN LoldleCounts(r) = {}
         ELSE \/ \E n \in DOMAIN lResults : LoldleCounts(r) = {n}
              \/ r \in lSpent /\ LoldleCounts(r) = {}
    /\ lPlayed = Len(lResults)

\* A round is counted before it is cleared, so no result is lost: a round that is no
\* longer saved has been counted, or dropped with its target, or was spent from the start.
NoResultLost ==
  \A r \in 1..lRounds : r # lGame.round => r \in lDropped \cup lSpent \/ LoldleCounts(r) # {}

\* No loldle round that ends goes uncounted, whatever fails, and without
\* failures each is counted once (loldle/handlers.go:186).  The one exception is
\* a round of an older build that is exhausted under the default budget:
\* getOrInitGame replaces it without a result (loldle/handlers.go:84).
LoldleScoreIsTrue == NoResultLost /\ LoldleCountedOnce

\* A saved loldle round can be played on: it is not won, and it has guesses left,
\* whatever budgets are set while it is open.  Only a round of an older build
\* whose budget was never frozen may be exhausted, the case the test in
\* getOrInitGame is for (loldle/handlers.go:84, 161).
LoldleSavedRoundIsOpen ==
  lGame # NoLoldleGame => /\ ~Won(lGame)
                          /\ Exhausted(lGame) => lGame.round \in lSpent /\ lGame.max = 0

\* "An active round keeps its frozen MaxGuesses": whatever /loldle_setmax does meanwhile
\* and however often the round is saved, the budget of a round never changes.
KeepsBudget ==
  lGame # NoLoldleGame /\ lGame'.round = lGame.round =>
    RoundMaxGuesses(lGame') = RoundMaxGuesses(lGame)
=============================================================================
