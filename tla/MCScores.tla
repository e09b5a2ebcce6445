------------------------------ MODULE MCScores ------------------------------
(***************************************************************************)
(* Four components that keep score, explored side by side in one run: the  *)
(* usage counters, the rounds of wordle and of loldle, and the marking of  *)
(* a word.  They share nothing; part says which of them moves, the others  *)
(* stay in one of their initial states.                                    *)
(***************************************************************************)
EXTENDS UsageStats, WordleRound, LoldleRound, WordScore, TLC

VARIABLE part

\* Hooks, commands and names are only compared, and so are users.
Symmetry == Permutations(Hooks) \cup Permutations(Users) \cup Permutations(Cmds)
            \cup Permutations(Names)

scoreVars == <<part, vars, wordleVars, loldleVars, markingVars>>

\* The initial state in which a part waits that does not move.
StatsRest   == Init /\ backend = "mongo"
LoldleRest  == LoldleInit /\ lGame = NoLoldleGame
MarkingRest == MarkingInit /\ guess = target /\ target = [p \in 1..WordLength |-> CHOOSE l \in Letters : TRUE]

ScoresInit ==
  \/ part = "stats" /\ Init /\ WordleInit /\ LoldleRest /\ MarkingRest
  \/ part = "wordle" /\ StatsRest /\ WordleInit /\ LoldleRest /\ MarkingRest
  \/ part = "loldle" /\ StatsRest /\ WordleInit /\ LoldleInit /\ MarkingRest
  \/ part = "marking" /\ StatsRest /\ WordleInit /\ LoldleRest /\ MarkingInit

ScoresNext ==
  \/ part = "stats" /\ Next /\ UNCHANGED <<part, wordleVars, loldleVars, markingVars>>
  \/ part = "wordle" /\ WordleNext /\ UNCHANGED <<part, vars, loldleVars, markingVars>>
  \/ part = "loldle" /\ LoldleNext /\ UNCHANGED <<part, vars, wordleVars, markingVars>>
  \/ part = "marking" /\ MarkingNext /\ UNCHANGED <<part, vars, wordleVars, loldleVars>>

ScoresSpec == ScoresInit /\ [][ScoresNext]_scoreVars
-----------------------------------------------------------------------------
\* A finished wordle round stays as it is until a new one replaces it, and an
\* open one keeps its target and its guesses, whatever commands follow one that
\* failed after it had saved the round (wordle/handlers.go:99, 115).  A loldle
\* round keeps its budget to its end, although every guess saves the round again
\* and /loldle_setmax writes another budget in between (loldle/handlers.go:84-90, 277-298).
RoundsAreKept == [][KeepsRound /\ KeepsBudget]_<<wordleVars, loldleVars>>
=============================================================================
