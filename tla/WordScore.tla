----------------------------- MODULE WordScore -----------------------------
(***************************************************************************)
(* CompareWords: a guess is marked against the target in two passes.  The  *)
(* first marks the letters in place and collects the target's other        *)
(* letters in a pool; the second spends the pool on the letters out of     *)
(* place.                                                                  *)
(***************************************************************************)
EXTENDS Integers, FiniteSets

CONSTANTS Letters, WordLength

ASSUME ScoreAssumption == WordLength \in Nat \ {0}

VARIABLES guess, target,
          out,   \* the marks given so far; "none" is not yet
          pool,  \* how often each letter is in the pool; its order decides nothing
          pass,  \* 1, 2, or 3 when the function has returned
          pos    \* the index of the loop

markingVars == <<guess, target, out, pool, pass, pos>>

Positions == 1..WordLength
Word == [Positions -> Letters]
Marks == {"correct", "partial", "wrong"}

MarkingTypeOK == /\ guess \in Word /\ target \in Word
                 /\ out \in [Positions -> Marks \cup {"none"}]
                 /\ pool \in [Letters -> Nat]
                 /\ pass \in 1..3 /\ pos \in Positions

MarkingInit == /\ guess \in Word /\ target \in Word
               /\ out = [p \in Positions |-> "none"]
               /\ pool = [c \in Letters |-> 0]
               /\ pass = 1 /\ pos = 1

NextPosition == IF pos < WordLength THEN pos' = pos + 1 /\ pass' = pass
                ELSE pos' = 1 /\ pass' = pass + 1

Pass1 == /\ pass = 1
         /\ IF guess[pos] = target[pos]
            THEN out' = [out EXCEPT ![pos] = "correct"] /\ pool' = pool
            ELSE out' = out /\ pool' = [pool EXCEPT ![target[pos]] = @ + 1]
         /\ NextPosition
         /\ UNCHANGED <<guess, target>>

\* Mutant: the letter found stays in the pool.
MutPass2 ==
  /\ pass = 2
  /\ out' = [out EXCEPT ![pos] = IF @ = "correct" THEN @
                                 ELSE IF pool[guess[pos]] > 0 THEN "partial" ELSE "wrong"]
  /\ pool' = pool
  /\ NextPosition
  /\ UNCHANGED <<guess, target>>

Pass2 ==
  /\ pass = 2
  /\ IF out[pos] = "correct" THEN UNCHANGED <<out, pool>>
     ELSE IF pool[guess[pos]] > 0
     THEN /\ out' = [out EXCEPT ![pos] = "partial"]
          /\ pool' = [pool EXCEPT ![guess[pos]] = @ - 1]
     ELSE out' = [out EXCEPT ![pos] = "wrong"] /\ pool' = pool
  /\ NextPosition
  /\ UNCHANGED <<guess, target>>

MarkingNext == Pass1 \/ Pass2
MarkingSpec == MarkingInit /\ [][MarkingNext]_markingVars
-----------------------------------------------------------------------------
(* Properties *)

PlacesOf(word, c) == {p \in Positions : word[p] = c}
Minimum(m, n) == IF m < n THEN m ELSE n

\* The two passes mark a word as a player reads the marks (wordle/compare.go): a letter is
\* in place; elsewhere in the target, as often as the target has the letter and from the
\* left; or not there any more.  A word with a letter twice is not marked twice for one
\* letter of the target.
WordMarksAreRight ==
  pass = 3 =>
    /\ \A p \in Positions : out[p] = "correct" <=> guess[p] = target[p]
    /\ \A c \in Letters :
         Cardinality({p \in PlacesOf(guess, c) : out[p] # "wrong"})
           = Minimum(Cardinality(PlacesOf(guess, c)), Cardinality(PlacesOf(target, c)))
    /\ \A p, q \in Positions : p < q /\ guess[p] = guess[q] /\ out[q] = "partial"
                                 => out[p] # "wrong"
=============================================================================
