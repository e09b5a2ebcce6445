---------------------------- MODULE ServerProofs ----------------------------
(***************************************************************************)
(* The process from its start to its shutdown.  No increment of a counter  *)
(* is lost or logged twice, and what handlers counted is in the log after  *)
(* a shutdown that waited for them; a handler or a job finds the storage   *)
(* closed only after one that did not.  However often a start is           *)
(* interrupted, its storage task loses no write of the process that runs   *)
(* beside it, and the marker is true.                                      *)
(***************************************************************************)
EXTENDS Lifecycle, StartupStore, FiniteSetTheorems, TLAPS

-----------------------------------------------------------------------------
(* Counters, handlers and jobs *)

Incs == [at : {"none", "look", "add", "create"}, name : Names \cup {"none"}]
Flushes == [at : {"idle", "drain", "log", "done"}, left : SUBSET Names, last : BOOLEAN]

\* What the arguments need to know of types; there is no bound on a count.
Shape ==
  /\ counter \in [Names -> {Absent} \cup Nat] /\ inc \in [Writers -> Incs]
  /\ flush \in [Flushers -> Flushes] /\ drained \in [Flushers -> [Names -> Nat]]
  /\ logged \in [Names -> Nat] /\ counted \in [Writers -> [Names -> Nat]]

\* A counter that is being added to exists.
Started == \A w \in Writers :
  /\ inc[w].at # "none" => inc[w].name \in Names
  /\ inc[w].at = "add" => counter[inc[w].name] # Absent

\* A flush holds only what it has drained and not logged.
Emptied == \A f \in Flushers : \A n \in Names :
  drained[f][n] # 0 => flush[f].at = "log" \/ (flush[f].at = "drain" /\ n \notin flush[f].left)

Balanced == \A n \in Names : CountedOf(n) = logged[n] + Present(n) + Drained(n)

CountInv == Shape /\ Started /\ Emptied /\ Balanced

LEMMA CountInit == LifeInit => CountInv
<1> SUFFICES ASSUME LifeInit PROVE CountInv
  OBVIOUS
<1>1. NoInc \in Incs /\ [at |-> "idle", left |-> {}, last |-> FALSE] \in Flushes /\ Zero \in [Names -> Nat]
  BY DEF NoInc, Incs, Flushes, Zero
<1>2. Shape
  BY <1>1 DEF LifeInit, Shape
<1>3. \A n \in Names : Zero[n] = 0
  BY DEF Zero
<1>4. Started /\ Emptied
  BY <1>3 DEF LifeInit, Started, Emptied, NoInc
<1>5. Balanced
  <2>1. \A n \in Names : /\ counter[n] = Absent /\ logged[n] = 0
                         /\ counted["handler"][n] = 0 /\ counted["hook"][n] = 0
                         /\ drained["flusher"][n] = 0 /\ drained["main"][n] = 0
    BY <1>3 DEF LifeInit, Flushers, Writers
  <2> QED
    BY <2>1 DEF Balanced, CountedOf, Present, Drained
<1> QED
  BY <1>2, <1>4, <1>5 DEF CountInv

\* Steps that start an increment, or none.
LEMMA CountsStart ==
  ASSUME CountInv, UNCHANGED <<counter, flush, drained, logged, counted>>,
         inc' = inc \/ \E w \in Writers, n \in Names : Count(w, n)
  PROVE  CountInv'
<1>1. inc' \in [Writers -> Incs] /\ \A w \in Writers : inc'[w] = inc[w] \/ (inc'[w].at = "look" /\ inc'[w].name \in Names)
  <2>1. ASSUME NEW w \in Writers, NEW n \in Names, Count(w, n)
        PROVE  inc' \in [Writers -> Incs] /\ \A v \in Writers : inc'[v] = inc[v] \/ (inc'[v].at = "look" /\ inc'[v].name \in Names)
    <3>1. [at |-> "look", name |-> n] \in Incs
      BY DEF Incs
    <3> QED
      BY <2>1, <3>1 DEF Count, CountInv, Shape
  <2> QED
    BY <2>1 DEF CountInv, Shape
<1>2. Shape'
  BY <1>1 DEF CountInv, Shape
<1>3. Started' /\ Emptied'
  BY <1>1 DEF CountInv, Started, Emptied
<1>4. Balanced'
  BY DEF CountInv, Balanced, CountedOf, Present, Drained
<1> QED
  BY <1>2, <1>3, <1>4 DEF CountInv

LEMMA IncrementCounts ==
  ASSUME CountInv, NEW w \in Writers, Increment(w)
  PROVE  CountInv'
<1>1. UNCHANGED <<flush, drained, logged>> /\ inc[w] \in Incs /\ inc \in [Writers -> Incs]
  BY DEF Increment, CountInv, Shape
<1>2. CASE Look(w)
  <2>1. PICK at \in {"create", "add"} :
          inc' = [inc EXCEPT ![w].at = at] /\ (at = "add" => counter[inc[w].name] # Absent)
    BY <1>2 DEF Look
  <2>2. inc[w].at = "look" /\ UNCHANGED <<counter, counted>>
    BY <1>2 DEF Look
  <2>3. /\ inc' \in [Writers -> Incs] /\ inc'[w].at = at /\ inc'[w].name = inc[w].name
        /\ \A v \in Writers \ {w} : inc'[v] = inc[v]
    BY <1>1, <2>1 DEF Incs
  <2>4. Shape'
    BY <1>1, <2>2, <2>3 DEF CountInv, Shape
  <2>5. Started' /\ Emptied'
    BY <1>1, <2>1, <2>2, <2>3 DEF CountInv, Started, Emptied
  <2>6. Balanced'
    BY <1>1, <2>2 DEF CountInv, Balanced, CountedOf, Present, Drained
  <2> QED
    BY <2>4, <2>5, <2>6 DEF CountInv
<1>3. CASE Add(w) \/ Create(w)
  <2> DEFINE m == inc[w].name
  <2>1. m \in Names /\ inc' = [inc EXCEPT ![w] = NoInc] /\ counted' = [counted EXCEPT ![w][m] = @ + 1]
    BY <1>3 DEF Add, Create, Total, CountInv, Started
  <2> DEFINE c == Present(m) + 1
  <2>2. c \in Nat /\ c = Present(m) + 1 /\ counter' = [counter EXCEPT ![m] = c]
    <3>1. counter \in [Names -> {Absent} \cup Nat] /\ counter[m] \in {Absent} \cup Nat
      BY <2>1 DEF CountInv, Shape
    <3>2. CASE Add(w)
      <4>1. counter[m] # Absent /\ counter' = [counter EXCEPT ![m] = counter[m] + 1]
        BY <3>2 DEF Add, CountInv, Started
      <4> QED
        BY <3>1, <4>1 DEF Present, Absent
    <3>3. CASE Create(w)
      <4>1. counter' = [counter EXCEPT ![m] = IF counter[m] = Absent THEN 1 ELSE counter[m] + 1]
        BY <3>3 DEF Create
      <4> QED
        BY <3>1, <4>1 DEF Present, Absent
    <3> QED
      BY <1>3, <3>2, <3>3
  <2> HIDE DEF m, c
  <2>3. /\ counter' \in [Names -> {Absent} \cup Nat] /\ counter'[m] = c
        /\ \A n \in Names \ {m} : counter'[n] = counter[n]
    BY <2>1, <2>2 DEF CountInv, Shape
  <2>4. /\ counted' \in [Writers -> [Names -> Nat]] /\ counted'[w][m] = counted[w][m] + 1
        /\ \A n \in Names \ {m} : counted'[w][n] = counted[w][n]
        /\ \A v \in Writers \ {w} : counted'[v] = counted[v]
    BY <2>1 DEF CountInv, Shape
  <2>5. NoInc \in Incs /\ NoInc.at = "none"
    BY DEF NoInc, Incs
  <2>6. /\ inc' \in [Writers -> Incs] /\ inc'[w] = NoInc /\ \A v \in Writers \ {w} : inc'[v] = inc[v]
    BY <1>1, <2>1, <2>5
  <2>7. Shape'
    BY <1>1, <2>3, <2>4, <2>6 DEF CountInv, Shape
  <2>8. Started' /\ Emptied'
    BY <1>1, <2>2, <2>3, <2>5, <2>6 DEF CountInv, Started, Emptied, Absent
  <2>9. Balanced'
    <3>1. ASSUME NEW n \in Names PROVE (CountedOf(n) = logged[n] + Present(n) + Drained(n))'
      <4>1. CountedOf(n) = logged[n] + Present(n) + Drained(n)
        BY DEF CountInv, Balanced
      <4>2. Drained(n)' = Drained(n) /\ logged'[n] = logged[n] /\ Drained(n) \in Nat /\ logged[n] \in Nat
        BY <1>1 DEF Drained, CountInv, Shape, Flushers
      <4>3. counted["handler"][n] \in Nat /\ counted["hook"][n] \in Nat
        BY DEF CountInv, Shape, Writers
      <4>4. CASE n = m
        <5>1. CountedOf(n)' = CountedOf(n) + 1
          BY <2>4, <4>3, <4>4 DEF CountedOf, Writers
        <5>2. Present(n)' = c /\ Present(n) \in Nat
          BY <2>2, <2>3, <4>4 DEF Present, Absent, CountInv, Shape
        <5> QED
          BY <2>2, <4>1, <4>2, <4>4, <5>1, <5>2 DEF CountedOf
      <4>5. CASE n # m
        BY <2>3, <2>4, <4>1, <4>2, <4>5 DEF CountedOf, Present, Writers
      <4> QED
        BY <4>4, <4>5
    <3> QED
      BY <3>1 DEF Balanced
  <2> QED
    BY <2>7, <2>8, <2>9 DEF CountInv
<1> QED
  BY <1>2, <1>3 DEF Increment

\* What a drain takes, and leaves.
LEMMA DrainTakes ==
  ASSUME CountInv, NEW f \in Flushers, Drain(f)
  PROVE  \E n \in flush[f].left :
           /\ n \in Names /\ flush[f].at = "drain" /\ logged' = logged
           /\ flush' \in [Flushers -> Flushes] /\ flush'[f].left = flush[f].left \ {n}
           /\ flush'[f].at \in {"drain", "log"} /\ flush'[f].last = flush[f].last
           /\ \A g \in Flushers \ {f} : flush'[g] = flush[g]
           /\ drained' \in [Flushers -> [Names -> Nat]] /\ drained[f][n] = 0 /\ drained'[f][n] = Present(n)
           /\ \A m \in Names \ {n} : drained'[f][m] = drained[f][m]
           /\ \A g \in Flushers \ {f} : drained'[g] = drained[g]
           /\ counter' \in [Names -> {Absent} \cup Nat] /\ Present(n)' = 0
           /\ \A m \in Names : counter'[m] = Absent <=> counter[m] = Absent
           /\ \A m \in Names \ {n} : counter'[m] = counter[m]
           /\ flush'[f].at = "log" => flush'[f].left = {}
<1>1. PICK n \in flush[f].left :
        /\ flush[f].at = "drain" /\ logged' = logged
        /\ flush' = [flush EXCEPT ![f].left = @ \ {n}, ![f].at = IF flush[f].left = {n} THEN "log" ELSE @]
        /\ IF counter[n] = Absent THEN UNCHANGED <<counter, drained>>
           ELSE /\ drained' = [drained EXCEPT ![f][n] = counter[n]]
                /\ counter' = [counter EXCEPT ![n] = 0]
  BY DEF Drain
<1>2. flush \in [Flushers -> Flushes] /\ flush[f].left \subseteq Names /\ n \in Names /\ flush[f] \in Flushes
  BY DEF CountInv, Shape, Flushes
<1>3. /\ flush' \in [Flushers -> Flushes] /\ flush'[f].left = flush[f].left \ {n}
      /\ flush'[f].at = (IF flush[f].left = {n} THEN "log" ELSE flush[f].at) /\ flush'[f].last = flush[f].last
      /\ \A g \in Flushers \ {f} : flush'[g] = flush[g]
  <2> DEFINE at == IF flush[f].left = {n} THEN "log" ELSE flush[f].at
  <2>1. PICK s : s = [flush EXCEPT ![f].left = flush[f].left \ {n}]
    OBVIOUS
  <2>2. at \in {"idle", "drain", "log", "done"}
    BY <1>1
  <2>3. s \in [Flushers -> Flushes] /\ s[f].left = flush[f].left \ {n} /\ s[f].last = flush[f].last
        /\ \A g \in Flushers \ {f} : s[g] = flush[g]
    BY <1>2, <2>1 DEF Flushes
  <2> HIDE DEF at
  <2>4. flush' = [s EXCEPT ![f].at = at]
    BY <1>1, <2>1 DEF at
  <2>5. flush' \in [Flushers -> Flushes] /\ flush'[f].left = s[f].left /\ flush'[f].at = at
        /\ flush'[f].last = s[f].last /\ \A g \in Flushers \ {f} : flush'[g] = s[g]
    BY <2>2, <2>3, <2>4 DEF Flushes
  <2> QED
    BY <2>3, <2>5 DEF at
<1>4. drained \in [Flushers -> [Names -> Nat]] /\ drained[f][n] = 0 /\ counter \in [Names -> {Absent} \cup Nat]
  BY <1>1, <1>2 DEF CountInv, Shape, Emptied
<1>5. CASE counter[n] = Absent
  BY <1>1, <1>2, <1>3, <1>4, <1>5 DEF Present
<1>6. CASE counter[n] # Absent
  <2>1. drained' = [drained EXCEPT ![f][n] = counter[n]] /\ counter' = [counter EXCEPT ![n] = 0] /\ counter[n] \in Nat
    BY <1>1, <1>2, <1>4, <1>6
  <2>2. /\ drained' \in [Flushers -> [Names -> Nat]] /\ drained'[f][n] = counter[n]
        /\ \A m \in Names \ {n} : drained'[f][m] = drained[f][m]
        /\ \A g \in Flushers \ {f} : drained'[g] = drained[g]
    BY <1>2, <1>4, <2>1
  <2>3. /\ counter' \in [Names -> {Absent} \cup Nat] /\ counter'[n] = 0
        /\ \A m \in Names \ {n} : counter'[m] = counter[m]
    BY <1>2, <1>4, <2>1
  <2>4. Present(n) = counter[n] /\ Present(n)' = 0
    BY <1>6, <2>3 DEF Present, Absent
  <2>5. \A m \in Names : counter'[m] = Absent <=> counter[m] = Absent
    BY <1>6, <2>3 DEF Absent
  <2>6. flush'[f].at \in {"drain", "log"} /\ (flush'[f].at = "log" => flush'[f].left = {})
    BY <1>1, <1>3
  <2> QED
    BY <1>1, <1>2, <1>3, <1>4, <2>2, <2>3, <2>4, <2>5, <2>6
<1> QED
  BY <1>5, <1>6

LEMMA FlushesCount ==
  ASSUME CountInv, NEW f \in Flushers, UNCHANGED <<inc, counted>>,
         Drain(f) \/ Log(f) \/ (UNCHANGED <<counter, logged>> /\ \E last \in BOOLEAN : StartFlush(f, last))
  PROVE  CountInv'
<1>1. /\ flush \in [Flushers -> Flushes] /\ drained \in [Flushers -> [Names -> Nat]] /\ logged \in [Names -> Nat]
      /\ counter \in [Names -> {Absent} \cup Nat] /\ flush[f] \in Flushes
  BY DEF CountInv, Shape
<1>2. \A n \in Names : /\ CountedOf(n) = logged[n] + Present(n) + Drained(n) /\ Present(n) \in Nat
                       /\ drained["flusher"][n] \in Nat /\ drained["main"][n] \in Nat /\ logged[n] \in Nat
  BY <1>1 DEF CountInv, Balanced, Present, Flushers
<1>3. ASSUME NEW last \in BOOLEAN, StartFlush(f, last), UNCHANGED <<counter, logged>> PROVE CountInv'
  <2>1. [at |-> "drain", left |-> Names, last |-> last] \in Flushes
    BY DEF Flushes
  <2>2. /\ flush[f].at = "idle" /\ flush' = [flush EXCEPT ![f] = [at |-> "drain", left |-> Names, last |-> last]]
        /\ drained' = [drained EXCEPT ![f] = Zero]
    BY <1>3 DEF StartFlush
  <2>3. Zero \in [Names -> Nat] /\ \A n \in Names : Zero[n] = 0
    BY DEF Zero
  <2>4. \A n \in Names : drained[f][n] = 0
    BY <2>2 DEF CountInv, Emptied
  <2>5. \A g \in Flushers, n \in Names : drained'[g][n] = drained[g][n]
    BY <1>1, <2>2, <2>3, <2>4
  <2>6. flush' \in [Flushers -> Flushes] /\ drained' \in [Flushers -> [Names -> Nat]]
    BY <1>1, <2>1, <2>2, <2>3
  <2>7. Shape'
    BY <1>3, <2>6 DEF CountInv, Shape
  <2>8. Started' /\ Emptied'
    BY <1>1, <1>3, <2>2, <2>4, <2>5 DEF CountInv, Started, Emptied
  <2>9. Balanced'
    BY <1>3, <2>5 DEF CountInv, Balanced, CountedOf, Present, Drained, Flushers
  <2> QED
    BY <2>7, <2>8, <2>9 DEF CountInv
<1>4. CASE Log(f)
  <2>1. /\ flush[f].at = "log" /\ logged' = [n \in Names |-> logged[n] + drained[f][n]]
        /\ drained' = [drained EXCEPT ![f] = Zero] /\ UNCHANGED counter
        /\ \E at \in {"done", "idle"} : flush' = [flush EXCEPT ![f].at = at]
    BY <1>4 DEF Log
  <2>2. Zero \in [Names -> Nat] /\ \A n \in Names : Zero[n] = 0
    BY DEF Zero
  <2>3. flush' \in [Flushers -> Flushes] /\ \A g \in Flushers \ {f} : flush'[g] = flush[g]
    BY <1>1, <2>1 DEF Flushes
  <2>4. drained' \in [Flushers -> [Names -> Nat]] /\ \A n \in Names : drained'[f][n] = 0
    BY <1>1, <2>1, <2>2
  <2>5. \A g \in Flushers \ {f} : drained'[g] = drained[g]
    BY <1>1, <2>1
  <2>6. logged' \in [Names -> Nat] /\ \A n \in Names : logged'[n] = logged[n] + drained[f][n]
    BY <1>1, <2>1
  <2>7. Shape'
    BY <1>1, <2>1, <2>3, <2>4, <2>6 DEF CountInv, Shape
  <2>8. Started' /\ Emptied'
    BY <2>1, <2>3, <2>4, <2>5 DEF CountInv, Started, Emptied
  <2>9. Balanced'
    <3>1. ASSUME NEW n \in Names PROVE (CountedOf(n) = logged[n] + Present(n) + Drained(n))'
      <4>1. CountedOf(n)' = CountedOf(n) /\ Present(n)' = Present(n)
        BY <2>1 DEF CountedOf, Present
      <4>2. logged'[n] + drained'["flusher"][n] + drained'["main"][n]
              = logged[n] + drained["flusher"][n] + drained["main"][n]
        <5>1. CASE f = "flusher"
          BY <1>2, <2>4, <2>5, <2>6, <5>1 DEF Flushers
        <5>2. CASE f = "main"
          BY <1>2, <2>4, <2>5, <2>6, <5>2 DEF Flushers
        <5> QED
          BY <5>1, <5>2 DEF Flushers
      <4>3. drained'["flusher"][n] \in Nat /\ drained'["main"][n] \in Nat /\ logged'[n] \in Nat
        BY <2>4, <2>6 DEF Flushers
      <4> QED
        BY <1>2, <4>1, <4>2, <4>3 DEF Drained
    <3> QED
      BY <3>1 DEF Balanced
  <2> QED
    BY <2>7, <2>8, <2>9 DEF CountInv
<1>5. CASE Drain(f)
  <2>1. PICK n \in flush[f].left :
           /\ n \in Names /\ flush[f].at = "drain" /\ logged' = logged
           /\ flush' \in [Flushers -> Flushes] /\ flush'[f].left = flush[f].left \ {n}
           /\ flush'[f].at \in {"drain", "log"} /\ flush'[f].last = flush[f].last
           /\ \A g \in Flushers \ {f} : flush'[g] = flush[g]
           /\ drained' \in [Flushers -> [Names -> Nat]] /\ drained[f][n] = 0 /\ drained'[f][n] = Present(n)
           /\ \A m \in Names \ {n} : drained'[f][m] = drained[f][m]
           /\ \A g \in Flushers \ {f} : drained'[g] = drained[g]
           /\ counter' \in [Names -> {Absent} \cup Nat] /\ Present(n)' = 0
           /\ \A m \in Names : counter'[m] = Absent <=> counter[m] = Absent
           /\ \A m \in Names \ {n} : counter'[m] = counter[m]
           /\ flush'[f].at = "log" => flush'[f].left = {}
    BY <1>5, DrainTakes
  <2>2. Shape'
    BY <2>1 DEF CountInv, Shape
  <2>3. Started'
    BY <2>1 DEF CountInv, Started
  <2>4. Emptied'
    <3>1. ASSUME NEW m \in Names, drained'[f][m] # 0
          PROVE  flush'[f].at = "log" \/ (flush'[f].at = "drain" /\ m \notin flush'[f].left)
      BY <2>1, <3>1 DEF CountInv, Emptied
    <3> QED
      BY <2>1, <3>1 DEF CountInv, Emptied
  <2>5. Balanced'
    <3>1. ASSUME NEW m \in Names PROVE (CountedOf(m) = logged[m] + Present(m) + Drained(m))'
      <4>1. CountedOf(m)' = CountedOf(m)
        BY DEF CountedOf
      <4>2. CASE m # n
        BY <1>2, <2>1, <4>1, <4>2 DEF Drained, Present, Flushers
      <4>3. CASE m = n
        <5>1. CASE f = "flusher"
          BY <1>2, <2>1, <4>1, <4>3, <5>1 DEF Drained, Flushers
        <5>2. CASE f = "main"
          BY <1>2, <2>1, <4>1, <4>3, <5>2 DEF Drained, Flushers
        <5> QED
          BY <5>1, <5>2 DEF Flushers
      <4> QED
        BY <4>2, <4>3
    <3> QED
      BY <3>1 DEF Balanced
  <2> QED
    BY <2>2, <2>3, <2>4, <2>5 DEF CountInv
<1> QED
  BY <1>3, <1>4, <1>5

LEMMA NextCount == CountInv /\ [LifeNext]_lifeVars => CountInv'
<1> SUFFICES ASSUME CountInv, [LifeNext]_lifeVars PROVE CountInv'
  OBVIOUS
<1>1. CASE UNCHANGED lifeVars
  BY <1>1, CountsStart DEF lifeVars
<1>2. CASE MainStep \/ ServerCrashes \/ Signal
  <2>1. CASE LastFlush
    <3>1. UNCHANGED <<inc, counted, counter, logged>> /\ \E last \in BOOLEAN : StartFlush("main", last)
      BY <2>1 DEF LastFlush
    <3>2. "main" \in Flushers
      BY DEF Flushers
    <3> QED
      BY <3>1, <3>2, FlushesCount
  <2>2. CASE ~LastFlush
    <3>1. UNCHANGED counterVars
      BY <1>2, <2>2 DEF MainStep, ServerCrashes, Signal, SetUp, Fatal, ShutDownHttp, PollingWait, MetricsWait,
         StopCron, CloseProvider, MainVars
    <3> QED
      BY <3>1, CountsStart DEF counterVars
  <2> QED
    BY <2>1, <2>2
<1>3. CASE \E last \in BOOLEAN : Tick(last)
  <2>1. UNCHANGED <<inc, counted, counter, logged>> /\ \E last \in BOOLEAN : StartFlush("flusher", last)
    BY <1>3 DEF Tick
  <2>2. "flusher" \in Flushers
    BY DEF Flushers
  <2> QED
    BY <2>1, <2>2, FlushesCount
<1>4. CASE \E f \in Flushers : FlushStep(f)
  BY <1>4, FlushesCount DEF FlushStep
<1>5. CASE \E w \in Writers : Increment(w)
  BY <1>5, IncrementCounts
<1>6. CASE TakeUpdate \/ Dispatch \/ Handle \/ HandleFails \/ PollingStops \/ HookEnds \/ Fire \/ JobEnds
  <2>1. "command" \in Names /\ "handler-panic" \in Names /\ "handler" \in Writers /\ "hook" \in Writers
    BY DEF Names, Writers
  <2>2. UNCHANGED <<counter, flush, drained, logged, counted>>
    BY <1>6 DEF TakeUpdate, Dispatch, Handle, HandleFails, PollingStops, HookEnds, Fire, JobEnds, Work
  <2>3. inc' = inc \/ \E w \in Writers, n \in Names : Count(w, n)
    BY <1>6, <2>1 DEF TakeUpdate, Dispatch, Handle, HandleFails, PollingStops, HookEnds, Fire, JobEnds
  <2> QED
    BY <2>2, <2>3, CountsStart
<1> QED
  BY <1>1, <1>2, <1>3, <1>4, <1>5, <1>6 DEF LifeNext
-----------------------------------------------------------------------------
BootStages == {"provider", "stores", "registry", "menu", "cron", "webhook", "listen"}
AfterPolling == {"metrics", "flush", "stopCron", "closeProvider", "stop", "exited"}

\* What main has seen to at each stage.
Ordered ==
  /\ storage = "none" => main \in {"provider", "fatal"} /\ polling = "off" /\ jobs = "off"
  /\ storage \in {"none", "open", "closed"} /\ (storage = "closed" => main \in {"stop", "exited"})
  /\ polling \in {"off", "wait", "stopped"} => inc["handler"] = NoInc
  /\ main \in BootStages => polling = "off"
  /\ main \in AfterPolling /\ ~forced => polling = "stopped"
  /\ main \in AfterPolling \ {"metrics"} => flush["flusher"].at = "done"
  /\ flush["main"].at # "idle" => main \in AfterPolling \ {"metrics"}
  /\ main \in {"stopCron", "closeProvider", "stop", "exited"} => flush["main"].at = "done"
  /\ main \in {"closeProvider", "stop", "exited"} => jobs = "stopped"

LEMMA OrderInit == LifeInit => Ordered /\ JobsHaveStorage
<1>1. LifeInit => inc["handler"] = NoInc /\ flush["main"].at = "idle"
  BY DEF LifeInit, Writers, Flushers
<1> QED
  BY <1>1 DEF LifeInit, Ordered, AfterPolling, JobsHaveStorage

LEMMA SetUpMoves ==
  ASSUME SetUp
  PROVE  /\ main \in BootStages /\ main' \in (BootStages \ {"provider"}) \cup {"serve"}
         /\ main = "listen" => main' = "serve"
<1>1. main \in BootStages
  BY DEF SetUp, Boot, BootStages
<1>2. PICK i \in 1..7 : Boot[i] = main /\ main' = IF i = 7 THEN "serve" ELSE Boot[i + 1]
  BY DEF SetUp, Next1
<1> QED
  BY <1>1, <1>2 DEF Boot, BootStages

LEMMA NextOrdered == CountInv /\ Ordered /\ [LifeNext]_lifeVars => Ordered'
<1> SUFFICES ASSUME CountInv, Ordered, [LifeNext]_lifeVars PROVE Ordered'
  OBVIOUS
<1>1. CASE UNCHANGED lifeVars
  BY <1>1 DEF lifeVars, Ordered
<1>2. CASE SetUp
  <2>1. UNCHANGED <<inc, flush, forced>>
    BY <1>2 DEF SetUp, MainVars, counterVars
  <2>2. /\ main \in BootStages /\ main' \in (BootStages \ {"provider"}) \cup {"serve"}
        /\ main = "listen" => main' = "serve"
    BY <1>2, SetUpMoves
  <2>3. /\ storage' = (IF main = "provider" THEN "open" ELSE storage)
        /\ jobs' = (IF main = "cron" THEN "wait" ELSE jobs)
        /\ polling' = (IF main = "listen" THEN "wait" ELSE polling)
    BY <1>2 DEF SetUp
  <2>4. main' \notin AfterPolling /\ main \notin AfterPolling
    BY <2>2 DEF BootStages, AfterPolling
  <2>5. inc["handler"] = NoInc
    BY <2>2 DEF Ordered
  <2> QED
    BY <2>1, <2>2, <2>3, <2>4, <2>5 DEF Ordered, BootStages, AfterPolling
<1>3. CASE Fatal \/ ServerCrashes \/ Signal
  BY <1>3 DEF Fatal, ServerCrashes, Signal, MainVars, counterVars, Ordered, AfterPolling, BootStages
<1>4. CASE ShutDownHttp \/ PollingWait \/ MetricsWait
  BY <1>4 DEF ShutDownHttp, PollingWait, MetricsWait, Stop, MainVars, counterVars, Ordered, AfterPolling, BootStages
<1>5. CASE LastFlush
  <2>1. /\ main = "flush" /\ UNCHANGED <<main, storage, polling, jobs, inc, forced>>
        /\ flush["main"].at = "idle"
        /\ flush' = [flush EXCEPT !["main"] = [at |-> "drain", left |-> Names, last |-> TRUE]]
    BY <1>5 DEF LastFlush, workVars, StartFlush
  <2>2. flush'["flusher"] = flush["flusher"]
    BY <2>1 DEF CountInv, Shape, Flushers
  <2> QED
    BY <2>1, <2>2 DEF Ordered, AfterPolling
<1>6. CASE StopCron \/ CloseProvider
  BY <1>6 DEF StopCron, CloseProvider, Stop, MainVars, counterVars, Ordered, AfterPolling, BootStages
<1>7. ASSUME NEW last \in BOOLEAN, Tick(last) PROVE Ordered'
  <2>1. /\ UNCHANGED <<main, storage, polling, jobs, inc, forced>> /\ flush["flusher"].at = "idle"
        /\ flush' = [flush EXCEPT !["flusher"] = [at |-> "drain", left |-> Names, last |-> last]]
    BY <1>7 DEF Tick, workVars, StartFlush
  <2>2. flush'["main"] = flush["main"]
    BY <2>1 DEF CountInv, Shape, Flushers
  <2> QED
    BY <2>1, <2>2 DEF Ordered, AfterPolling
<1>8. ASSUME NEW f \in Flushers, FlushStep(f) PROVE Ordered'
  <2>1. UNCHANGED <<main, storage, polling, jobs, inc, forced>>
    BY <1>8 DEF FlushStep, workVars
  <2>2. /\ \A g \in Flushers : flush[g].at \in {"idle", "done"} => flush'[g] = flush[g]
        /\ flush[f].at \in {"drain", "log"}
    <3>1. CASE Log(f)
      BY <3>1 DEF Log, CountInv, Shape
    <3>2. CASE Drain(f)
      <4>1. flush[f].at = "drain" /\ \A g \in Flushers \ {f} : flush'[g] = flush[g]
        BY <3>2, DrainTakes
      <4> QED
        BY <4>1
    <3> QED
      BY <1>8, <3>1, <3>2 DEF FlushStep
  <2> QED
    BY <2>1, <2>2 DEF Ordered, AfterPolling, Flushers
<1>9. ASSUME NEW w \in Writers, Increment(w) PROVE Ordered'
  <2>1. UNCHANGED <<main, storage, polling, jobs, flush, forced>>
    BY <1>9 DEF Increment, workVars
  <2>2. inc[w] # NoInc
    BY <1>9 DEF Increment, Look, Add, Create, NoInc
  <2>3. \A v \in Writers \ {w} : inc'[v] = inc[v]
    BY <1>9 DEF Increment, Look, Add, Create, Total, CountInv, Shape
  <2>4. inc["handler"] = NoInc => inc'["handler"] = NoInc
    BY <2>2, <2>3 DEF Writers
  <2> QED
    BY <2>1, <2>4 DEF Ordered
<1>10. CASE TakeUpdate \/ Dispatch \/ Handle \/ HandleFails \/ PollingStops
  <2>1. UNCHANGED <<main, storage, jobs, flush, forced>>
    BY <1>10 DEF TakeUpdate, Dispatch, Handle, HandleFails, PollingStops, Work
  <2>2. /\ polling \in {"wait", "count", "handle", "error"}
        /\ polling' \in {"wait", "stopped"} => inc'["handler"] = NoInc
        /\ polling' # "off"
    BY <1>10 DEF TakeUpdate, Dispatch, Handle, HandleFails, PollingStops, Ordered
  <2>3. polling' = "stopped" \/ ~(main \in AfterPolling /\ ~forced)
    BY <2>2 DEF Ordered
  <2> QED
    BY <2>1, <2>2, <2>3 DEF Ordered
<1>11. CASE HookEnds
  <2>1. UNCHANGED <<main, storage, polling, jobs, flush, forced>>
    BY <1>11 DEF HookEnds, Work
  <2>2. inc'["handler"] = inc["handler"]
    BY <1>11 DEF HookEnds, Count, CountInv, Shape, Writers
  <2> QED
    BY <2>1, <2>2 DEF Ordered
<1>12. CASE Fire \/ JobEnds
  BY <1>12 DEF Fire, JobEnds, Work, Ordered
<1> QED
  BY <1>1, <1>2, <1>3, <1>4, <1>5, <1>6, <1>7, <1>8, <1>9, <1>10, <1>11, <1>12 DEF LifeNext, MainStep
-----------------------------------------------------------------------------
\* What main has drained of its last flush holds all that handlers counted.
LastDrained(n) == \/ flush["main"].at \in {"log", "done"}
                  \/ flush["main"].at = "drain" /\ n \notin flush["main"].left

LastFlushed == \A n \in Names :
  ~forced /\ LastDrained(n) => counted["handler"][n] <= logged[n] + drained["main"][n]

\* Nobody but the last flush and hooks is left when it drains.
LEMMA OnlyHooksCount ==
  ASSUME CountInv, Ordered, ~forced, flush["main"].at # "idle"
  PROVE  inc["handler"] = NoInc /\ flush["flusher"].at = "done"
BY DEF Ordered, AfterPolling

\* forced is never taken back, and only who uses the storage can misuse it.
LEMMA HistoryGrows ==
  ASSUME [LifeNext]_lifeVars
  PROVE  (forced => forced') /\ ((misused' => misused) \/ Handle \/ JobEnds)
<1>1. CASE MainStep \/ ServerCrashes \/ Signal
  <2>1. CASE LastFlush
    BY <2>1 DEF LastFlush
  <2>2. CASE PollingWait
    BY <2>2 DEF PollingWait, MainVars
  <2>3. CASE SetUp \/ Fatal \/ ServerCrashes \/ Signal
    BY <2>3 DEF SetUp, Fatal, ServerCrashes, Signal, MainVars
  <2>4. CASE ShutDownHttp \/ MetricsWait
    BY <2>4 DEF ShutDownHttp, MetricsWait, MainVars
  <2>5. CASE StopCron
    <3>1. UNCHANGED <<MainVars, forced>>
      BY <2>5 DEF StopCron
    <3> QED
      BY <3>1 DEF MainVars
  <2>6. CASE CloseProvider
    <3>1. UNCHANGED <<MainVars, forced>>
      BY <2>6 DEF CloseProvider
    <3> QED
      BY <3>1 DEF MainVars
  <2> QED
    BY <1>1, <2>1, <2>2, <2>3, <2>4, <2>5, <2>6 DEF MainStep
<1>2. CASE (\E last \in BOOLEAN : Tick(last)) \/ (\E f \in Flushers : FlushStep(f)) \/ \E w \in Writers : Increment(w)
  BY <1>2 DEF Tick, FlushStep, Increment
<1>3. CASE TakeUpdate \/ Dispatch \/ Handle \/ HandleFails \/ PollingStops \/ HookEnds \/ Fire \/ JobEnds
  <2>1. CASE Handle \/ JobEnds
    <3>1. UNCHANGED Work
      BY <2>1 DEF Handle, JobEnds
    <3> QED
      BY <2>1, <3>1 DEF Work
  <2>2. CASE TakeUpdate \/ Dispatch \/ HandleFails \/ PollingStops \/ HookEnds \/ Fire
    <3>1. UNCHANGED <<Work, misused>>
      BY <2>2 DEF TakeUpdate, Dispatch, HandleFails, PollingStops, HookEnds, Fire
    <3> QED
      BY <3>1 DEF Work
  <2> QED
    BY <1>3, <2>1, <2>2
<1>4. CASE UNCHANGED lifeVars
  BY <1>4 DEF lifeVars
<1> QED
  BY <1>1, <1>2, <1>3, <1>4 DEF LifeNext

LEMMA NextLastFlushed == CountInv /\ Ordered /\ LastFlushed /\ [LifeNext]_lifeVars => LastFlushed'
<1> SUFFICES ASSUME CountInv, Ordered, LastFlushed, [LifeNext]_lifeVars,
                    NEW n \in Names, ~forced', LastDrained(n)'
             PROVE  (counted["handler"][n] <= logged[n] + drained["main"][n])'
  BY DEF LastFlushed
<1>1. ~forced /\ "main" \in Flushers /\ "flusher" \in Flushers
  BY HistoryGrows DEF Flushers
<1>2. CASE UNCHANGED <<flush, drained, logged, counted>>
  BY <1>1, <1>2 DEF LastFlushed, LastDrained
<1>3. CASE LastFlush \/ \E last \in BOOLEAN : Tick(last)
  <2>1. CASE LastFlush
    <3>1. flush'["main"] = [at |-> "drain", left |-> Names, last |-> TRUE]
      BY <1>1, <2>1 DEF LastFlush, StartFlush, CountInv, Shape
    <3> QED
      BY <3>1 DEF LastDrained
  <2>2. ASSUME NEW last \in BOOLEAN, Tick(last) PROVE FALSE
    <3>1. flush["flusher"].at = "idle" /\ flush'["main"] = flush["main"]
      BY <1>1, <2>2 DEF Tick, StartFlush, CountInv, Shape, Flushers
    <3>2. flush["main"].at # "idle"
      BY <3>1 DEF LastDrained
    <3> QED
      BY <1>1, <3>1, <3>2, OnlyHooksCount
  <2> QED
    BY <1>3, <2>1, <2>2
<1>4. ASSUME NEW w \in Writers, Increment(w)
      PROVE  (counted["handler"][n] <= logged[n] + drained["main"][n])'
  <2>1. UNCHANGED <<flush, drained, logged>> /\ LastDrained(n)
    BY <1>4 DEF Increment, LastDrained
  <2>2. inc["handler"] = NoInc
    BY <1>1, <2>1, OnlyHooksCount DEF LastDrained
  <2>3. inc[w] # NoInc
    BY <1>4 DEF Increment, Look, Add, Create, NoInc
  <2>4. counted'["handler"] = counted["handler"]
    BY <1>4, <2>2, <2>3 DEF Increment, Look, Add, Create, Total, CountInv, Shape, Writers
  <2> QED
    BY <1>1, <2>1, <2>4 DEF LastFlushed
<1>5. ASSUME NEW f \in Flushers, FlushStep(f)
      PROVE  (counted["handler"][n] <= logged[n] + drained["main"][n])'
  <2>1. UNCHANGED counted /\ (Drain(f) \/ Log(f)) /\ flush[f].at \in {"drain", "log"}
    BY <1>5 DEF FlushStep, Drain, Log
  <2>2. /\ logged \in [Names -> Nat] /\ drained \in [Flushers -> [Names -> Nat]]
        /\ counted["handler"][n] \in Nat /\ counted["hook"][n] \in Nat /\ flush \in [Flushers -> Flushes]
    BY DEF CountInv, Shape, Writers
  <2>3. flush["main"].at # "idle" /\ flush["flusher"].at = "done" /\ f = "main"
    <3>1. CASE f = "main"
      BY <1>1, <2>1, <3>1, OnlyHooksCount
    <3>2. CASE f = "flusher"
      <4>1. flush'["main"] = flush["main"]
        <5>1. CASE Log(f)
          BY <2>2, <3>2, <5>1 DEF Log
        <5>2. CASE Drain(f)
          BY <1>1, <3>2, <5>2, DrainTakes
        <5> QED
          BY <2>1, <5>1, <5>2
      <4>2. flush["main"].at # "idle"
        BY <4>1 DEF LastDrained
      <4> QED
        BY <1>1, <2>1, <3>2, <4>2, OnlyHooksCount
    <3> QED
      BY <3>1, <3>2 DEF Flushers
  <2>4. CASE Log(f)
    <3>1. flush[f].at = "log" /\ logged' = [m \in Names |-> logged[m] + drained[f][m]] /\ drained' = [drained EXCEPT ![f] = Zero]
      BY <2>4 DEF Log
    <3>2. logged'[n] = logged[n] + drained["main"][n] /\ drained'["main"][n] = 0
      BY <2>2, <2>3, <3>1 DEF Zero
    <3>3. counted["handler"][n] <= logged[n] + drained["main"][n]
      BY <1>1, <2>3, <3>1 DEF LastFlushed, LastDrained
    <3>4. logged[n] \in Nat /\ drained["main"][n] \in Nat
      BY <1>1, <2>2
    <3> QED
      BY <2>1, <2>2, <3>2, <3>3, <3>4
  <2>5. CASE Drain(f)
    <3>1. PICK m \in flush[f].left :
           /\ m \in Names /\ flush[f].at = "drain" /\ logged' = logged
           /\ flush'[f].left = flush[f].left \ {m} /\ (flush'[f].at = "log" => flush'[f].left = {})
           /\ drained[f][m] = 0 /\ drained'[f][m] = Present(m)
           /\ \A k \in Names \ {m} : drained'[f][k] = drained[f][k]
      BY <2>5, DrainTakes
    <3>2. flush'[f].at \in {"drain", "log"}
      BY <2>5, DrainTakes
    <3>3. CASE n = m
      <4>1. drained["flusher"][n] = 0 /\ drained["main"][n] = 0
        BY <1>1, <2>3, <3>1, <3>3 DEF CountInv, Emptied
      <4>2. counted["handler"][n] + counted["hook"][n] = logged[n] + Present(n) + (0 + 0)
        BY <4>1 DEF CountInv, Balanced, CountedOf, Drained
      <4>3. Present(n) \in Nat /\ logged[n] \in Nat
        BY <2>2 DEF CountInv, Shape, Present
      <4> QED
        BY <2>1, <2>2, <2>3, <3>1, <3>3, <4>2, <4>3
    <3>4. CASE n # m
      <4>1. n \notin flush["main"].left
        BY <2>3, <3>1, <3>2, <3>4 DEF LastDrained
      <4> QED
        BY <1>1, <2>1, <2>3, <3>1, <3>4, <4>1 DEF LastFlushed, LastDrained
    <3> QED
      BY <3>3, <3>4
  <2> QED
    BY <2>1, <2>4, <2>5
<1>6. UNCHANGED <<flush, drained, logged, counted>> \/ LastFlush \/ (\E last \in BOOLEAN : Tick(last))
        \/ (\E f \in Flushers : FlushStep(f)) \/ \E w \in Writers : Increment(w)
  BY DEF LifeNext, MainStep, SetUp, Fatal, ServerCrashes, Signal, ShutDownHttp, PollingWait, MetricsWait,
     StopCron, CloseProvider, TakeUpdate, Dispatch, Handle, HandleFails,
     PollingStops, HookEnds, Fire, JobEnds, Work, MainVars, counterVars, lifeVars
<1> QED
  BY <1>2, <1>3, <1>4, <1>5, <1>6

LEMMA NextStorage == Ordered /\ JobsHaveStorage /\ [LifeNext]_lifeVars => JobsHaveStorage'
<1> SUFFICES ASSUME Ordered, JobsHaveStorage, [LifeNext]_lifeVars PROVE JobsHaveStorage'
  OBVIOUS
<1>1. CASE Handle \/ JobEnds
  <2>1. forced' = forced /\ misused' = (misused \/ storage # "open")
    BY <1>1 DEF Handle, JobEnds, Uses, Work
  <2>2. storage # "open" => forced
    BY <1>1 DEF Handle, JobEnds, Ordered, AfterPolling
  <2> QED
    BY <2>1, <2>2 DEF JobsHaveStorage
<1>2. CASE ~(Handle \/ JobEnds)
  BY <1>2, HistoryGrows DEF JobsHaveStorage
<1> QED
  BY <1>1, <1>2

\* The inductive invariant, for any number of counts.
LifeInv == CountInv /\ Ordered /\ LastFlushed /\ JobsHaveStorage

LEMMA LifeInvImplies == LifeInv => NoCountLost
<1> SUFFICES ASSUME LifeInv, NEW n \in Names
             PROVE  /\ CountedOf(n) = logged[n] + Present(n) + Drained(n)
                    /\ main = "exited" /\ ~forced => logged[n] >= counted["handler"][n]
  BY DEF NoCountLost
<1>1. CountedOf(n) = logged[n] + Present(n) + Drained(n)
  BY DEF LifeInv, CountInv, Balanced
<1>2. ASSUME main = "exited", ~forced PROVE logged[n] >= counted["handler"][n]
  <2>1. flush["main"].at = "done"
    BY <1>2 DEF LifeInv, Ordered
  <2>2. drained["main"][n] = 0
    BY <2>1 DEF LifeInv, CountInv, Emptied, Flushers
  <2>3. counted["handler"][n] <= logged[n] + drained["main"][n]
    BY <1>2, <2>1 DEF LifeInv, LastFlushed, LastDrained
  <2>4. logged[n] \in Nat /\ counted["handler"][n] \in Nat
    BY DEF LifeInv, CountInv, Shape, Writers
  <2> QED
    BY <2>2, <2>3, <2>4
<1> QED
  BY <1>1, <1>2

LEMMA LifeInvInit == LifeInit => LifeInv
<1>1. LifeInit => LastFlushed
  BY DEF LifeInit, LastFlushed, LastDrained, Flushers
<1> QED
  BY <1>1, CountInit, OrderInit DEF LifeInv

LEMMA LifeInvNext == LifeInv /\ [LifeNext]_lifeVars => LifeInv'
BY NextCount, NextOrdered, NextLastFlushed, NextStorage DEF LifeInv

\* No increment is lost or logged twice, whatever flushes and writers interleave,
\* and a shutdown that waited has logged what handlers counted (metrics
\* counters.go:96, main.go's last flush).
THEOREM NoCountLostCorrect == LifeSpec => []NoCountLost
<1>1. LifeSpec => []LifeInv
  BY LifeInvInit, LifeInvNext, PTL DEF LifeSpec
<1> QED
  BY <1>1, LifeInvImplies, PTL

\* A handler or a job uses a closed storage only after a shutdown that gave up
\* waiting (main.go:244).
THEOREM JobsHaveStorageCorrect == LifeSpec => []JobsHaveStorage
<1>1. LifeSpec => []LifeInv
  BY LifeInvInit, LifeInvNext, PTL DEF LifeSpec
<1> QED
  BY <1>1, PTL DEF LifeInv

-----------------------------------------------------------------------------
(* The storage tasks of a start *)

\* Where a start is in its task, and what the other process may still write.
Underway ==
  /\ start.at \in {"read", "write"} =>
       start.key \in start.left /\ start.tries < ConflictRetries /\ task \in {"stock", "stats"}
  /\ other # Silent =>
       other.key \in Docs /\ other.held.writes <= written[other.key] /\ written[other.key] < MaxWrites
  /\ \A d \in Docs : doc[d].writes <= written[d]

\* Nothing but sticker's removal takes a version back.
Current(held, d) == /\ held.version <= doc[d].version
                    /\ held.version = doc[d].version => held = doc[d]

HeldIsCurrent == task # "sticker" =>
  /\ start.at = "write" => Current(start.held, start.key)
  /\ other # Silent => other.held.writes = written[other.key]

\* What is old is still to be visited, or was written since the listing.
Swept ==
  /\ \A d \in Docs : doc[d].old => doc[d].exists
  /\ start.at \in {"list", "next", "read", "write"} /\ task \in {"stock", "sticker"} => ~marker.completed
  /\ start.at \in {"next", "read", "write"} => \A d \in Docs : doc[d].old => d \in start.left \cup late

StartupInv == StartupTypeOK /\ Underway /\ HeldIsCurrent /\ Swept /\ HistoryKept /\ MarkerIsTrue

\* The start as a record, for updates of several fields.
StartStages == {"down", "marker", "list", "next", "read", "write", "up"}
Starts == [at : StartStages, left : SUBSET Docs, key : Docs \cup {NoKey}, held : StoredDoc,
           tries : 0..ConflictRetries, n : Nat]
StartRec(at, left, key, held, tries, n) ==
  [at |-> at, left |-> left, key |-> key, held |-> held, tries |-> tries, n |-> n]

LEMMA AtSet ==
  ASSUME NEW r \in Starts, NEW at
  PROVE  [r EXCEPT !.at = at] = StartRec(at, r.left, r.key, r.held, r.tries, r.n)
BY DEF Starts, StartRec

LEMMA DocHandledSets ==
  ASSUME start \in Starts, NEW m, DocHandled(m)
  PROVE  start' = StartRec("next", start.left \ {start.key}, NoKey, Gone, 0, start.n + m)
<1>1. start' = [[[[[[start EXCEPT !.at = "next"] EXCEPT !.left = start.left \ {start.key}] EXCEPT !.key = NoKey]
                   EXCEPT !.held = Gone] EXCEPT !.tries = 0] EXCEPT !.n = start.n + m]
  BY DEF DocHandled
<1> QED
  BY <1>1, AtSet DEF StartRec

LEMMA VisitSets ==
  ASSUME start \in Starts, NEW d, NEW s, s = [start EXCEPT !.at = "read", !.key = d, !.tries = 0]
  PROVE  s = StartRec("read", start.left, d, start.held, 0, start.n)
<1>1. s = [[[start EXCEPT !.at = "read"] EXCEPT !.key = d] EXCEPT !.tries = 0]
  OBVIOUS
<1> QED
  BY <1>1, AtSet DEF StartRec

LEMMA RenewedSets ==
  ASSUME NEW row \in StoredDoc, NEW s, s = Renewed(row)
  PROVE  /\ s \in StoredDoc /\ ~s.old /\ s.version = row.version + 1 /\ s.writes = row.writes
         /\ s.exists = row.exists
<1> DEFINE r == [row EXCEPT !.old = FALSE]
<1>1. s = [r EXCEPT !.version = row.version + 1]
  BY DEF Renewed
<1>2. r \in StoredDoc /\ ~r.old /\ r.version = row.version /\ r.writes = row.writes
  BY DEF StoredDoc
<1>5. r.exists = row.exists
  BY Zenon DEF StoredDoc
<1> HIDE DEF r
<1>3. s \in StoredDoc /\ ~s.old /\ s.version = row.version + 1 /\ s.writes = r.writes
  BY <1>1, <1>2 DEF StoredDoc
<1>4. s.exists = r.exists
  BY <1>1, <1>2, Zenon DEF StoredDoc
<1> QED
  BY <1>2, <1>3, <1>4, <1>5

LEMMA GoneStored == Gone \in StoredDoc /\ ~Gone.old /\ Gone.writes = 0
BY StartupAssumption DEF Gone, StoredDoc

LEMMA DownIsStart == StartDown \in Starts /\ StartDown.at = "down"
<1>1. 0 \in 0..ConflictRetries
  BY StartupAssumption
<1> QED
  BY <1>1, GoneStored DEF StartDown, Starts, StartStages

LEMMA StartupInitInv == StartupInit => StartupInv
<1> SUFFICES ASSUME StartupInit PROVE StartupInv
  OBVIOUS
<1>1. \A d \in Docs : doc[d] \in StoredDoc /\ doc[d].writes = 0 /\ (doc[d].old => doc[d].exists)
  <2>1. ASSUME NEW d \in Docs PROVE doc[d] \in StoredDoc /\ doc[d].writes = 0 /\ (doc[d].old => doc[d].exists)
    <3>1. CASE doc[d] = Gone
      BY <3>1, GoneStored
    <3>2. CASE doc[d] \in [exists : {TRUE}, old : BOOLEAN, valid : BOOLEAN, version : {1}, writes : {0}]
      <4>1. /\ doc[d].exists = TRUE /\ doc[d].version = 1 /\ doc[d].writes = 0 /\ doc[d].old \in BOOLEAN
            /\ doc[d].valid \in BOOLEAN
        BY <3>2
      <4>2. doc[d] = [exists |-> doc[d].exists, old |-> doc[d].old, valid |-> doc[d].valid,
                      version |-> doc[d].version, writes |-> doc[d].writes]
        BY <3>2
      <4>3. 1 \in Nat /\ 0 \in 0..MaxWrites /\ TRUE \in BOOLEAN
        BY StartupAssumption
      <4>4. doc[d] \in StoredDoc
        BY <4>1, <4>2, <4>3, Zenon DEF StoredDoc
      <4> QED
        BY <4>1, <4>4
    <3>3. doc \in [Docs -> {Gone} \cup [exists : {TRUE}, old : BOOLEAN, valid : BOOLEAN, version : {1}, writes : {0}]]
      BY Zenon DEF StartupInit
    <3> QED
      BY <3>1, <3>2, <3>3, Zenon
  <2> QED
    BY <2>1
<1>2. /\ doc \in [Docs -> StoredDoc] /\ written \in [Docs -> 0..MaxWrites] /\ \A d \in Docs : written[d] = 0
  <2>1. doc \in [Docs -> {Gone} \cup [exists : {TRUE}, old : BOOLEAN, valid : BOOLEAN, version : {1}, writes : {0}]]
    BY DEF StartupInit
  <2>2. doc \in [Docs -> StoredDoc]
    BY <1>1, <2>1
  <2>3. written = [d \in Docs |-> 0]
    BY Zenon DEF StartupInit
  <2>4. 0 \in 0..MaxWrites
    BY StartupAssumption
  <2> QED
    BY <2>2, <2>3, <2>4
<1>3. start \in Starts /\ start.at = "down"
  <2>1. start = StartRec("down", {}, NoKey, Gone, 0, 0)
    BY DEF StartupInit, StartDown, StartRec
  <2>2. NoKey \in Docs \cup {NoKey} /\ 0 \in 0..ConflictRetries /\ 0 \in Nat /\ {} \in SUBSET Docs /\ "down" \in StartStages
    BY StartupAssumption DEF StartStages
  <2> QED
    BY <2>1, <2>2, GoneStored DEF Starts, StartRec
<1>4. other = Silent /\ other \in [key : Docs \cup {NoKey}, held : StoredDoc, old : BOOLEAN]
  BY GoneStored DEF StartupInit, Silent
<1>5. /\ task \in {"stock", "stats", "stats mongo", "sticker"} /\ marker = [completed |-> FALSE, count |-> 0]
      /\ faults \in 0..MaxFaults /\ late = {}
  <2>1. /\ task \in {"stock", "stats", "stats mongo", "sticker"} /\ marker = [completed |-> FALSE, count |-> 0]
        /\ faults = 0 /\ late = {}
    BY Zenon DEF StartupInit
  <2>2. 0 \in 0..MaxFaults
    BY StartupAssumption
  <2> QED
    BY <2>1, <2>2, Zenon
<1>6. marker \in [completed : BOOLEAN, count : Nat] /\ ~marker.completed
  BY <1>5
<1>7. StartupTypeOK
  BY <1>2, <1>3, <1>4, <1>5, <1>6 DEF StartupTypeOK, Starts, StartStages
<1>8. Underway /\ HeldIsCurrent /\ Swept /\ HistoryKept /\ MarkerIsTrue
  BY <1>1, <1>2, <1>3, <1>4, <1>6 DEF Underway, HeldIsCurrent, Swept, HistoryKept, MarkerIsTrue
<1> QED
  BY <1>7, <1>8 DEF StartupInv

\* Steps that move the start alone.
LEMMA StartMoves ==
  ASSUME StartupInv, UNCHANGED <<task, doc, marker, other, written, late>>, faults' \in 0..MaxFaults,
         start' \in Starts,
         start'.at \in {"down", "marker", "list", "up", "next", "read", "write"},
         start'.at \in {"read", "write"} =>
            start'.key \in start'.left /\ start'.tries < ConflictRetries /\ task \in {"stock", "stats"},
         start'.at = "write" => start'.held = doc[start'.key],
         start'.at \in {"list", "next", "read", "write"} /\ task \in {"stock", "sticker"} => ~marker.completed,
         start'.at \in {"next", "read", "write"} => \A d \in Docs : doc[d].old => d \in start'.left \cup late,
         start'.at = "up" => \A d \in Docs : doc[d].old => d \in late
  PROVE  StartupInv'
<1>1. StartupTypeOK'
  BY DEF StartupInv, StartupTypeOK, Starts, StartStages
<1>2. Underway'
  BY DEF StartupInv, Underway
<1>3. HeldIsCurrent'
  <2>1. start'.at = "write" => start'.key \in Docs /\ doc[start'.key].version \in Nat
    BY DEF StartupInv, StartupTypeOK, Starts, StoredDoc
  <2> QED
    BY <2>1 DEF StartupInv, HeldIsCurrent, Current
<1>4. Swept'
  BY DEF StartupInv, Swept
<1>5. HistoryKept' /\ MarkerIsTrue'
  BY DEF StartupInv, HistoryKept, MarkerIsTrue
<1> QED
  BY <1>1, <1>2, <1>3, <1>4, <1>5 DEF StartupInv

LEMMA ListKeepsInv == StartupInv /\ ListDocs => StartupInv'
<1> SUFFICES ASSUME StartupInv, ListDocs PROVE StartupInv'
  OBVIOUS
<1>1. start \in Starts /\ start.at = "list"
  BY DEF ListDocs, StartupInv, StartupTypeOK, Starts, StartStages
<1>2. start' = StartRec("next", {d \in Docs : doc[d].exists}, start.key, start.held, start.tries, start.n)
  <2>1. start' = [[start EXCEPT !.at = "next"] EXCEPT !.left = {d \in Docs : doc[d].exists}]
    BY DEF ListDocs
  <2> QED
    BY <1>1, <2>1, AtSet DEF StartRec
<1>3. /\ start' \in Starts /\ start'.at = "next" /\ start'.left = {d \in Docs : doc[d].exists}
  BY <1>1, <1>2 DEF Starts, StartStages, StartRec
<1>4. late' = {} /\ UNCHANGED <<task, doc, marker, other, faults, written>>
  BY DEF ListDocs, outside
<1>5. StartupTypeOK'
  BY <1>3, <1>4 DEF StartupInv, StartupTypeOK, Starts, StartStages
<1>6. Underway' /\ HeldIsCurrent' /\ HistoryKept'
  BY <1>3, <1>4 DEF StartupInv, Underway, HeldIsCurrent, Current, HistoryKept
<1>7. Swept'
  BY <1>1, <1>3, <1>4 DEF StartupInv, Swept
<1>8. MarkerIsTrue'
  BY <1>1, <1>3, <1>4 DEF StartupInv, Swept, MarkerIsTrue
<1> QED
  BY <1>5, <1>6, <1>7, <1>8 DEF StartupInv

\* Steps that write a document, and leave it in the new form or nothing of it.
LEMMA DocWritten ==
  ASSUME StartupInv, NEW k \in Docs, NEW row \in StoredDoc, ~row.old,
         task # "sticker" => (row = doc[k] \/ row.version > doc[k].version) /\ row.writes = doc[k].writes,
         row.writes <= doc[k].writes,
         doc' = [doc EXCEPT ![k] = row], UNCHANGED <<task, marker, other, written, late>>,
         faults' \in 0..MaxFaults, start' \in Starts, start'.at \in {"down", "next"},
         start'.at = "next" => start.at \in {"next", "write"} /\ start'.left = start.left \ {k}
  PROVE  StartupInv'
<1>1. doc \in [Docs -> StoredDoc]
  BY DEF StartupInv, StartupTypeOK
<1>2. doc' \in [Docs -> StoredDoc] /\ doc'[k] = row /\ \A d \in Docs \ {k} : doc'[d] = doc[d]
  BY <1>1
<1>3. StartupTypeOK'
  BY <1>2 DEF StartupInv, StartupTypeOK, Starts, StartStages
<1>4. written \in [Docs -> 0..MaxWrites] /\ \A d \in Docs : doc[d].writes \in 0..MaxWrites /\ doc[d].version \in Nat
  BY <1>1 DEF StartupInv, StartupTypeOK, StoredDoc
<1>5. row.writes \in 0..MaxWrites /\ row.version \in Nat
  BY DEF StoredDoc
<1>6. Underway'
  <2>1. \A d \in Docs : doc'[d].writes <= written[d]
    <3>1. doc'[k].writes <= written[k]
      BY <1>2, <1>4, <1>5, StartupAssumption DEF StartupInv, Underway
    <3> QED
      BY <1>2, <3>1 DEF StartupInv, Underway
  <2> QED
    BY <2>1 DEF StartupInv, Underway
<1>7. HeldIsCurrent'
  BY DEF StartupInv, HeldIsCurrent
<1>8. Swept'
  BY <1>2 DEF StartupInv, Swept
<1>9. HistoryKept' /\ MarkerIsTrue'
  BY <1>2 DEF StartupInv, HistoryKept, MarkerIsTrue
<1> QED
  BY <1>3, <1>6, <1>7, <1>8, <1>9 DEF StartupInv

\* Steps that write the marker.
LEMMA MarkerWritten ==
  ASSUME StartupInv, start.at = "next", start.left = {}, marker' = Completed,
         UNCHANGED <<task, doc, other, written, late>>,
         faults' \in 0..MaxFaults, start' \in Starts, start'.at \in {"down", "up"}
  PROVE  StartupInv'
<1>1. marker' \in [completed : BOOLEAN, count : Nat]
  <2>1. Cardinality({d \in Docs : doc[d].exists}) \in Nat
    BY StartupAssumption, FS_Subset, FS_CardinalityType
  <2>2. start.n \in Nat /\ marker.count \in Nat
    BY DEF StartupInv, StartupTypeOK
  <2> DEFINE c == CASE task = "stats" -> start.n
                    [] task = "stats mongo" -> Cardinality({d \in Docs : doc[d].exists})
                    [] OTHER -> marker.count + start.n
  <2>3. c \in Nat
    <3>1. marker.count + start.n \in Nat
      BY <2>2
    <3> QED
      BY <2>1, <2>2, <3>1, Zenon
  <2>4. marker' = [completed |-> TRUE, count |-> c]
    BY DEF Completed
  <2> HIDE DEF c
  <2> QED
    BY <2>3, <2>4
<1>2. StartupTypeOK'
  BY <1>1 DEF StartupInv, StartupTypeOK, Starts, StartStages
<1>3. Underway' /\ HeldIsCurrent' /\ HistoryKept' /\ Swept'
  BY DEF StartupInv, Underway, HeldIsCurrent, Current, HistoryKept, Swept
<1>4. MarkerIsTrue'
  BY DEF StartupInv, Swept, MarkerIsTrue
<1> QED
  BY <1>2, <1>3, <1>4 DEF StartupInv

LEMMA OtherReadsKeepsInv ==
  ASSUME StartupInv, NEW d \in Docs, NEW old \in BOOLEAN, OtherReads(d, old)
  PROVE  StartupInv'
<1>1. /\ other' = [key |-> d, held |-> doc[d], old |-> old] /\ written[d] < MaxWrites
      /\ UNCHANGED <<task, doc, marker, start, faults, written, late>>
  BY DEF OtherReads
<1>2. doc[d] \in StoredDoc /\ doc[d].version \in Nat
  BY DEF StartupInv, StartupTypeOK, StoredDoc
<1>3. StartupTypeOK'
  BY <1>1, <1>2 DEF StartupInv, StartupTypeOK
<1>4. Underway' /\ HeldIsCurrent'
  BY <1>1, <1>2 DEF StartupInv, Underway, HeldIsCurrent, Current, HistoryKept
<1>5. Swept' /\ HistoryKept' /\ MarkerIsTrue'
  BY <1>1 DEF StartupInv, Swept, HistoryKept, MarkerIsTrue
<1> QED
  BY <1>3, <1>4, <1>5 DEF StartupInv

LEMMA OtherWritesKeepsInv == StartupInv /\ OtherWrites => StartupInv'
<1> SUFFICES ASSUME StartupInv, OtherWrites PROVE StartupInv'
  OBVIOUS
<1> DEFINE d == other.key
           row == [exists |-> TRUE, old |-> other.old, valid |-> TRUE, version |-> doc[d].version + 1,
                   writes |-> other.held.writes + 1]
<1>1. other # Silent /\ other' = Silent /\ UNCHANGED <<task, marker, start, faults>>
  BY DEF OtherWrites
<1>2. Silent \in [key : Docs \cup {NoKey}, held : StoredDoc, old : BOOLEAN]
  BY GoneStored DEF Silent
<1>3. /\ doc' = [doc EXCEPT ![d] = row] /\ written' = [written EXCEPT ![d] = @ + 1]
      /\ late' = IF other.old THEN late \cup {d} ELSE late
  BY DEF OtherWrites
<1>4. /\ d \in Docs /\ other.held \in StoredDoc /\ other.old \in BOOLEAN /\ doc \in [Docs -> StoredDoc]
      /\ written \in [Docs -> 0..MaxWrites] /\ other.held.writes <= written[d] /\ written[d] < MaxWrites
  BY <1>1 DEF StartupInv, Underway, StartupTypeOK
<1>5. /\ other.held.writes \in Nat /\ written[d] \in Nat
      /\ \A e \in Docs : doc[e].version \in Nat /\ doc[e].writes \in 0..MaxWrites
  BY <1>4 DEF StoredDoc
<1>6. row \in StoredDoc
  <2>1. doc[d].version + 1 \in Nat /\ other.held.writes + 1 \in 0..MaxWrites
    BY <1>4, <1>5, StartupAssumption
  <2> QED
    BY <1>4, <2>1 DEF StoredDoc
<1>7. /\ row.exists = TRUE /\ row.old = other.old
      /\ row.version = doc[d].version + 1 /\ row.writes = other.held.writes + 1
  OBVIOUS
<1> HIDE DEF row
<1>8. /\ doc' \in [Docs -> StoredDoc] /\ doc'[d] = row /\ \A e \in Docs \ {d} : doc'[e] = doc[e]
  BY <1>3, <1>4, <1>6
<1>9. /\ written' \in [Docs -> 0..MaxWrites] /\ written'[d] = written[d] + 1
      /\ \A e \in Docs \ {d} : written'[e] = written[e]
  BY <1>3, <1>4, <1>5, StartupAssumption
<1>10. late' \subseteq Docs /\ late \subseteq late' /\ (other.old => d \in late')
  BY <1>3, <1>4 DEF StartupInv, StartupTypeOK
<1>11. StartupTypeOK'
  BY <1>1, <1>2, <1>8, <1>9, <1>10 DEF StartupInv, StartupTypeOK
<1>12. Underway'
  <2>1. \A e \in Docs : doc'[e].writes <= written'[e]
    BY <1>4, <1>5, <1>7, <1>8, <1>9 DEF StartupInv, Underway
  <2> QED
    BY <1>1, <2>1 DEF StartupInv, Underway
<1>13. HeldIsCurrent'
  <2>1. ASSUME task # "sticker", start.at = "write" PROVE Current(start.held, start.key)'
    <3>1. start.key \in Docs /\ start.held.version \in Nat /\ Current(start.held, start.key)
      BY <2>1 DEF StartupInv, Underway, StartupTypeOK, StoredDoc, HeldIsCurrent
    <3>2. CASE start.key = d
      BY <1>1, <1>5, <1>7, <1>8, <3>1, <3>2 DEF Current
    <3>3. CASE start.key # d
      BY <1>1, <1>8, <3>1, <3>3 DEF Current
    <3> QED
      BY <3>2, <3>3
  <2> QED
    BY <1>1, <2>1 DEF HeldIsCurrent
<1>14. HistoryKept'
  <2>1. ASSUME task # "sticker" PROVE other.held.writes = written[d]
    BY <1>1, <2>1 DEF StartupInv, HeldIsCurrent
  <2> QED
    BY <1>1, <1>7, <1>8, <1>9, <2>1 DEF StartupInv, HistoryKept
<1>15. \A e \in Docs : doc'[e].old => doc[e].old \/ e \in late'
  <2>1. doc'[d].old => d \in late'
    BY <1>7, <1>8, <1>10
  <2> QED
    BY <1>8, <2>1
<1>16. \A e \in Docs : doc'[e].old => doc'[e].exists
  BY <1>7, <1>8 DEF StartupInv, Swept
<1>17. Swept' /\ MarkerIsTrue'
  BY <1>1, <1>10, <1>15, <1>16 DEF StartupInv, Swept, MarkerIsTrue
<1> QED
  BY <1>11, <1>12, <1>13, <1>14, <1>17 DEF StartupInv

LEMMA ReadDocKeepsInv == StartupInv /\ ReadDoc => StartupInv'
<1> SUFFICES ASSUME StartupInv, ReadDoc PROVE StartupInv'
  OBVIOUS
<1>1. start \in Starts /\ start.at = "read" /\ start.key \in start.left /\ start.key \in Docs
  BY DEF ReadDoc, StartupInv, Underway, StartupTypeOK, Starts, StartStages
<1>2. UNCHANGED <<task, doc, marker, other, written, late>> /\ faults' \in 0..MaxFaults
  BY DEF ReadDoc, outside, StartupInv, StartupTypeOK
<1>3. doc[start.key] \in StoredDoc
  BY <1>1 DEF StartupInv, StartupTypeOK
<1>4. CASE doc[start.key].old /\ start' = [start EXCEPT !.at = "write", !.held = doc[start.key]]
  <2>1. start' = StartRec("write", start.left, start.key, doc[start.key], start.tries, start.n)
    <3>1. start' = [[start EXCEPT !.at = "write"] EXCEPT !.held = doc[start.key]]
      BY <1>4
    <3> QED
      BY <1>1, <3>1, AtSet DEF StartRec
  <2>2. /\ start' \in Starts /\ start'.at = "write" /\ start'.left = start.left /\ start'.key = start.key
        /\ start'.held = doc[start.key] /\ start'.tries = start.tries
    BY <1>1, <1>3, <2>1 DEF Starts, StartStages, StartRec
  <2> QED
    BY <1>1, <1>2, <2>2, StartMoves DEF StartupInv, Underway, Swept
<1>5. CASE ~doc[start.key].old /\ DocHandled(IF task = "stats" THEN 1 ELSE 0)
  <2>1. PICK m \in {0, 1} : DocHandled(m)
    BY <1>5
  <2>2. start' = StartRec("next", start.left \ {start.key}, NoKey, Gone, 0, start.n + m)
    BY <1>1, <2>1, DocHandledSets
  <2>3. start.n + m \in Nat /\ 0 \in 0..ConflictRetries
    BY <1>1, StartupAssumption DEF Starts
  <2>4. start' \in Starts /\ start'.at = "next" /\ start'.left = start.left \ {start.key}
    BY <1>1, <2>2, <2>3, GoneStored DEF Starts, StartStages, StartRec
  <2> QED
    BY <1>1, <1>2, <1>5, <2>4, StartMoves DEF StartupInv, Swept
<1>6. CASE start' = StartDown
  BY <1>2, <1>6, DownIsStart, StartMoves
<1> QED
  BY <1>4, <1>5, <1>6 DEF ReadDoc

\* What the start knows when it writes with the version it read.
LEMMA WriteIsOfTheRead ==
  ASSUME StartupInv, start.at = "write", doc[start.key].version = start.held.version
  PROVE  /\ start \in Starts /\ start.key \in Docs /\ start.held = doc[start.key] /\ task # "sticker"
         /\ Renewed(start.held) \in StoredDoc /\ ~Renewed(start.held).old
         /\ Renewed(start.held).version > doc[start.key].version
         /\ Renewed(start.held).writes = doc[start.key].writes
         /\ doc[start.key].writes \in 0..MaxWrites
<1>1. /\ start \in Starts /\ start.key \in Docs /\ start.held = doc[start.key] /\ task # "sticker"
      /\ start.held \in StoredDoc
  BY DEF StartupInv, Underway, HeldIsCurrent, Current, StartupTypeOK, Starts, StartStages
<1>2. start.held.version \in Nat /\ start.held.writes \in 0..MaxWrites
  BY <1>1 DEF StoredDoc
<1> QED
  BY <1>1, <1>2, RenewedSets

LEMMA WriteDocKeepsInv == StartupInv /\ WriteDoc => StartupInv'
<1> SUFFICES ASSUME StartupInv, WriteDoc PROVE StartupInv'
  OBVIOUS
<1>1. start \in Starts /\ start.at = "write" /\ start.key \in start.left /\ start.tries < ConflictRetries
  BY DEF WriteDoc, StartupInv, Underway, StartupTypeOK, Starts, StartStages
<1>2. UNCHANGED <<task, marker, other, written, late>> /\ faults' \in 0..MaxFaults
  BY DEF WriteDoc, outside, StartupInv, StartupTypeOK
<1>3. CASE doc[start.key].version = start.held.version
  <2>1. doc' = [doc EXCEPT ![start.key] = Renewed(start.held)] /\ DocHandled(1)
    BY <1>3 DEF WriteDoc
  <2>2. start' = StartRec("next", start.left \ {start.key}, NoKey, Gone, 0, start.n + 1)
    BY <1>1, <2>1, DocHandledSets
  <2>3. start.n + 1 \in Nat /\ 0 \in 0..ConflictRetries
    BY <1>1, StartupAssumption DEF Starts
  <2>4. start' \in Starts /\ start'.at = "next" /\ start'.left = start.left \ {start.key}
    BY <1>1, <2>2, <2>3, GoneStored DEF Starts, StartStages, StartRec
  <2>5. Renewed(start.held).writes <= doc[start.key].writes
    BY <1>1, <1>3, WriteIsOfTheRead, StartupAssumption
  <2> QED
    BY <1>1, <1>2, <1>3, <2>1, <2>4, <2>5, WriteIsOfTheRead, DocWritten
<1>4. CASE doc[start.key].version # start.held.version
  <2>1. /\ start' = IF start.tries + 1 = ConflictRetries THEN StartDown
                    ELSE [start EXCEPT !.at = "read", !.tries = @ + 1]
        /\ UNCHANGED doc
    BY <1>4 DEF WriteDoc
  <2>2. CASE start' = StartDown
    BY <1>2, <2>1, <2>2, DownIsStart, StartMoves
  <2>3. CASE start' = [start EXCEPT !.at = "read", !.tries = @ + 1] /\ start.tries + 1 # ConflictRetries
    <3>1. start' = StartRec("read", start.left, start.key, start.held, start.tries + 1, start.n)
      <4>1. start' = [[start EXCEPT !.at = "read"] EXCEPT !.tries = start.tries + 1]
        BY <2>3
      <4> QED
        BY <1>1, <4>1, AtSet DEF StartRec
    <3>2. start.tries + 1 \in 0..ConflictRetries /\ start.tries + 1 < ConflictRetries
      BY <1>1, <2>3, StartupAssumption DEF Starts
    <3>3. /\ start' \in Starts /\ start'.at = "read" /\ start'.left = start.left /\ start'.key = start.key
          /\ start'.tries < ConflictRetries
      BY <1>1, <3>1, <3>2 DEF Starts, StartStages, StartRec
    <3> QED
      BY <1>1, <1>2, <2>1, <3>3, StartMoves DEF StartupInv, Underway, Swept
  <2> QED
    BY <2>1, <2>2, <2>3
<1> QED
  BY <1>3, <1>4

LEMMA SweepKeepsInv ==
  ASSUME StartupInv, NEW d \in Docs, Sweep(d)
  PROVE  StartupInv'
<1> DEFINE row == IF task = "sticker" THEN Gone ELSE IF doc[d].old THEN Renewed(doc[d]) ELSE doc[d]
<1>1. /\ start \in Starts /\ start.at = "next" /\ doc[d] \in StoredDoc
  BY DEF Sweep, StartupInv, StartupTypeOK, Starts, StartStages
<1>2. UNCHANGED <<task, marker, other, written, late>> /\ faults' \in 0..MaxFaults
  BY DEF Sweep, outside, StartupInv, StartupTypeOK
<1>3. doc' = [doc EXCEPT ![d] = row]
  BY DEF Sweep
<1>4. start' = StartRec("next", start.left \ {d}, start.key, start.held, start.tries, start.n + 1)
  <2>1. start' = [[start EXCEPT !.left = start.left \ {d}] EXCEPT !.n = start.n + 1]
    BY DEF Sweep
  <2> QED
    BY <1>1, <2>1 DEF Starts, StartRec
<1>5. start' \in Starts /\ start'.at = "next" /\ start'.left = start.left \ {d}
  <2>1. start.n + 1 \in Nat
    BY <1>1 DEF Starts
  <2> QED
    BY <1>1, <1>4, <2>1 DEF Starts, StartStages, StartRec
<1>6. doc[d].version \in Nat /\ doc[d].writes \in 0..MaxWrites
  BY <1>1 DEF StoredDoc
<1>7. /\ row \in StoredDoc /\ ~row.old /\ row.writes <= doc[d].writes
      /\ task # "sticker" => (row = doc[d] \/ row.version > doc[d].version) /\ row.writes = doc[d].writes
  BY <1>1, <1>6, GoneStored, RenewedSets, StartupAssumption
<1> HIDE DEF row
<1> QED
  BY <1>1, <1>2, <1>3, <1>5, <1>7, DocWritten

LEMMA LostReplyKeepsInv == StartupInv /\ StartReplyLost => StartupInv'
<1> SUFFICES ASSUME StartupInv, StartReplyLost PROVE StartupInv'
  OBVIOUS
<1>1. faults' \in 0..MaxFaults /\ start' = StartDown /\ UNCHANGED <<task, other, written, late>>
  <2>1. faults \in 0..MaxFaults /\ faults < MaxFaults /\ faults' = faults + 1
    BY DEF StartReplyLost, StartupInv, StartupTypeOK
  <2>2. faults' \in 0..MaxFaults
    BY <2>1, StartupAssumption
  <2> QED
    BY <2>2 DEF StartReplyLost
<1>2. CASE /\ start.at = "write" /\ doc[start.key].version = start.held.version
           /\ doc' = [doc EXCEPT ![start.key] = Renewed(start.held)] /\ UNCHANGED marker
  <2>1. Renewed(start.held).writes <= doc[start.key].writes
    BY <1>2, WriteIsOfTheRead, StartupAssumption
  <2> QED
    BY <1>1, <1>2, <2>1, WriteIsOfTheRead, DownIsStart, DocWritten
<1>3. CASE start.at = "next" /\ start.left = {} /\ marker' = Completed /\ UNCHANGED doc
  BY <1>1, <1>3, DownIsStart, MarkerWritten
<1> QED
  BY <1>2, <1>3 DEF StartReplyLost

LEMMA StartupNextInv == StartupInv /\ [StartupNext]_startupVars => StartupInv'
<1> SUFFICES ASSUME StartupInv, [StartupNext]_startupVars PROVE StartupInv'
  OBVIOUS
<1>1. faults \in 0..MaxFaults /\ start \in Starts
  BY DEF StartupInv, StartupTypeOK, Starts, StartStages
<1>2. CASE StartProcess
  <2>1. start' \in Starts /\ start'.at = "marker"
    BY <1>2, DownIsStart DEF StartProcess, Starts, StartStages
  <2> QED
    BY <1>1, <1>2, <2>1, StartMoves DEF StartProcess, outside
<1>3. CASE ReadMarker
  <2>1. PICK at \in {"up", "list"} :
          /\ start' = [start EXCEPT !.at = at]
          /\ at = IF marker.completed /\ task \in {"stock", "sticker"} THEN "up" ELSE "list"
    BY <1>3 DEF ReadMarker
  <2>2. start' \in Starts /\ start'.at = at
    BY <1>1, <2>1 DEF Starts, StartStages
  <2>3. marker.completed /\ task \in {"stock", "sticker"} => \A d \in Docs : doc[d].old => d \in late
    BY DEF StartupInv, MarkerIsTrue
  <2> QED
    BY <1>1, <1>3, <2>1, <2>2, <2>3, StartMoves DEF ReadMarker, outside
<1>4. ASSUME NEW d \in Docs, Visit(d) PROVE StartupInv'
  <2>1. start' = StartRec("read", start.left, d, start.held, 0, start.n)
    BY <1>1, <1>4, VisitSets DEF Visit
  <2>2. 0 \in 0..ConflictRetries /\ 0 < ConflictRetries
    BY StartupAssumption
  <2>3. start' \in Starts /\ start'.at = "read" /\ start'.left = start.left /\ start'.key = d /\ start'.tries = 0
    BY <1>1, <2>1, <2>2 DEF Starts, StartStages, StartRec
  <2> QED
    BY <1>1, <1>4, <2>2, <2>3, StartMoves DEF Visit, outside, StartupInv, Swept
<1>5. CASE FinishTask
  <2>1. start' \in Starts /\ start'.at = "up"
    BY <1>5, DownIsStart DEF FinishTask, Starts, StartStages
  <2> QED
    BY <1>1, <1>5, <2>1, MarkerWritten DEF FinishTask, outside
<1>6. CASE StartFails
  <2>1. faults' \in 0..MaxFaults
    BY <1>1, <1>6, StartupAssumption DEF StartFails
  <2> QED
    BY <1>6, <2>1, DownIsStart, StartMoves DEF StartFails
<1>7. CASE UNCHANGED startupVars
  <2>1. UNCHANGED <<task, doc, marker, start, other, faults, written, late>>
    BY <1>7 DEF startupVars
  <2>2. StartupTypeOK'
    BY <2>1 DEF StartupInv, StartupTypeOK
  <2>3. Underway' /\ HeldIsCurrent'
    BY <2>1 DEF StartupInv, Underway, HeldIsCurrent, Current
  <2>4. Swept' /\ HistoryKept' /\ MarkerIsTrue'
    BY <2>1 DEF StartupInv, Swept, HistoryKept, MarkerIsTrue
  <2> QED
    BY <2>2, <2>3, <2>4 DEF StartupInv
<1>8. CASE StartStep
  <2>1. CASE \E d \in Docs : Visit(d) \/ Sweep(d)
    BY <1>4, <2>1, SweepKeepsInv
  <2> QED
    BY <1>2, <1>3, <1>5, <1>8, <2>1, ListKeepsInv, ReadDocKeepsInv, WriteDocKeepsInv DEF StartStep
<1>9. CASE \E d \in Docs, old \in BOOLEAN : OtherReads(d, old)
  BY <1>9, OtherReadsKeepsInv
<1> QED
  BY <1>6, <1>7, <1>8, <1>9, LostReplyKeepsInv, OtherWritesKeepsInv DEF StartupNext

\* The inductive invariant: a start that may still write holds the stored
\* document, and what is old is listed.
THEOREM StartupInvCorrect == StartupSpec => []StartupInv
BY StartupInitInv, StartupNextInv, PTL DEF StartupSpec

\* Every variable keeps its type.
THEOREM StartupTypeCorrect == StartupSpec => []StartupTypeOK
BY StartupInvCorrect, PTL DEF StartupInv

\* A startup task loses no write of the process that runs beside it (stock
\* startup.go:93, PutVersioned in the migration and in the removal of rows).
THEOREM HistoryKeptCorrect == StartupSpec => []HistoryKept
BY StartupInvCorrect, PTL DEF StartupInv

\* A start that is through, or a marker, leaves nothing in the old form but what
\* an older build wrote since.
THEOREM MarkerIsTrueCorrect == StartupSpec => []MarkerIsTrue
BY StartupInvCorrect, PTL DEF StartupInv
=============================================================================
