--------------------------- MODULE DocStoreProofs ---------------------------
(* What DocStore guarantees for every set of clients, value and bound. *)
EXTENDS DocStore, TLAPS

\* Every reachable state has the declared types.
THEOREM TypeCorrect == Spec => []TypeOK
<1> USE DocAssumption
<1>1. Init => TypeOK
  BY DEF Init, TypeOK, Row, Places, Results, NoVersion
<1>2. TypeOK /\ [Next]_vars => TypeOK'
  <2> SUFFICES ASSUME TypeOK, [Next]_vars
               PROVE  TypeOK'
    OBVIOUS
  <2> USE DEF TypeOK, Row, Places, Results, NoVersion
  <2>1. ASSUME NEW c \in Clients, Get(c)
        PROVE  TypeOK'
    BY <2>1 DEF Get, Read
  <2>2. ASSUME NEW c \in Clients, NEW v \in Values, StartPut(c, v)
        PROVE  TypeOK'
    BY <2>2 DEF StartPut, Begin
  <2>3. ASSUME NEW c \in Clients, NEW v \in Values, StartPutVersioned(c, v)
        PROVE  TypeOK'
    BY <2>3 DEF StartPutVersioned, Begin
  <2>4. ASSUME NEW c \in Clients, PutRead(c)
        PROVE  TypeOK'
    BY <2>4 DEF PutRead, Read
  <2>5. ASSUME NEW c \in Clients, Replace(c)
        PROVE  TypeOK'
    BY <2>5 DEF Replace, Apply, Return, Replacement, Kind
  <2>6. ASSUME NEW c \in Clients, ReplaceUnacknowledged(c)
        PROVE  TypeOK'
    BY <2>6 DEF ReplaceUnacknowledged, Apply, Return, Replacement, Kind
  <2>7. ASSUME NEW c \in Clients, PutVersionedConflict(c)
        PROVE  TypeOK'
    BY <2>7 DEF PutVersionedConflict, Return
  <2>8. ASSUME NEW c \in Clients, PutConflict(c)
        PROVE  TypeOK'
    BY <2>8 DEF PutConflict, Return
  <2>9. ASSUME NEW c \in Clients, CallFails(c)
        PROVE  TypeOK'
    BY <2>9 DEF CallFails, Return
  <2>10. ASSUME NEW c \in Clients, Delete(c)
         PROVE  TypeOK'
    BY <2>10 DEF Delete
  <2>11. CASE UNCHANGED vars
    BY <2>11 DEF vars
  <2> QED
    BY <2>1, <2>2, <2>3, <2>4, <2>5, <2>6, <2>7, <2>8, <2>9, <2>10, <2>11
    DEF Next
<1> QED
  BY <1>1, <1>2, PTL DEF Spec

-----------------------------------------------------------------------------
\* A running call has had no effect, so its one successful replacement is its
\* only effect: the retry loop of Put never overwrites twice.
LEMMA RunningInvariant == Spec => []RunningHasNoEffect
<1> USE DocAssumption
<1>1. Init => RunningHasNoEffect
  BY DEF Init, RunningHasNoEffect
<1>2. TypeOK /\ RunningHasNoEffect /\ [Next]_vars => RunningHasNoEffect'
  <2> SUFFICES ASSUME TypeOK, RunningHasNoEffect, [Next]_vars
               PROVE  RunningHasNoEffect'
    OBVIOUS
  <2> USE DEF TypeOK, RunningHasNoEffect
  <2>1. ASSUME NEW c \in Clients, Get(c) \/ PutRead(c) \/ Delete(c)
        PROVE  RunningHasNoEffect'
    BY <2>1 DEF Get, PutRead, Delete
  <2>2. ASSUME NEW c \in Clients, NEW v \in Values,
               StartPut(c, v) \/ StartPutVersioned(c, v)
        PROVE  RunningHasNoEffect'
    BY <2>2 DEF StartPut, StartPutVersioned, Begin
  <2>3. ASSUME NEW c \in Clients, Replace(c) \/ ReplaceUnacknowledged(c)
        PROVE  RunningHasNoEffect'
    BY <2>3 DEF Replace, ReplaceUnacknowledged, Apply, Return
  <2>4. ASSUME NEW c \in Clients,
               PutVersionedConflict(c) \/ PutConflict(c) \/ CallFails(c)
        PROVE  RunningHasNoEffect'
    BY <2>4 DEF PutVersionedConflict, PutConflict, CallFails, Return
  <2>5. CASE UNCHANGED vars
    BY <2>5 DEF vars
  <2> QED
    BY <2>1, <2>2, <2>3, <2>4, <2>5 DEF Next
<1> QED
  BY <1>1, <1>2, TypeCorrect, PTL DEF Spec

\* WriteOutcome, the invariant TLC checks, for every number of clients and of
\* attempts: an acknowledged write took effect once, a refused one never.
THEOREM WriteOutcomeCorrect == Spec => []WriteOutcome
<1>1. Init => WriteOutcome
  <2> SUFFICES ASSUME Init, NEW c \in Clients
               PROVE  /\ applied[c] <= 1
                      /\ result[c] = "ok" => applied[c] = 1
                      /\ result[c] = "conflict" => applied[c] = 0
    BY Zenon DEF WriteOutcome
  <2>1. applied[c] = 0 /\ result[c] = "none"
    BY DEF Init
  <2> QED
    BY <2>1
<1>2. TypeOK /\ RunningHasNoEffect /\ WriteOutcome /\ [Next]_vars => WriteOutcome'
  <2> SUFFICES ASSUME TypeOK, RunningHasNoEffect, WriteOutcome, [Next]_vars
               PROVE  WriteOutcome'
    OBVIOUS
  <2> USE DEF TypeOK, RunningHasNoEffect, WriteOutcome
  <2>1. ASSUME NEW c \in Clients, Get(c) \/ PutRead(c) \/ Delete(c)
        PROVE  WriteOutcome'
    BY <2>1 DEF Get, PutRead, Delete
  <2>2. ASSUME NEW c \in Clients, NEW v \in Values,
               StartPut(c, v) \/ StartPutVersioned(c, v)
        PROVE  WriteOutcome'
    BY <2>2 DEF StartPut, StartPutVersioned, Begin
  <2>3. ASSUME NEW c \in Clients, Replace(c) \/ ReplaceUnacknowledged(c)
        PROVE  WriteOutcome'
    BY <2>3 DEF Replace, ReplaceUnacknowledged, Apply, Return
  <2>4. ASSUME NEW c \in Clients,
               PutVersionedConflict(c) \/ PutConflict(c) \/ CallFails(c)
        PROVE  WriteOutcome'
    BY <2>4 DEF PutVersionedConflict, PutConflict, CallFails, Return
  <2>5. CASE UNCHANGED vars
    BY <2>5 DEF vars
  <2> QED
    BY <2>1, <2>2, <2>3, <2>4, <2>5 DEF Next
<1> QED
  BY <1>1, <1>2, TypeCorrect, RunningInvariant, PTL DEF Spec

-----------------------------------------------------------------------------
\* A held version that matches the stored one belongs to a read that is still
\* current, unless the document was deleted after that read.
LEMMA VersionInvariant == Spec => []VersionIdentifiesRead
<1>1. Init => VersionIdentifiesRead
  <2> SUFFICES ASSUME Init, NEW c \in Clients
               PROVE  /\ seen[c] <= row.ver
                      /\ seen[c] = row.ver => c \in fresh
    BY Zenon DEF VersionIdentifiesRead
  <2>1. row.ver = 0 /\ seen[c] = -1
    BY DEF Init, NoVersion
  <2> QED
    BY <2>1
<1>2. TypeOK /\ VersionIdentifiesRead /\ [Next]_vars => VersionIdentifiesRead'
  <2> SUFFICES ASSUME TypeOK, VersionIdentifiesRead, [Next]_vars
               PROVE  VersionIdentifiesRead'
    OBVIOUS
  <2> USE DEF TypeOK, VersionIdentifiesRead, Row, NoVersion
  <2>1. ASSUME NEW c \in Clients, Get(c) \/ PutRead(c)
        PROVE  VersionIdentifiesRead'
    BY <2>1 DEF Get, PutRead, Read
  <2>2. ASSUME NEW c \in Clients, NEW v \in Values,
               StartPut(c, v) \/ StartPutVersioned(c, v)
        PROVE  VersionIdentifiesRead'
    BY <2>2 DEF StartPut, StartPutVersioned, Begin
  <2>3. ASSUME NEW c \in Clients, Replace(c) \/ ReplaceUnacknowledged(c)
        PROVE  VersionIdentifiesRead'
    BY <2>3 DEF Replace, ReplaceUnacknowledged, Apply, Replacement
  <2>4. ASSUME NEW c \in Clients,
               PutVersionedConflict(c) \/ PutConflict(c) \/ CallFails(c)
        PROVE  VersionIdentifiesRead'
    BY <2>4 DEF PutVersionedConflict, PutConflict, CallFails
  <2>5. ASSUME NEW c \in Clients, Delete(c)
        PROVE  VersionIdentifiesRead'
    BY <2>5 DEF Delete
  <2>6. CASE UNCHANGED vars
    BY <2>6 DEF vars
  <2> QED
    BY <2>1, <2>2, <2>3, <2>4, <2>5, <2>6 DEF Next
<1> QED
  BY <1>1, <1>2, TypeCorrect, PTL DEF Spec

\* Every step is a step of VersionedDoc or leaves it alone: until a deletion,
\* comparing version numbers is as good as comparing documents.
THEOREM ImplementsVersionedDoc == Spec => VersionedDocSpec
<1>1. Init => Promise!Init
  BY DEF Init, Promise!Init
<1>2. TypeOK /\ RunningHasNoEffect /\ VersionIdentifiesRead /\ [Next]_vars
        => [Promise!Next]_(Promise!vars)
  <2> SUFFICES ASSUME TypeOK, RunningHasNoEffect, VersionIdentifiesRead,
                      [Next]_vars
               PROVE  [Promise!Next]_(Promise!vars)
    OBVIOUS
  <2> USE DEF TypeOK, Row, Promise!vars
  <2>1. ASSUME NEW c \in Clients, Get(c) \/ PutRead(c)
        PROVE  Promise!Next
    BY <2>1 DEF Get, PutRead, Read, Promise!Next, Promise!Get
  <2>2. ASSUME NEW c \in Clients, Replace(c) \/ ReplaceUnacknowledged(c)
        PROVE  [Promise!Next]_(Promise!vars)
    <3>1. arg[c] \in Values
      BY <2>2 DEF Replace, ReplaceUnacknowledged, RunningHasNoEffect
    <3>2. Promise!Write(c, arg[c]) /\ last' = <<Kind(c), c>> /\ UNCHANGED deleted
      BY <2>2 DEF Replace, ReplaceUnacknowledged, Apply, Replacement, Promise!Write
    <3>3. CASE pc[c] = "swap"
      <4>1. c \in fresh \cup deleted
        BY <2>2, <3>3 DEF Replace, ReplaceUnacknowledged, Matches, VersionIdentifiesRead
      <4> QED
        BY <3>1, <3>2, <3>3, <4>1 DEF Kind, Promise!Next, Promise!PutVersioned
    <3>4. CASE pc[c] # "swap"
      BY <3>1, <3>2, <3>4 DEF Kind, Promise!Next, Promise!Put
    <3> QED
      BY <3>3, <3>4
  <2>3. ASSUME NEW c \in Clients, NEW v \in Values,
               StartPut(c, v) \/ StartPutVersioned(c, v)
        PROVE  UNCHANGED Promise!vars
    BY <2>3 DEF StartPut, StartPutVersioned, Begin
  <2>4. ASSUME NEW c \in Clients,
               PutVersionedConflict(c) \/ PutConflict(c) \/ CallFails(c)
        PROVE  UNCHANGED Promise!vars
    BY <2>4 DEF PutVersionedConflict, PutConflict, CallFails
  <2>5. ASSUME NEW c \in Clients, Delete(c)
        PROVE  Promise!Next
    BY <2>5 DEF Delete, Promise!Next, Promise!Delete, Promise!Write
  <2>6. CASE UNCHANGED vars
    BY <2>6 DEF vars
  <2> QED
    BY <2>1, <2>2, <2>3, <2>4, <2>5, <2>6 DEF Next
<1> QED
  BY <1>1, <1>2, TypeCorrect, RunningInvariant, VersionInvariant, PTL
  DEF Spec, VersionedDocSpec, Promise!Spec

\* The same fact as an action property: a versioned write that takes effect was
\* made by a client whose read was current, or of a document deleted since.
THEOREM SwapOnlyIfUnchangedCorrect == Spec => SwapOnlyIfUnchanged
<1> DEFINE Exact == \A c \in Clients :
                      (pc[c] = "swap" /\ applied'[c] = applied[c] + 1)
                        => c \in fresh \cup deleted
<1>1. TypeOK /\ VersionIdentifiesRead /\ [Next]_vars => [Exact]_vars
  <2> SUFFICES ASSUME TypeOK, VersionIdentifiesRead, Next,
                      NEW c \in Clients, pc[c] = "swap", applied'[c] = applied[c] + 1
               PROVE  c \in fresh \cup deleted
    BY DEF Exact
  <2> USE DEF TypeOK
  <2>1. PICK d \in Clients :
          \/ Get(d) \/ PutRead(d) \/ Delete(d)
          \/ \E v \in Values : StartPut(d, v) \/ StartPutVersioned(d, v)
          \/ Replace(d) \/ ReplaceUnacknowledged(d)
          \/ PutVersionedConflict(d) \/ PutConflict(d) \/ CallFails(d)
    BY DEF Next
  <2>2. CASE Replace(d) \/ ReplaceUnacknowledged(d)
    <3>1. c = d
      BY <2>2 DEF Replace, ReplaceUnacknowledged, Apply
    <3> QED
      BY <2>2, <3>1 DEF Replace, ReplaceUnacknowledged, Matches, VersionIdentifiesRead
  <2>3. CASE \E v \in Values : StartPut(d, v) \/ StartPutVersioned(d, v)
    BY <2>3 DEF StartPut, StartPutVersioned, Begin
  <2>4. CASE Get(d) \/ PutRead(d) \/ Delete(d)
    BY <2>4 DEF Get, PutRead, Delete
  <2>5. CASE PutVersionedConflict(d) \/ PutConflict(d) \/ CallFails(d)
    BY <2>5 DEF PutVersionedConflict, PutConflict, CallFails
  <2> QED
    BY <2>1, <2>2, <2>3, <2>4, <2>5
<1> QED
  BY <1>1, TypeCorrect, VersionInvariant, PTL DEF Spec, SwapOnlyIfUnchanged
=============================================================================
