-------------------------- MODULE UsageStatsProofs --------------------------
(***************************************************************************)
(* Usernames and counts in the usage rows, for any number of hooks, users  *)
(* and commands: for hooks that overlap as long as none fails half-way,    *)
(* and for hooks that fail as long as they do not overlap.                 *)
(***************************************************************************)
EXTENDS UsageStats, TLAPS

-----------------------------------------------------------------------------
(* Types *)

\* The rows, hooks and histories keep their types.
LEMMA TypeStep == TypeOK /\ [Next]_vars => TypeOK'
<1> SUFFICES ASSUME TypeOK, [Next]_vars PROVE TypeOK'
  OBVIOUS
<1> USE DEF TypeOK
<1>n. NoName \in Names \cup {NoName}
  OBVIOUS
<1>h. ASSUME NEW h \in Hooks, hook[h] # NoHook
      PROVE  /\ hook[h] \in Running /\ User(h) \in Users \cup {Anonymous}
             /\ hook[h].key \in Keys /\ hook[h].name \in Names \cup {NoName}
             /\ hook[h].todo \in SUBSET Keys
             /\ User(h) = Anonymous \/ {User(h)} \cap Users = {User(h)}
  <2>1. hook[h] \in Running
    BY <1>h
  <2>2. hook[h].key \in Keys
    BY <2>1 DEF Running
  <2> QED BY <2>1, <2>2 DEF Running, User, Keys
<1>w. ASSUME NEW h \in Hooks, NEW new \in Running \cup {NoHook},
             hook' = [hook EXCEPT ![h] = new]
      PROVE  hook' \in [Hooks -> Running \cup {NoHook}]
  BY <1>w
<1>r. ASSUME NEW r \in Row, NEW name \in Names \cup {NoName}
      PROVE  Named(r, name) \in Row /\ Counted(r, name) \in Row
  BY DEF Row, Named, Counted
<1>1. ASSUME NEW u \in Users, NEW name \in Names \cup {NoName}, ChangeUsername(u, name)
      PROVE  TypeOK'
  BY <1>1 DEF ChangeUsername
<1>2. ASSUME NEW h \in Hooks, NEW u \in Users, NEW cmd \in Cmds, RunCommandHooks(h, u, cmd)
      PROVE  TypeOK'
  <2> DEFINE name == handle[u]
             key == <<cmd, IF name = NoName THEN Anonymous ELSE u>>
             new == [at |-> "count", key |-> key, name |-> name, todo |-> {}]
             now == IF name = NoName THEN latest
                    ELSE [v \in Users |-> IF v = u THEN name
                                          ELSE IF latest[v] = name THEN NoName
                                          ELSE latest[v]]
  <2>1. name \in Names \cup {NoName} /\ key \in Keys
    BY DEF Keys
  <2>2. new \in Running
    BY <2>1 DEF Running
  <2>3. now \in [Users -> Names \cup {NoName}]
    BY <2>1
  <2>4. /\ hook' = [hook EXCEPT ![h] = new] /\ latest' = now
        /\ invoked' = [invoked EXCEPT ![key] = @ + 1]
        /\ failed' \subseteq failed /\ UNCHANGED <<backend, rows, handle>>
        /\ disturbed' \subseteq {"overlap", "fail"}
    BY <1>2 DEF RunCommandHooks
  <2> HIDE DEF new, now, key, name
  <2>5. hook' \in [Hooks -> Running \cup {NoHook}]
    BY <1>w, <2>2, <2>4
  <2> QED BY <2>1, <2>3, <2>4, <2>5
<1>3. ASSUME NEW h \in Hooks, DocIncrement(h) PROVE TypeOK'
  <2>1. hook[h] # NoHook
    BY <1>3 DEF DocIncrement, NoHook
  <2>2. ASSUME NEW k \in Keys PROVE Refreshed(h, k) \in Row
    BY <1>h, <1>r, <1>n, <2>1 DEF Refreshed
  <2>3. rows' \in [Keys -> Row]
    BY <1>3, <1>h, <1>r, <2>1, <2>2 DEF DocIncrement
  <2>4. hook' \in [Hooks -> Running \cup {NoHook}]
    BY <1>3, <1>w DEF DocIncrement
  <2> QED BY <1>3, <2>3, <2>4 DEF DocIncrement
<1>4. ASSUME NEW h \in Hooks, Count(h) PROVE TypeOK'
  <2> DEFINE new == IF User(h) = Anonymous THEN NoHook
                    ELSE [hook[h] EXCEPT !.at = "rename",
                                         !.todo = {k \in Keys : k[2] = User(h)}]
  <2>1. hook[h] # NoHook
    BY <1>4 DEF Count, NoHook
  <2>2. new \in Running \cup {NoHook}
    BY <1>h, <2>1 DEF Running
  <2>3. /\ hook' = [hook EXCEPT ![h] = new]
        /\ rows' = [rows EXCEPT ![hook[h].key] = Counted(rows[hook[h].key], hook[h].name)]
        /\ UNCHANGED <<backend, handle, invoked, latest, failed, disturbed>>
    BY <1>4 DEF Count
  <2> HIDE DEF new
  <2> QED BY <1>h, <1>r, <1>w, <2>1, <2>2, <2>3
<1>5. ASSUME NEW h \in Hooks, NEW k \in Keys, Rename(h, k) \/ Evict(h, k) PROVE TypeOK'
  <2>1. hook[h] # NoHook
    BY <1>5 DEF Rename, Evict, NoHook
  <2> DEFINE new == [hook[h] EXCEPT !.todo = @ \ {k}]
  <2>2. new \in Running
    BY <1>h, <2>1 DEF Running
  <2>3. PICK row \in {rows[k], Named(rows[k], hook[h].name), Named(rows[k], NoName)} :
          Visit(h, k, row)
    BY <1>5 DEF Rename, Evict
  <2>4. row \in Row
    BY <1>h, <1>n, <1>r, <2>1, <2>3
  <2>5. /\ hook' = [hook EXCEPT ![h] = new] /\ rows' = [rows EXCEPT ![k] = row]
        /\ UNCHANGED <<backend, handle, invoked, latest, failed, disturbed>>
    BY <2>3 DEF Visit
  <2> HIDE DEF new
  <2> QED BY <1>w, <2>2, <2>4, <2>5
<1>6. ASSUME NEW h \in Hooks, StartEvict(h) PROVE TypeOK'
  <2> DEFINE new == [hook[h] EXCEPT !.at = "evict",
                                    !.todo = {k \in Keys : k[2] \notin {User(h), Anonymous}}]
  <2>1. hook[h] # NoHook
    BY <1>6 DEF StartEvict, NoHook
  <2>2. new \in Running
    BY <1>h, <2>1 DEF Running
  <2>3. hook' = [hook EXCEPT ![h] = new] /\ UNCHANGED <<backend, rows, handle, invoked, latest, failed, disturbed>>
    BY <1>6, <2>1, <2>2 DEF StartEvict, Running
  <2> HIDE DEF new
  <2> QED BY <1>w, <2>2, <2>3
<1>7. ASSUME NEW h \in Hooks, Finish(h) \/ Fail(h) PROVE TypeOK'
  <2>1. /\ hook' = [hook EXCEPT ![h] = NoHook] /\ failed' \subseteq Users
        /\ disturbed' \subseteq {"overlap", "fail"}
        /\ UNCHANGED <<backend, rows, handle, invoked, latest>>
    BY <1>7 DEF Finish, Fail, EndHook
  <2> QED BY <1>w, <2>1
<1>8. CASE UNCHANGED vars
  BY <1>8 DEF vars
<1> QED
  BY <1>1, <1>2, <1>3, <1>4, <1>5, <1>6, <1>7, <1>8 DEF Next, HookStep

\* The rows, hooks and histories always have their types.
THEOREM TypeCorrect == Spec => []TypeOK
<1>1. Init => TypeOK
  BY DEF Init, TypeOK, NoRow, Row
<1> QED BY <1>1, TypeStep, PTL DEF Spec

-----------------------------------------------------------------------------
(* Usernames *)

\* A hook with a user to name has a username; in memory a hook does all in one step.
HookShape ==
  \A h \in Hooks : hook[h] # NoHook =>
    /\ hook[h].at \in {"count", "rename", "evict"}
    /\ hook[h].key \in Keys
    /\ hook[h].name \in Names \cup {NoName}
    /\ User(h) = Anonymous <=> hook[h].name = NoName
    /\ hook[h].at # "count" => User(h) # Anonymous /\ backend = "mongo"

\* A hook that is started, moves on or ends keeps the shape of all.
LEMMA ShapeBy ==
  ASSUME TypeOK, HookShape, UNCHANGED backend,
         NEW h \in Hooks, NEW new, hook' = [hook EXCEPT ![h] = new],
         new # NoHook =>
           /\ new.at \in {"count", "rename", "evict"}
           /\ new.key \in Keys
           /\ new.name \in Names \cup {NoName}
           /\ new.key[2] = Anonymous <=> new.name = NoName
           /\ new.at # "count" => new.key[2] # Anonymous /\ backend = "mongo"
  PROVE  HookShape'
<1>1. hook'[h] = new /\ \A g \in Hooks : g # h => hook'[g] = hook[g]
  BY DEF TypeOK
<1> QED BY <1>1 DEF HookShape, User

\* Every step keeps the shape of the hooks.
LEMMA ShapeStep == TypeOK /\ HookShape /\ [Next]_vars => HookShape'
<1> SUFFICES ASSUME TypeOK, HookShape, [Next]_vars PROVE HookShape'
  OBVIOUS
<1>b. UNCHANGED backend
  <2>1. ASSUME NEW h \in Hooks, HookStep(h) PROVE UNCHANGED backend
    BY <2>1 DEF HookStep, DocIncrement, Count, StartEvict, Finish, Fail, EndHook, Rename,
                Evict, Visit
  <2> QED BY <2>1 DEF Next, ChangeUsername, RunCommandHooks, vars
<1>h. ASSUME NEW h \in Hooks, hook[h] # NoHook
      PROVE  /\ hook[h] \in Running
             /\ hook[h].key \in Keys /\ hook[h].name \in Names \cup {NoName}
             /\ User(h) = Anonymous <=> hook[h].name = NoName
  BY <1>h DEF TypeOK, HookShape
<1>1. CASE UNCHANGED hook
  BY <1>1, <1>b DEF HookShape, User
<1>2. ASSUME NEW h \in Hooks, NEW u \in Users, NEW cmd \in Cmds, RunCommandHooks(h, u, cmd)
      PROVE  HookShape'
  <2> DEFINE name == handle[u]
             key == <<cmd, IF name = NoName THEN Anonymous ELSE u>>
             new == [at |-> "count", key |-> key, name |-> name, todo |-> {}]
  <2>1. hook' = [hook EXCEPT ![h] = new]
    BY <1>2 DEF RunCommandHooks
  <2>2. /\ new.at = "count" /\ new.key \in Keys /\ new.name \in Names \cup {NoName}
        /\ new.key[2] = Anonymous <=> new.name = NoName
    BY StatsAssumption DEF Keys, TypeOK
  <2> HIDE DEF new, key, name
  <2> QED BY <2>1, <2>2, <1>b, ShapeBy
<1>3. ASSUME NEW h \in Hooks, DocIncrement(h) \/ Finish(h) \/ Fail(h) PROVE HookShape'
  <2>1. hook' = [hook EXCEPT ![h] = NoHook]
    BY <1>3 DEF DocIncrement, Finish, Fail, EndHook
  <2> QED BY <2>1, <1>b, ShapeBy
<1>4. ASSUME NEW h \in Hooks, Count(h) PROVE HookShape'
  <2> DEFINE new == IF User(h) = Anonymous THEN NoHook
                    ELSE [hook[h] EXCEPT !.at = "rename",
                                         !.todo = {k \in Keys : k[2] = User(h)}]
  <2>1. hook[h] # NoHook
    BY <1>4 DEF Count, NoHook
  <2>2. new # NoHook => /\ new.at = "rename" /\ new.key = hook[h].key
                        /\ new.name = hook[h].name /\ User(h) # Anonymous
    BY <1>h, <2>1 DEF Running
  <2>3. hook' = [hook EXCEPT ![h] = new] /\ backend = "mongo"
    BY <1>4 DEF Count
  <2> HIDE DEF new
  <2> QED BY <1>h, <2>1, <2>2, <2>3, <1>b, ShapeBy DEF User
<1>5. ASSUME NEW h \in Hooks, NEW k \in Keys, Rename(h, k) \/ Evict(h, k) PROVE HookShape'
  <2> DEFINE new == [hook[h] EXCEPT !.todo = @ \ {k}]
  <2>1. hook[h] # NoHook /\ hook[h].at \in {"rename", "evict"}
    BY <1>5 DEF Rename, Evict, NoHook
  <2>2. new.at = hook[h].at /\ new.key = hook[h].key /\ new.name = hook[h].name
    BY <1>h, <2>1 DEF Running
  <2>3. hook' = [hook EXCEPT ![h] = new]
    BY <1>5 DEF Rename, Evict, Visit
  <2> HIDE DEF new
  <2> QED BY <1>h, <2>1, <2>2, <2>3, <1>b, ShapeBy DEF User, HookShape
<1>6. ASSUME NEW h \in Hooks, StartEvict(h) PROVE HookShape'
  <2> DEFINE new == [hook[h] EXCEPT !.at = "evict",
                                    !.todo = {k \in Keys : k[2] \notin {User(h), Anonymous}}]
  <2>1. hook[h] # NoHook /\ hook[h].at = "rename"
    BY <1>6 DEF StartEvict, NoHook
  <2>2. new.at = "evict" /\ new.key = hook[h].key /\ new.name = hook[h].name
    BY <1>h, <2>1 DEF Running
  <2>3. hook' = [hook EXCEPT ![h] = new]
    BY <1>6 DEF StartEvict, TypeOK
  <2> HIDE DEF new
  <2> QED BY <1>h, <2>1, <2>2, <2>3, <1>b, ShapeBy DEF User, HookShape
<1> QED
  BY <1>1, <1>2, <1>3, <1>4, <1>5, <1>6 DEF Next, HookStep, ChangeUsername, vars

\* The parts of SharedNameIsEvicted.
NamedRowsExist == \A k \in Keys : rows[k].name # NoName => rows[k].n > 0 /\ k[2] # Anonymous
Shared(k, l) == k[2] # l[2] /\ rows[k].name = rows[l].name /\ rows[k].name # NoName

\* The inductive invariant: nobody has failed so far only if SharedNameIsEvicted holds.
NoFailureEvicts == "fail" \notin disturbed => SharedNameIsEvicted

\* Without failures every step keeps, of each pair of rows that share a name, a hook
\* that will part them.
LEMMA EvictStep ==
  TypeOK /\ HookShape /\ NoFailureEvicts /\ [Next]_vars => NoFailureEvicts'
<1> SUFFICES ASSUME TypeOK, HookShape, NoFailureEvicts, [Next]_vars,
                    "fail" \notin disturbed'
             PROVE SharedNameIsEvicted'
  BY DEF NoFailureEvicts
<1>f. ASSUME NEW h \in Hooks PROVE ~Fail(h)
  BY DEF Fail
<1>u. \/ UNCHANGED disturbed
      \/ \E h \in Hooks, u \in Users, cmd \in Cmds : RunCommandHooks(h, u, cmd)
  <2>1. ASSUME NEW h \in Hooks, HookStep(h) PROVE UNCHANGED disturbed
    BY <1>f, <2>1 DEF HookStep, DocIncrement, Count, StartEvict, Finish, Rename, Evict, Visit
  <2> QED BY <2>1 DEF Next, ChangeUsername, vars
<1>e. SharedNameIsEvicted
  <2>1. "fail" \notin disturbed
    BY <1>u DEF RunCommandHooks
  <2> QED BY <2>1 DEF NoFailureEvicts
<1>t. /\ rows \in [Keys -> Row] /\ \A k \in Keys : rows[k].n \in Nat
      /\ \A h \in Hooks : hook[h] \in Running \cup {NoHook}
      /\ hook \in [Hooks -> Running \cup {NoHook}]
  BY DEF TypeOK, Row
<1>n. NamedRowsExist
  BY <1>e DEF NamedRowsExist, SharedNameIsEvicted
<1>s. ASSUME NEW k \in Keys, NEW l \in Keys, Shared(k, l)
      PROVE  \E h \in Hooks : WillEvict(h, k, l) \/ WillEvict(h, l, k)
  BY <1>e, <1>s DEF Shared, SharedNameIsEvicted
<1>q. ASSUME NamedRowsExist',
             \A k, l \in Keys : Shared(k, l)' =>
               \E h \in Hooks : WillEvict(h, k, l)' \/ WillEvict(h, l, k)'
      PROVE  SharedNameIsEvicted'
  BY <1>q DEF NamedRowsExist, Shared, SharedNameIsEvicted
<1>h. ASSUME NEW h \in Hooks, hook[h] # NoHook
      PROVE  /\ hook[h] \in Running /\ hook[h].key \in Keys
             /\ User(h) = Anonymous <=> hook[h].name = NoName
             /\ hook[h].at # "count" => User(h) # Anonymous /\ backend = "mongo"
  BY <1>h DEF TypeOK, HookShape
\* A step that keeps every name and parts of hook h only what WillEvict does not see.
<1>k. ASSUME rows' = rows,
             \A g \in Hooks, k, l \in Keys : WillEvict(g, k, l) => WillEvict(g, k, l)'
      PROVE  SharedNameIsEvicted'
  BY <1>k, <1>n, <1>s, <1>q DEF NamedRowsExist, Shared
<1>1. CASE UNCHANGED <<rows, hook>>
  BY <1>1, <1>k DEF WillEvict, User
<1>2. ASSUME NEW h \in Hooks, NEW u \in Users, NEW cmd \in Cmds, RunCommandHooks(h, u, cmd)
      PROVE  SharedNameIsEvicted'
  <2>1. hook[h] = NoHook /\ rows' = rows /\ \A g \in Hooks : g # h => hook'[g] = hook[g]
    BY <1>2, <1>t DEF RunCommandHooks
  <2> QED BY <1>k, <2>1 DEF WillEvict, User
<1>3. ASSUME NEW h \in Hooks, Finish(h) PROVE SharedNameIsEvicted'
  <2>1. /\ hook[h].at = "evict" /\ hook[h].todo = {} /\ rows' = rows
        /\ \A g \in Hooks : g # h => hook'[g] = hook[g]
    BY <1>3, <1>t DEF Finish, EndHook
  <2> QED BY <1>k, <2>1 DEF WillEvict, User
<1>4. ASSUME NEW h \in Hooks, StartEvict(h) PROVE SharedNameIsEvicted'
  <2> DEFINE new == [hook[h] EXCEPT !.at = "evict",
                                    !.todo = {k \in Keys : k[2] \notin {User(h), Anonymous}}]
  <2>1. hook[h] # NoHook
    BY <1>4 DEF StartEvict, NoHook
  <2>2. /\ new.at = "evict" /\ new.key = hook[h].key /\ new.name = hook[h].name
        /\ new.todo = {k \in Keys : k[2] \notin {User(h), Anonymous}}
    BY <1>h, <2>1 DEF Running
  <2>3. hook' = [hook EXCEPT ![h] = new] /\ rows' = rows
    BY <1>4 DEF StartEvict, TypeOK
  <2>4. new # NoHook
    BY <2>2 DEF NoHook
  <2> HIDE DEF new
  <2>5. hook'[h] = new /\ \A g \in Hooks : g # h => hook'[g] = hook[g]
    BY <1>t, <2>3
  <2>6. ASSUME NEW k \in Keys, NEW l \in Keys, Shared(k, l), WillEvict(h, k, l)
        PROVE  WillEvict(h, k, l)'
    <3>1. l[2] # User(h) /\ l[2] # Anonymous
      BY <1>n, <2>6 DEF Shared, WillEvict, NamedRowsExist
    <3> QED BY <2>2, <2>3, <2>4, <2>5, <2>6, <3>1 DEF WillEvict, User
  <2>7. \A g \in Hooks, k, l \in Keys : g # h /\ WillEvict(g, k, l) => WillEvict(g, k, l)'
    BY <2>3, <2>5 DEF WillEvict, User
  <2>8. ASSUME NEW k \in Keys, NEW l \in Keys, Shared(k, l)'
        PROVE  \E g \in Hooks : WillEvict(g, k, l)' \/ WillEvict(g, l, k)'
    <3>1. Shared(k, l) /\ Shared(l, k)
      BY <2>3, <2>8 DEF Shared
    <3> QED BY <1>s, <2>6, <2>7, <3>1
  <2> QED BY <1>n, <1>q, <2>3, <2>8 DEF NamedRowsExist
<1>5. ASSUME NEW h \in Hooks, Count(h) PROVE SharedNameIsEvicted'
  <2> DEFINE key == hook[h].key
             new == IF User(h) = Anonymous THEN NoHook
                    ELSE [hook[h] EXCEPT !.at = "rename",
                                         !.todo = {k \in Keys : k[2] = User(h)}]
             row == Counted(rows[key], hook[h].name)
  <2>1. hook[h] # NoHook /\ hook[h].at = "count"
    BY <1>5 DEF Count, NoHook
  <2>2. User(h) # Anonymous => /\ new.at = "rename" /\ new.key = key
                               /\ new.name = hook[h].name /\ new # NoHook
    BY <1>h, <2>1 DEF Running, NoHook
  <2>3. hook' = [hook EXCEPT ![h] = new] /\ rows' = [rows EXCEPT ![key] = row]
    BY <1>5 DEF Count
  <2>4. row.name = hook[h].name /\ row.n > 0 /\ key \in Keys /\ key[2] = User(h)
    BY <1>h, <1>t, <2>1 DEF Counted, User
  <2> HIDE DEF new, row, key
  <2>5. /\ hook'[h] = new /\ \A g \in Hooks : g # h => hook'[g] = hook[g]
        /\ rows'[key] = row /\ \A k \in Keys : k # key => rows'[k] = rows[k]
    BY <1>t, <2>3, <2>4
  <2>6. NamedRowsExist'
    BY <1>h, <1>n, <2>1, <2>4, <2>5 DEF NamedRowsExist
  <2>7. ASSUME NEW k \in Keys, NEW l \in Keys, k = key, Shared(k, l)'
        PROVE  WillEvict(h, k, l)'
    <3>1. hook[h].name # NoName /\ User(h) # Anonymous /\ rows'[l].name = hook[h].name
      BY <1>h, <2>1, <2>4, <2>5, <2>7 DEF Shared
    <3>2. hook'[h] # NoHook /\ hook'[h].at = "rename" /\ hook'[h].key[2] = k[2]
          /\ hook'[h].name = rows'[l].name
      BY <2>2, <2>4, <2>5, <2>7, <3>1
    <3> QED BY <3>2 DEF WillEvict, User
  <2>8. ASSUME NEW k \in Keys, NEW l \in Keys, k # key, l # key, Shared(k, l)'
        PROVE  \E g \in Hooks : WillEvict(g, k, l)' \/ WillEvict(g, l, k)'
    <3>1. Shared(k, l)
      BY <2>5, <2>8 DEF Shared
    <3>2. PICK g \in Hooks : WillEvict(g, k, l) \/ WillEvict(g, l, k)
      BY <1>s, <3>1
    <3>3. g # h
      BY <2>1, <3>2 DEF WillEvict
    <3> QED BY <2>5, <2>8, <3>2, <3>3 DEF WillEvict, User
  <2>9. \A k, l \in Keys : Shared(k, l)' => Shared(l, k)'
    BY DEF Shared
  <2> QED BY <1>q, <2>4, <2>6, <2>7, <2>8, <2>9
<1>6. ASSUME NEW h \in Hooks, NEW k0 \in Keys, Rename(h, k0) PROVE SharedNameIsEvicted'
  <2> DEFINE new == [hook[h] EXCEPT !.todo = @ \ {k0}]
             row == Named(rows[k0], hook[h].name)
  <2>1. hook[h] # NoHook /\ hook[h].at = "rename"
    BY <1>6 DEF Rename, NoHook
  <2>2. new.at = "rename" /\ new.key = hook[h].key /\ new.name = hook[h].name /\ new # NoHook
    BY <1>h, <2>1 DEF Running, NoHook
  <2>3. /\ hook' = [hook EXCEPT ![h] = new]
        /\ rows' = [rows EXCEPT ![k0] = IF StaleName(h, k0) THEN row ELSE rows[k0]]
    BY <1>6 DEF Rename, Visit
  <2>4. row.name = hook[h].name /\ row.n = rows[k0].n
    BY <1>t DEF Named, Row
  <2> HIDE DEF new, row
  <2>5. /\ hook'[h] = new /\ \A g \in Hooks : g # h => hook'[g] = hook[g]
        /\ rows'[k0] = IF StaleName(h, k0) THEN row ELSE rows[k0]
        /\ \A k \in Keys : k # k0 => rows'[k] = rows[k]
    BY <1>t, <2>3
  <2>6. NamedRowsExist'
    BY <1>h, <1>n, <2>1, <2>4, <2>5 DEF NamedRowsExist, StaleName
  <2>7. ASSUME NEW l \in Keys, Shared(k0, l)', StaleName(h, k0) PROVE WillEvict(h, k0, l)'
    BY <2>2, <2>4, <2>5, <2>7 DEF WillEvict, User, Shared, StaleName
  <2>8. ASSUME NEW k \in Keys, NEW l \in Keys, Shared(k, l)',
               ~StaleName(h, k0) \/ (k # k0 /\ l # k0)
        PROVE  \E g \in Hooks : WillEvict(g, k, l)' \/ WillEvict(g, l, k)'
    <3>1. Shared(k, l) /\ rows'[k] = rows[k] /\ rows'[l] = rows[l]
      BY <2>5, <2>8 DEF Shared
    <3>2. PICK g \in Hooks : WillEvict(g, k, l) \/ WillEvict(g, l, k)
      BY <1>s, <3>1
    <3>3. CASE g = h
      BY <2>1, <2>2, <2>5, <3>1, <3>2, <3>3 DEF WillEvict, User
    <3>4. CASE g # h
      BY <2>5, <3>1, <3>2, <3>4 DEF WillEvict, User
    <3> QED BY <3>3, <3>4
  <2>9. \A k, l \in Keys : Shared(k, l)' => Shared(l, k)'
    BY DEF Shared
  <2> QED BY <1>q, <2>6, <2>7, <2>8, <2>9
<1>7. ASSUME NEW h \in Hooks, NEW k0 \in Keys, Evict(h, k0) PROVE SharedNameIsEvicted'
  <2> DEFINE new == [hook[h] EXCEPT !.todo = @ \ {k0}]
             row == Named(rows[k0], NoName)
  <2>1. hook[h] # NoHook /\ hook[h].at = "evict"
    BY <1>7 DEF Evict, NoHook
  <2>2. /\ new.at = "evict" /\ new.key = hook[h].key /\ new.name = hook[h].name
        /\ new # NoHook /\ new.todo = hook[h].todo \ {k0}
    BY <1>h, <2>1 DEF Running, NoHook
  <2>3. /\ hook' = [hook EXCEPT ![h] = new]
        /\ rows' = [rows EXCEPT ![k0] = IF MovedName(h, k0) THEN row ELSE rows[k0]]
    BY <1>7 DEF Evict, Visit
  <2>4. row.name = NoName /\ row.n = rows[k0].n
    BY <1>t DEF Named, Row
  <2> HIDE DEF new, row
  <2>5. /\ hook'[h] = new /\ \A g \in Hooks : g # h => hook'[g] = hook[g]
        /\ rows'[k0] = IF MovedName(h, k0) THEN row ELSE rows[k0]
        /\ \A k \in Keys : k # k0 => rows'[k] = rows[k]
    BY <1>t, <2>3
  <2>6. NamedRowsExist'
    BY <1>n, <2>4, <2>5 DEF NamedRowsExist
  <2>7. ASSUME NEW k \in Keys, NEW l \in Keys, Shared(k, l)'
        PROVE  \E g \in Hooks : WillEvict(g, k, l)' \/ WillEvict(g, l, k)'
    <3>1. Shared(k, l) /\ rows'[k] = rows[k] /\ rows'[l] = rows[l]
      BY <2>4, <2>5, <2>7 DEF Shared
    <3>2. PICK g \in Hooks : WillEvict(g, k, l) \/ WillEvict(g, l, k)
      BY <1>s, <3>1
    <3>3. CASE g = h /\ WillEvict(h, k, l)
      <4>1. MovedName(h, l) /\ rows'[l].name # NoName
        BY <1>n, <2>7, <3>1, <3>3 DEF WillEvict, MovedName, Shared, NamedRowsExist
      <4>2. l # k0
        BY <2>4, <2>5, <4>1
      <4> QED BY <2>1, <2>2, <2>5, <3>1, <3>3, <4>2 DEF WillEvict, User
    <3>4. CASE g = h /\ WillEvict(h, l, k)
      <4>1. MovedName(h, k) /\ rows'[k].name # NoName
        BY <1>n, <2>7, <3>1, <3>4 DEF WillEvict, MovedName, Shared, NamedRowsExist
      <4>2. k # k0
        BY <2>4, <2>5, <4>1
      <4> QED BY <2>1, <2>2, <2>5, <3>1, <3>4, <4>2 DEF WillEvict, User
    <3>5. CASE g # h
      BY <2>5, <3>1, <3>2, <3>5 DEF WillEvict, User
    <3> QED BY <3>2, <3>3, <3>4, <3>5
  <2> QED BY <1>q, <2>6, <2>7
<1>8. ASSUME NEW h \in Hooks, DocIncrement(h) PROVE SharedNameIsEvicted'
  <2> DEFINE key == hook[h].key
             X == hook[h].name
  <2>1. hook[h] # NoHook /\ backend = "memory" /\ key \in Keys /\ key[2] = User(h)
    BY <1>8, <1>h DEF DocIncrement, NoHook, User
  <2>2. \A g \in Hooks, k, l \in Keys : ~WillEvict(g, k, l)
    BY <1>h, <2>1 DEF WillEvict
  <2>3. ASSUME NEW k \in Keys, NEW l \in Keys PROVE ~Shared(k, l)
    BY <1>s, <2>2
  <2>4. ASSUME NEW k \in Keys
        PROVE  /\ rows'[k].name =
                    IF k = key THEN X
                    ELSE IF User(h) = Anonymous THEN rows[k].name
                    ELSE IF StaleName(h, k) THEN X
                    ELSE IF MovedName(h, k) THEN NoName ELSE rows[k].name
               /\ rows'[k].n = IF k = key THEN rows[k].n + 1 ELSE rows[k].n
    <3>1. rows'[k] = IF k = key THEN Counted(rows[k], X)
                     ELSE IF User(h) = Anonymous THEN rows[k] ELSE Refreshed(h, k)
      BY <1>8 DEF DocIncrement
    <3>2. /\ Counted(rows[k], X).name = X /\ Counted(rows[k], X).n = rows[k].n + 1
          /\ Named(rows[k], X).name = X /\ Named(rows[k], X).n = rows[k].n
          /\ Named(rows[k], NoName).name = NoName /\ Named(rows[k], NoName).n = rows[k].n
      BY <1>t DEF Counted, Named, Row
    <3>3. CASE k = key
      BY <3>1, <3>2, <3>3
    <3>4. CASE k # key /\ User(h) = Anonymous
      BY <3>1, <3>4
    <3>5. CASE k # key /\ User(h) # Anonymous
      <4>1. rows'[k] = IF StaleName(h, k) THEN Named(rows[k], X)
                       ELSE IF MovedName(h, k) THEN Named(rows[k], NoName) ELSE rows[k]
        BY <3>1, <3>5 DEF Refreshed
      <4> QED BY <3>2, <3>5, <4>1
    <3> QED BY <3>3, <3>4, <3>5
  <2>5. User(h) = Anonymous <=> X = NoName
    BY <1>h, <2>1
  <2>6. NamedRowsExist'
    BY <1>n, <1>t, <2>1, <2>4, <2>5 DEF NamedRowsExist, StaleName
  <2>7. ASSUME NEW k \in Keys, k[2] # User(h)
        PROVE  rows'[k].name # NoName => rows'[k].name = rows[k].name /\ rows[k].name # X
    BY <1>n, <2>1, <2>4, <2>5, <2>7 DEF StaleName, MovedName, NamedRowsExist
  <2>8. ASSUME NEW k \in Keys, k[2] = User(h)
        PROVE  rows'[k].name # NoName => rows'[k].name = X
    BY <1>n, <2>1, <2>4, <2>5, <2>8 DEF StaleName, NamedRowsExist
  <2>9. ASSUME NEW k \in Keys, NEW l \in Keys PROVE ~Shared(k, l)'
    BY <2>3, <2>7, <2>8 DEF Shared
  <2> QED BY <1>q, <2>6, <2>9
<1> QED
  BY <1>1, <1>2, <1>3, <1>4, <1>5, <1>6, <1>7, <1>8, <1>f
     DEF Next, HookStep, ChangeUsername, vars

\* As long as no hook has failed, at rest a username is on the rows of one user only,
\* however many hooks overlapped and however often the name changed hands.
THEOREM NameResolvesToOneCorrect == Spec => []NameResolvesToOne
<1>1. Init => HookShape /\ NoFailureEvicts
  BY DEF Init, HookShape, NoFailureEvicts, SharedNameIsEvicted, NoRow
<1>2. NoFailureEvicts => NameResolvesToOne
  BY DEF NoFailureEvicts, SharedNameIsEvicted, NameResolvesToOne, AtRest, WillEvict
<1> QED BY <1>1, <1>2, EvictStep, TypeCorrect, ShapeStep, PTL DEF Spec

-----------------------------------------------------------------------------
(* One hook at a time *)

\* A row bears a name only when it exists, and the anonymous rows bear none.
LEMMA NamedStep == TypeOK /\ HookShape /\ NamedRowsExist /\ [Next]_vars => NamedRowsExist'
<1> SUFFICES ASSUME TypeOK, HookShape, NamedRowsExist, [Next]_vars PROVE NamedRowsExist'
  OBVIOUS
<1>t. \A k \in Keys : rows[k] \in Row /\ rows[k].n \in Nat
  BY DEF TypeOK, Row
<1>h. ASSUME NEW h \in Hooks, hook[h] # NoHook
      PROVE  /\ hook[h].key \in Keys /\ hook[h].key[2] = User(h)
             /\ User(h) = Anonymous <=> hook[h].name = NoName
  BY <1>h DEF HookShape, User
<1>r. ASSUME NEW k \in Keys, NEW name
      PROVE  /\ Counted(rows[k], name).name = name /\ Counted(rows[k], name).n = rows[k].n + 1
             /\ Named(rows[k], name).name = name /\ Named(rows[k], name).n = rows[k].n
  BY <1>t DEF Counted, Named, Row
<1>1. CASE UNCHANGED rows
  BY <1>1 DEF NamedRowsExist
<1>2. ASSUME NEW h \in Hooks, DocIncrement(h) PROVE NamedRowsExist'
  <2>1. hook[h] # NoHook
    BY <1>2 DEF DocIncrement, NoHook
  <2>2. ASSUME NEW k \in Keys
        PROVE  rows'[k].name # NoName => rows'[k].n > 0 /\ k[2] # Anonymous
    <3>1. rows'[k] = IF k = hook[h].key THEN Counted(rows[k], hook[h].name)
                     ELSE IF User(h) = Anonymous THEN rows[k] ELSE Refreshed(h, k)
      BY <1>2 DEF DocIncrement
    <3>2. CASE k = hook[h].key
      BY <1>t, <1>h, <1>r, <2>1, <3>1, <3>2
    <3>3. CASE k # hook[h].key
      <4>1. rows'[k] = rows[k] \/ (StaleName(h, k) /\ User(h) # Anonymous
                                   /\ rows'[k] = Named(rows[k], hook[h].name))
                               \/ rows'[k] = Named(rows[k], NoName)
        BY <3>1, <3>3 DEF Refreshed
      <4> QED BY <1>r, <4>1 DEF StaleName, NamedRowsExist
    <3> QED BY <3>2, <3>3
  <2> QED BY <2>2 DEF NamedRowsExist
<1>3. ASSUME NEW h \in Hooks, Count(h) PROVE NamedRowsExist'
  <2>1. hook[h] # NoHook
    BY <1>3 DEF Count, NoHook
  <2>2. rows' = [rows EXCEPT ![hook[h].key] = Counted(rows[hook[h].key], hook[h].name)]
    BY <1>3 DEF Count
  <2> QED BY <1>t, <1>h, <1>r, <2>1, <2>2 DEF NamedRowsExist, TypeOK
<1>4. ASSUME NEW h \in Hooks, NEW k \in Keys, Rename(h, k) \/ Evict(h, k)
      PROVE  NamedRowsExist'
  <2>1. hook[h] # NoHook
    BY <1>4 DEF Rename, Evict, NoHook
  <2>2. PICK row : /\ rows' = [rows EXCEPT ![k] = row]
                   /\ \/ row = rows[k] \/ row = Named(rows[k], NoName)
                      \/ StaleName(h, k) /\ row = Named(rows[k], hook[h].name)
    BY <1>4 DEF Rename, Evict, Visit
  <2>3. row.name # NoName => row.n > 0 /\ k[2] # Anonymous
    <3>1. StaleName(h, k) => rows[k].n > 0 /\ k[2] = User(h)
      BY DEF StaleName
    <3>2. StaleName(h, k) /\ row = Named(rows[k], hook[h].name) => User(h) # Anonymous
      BY <1>4, <1>h, <1>r, <2>1, <3>1 DEF Rename, Evict, HookShape, MovedName
    <3>3. CASE row = rows[k]
      BY <3>3 DEF NamedRowsExist
    <3>4. CASE row = Named(rows[k], NoName)
      BY <1>r, <3>4
    <3>5. CASE StaleName(h, k) /\ row = Named(rows[k], hook[h].name)
      BY <1>r, <3>1, <3>2, <3>5
    <3> QED BY <2>2, <3>3, <3>4, <3>5
  <2> QED BY <2>2, <2>3 DEF NamedRowsExist, TypeOK
<1> QED
  BY <1>1, <1>2, <1>3, <1>4
     DEF Next, HookStep, ChangeUsername, RunCommandHooks, StartEvict, Finish, Fail, EndHook, vars

\* The parts of OneHookRefreshes, and what they say of one user.
OneHookParts == /\ OneHook /\ LatestIsOneUsers /\ HookHasLatest
                /\ RowsAreNamed /\ UserHasRow /\ NobodyElseIsNamed
NamedOf(u) ==
  \A k \in Keys : (k[2] = u /\ rows[k].n > 0) =>
    \/ rows[k].name = latest[u]
    \/ \E h \in Hooks : /\ Runs(h, u)
                        /\ hook[h].at = "count" \/ (hook[h].at = "rename" /\ k \in hook[h].todo)
HasRow(u) == \/ \E k \in Keys : k[2] = u /\ rows[k].n > 0
             \/ \E h \in Hooks : Runs(h, u) /\ hook[h].at = "count"
AloneNamed(u) ==
  \A k \in Keys : (k[2] # u /\ rows[k].name = latest[u]) =>
    \E h \in Hooks : Runs(h, u) /\ (hook[h].at = "evict" => k \in hook[h].todo)
UserPart(u) == NamedOf(u) /\ HasRow(u) /\ AloneNamed(u)

\* The three parts about rows are the one about every user whose rows are due.
LEMMA PartsOfUsers ==
  RowsAreNamed /\ UserHasRow /\ NobodyElseIsNamed <=> \A u \in Users : Due(u) => UserPart(u)
BY DEF RowsAreNamed, UserHasRow, NobodyElseIsNamed, UserPart, NamedOf, HasRow, AloneNamed

\* The only hook moves on or ends: it takes its name from the rows of others and gives it
\* to those of its user, so for everybody else nothing that is due is touched.
LEMMA OnlyHookMoves ==
  ASSUME TypeOK, HookShape, NamedRowsExist, OneHookParts, UNCHANGED latest,
         NEW h \in Hooks, hook[h] # NoHook,
         NEW new, hook' = [hook EXCEPT ![h] = new],
         new # NoHook => new.key = hook[h].key /\ new.name = hook[h].name,
         failed' = failed \/ (new = NoHook /\ failed' = failed \cup ({User(h)} \cap Users)),
         \A k \in Keys : k[2] # User(h) =>
           /\ rows'[k].n = rows[k].n
           /\ \/ rows'[k].name = rows[k].name
              \/ rows[k].name = hook[h].name /\ rows'[k].name = NoName,
         \A k \in Keys : k[2] = User(h) => rows'[k].name \in {rows[k].name, hook[h].name},
         NEW w, w = User(h), w \in Users /\ w \notin failed' => UserPart(w)'
  PROVE  OneHookParts'
<1> USE DEF OneHookParts
<1>1. hook'[h] = new /\ \A g \in Hooks : g # h => hook'[g] = hook[g] /\ hook[g] = NoHook
  BY DEF TypeOK, OneHook
<1>2. OneHook'
  BY <1>1 DEF OneHook
<1>3. LatestIsOneUsers'
  BY DEF LatestIsOneUsers
<1>4. HookHasLatest'
  BY <1>1 DEF HookHasLatest, Runs, Due, User
<1>5. ASSUME NEW u \in Users, Due(u)' PROVE UserPart(u)'
  <2>1. Due(u) /\ latest'[u] = latest[u] /\ latest[u] # NoName /\ u \notin failed'
    BY <1>5 DEF Due
  <2>2. CASE u = User(h)
    BY <2>1, <2>2
  <2>3. CASE u # User(h)
    <3>1. UserPart(u)
      BY <2>1, PartsOfUsers
    <3>2. \A g \in Hooks : ~Runs(g, u)
      BY <1>1, <2>3 DEF Runs, User
    <3>3. latest[u] # hook[h].name
      <4>1. CASE User(h) \in Users
        <5>1. latest[User(h)] = hook[h].name
          BY <4>1 DEF HookHasLatest, Runs, User
        <5> QED BY <2>1, <2>3, <4>1, <5>1 DEF LatestIsOneUsers
      <4>2. CASE User(h) \notin Users
        <5>1. User(h) = Anonymous /\ hook[h].name = NoName
          BY <4>2 DEF HookShape, User, Keys
        <5> QED BY <2>1, <5>1
      <4> QED BY <4>1, <4>2
    <3>4. NamedOf(u)'
      <4>1. ASSUME NEW k \in Keys, k[2] = u, rows'[k].n > 0 PROVE rows'[k].name = latest'[u]
        <5>1. rows[k].n > 0 /\ k[2] # User(h)
          BY <2>3, <4>1
        <5>2. rows[k].name = latest[u]
          BY <3>1, <3>2, <4>1, <5>1 DEF UserPart, NamedOf
        <5> QED BY <2>1, <3>3, <5>1, <5>2
      <4> QED BY <4>1 DEF NamedOf
    <3>5. HasRow(u)'
      <4>1. PICK k \in Keys : k[2] = u /\ rows[k].n > 0
        BY <3>1, <3>2 DEF UserPart, HasRow
      <4>2. rows'[k].n > 0
        BY <2>3, <4>1
      <4> QED BY <4>1, <4>2 DEF HasRow
    <3>6. AloneNamed(u)'
      <4>1. ASSUME NEW k \in Keys, k[2] # u PROVE rows'[k].name # latest'[u]
        <5>1. rows[k].name # latest[u]
          BY <3>1, <3>2, <4>1 DEF UserPart, AloneNamed
        <5> QED BY <2>1, <3>3, <5>1
      <4> QED BY <4>1 DEF AloneNamed
    <3> QED BY <3>4, <3>5, <3>6 DEF UserPart
  <2> QED BY <2>2, <2>3
<1>6. RowsAreNamed' /\ UserHasRow' /\ NobodyElseIsNamed'
  BY <1>5 DEF RowsAreNamed, UserHasRow, NobodyElseIsNamed, UserPart, NamedOf, HasRow, AloneNamed
<1> QED BY <1>2, <1>3, <1>4, <1>6

\* Every step keeps, of everybody whose rows are due, what the running hook does not
\* still have to do.
LEMMA OneHookStep ==
  TypeOK /\ HookShape /\ NamedRowsExist /\ OneHookRefreshes /\ [Next]_vars => OneHookRefreshes'
<1> SUFFICES ASSUME TypeOK, HookShape, NamedRowsExist, OneHookRefreshes, [Next]_vars,
                    "overlap" \notin disturbed'
             PROVE  OneHookParts'
  BY DEF OneHookRefreshes, OneHookParts
<1>d. disturbed \subseteq disturbed'
  <2>1. ASSUME NEW h \in Hooks, HookStep(h) PROVE disturbed \subseteq disturbed'
    BY <2>1 DEF HookStep, DocIncrement, Count, StartEvict, Finish, Fail, Rename, Evict, Visit
  <2> QED BY <2>1 DEF Next, ChangeUsername, RunCommandHooks, vars
<1>p. OneHookParts
  BY <1>d DEF OneHookRefreshes, OneHookParts
<1>t. /\ \A k \in Keys : rows[k] \in Row /\ rows[k].n \in Nat
      /\ hook \in [Hooks -> Running \cup {NoHook}] /\ rows \in [Keys -> Row]
  BY DEF TypeOK, Row
<1>r. ASSUME NEW k \in Keys, NEW name
      PROVE  /\ Counted(rows[k], name).name = name /\ Counted(rows[k], name).n = rows[k].n + 1
             /\ Named(rows[k], name).name = name /\ Named(rows[k], name).n = rows[k].n
  BY <1>t DEF Counted, Named, Row
\* What the invariant says of a hook.
<1>h. ASSUME NEW h \in Hooks, hook[h] # NoHook
      PROVE  /\ hook[h] \in Running /\ hook[h].key \in Keys /\ hook[h].key[2] = User(h)
             /\ User(h) = Anonymous <=> hook[h].name = NoName
             /\ User(h) \in Users \cup {Anonymous}
             /\ User(h) \in Users => /\ latest[User(h)] = hook[h].name /\ Due(User(h))
                                     /\ UserPart(User(h))
             /\ \A g \in Hooks, u \in Users : Runs(g, u) <=> g = h /\ u = User(h)
  <2>1. hook[h] \in Running /\ hook[h].key \in Keys /\ hook[h].key[2] = User(h)
    BY <1>h DEF HookShape, User, TypeOK
  <2>2. /\ User(h) \in Users \cup {Anonymous}
        /\ User(h) = Anonymous <=> hook[h].name = NoName
    BY <1>h, <2>1 DEF HookShape, Keys
  <2>3. \A g \in Hooks, u \in Users : Runs(g, u) <=> g = h /\ u = User(h)
    BY <1>h, <1>p DEF Runs, User, OneHook, OneHookParts
  <2>4. User(h) \in Users => latest[User(h)] = hook[h].name /\ Due(User(h))
    BY <1>p, <2>3 DEF HookHasLatest, OneHookParts
  <2>5. User(h) \in Users => UserPart(User(h))
    BY <1>p, <2>4, PartsOfUsers DEF OneHookParts
  <2> QED BY <2>1, <2>2, <2>3, <2>4, <2>5
<1>1. CASE UNCHANGED <<rows, hook, latest, failed>>
  BY <1>p, <1>1 DEF OneHookParts, OneHook, LatestIsOneUsers, HookHasLatest, RowsAreNamed,
                    UserHasRow, NobodyElseIsNamed, Runs, Due
<1>2. ASSUME NEW h \in Hooks, NEW u \in Users, NEW cmd \in Cmds, RunCommandHooks(h, u, cmd)
      PROVE  OneHookParts'
  <2> DEFINE name == handle[u]
             key == <<cmd, IF name = NoName THEN Anonymous ELSE u>>
             new == [at |-> "count", key |-> key, name |-> name, todo |-> {}]
  <2>1. \A g \in Hooks : hook[g] = NoHook
    BY <1>2 DEF RunCommandHooks
  <2>2. hook' = [hook EXCEPT ![h] = new] /\ rows' = rows
    BY <1>2 DEF RunCommandHooks
  <2>3. /\ new.at = "count" /\ new.key[2] = IF name = NoName THEN Anonymous ELSE u
        /\ new.name = name
    OBVIOUS
  <2>4. IF name = NoName THEN latest' = latest /\ failed' = failed
        ELSE /\ latest' = [v \in Users |-> IF v = u THEN name
                                           ELSE IF latest[v] = name THEN NoName
                                           ELSE latest[v]]
             /\ failed' = failed \ {u}
    BY <1>2 DEF RunCommandHooks
  <2>5. name \in Names \cup {NoName}
    BY DEF TypeOK
  <2> HIDE DEF new, key, name
  <2>6. hook'[h] = new /\ \A g \in Hooks : g # h => hook'[g] = NoHook
    BY <2>1, <2>2, <1>t
  <2>7. OneHook'
    BY <2>6 DEF OneHook
  <2>8. \A g \in Hooks, v \in Users : ~Runs(g, v)
    BY <2>1 DEF Runs
  <2>9. \A g \in Hooks, v \in Users : Runs(g, v)' => g = h /\ v = u /\ name # NoName
    BY <2>3, <2>6, StatsAssumption DEF Runs
  <2>10. CASE name = NoName
    <3>1. UNCHANGED <<rows, latest, failed>>
      BY <2>2, <2>4, <2>10
    <3>2. LatestIsOneUsers' /\ HookHasLatest'
      BY <1>p, <2>9, <2>10, <3>1 DEF OneHookParts, LatestIsOneUsers, HookHasLatest
    <3>3. RowsAreNamed' /\ UserHasRow' /\ NobodyElseIsNamed'
      BY <1>p, <2>8, <3>1 DEF OneHookParts, RowsAreNamed, UserHasRow, NobodyElseIsNamed, Due
    <3> QED BY <2>7, <3>2, <3>3 DEF OneHookParts
  <2>11. CASE name # NoName
    <3>1. /\ latest' = [v \in Users |-> IF v = u THEN name
                                        ELSE IF latest[v] = name THEN NoName ELSE latest[v]]
          /\ failed' = failed \ {u}
      BY <2>4, <2>11
    <3>2. Runs(h, u)' /\ hook'[h].at = "count" /\ hook'[h].name = name
      BY <2>3, <2>6, <2>11 DEF Runs, NoHook
    <3>3. LatestIsOneUsers'
      BY <1>p, <3>1 DEF OneHookParts, LatestIsOneUsers
    <3>4. HookHasLatest'
      BY <2>9, <2>11, <3>1, <3>2 DEF HookHasLatest, Due
    <3>5. ASSUME NEW v \in Users, Due(v)' PROVE UserPart(v)'
      <4>1. CASE v = u
        BY <3>2, <4>1 DEF UserPart, NamedOf, HasRow, AloneNamed
      <4>2. CASE v # u
        <5>1. Due(v) /\ latest'[v] = latest[v]
          BY <3>1, <3>5, <4>2 DEF Due
        <5>2. UserPart(v)
          BY <1>p, <5>1, PartsOfUsers DEF OneHookParts
        <5> QED BY <2>2, <2>8, <5>1, <5>2 DEF UserPart, NamedOf, HasRow, AloneNamed
      <4> QED BY <4>1, <4>2
    <3>6. RowsAreNamed' /\ UserHasRow' /\ NobodyElseIsNamed'
      BY <3>5 DEF RowsAreNamed, UserHasRow, NobodyElseIsNamed, UserPart, NamedOf, HasRow,
                  AloneNamed
    <3> QED BY <2>7, <3>3, <3>4, <3>6 DEF OneHookParts
  <2> QED BY <2>10, <2>11
<1>3. ASSUME NEW h \in Hooks, DocIncrement(h) PROVE OneHookParts'
  <2> DEFINE X == hook[h].name
             u == User(h)
             key == hook[h].key
  <2>1. hook[h] # NoHook
    BY <1>3 DEF DocIncrement, NoHook
  <2>2. hook' = [hook EXCEPT ![h] = NoHook] /\ UNCHANGED <<latest, failed>>
    BY <1>3 DEF DocIncrement
  <2>3. ASSUME NEW k \in Keys
        PROVE  IF k = key THEN rows'[k].n = rows[k].n + 1 /\ rows'[k].name = X
               ELSE /\ rows'[k].n = rows[k].n
                    /\ rows'[k].name = IF u = Anonymous THEN rows[k].name
                                       ELSE IF StaleName(h, k) THEN X
                                       ELSE IF MovedName(h, k) THEN NoName ELSE rows[k].name
    <3>1. rows'[k] = IF k = key THEN Counted(rows[k], X)
                     ELSE IF u = Anonymous THEN rows[k] ELSE Refreshed(h, k)
      BY <1>3 DEF DocIncrement
    <3>2. CASE k = key
      BY <1>r, <3>1, <3>2
    <3>3. CASE k # key
      BY <1>r, <3>1, <3>3 DEF Refreshed
    <3> QED BY <3>2, <3>3
  <2>4. key \in Keys /\ key[2] = u
    BY <1>h, <2>1
  <2>5. PICK w : w = u
    OBVIOUS
  <2>6. ASSUME w \in Users PROVE UserPart(w)'
    <3>1. latest[w] = X /\ u # Anonymous /\ X # NoName
      BY <1>h, <2>1, <2>5, <2>6, StatsAssumption
    <3>2. NamedOf(w)'
      <4>1. ASSUME NEW k \in Keys, k[2] = w, rows'[k].n > 0 PROVE rows'[k].name = X
        BY <2>3, <2>5, <3>1, <4>1 DEF StaleName, MovedName
      <4> QED BY <2>2, <3>1, <4>1 DEF NamedOf
    <3>3. HasRow(w)'
      BY <1>t, <2>3, <2>4, <2>5 DEF HasRow
    <3>4. AloneNamed(w)'
      <4>1. ASSUME NEW k \in Keys, k[2] # w PROVE rows'[k].name # X
        BY <2>3, <2>4, <2>5, <3>1, <4>1 DEF StaleName, MovedName, NamedRowsExist
      <4> QED BY <2>2, <3>1, <4>1 DEF AloneNamed
    <3> QED BY <3>2, <3>3, <3>4 DEF UserPart
  <2>7. \A k \in Keys : k[2] # User(h) =>
           /\ rows'[k].n = rows[k].n
           /\ \/ rows'[k].name = rows[k].name
              \/ rows[k].name = hook[h].name /\ rows'[k].name = NoName
    BY <2>3, <2>4 DEF StaleName, MovedName
  <2>8. \A k \in Keys : k[2] = User(h) => rows'[k].name \in {rows[k].name, hook[h].name}
    BY <2>3, <2>4 DEF StaleName, MovedName
  <2> HIDE DEF u, X, key
  <2> QED BY <1>p, <2>1, <2>2, <2>5, <2>6, <2>7, <2>8, OnlyHookMoves DEF u
<1>4. ASSUME NEW h \in Hooks, Count(h) PROVE OneHookParts'
  <2> DEFINE X == hook[h].name
             u == User(h)
             key == hook[h].key
             new == IF u = Anonymous THEN NoHook
                    ELSE [hook[h] EXCEPT !.at = "rename",
                                         !.todo = {k \in Keys : k[2] = u}]
  <2>1. hook[h] # NoHook
    BY <1>4 DEF Count, NoHook
  <2>2. hook' = [hook EXCEPT ![h] = new] /\ UNCHANGED <<latest, failed>>
    BY <1>4 DEF Count
  <2>3. IF u = Anonymous THEN new = NoHook
        ELSE /\ new.at = "rename" /\ new.key = key /\ new.name = X
             /\ new.todo = {k \in Keys : k[2] = u} /\ new # NoHook
    <3>1. hook[h] \in Running
      BY <1>h, <2>1
    <3>2. CASE u = Anonymous
      BY <3>2
    <3>3. CASE u # Anonymous
      <4>1. new = [hook[h] EXCEPT !.at = "rename", !.todo = {k \in Keys : k[2] = u}]
        BY <3>3
      <4>2. /\ new.at = "rename" /\ new.key = key /\ new.name = X
            /\ new.todo = {k \in Keys : k[2] = u}
        BY <3>1, <4>1 DEF Running
      <4> QED BY <3>3, <4>2 DEF NoHook
    <3> QED BY <3>2, <3>3
  <2>4. key \in Keys /\ key[2] = u
    BY <1>h, <2>1
  <2>5. /\ rows'[key].n = rows[key].n + 1 /\ rows'[key].name = X
        /\ \A k \in Keys : k # key => rows'[k] = rows[k]
    BY <1>4, <1>r, <1>t, <2>4 DEF Count
  <2>6. PICK w : w = u
    OBVIOUS
  <2>7. ASSUME w \in Users PROVE UserPart(w)'
    <3>1. latest[w] = X /\ u # Anonymous
      BY <1>h, <2>1, <2>6, <2>7, StatsAssumption
    <3>2. /\ hook'[h].at = "rename" /\ hook'[h].todo = {k \in Keys : k[2] = w}
          /\ Runs(h, w)'
      BY <1>t, <2>2, <2>3, <2>4, <2>6, <3>1 DEF Runs
    <3>3. NamedOf(w)'
      BY <3>2 DEF NamedOf
    <3>4. HasRow(w)'
      BY <1>t, <2>4, <2>5, <2>6 DEF HasRow
    <3>5. AloneNamed(w)'
      BY <3>2 DEF AloneNamed
    <3> QED BY <3>3, <3>4, <3>5 DEF UserPart
  <2>8. new # NoHook => new.key = hook[h].key /\ new.name = hook[h].name
    BY <2>3
  <2>9. /\ \A k \in Keys : k[2] # User(h) => rows'[k] = rows[k]
        /\ \A k \in Keys : k[2] = User(h) => rows'[k].name \in {rows[k].name, hook[h].name}
    BY <2>4, <2>5
  <2> HIDE DEF u, X, key, new
  <2> QED BY <1>p, <2>1, <2>2, <2>6, <2>7, <2>8, <2>9, OnlyHookMoves DEF u
<1>5. ASSUME NEW h \in Hooks, NEW k0 \in Keys, Rename(h, k0) PROVE OneHookParts'
  <2> DEFINE X == hook[h].name
             u == User(h)
             new == [hook[h] EXCEPT !.todo = @ \ {k0}]
  <2>1. hook[h] # NoHook /\ hook[h].at = "rename" /\ u # Anonymous
    BY <1>5 DEF Rename, NoHook, HookShape
  <2>2. hook' = [hook EXCEPT ![h] = new] /\ UNCHANGED <<latest, failed>>
    BY <1>5 DEF Rename, Visit
  <2>3. /\ new.at = "rename" /\ new.key = hook[h].key /\ new.name = X
        /\ new.todo = hook[h].todo \ {k0} /\ new # NoHook
    BY <1>h, <2>1 DEF Running, NoHook
  <2>4. /\ rows'[k0].n = rows[k0].n
        /\ rows'[k0].name = IF StaleName(h, k0) THEN X ELSE rows[k0].name
        /\ \A k \in Keys : k # k0 => rows'[k] = rows[k]
    BY <1>5, <1>r, <1>t DEF Rename, Visit
  <2>5. PICK w : w = u
    OBVIOUS
  <2>6. ASSUME w \in Users PROVE UserPart(w)'
    <3>1. latest[w] = X /\ UserPart(w)
      BY <1>h, <2>1, <2>5, <2>6
    <3>2. \A g \in Hooks : Runs(g, w) <=> g = h
      BY <1>h, <2>1, <2>5, <2>6
    <3>3. hook'[h] = new /\ Runs(h, w)'
      BY <1>h, <1>t, <2>1, <2>2, <2>3, <2>5 DEF Runs
    <3>4. NamedOf(w)'
      <4>1. ASSUME NEW k \in Keys, k[2] = w, rows'[k].n > 0
            PROVE  rows'[k].name = X \/ k \in new.todo
        <5>1. CASE k = k0
          BY <2>4, <2>5, <4>1, <5>1 DEF StaleName
        <5>2. CASE k # k0
          BY <2>1, <2>3, <2>4, <3>1, <3>2, <4>1, <5>2 DEF UserPart, NamedOf
        <5> QED BY <5>1, <5>2
      <4> QED BY <2>2, <2>3, <3>1, <3>3, <4>1 DEF NamedOf
    <3>5. HasRow(w)'
      BY <2>1, <2>4, <3>1, <3>2 DEF UserPart, HasRow
    <3>6. AloneNamed(w)'
      BY <2>3, <3>3 DEF AloneNamed
    <3> QED BY <3>4, <3>5, <3>6 DEF UserPart
  <2>7. /\ \A k \in Keys : k[2] # User(h) => rows'[k].n = rows[k].n /\ rows'[k].name = rows[k].name
        /\ \A k \in Keys : k[2] = User(h) => rows'[k].name \in {rows[k].name, hook[h].name}
    BY <2>4 DEF StaleName
  <2> HIDE DEF u, X, new
  <2> QED BY <1>p, <2>1, <2>2, <2>3, <2>5, <2>6, <2>7, OnlyHookMoves DEF u, X
<1>6. ASSUME NEW h \in Hooks, StartEvict(h) PROVE OneHookParts'
  <2> DEFINE X == hook[h].name
             u == User(h)
             new == [hook[h] EXCEPT !.at = "evict",
                                    !.todo = {k \in Keys : k[2] \notin {u, Anonymous}}]
  <2>1. hook[h] # NoHook /\ hook[h].at = "rename" /\ hook[h].todo = {}
    BY <1>6 DEF StartEvict, NoHook
  <2>2. hook' = [hook EXCEPT ![h] = new] /\ UNCHANGED <<rows, latest, failed>>
    BY <1>6 DEF StartEvict, TypeOK
  <2>3. /\ new.at = "evict" /\ new.key = hook[h].key /\ new.name = X
        /\ new.todo = {k \in Keys : k[2] \notin {u, Anonymous}} /\ new # NoHook
    <3>1. hook[h] \in Running
      BY <1>h, <2>1
    <3>2. /\ new.at = "evict" /\ new.key = hook[h].key /\ new.name = X
          /\ new.todo = {k \in Keys : k[2] \notin {u, Anonymous}}
      BY <3>1 DEF Running
    <3> QED BY <3>2 DEF NoHook
  <2>4. PICK w : w = u
    OBVIOUS
  <2>5. ASSUME w \in Users PROVE UserPart(w)'
    <3>1. latest[w] = X /\ UserPart(w) /\ X # NoName
      BY <1>h, <2>1, <2>4, <2>5, StatsAssumption
    <3>2. \A g \in Hooks : Runs(g, w) <=> g = h
      BY <1>h, <2>1, <2>4, <2>5
    <3>3. hook'[h] = new /\ Runs(h, w)'
      BY <1>h, <1>t, <2>1, <2>2, <2>3, <2>4 DEF Runs
    <3>4. NamedOf(w)' /\ HasRow(w)'
      BY <2>1, <2>2, <3>1, <3>2 DEF UserPart, NamedOf, HasRow
    <3>5. AloneNamed(w)'
      <4>1. ASSUME NEW k \in Keys, k[2] # w, rows[k].name = X PROVE k \in new.todo
        BY <2>3, <2>4, <3>1, <4>1 DEF NamedRowsExist
      <4> QED BY <2>2, <3>1, <3>3, <4>1 DEF AloneNamed
    <3> QED BY <3>4, <3>5 DEF UserPart
  <2> HIDE DEF u, X, new
  <2> QED BY <1>p, <2>1, <2>2, <2>3, <2>4, <2>5, OnlyHookMoves DEF u, X
<1>7. ASSUME NEW h \in Hooks, NEW k0 \in Keys, Evict(h, k0) PROVE OneHookParts'
  <2> DEFINE X == hook[h].name
             u == User(h)
             new == [hook[h] EXCEPT !.todo = @ \ {k0}]
  <2>1. hook[h] # NoHook /\ hook[h].at = "evict" /\ u # Anonymous
    BY <1>7 DEF Evict, NoHook, HookShape
  <2>2. hook' = [hook EXCEPT ![h] = new] /\ UNCHANGED <<latest, failed>>
    BY <1>7 DEF Evict, Visit
  <2>3. /\ new.at = "evict" /\ new.key = hook[h].key /\ new.name = X
        /\ new.todo = hook[h].todo \ {k0} /\ new # NoHook
    BY <1>h, <2>1 DEF Running, NoHook
  <2>4. /\ rows'[k0].n = rows[k0].n
        /\ rows'[k0].name = IF MovedName(h, k0) THEN NoName ELSE rows[k0].name
        /\ \A k \in Keys : k # k0 => rows'[k] = rows[k]
    BY <1>7, <1>r, <1>t DEF Evict, Visit
  <2>5. PICK w : w = u
    OBVIOUS
  <2>6. ASSUME w \in Users PROVE UserPart(w)'
    <3>1. latest[w] = X /\ UserPart(w) /\ X # NoName
      BY <1>h, <2>1, <2>5, <2>6
    <3>2. \A g \in Hooks : Runs(g, w) <=> g = h
      BY <1>h, <2>1, <2>5, <2>6
    <3>3. hook'[h] = new /\ Runs(h, w)'
      BY <1>h, <1>t, <2>1, <2>2, <2>3, <2>5 DEF Runs
    <3>4. \A k \in Keys : rows'[k].n = rows[k].n
      BY <2>4
    <3>5. NamedOf(w)'
      <4>1. ASSUME NEW k \in Keys, k[2] = w, rows'[k].n > 0 PROVE rows'[k].name = X
        <5>1. rows[k].name = X
          BY <2>1, <3>1, <3>2, <3>4, <4>1 DEF UserPart, NamedOf
        <5> QED BY <2>4, <2>5, <4>1, <5>1 DEF MovedName
      <4> QED BY <2>2, <3>1, <4>1 DEF NamedOf
    <3>6. HasRow(w)'
      BY <2>1, <3>1, <3>2, <3>4 DEF UserPart, HasRow
    <3>7. AloneNamed(w)'
      <4>1. ASSUME NEW k \in Keys, k[2] # w, rows'[k].name = X PROVE k \in new.todo
        <5>1. rows[k].name = X /\ rows[k].n > 0
          BY <2>4, <3>1, <4>1 DEF NamedRowsExist
        <5>2. k # k0
          BY <2>4, <2>5, <3>1, <4>1, <5>1 DEF MovedName
        <5>3. k \in hook[h].todo
          BY <2>1, <3>1, <3>2, <4>1, <5>1 DEF UserPart, AloneNamed
        <5> QED BY <2>3, <5>2, <5>3
      <4> QED BY <2>2, <3>1, <3>3, <4>1 DEF AloneNamed
    <3> QED BY <3>5, <3>6, <3>7 DEF UserPart
  <2>7. /\ \A k \in Keys : k[2] = User(h) => rows'[k].name \in {rows[k].name, hook[h].name}
        /\ \A k \in Keys : /\ rows'[k].n = rows[k].n
                           /\ \/ rows'[k].name = rows[k].name
                              \/ rows[k].name = hook[h].name /\ rows'[k].name = NoName
    BY <2>4 DEF MovedName
  <2> HIDE DEF u, X, new
  <2> QED BY <1>p, <2>1, <2>2, <2>3, <2>5, <2>6, <2>7, OnlyHookMoves DEF u, X
<1>8. ASSUME NEW h \in Hooks, Finish(h) PROVE OneHookParts'
  <2>1. hook[h] # NoHook /\ hook[h].at = "evict" /\ hook[h].todo = {}
    BY <1>8 DEF Finish, NoHook
  <2>2. hook' = [hook EXCEPT ![h] = NoHook] /\ UNCHANGED <<rows, latest, failed>>
    BY <1>8 DEF Finish, EndHook
  <2>3. PICK w : w = User(h)
    OBVIOUS
  <2>4. ASSUME w \in Users PROVE UserPart(w)'
    <3>1. UserPart(w) /\ \A g \in Hooks : Runs(g, w) <=> g = h
      BY <1>h, <2>1, <2>3, <2>4
    <3> QED BY <2>1, <2>2, <3>1 DEF UserPart, NamedOf, HasRow, AloneNamed
  <2> QED BY <1>p, <2>1, <2>2, <2>3, <2>4, OnlyHookMoves
<1>9. ASSUME NEW h \in Hooks, Fail(h) PROVE OneHookParts'
  <2>1. /\ hook[h] # NoHook /\ hook' = [hook EXCEPT ![h] = NoHook]
        /\ UNCHANGED <<rows, latest>> /\ failed' = failed \cup ({User(h)} \cap Users)
    BY <1>9 DEF Fail, EndHook
  <2>2. PICK w : w = User(h)
    OBVIOUS
  <2>3. w \in Users => w \in failed'
    BY <2>1, <2>2
  <2> QED BY <1>p, <2>1, <2>2, <2>3, OnlyHookMoves
<1> QED
  BY <1>1, <1>2, <1>3, <1>4, <1>5, <1>6, <1>7, <1>8, <1>9
     DEF Next, HookStep, ChangeUsername, vars

\* Undisturbed, an invocation is counted as soon as its hook has counted it.
LEMMA CountedStep ==
  TypeOK /\ HookShape /\ OneHookRefreshes /\ InvocationsCounted /\ [Next]_vars => InvocationsCounted'
<1> SUFFICES ASSUME TypeOK, HookShape, OneHookRefreshes, InvocationsCounted, [Next]_vars,
                    disturbed' = {}
             PROVE  failed' = {} /\ \A k \in Keys : invoked'[k] = rows'[k].n + Uncounted(k)'
  BY DEF InvocationsCounted
<1>f. ASSUME NEW h \in Hooks PROVE ~Fail(h)
  BY DEF Fail
<1>d. disturbed = {}
  <2>1. ASSUME NEW h \in Hooks, HookStep(h) PROVE disturbed = {}
    BY <1>f, <2>1 DEF HookStep, DocIncrement, Count, StartEvict, Finish, Rename, Evict, Visit
  <2> QED BY <2>1 DEF Next, ChangeUsername, RunCommandHooks, vars
<1>p. OneHook /\ failed = {} /\ \A k \in Keys : invoked[k] = rows[k].n + Uncounted(k)
  BY <1>d DEF OneHookRefreshes, InvocationsCounted
<1>t. /\ \A k \in Keys : rows[k] \in Row /\ rows[k].n \in Nat
      /\ hook \in [Hooks -> Running \cup {NoHook}] /\ rows \in [Keys -> Row]
      /\ invoked \in [Keys -> Nat]
  BY DEF TypeOK, Row
<1>r. ASSUME NEW k \in Keys, NEW name
      PROVE  /\ Counted(rows[k], name).n = rows[k].n + 1
             /\ Named(rows[k], name).n = rows[k].n
  BY <1>t DEF Counted, Named, Row
\* A step of a hook that has counted, or has not yet.
<1>k. ASSUME failed' = {}, invoked' = invoked, \A k \in Keys : rows'[k].n = rows[k].n,
             \A g \in Hooks : \/ hook'[g].at = hook[g].at /\ hook'[g].key = hook[g].key
                              \/ hook'[g].at # "count" /\ hook[g].at # "count"
      PROVE  failed' = {} /\ \A k \in Keys : invoked'[k] = rows'[k].n + Uncounted(k)'
  BY <1>k, <1>p DEF Uncounted
<1>1. CASE UNCHANGED <<rows, hook, invoked, failed>>
  BY <1>k, <1>p, <1>1
<1>2. ASSUME NEW h \in Hooks, NEW u \in Users, NEW cmd \in Cmds, RunCommandHooks(h, u, cmd)
      PROVE  failed' = {} /\ \A k \in Keys : invoked'[k] = rows'[k].n + Uncounted(k)'
  <2> DEFINE name == handle[u]
             key == <<cmd, IF name = NoName THEN Anonymous ELSE u>>
             new == [at |-> "count", key |-> key, name |-> name, todo |-> {}]
  <2>1. \A g \in Hooks : hook[g] = NoHook
    BY <1>2 DEF RunCommandHooks
  <2>2. /\ hook' = [hook EXCEPT ![h] = new] /\ rows' = rows /\ failed' \subseteq failed
        /\ invoked' = [invoked EXCEPT ![key] = @ + 1]
    BY <1>2 DEF RunCommandHooks
  <2>3. new.at = "count" /\ new.key = key /\ key \in Keys
    BY DEF Keys
  <2> HIDE DEF new, key, name
  <2>4. hook'[h] = new /\ \A g \in Hooks : g # h => hook'[g].at = "idle"
    BY <1>t, <2>1, <2>2 DEF NoHook
  <2>5. ASSUME NEW k \in Keys
        PROVE  Uncounted(k) = 0 /\ Uncounted(k)' = IF k = key THEN 1 ELSE 0
    BY <2>1, <2>3, <2>4 DEF Uncounted, NoHook
  <2>6. ASSUME NEW k \in Keys PROVE invoked'[k] = rows'[k].n + Uncounted(k)'
    <3>1. invoked[k] = rows[k].n + 0
      BY <1>p, <2>5
    <3>2. invoked'[k] = IF k = key THEN invoked[k] + 1 ELSE invoked[k]
      BY <1>t, <2>2
    <3> QED BY <1>t, <2>2, <2>5, <3>1, <3>2
  <2> QED BY <1>p, <2>2, <2>6
<1>3. ASSUME NEW h \in Hooks, DocIncrement(h) \/ Count(h)
      PROVE  failed' = {} /\ \A k \in Keys : invoked'[k] = rows'[k].n + Uncounted(k)'
  <2> DEFINE key == hook[h].key
  <2>1. hook[h] # NoHook /\ hook[h].at = "count"
    BY <1>3 DEF DocIncrement, Count, NoHook
  <2>2. key \in Keys
    BY <2>1 DEF HookShape
  <2>3. \A g \in Hooks : g # h => hook[g] = NoHook
    BY <1>p, <2>1 DEF OneHook
  <2>4. hook'[h].at # "count" /\ \A g \in Hooks : g # h => hook'[g] = hook[g]
    <3>1. hook[h] \in Running
      BY <1>t, <2>1
    <3>2. PICK new : hook' = [hook EXCEPT ![h] = new] /\ new.at # "count"
      <4>1. CASE hook' = [hook EXCEPT ![h] = NoHook]
        <5>1. NoHook.at # "count"
          BY DEF NoHook
        <5> QED BY <4>1, <5>1
      <4>2. CASE hook' = [hook EXCEPT ![h] = [hook[h] EXCEPT !.at = "rename",
                                                !.todo = {k \in Keys : k[2] = User(h)}]]
        <5>1. [hook[h] EXCEPT !.at = "rename",
                              !.todo = {k \in Keys : k[2] = User(h)}].at = "rename"
          BY <3>1 DEF Running
        <5> QED BY <4>2, <5>1
      <4> QED BY <1>3, <4>1, <4>2 DEF DocIncrement, Count
    <3> QED BY <1>t, <3>2
  <2>5. UNCHANGED <<invoked, failed>>
    BY <1>3 DEF DocIncrement, Count
  <2>6. ASSUME NEW k \in Keys
        PROVE  rows'[k].n = IF k = key THEN rows[k].n + 1 ELSE rows[k].n
    <3>1. CASE DocIncrement(h)
      <4>1. rows'[k] = IF k = key THEN Counted(rows[k], hook[h].name)
                       ELSE IF User(h) = Anonymous THEN rows[k] ELSE Refreshed(h, k)
        BY <3>1 DEF DocIncrement
      <4> QED BY <1>r, <4>1 DEF Refreshed
    <3>2. CASE Count(h)
      BY <1>r, <1>t, <2>2, <3>2 DEF Count
    <3> QED BY <1>3, <3>1, <3>2
  <2>7. ASSUME NEW k \in Keys
        PROVE  Uncounted(k)' = 0 /\ Uncounted(k) = IF k = key THEN 1 ELSE 0
    BY <2>1, <2>3, <2>4 DEF Uncounted, NoHook
  <2>8. ASSUME NEW k \in Keys PROVE invoked'[k] = rows'[k].n + Uncounted(k)'
    <3>1. invoked[k] = rows[k].n + IF k = key THEN 1 ELSE 0
      BY <1>p, <2>7
    <3> HIDE DEF key
    <3> QED BY <1>t, <2>5, <2>6, <2>7, <3>1
  <2> QED BY <1>p, <2>5, <2>8
<1>4. ASSUME NEW h \in Hooks, NEW k0 \in Keys, Rename(h, k0) \/ Evict(h, k0)
      PROVE  failed' = {} /\ \A k \in Keys : invoked'[k] = rows'[k].n + Uncounted(k)'
  <2>1. /\ hook' = [hook EXCEPT ![h] = [hook[h] EXCEPT !.todo = @ \ {k0}]]
        /\ UNCHANGED <<invoked, failed>>
    BY <1>4 DEF Rename, Evict, Visit
  <2>2. PICK row \in {rows[k0], Named(rows[k0], hook[h].name), Named(rows[k0], NoName)} :
          rows' = [rows EXCEPT ![k0] = row]
    BY <1>4 DEF Rename, Evict, Visit
  <2>3. row.n = rows[k0].n
    BY <1>r, <2>2
  <2>4. hook[h] \in Running
    BY <1>4, <1>t DEF Rename, Evict, NoHook
  <2>5. \A g \in Hooks : hook'[g].at = hook[g].at /\ hook'[g].key = hook[g].key
    BY <1>t, <2>1, <2>4 DEF Running
  <2>6. \A k \in Keys : rows'[k].n = rows[k].n
    BY <1>t, <2>2, <2>3
  <2> QED BY <1>k, <1>p, <2>1, <2>5, <2>6
<1>5. ASSUME NEW h \in Hooks, StartEvict(h) \/ Finish(h)
      PROVE  failed' = {} /\ \A k \in Keys : invoked'[k] = rows'[k].n + Uncounted(k)'
  <2>1. /\ hook[h].at \in {"rename", "evict"} /\ hook'[h].at \in {"idle", "evict"}
        /\ \A g \in Hooks : g # h => hook'[g] = hook[g]
        /\ UNCHANGED <<rows, invoked, failed>>
    <3>1. CASE StartEvict(h)
      <4>1. hook[h] \in Running
        BY <1>t, <3>1 DEF StartEvict, NoHook
      <4> QED BY <1>t, <3>1, <4>1 DEF StartEvict, Running
    <3>2. CASE Finish(h)
      BY <1>t, <3>2 DEF Finish, EndHook, NoHook
    <3> QED BY <1>5, <3>1, <3>2
  <2> QED BY <1>k, <1>p, <2>1
<1> QED
  BY <1>1, <1>2, <1>3, <1>4, <1>5, <1>f DEF Next, HookStep, ChangeUsername, vars

\* What one hook at a time keeps, and what it keeps undisturbed.
LEMMA OneHookInvariant ==
  Spec => [](TypeOK /\ HookShape /\ NamedRowsExist /\ OneHookRefreshes /\ InvocationsCounted)
<1>1. Init => HookShape /\ NamedRowsExist /\ OneHookRefreshes /\ InvocationsCounted
  <2> SUFFICES ASSUME Init PROVE HookShape /\ NamedRowsExist /\ OneHookRefreshes /\ InvocationsCounted
    OBVIOUS
  <2>1. /\ \A h \in Hooks : hook[h] = NoHook /\ hook[h].at = "idle"
        /\ \A k \in Keys : rows[k].n = 0 /\ rows[k].name = NoName /\ invoked[k] = 0
        /\ \A u \in Users : ~Due(u) /\ latest[u] = NoName
        /\ failed = {}
    BY DEF Init, NoRow, NoHook, Due
  <2>2. HookShape /\ NamedRowsExist /\ InvocationsCounted
    BY <2>1 DEF HookShape, NamedRowsExist, InvocationsCounted, Uncounted
  <2>3. OneHookRefreshes
    BY <2>1 DEF OneHookRefreshes, OneHook, LatestIsOneUsers, HookHasLatest, Runs, RowsAreNamed,
                UserHasRow, NobodyElseIsNamed
  <2> QED BY <2>2, <2>3
<1> QED BY <1>1, TypeCorrect, ShapeStep, NamedStep, OneHookStep, CountedStep, PTL DEF Spec

\* At rest, after hooks that did not overlap, everybody whose rows are due is alone under
\* their name, on all of their rows.
LEMMA FoundByName ==
  ASSUME OneHookRefreshes, NamedRowsExist, AtRest, "overlap" \notin disturbed,
         NEW u \in Users, Due(u)
  PROVE  /\ UserIDByUsername(latest[u]) = {u}
         /\ \A k \in Keys : k[2] = u /\ rows[k].n > 0 => rows[k].name = latest[u]
<1>1. RowsAreNamed /\ UserHasRow /\ NobodyElseIsNamed
  BY DEF OneHookRefreshes
<1>2. \A h \in Hooks : ~Runs(h, u)
  BY DEF AtRest, Runs
<1>3. \A k \in Keys : k[2] = u /\ rows[k].n > 0 => rows[k].name = latest[u]
  BY <1>1, <1>2 DEF RowsAreNamed
<1>4. \E k \in Keys : k[2] = u /\ rows[k].n > 0
  BY <1>1, <1>2 DEF UserHasRow
<1>5. \A k \in Keys : rows[k].name = latest[u] => k[2] = u
  BY <1>1, <1>2 DEF NobodyElseIsNamed
<1> QED BY <1>3, <1>4, <1>5 DEF UserIDByUsername

\* A refresh that failed half-way is made good by the user's next command, for any number
\* of users and commands, as long as hooks do not overlap.
THEOREM RefreshHealsCorrect == Spec => []RefreshHeals
<1>1. NamedRowsExist /\ OneHookRefreshes => RefreshHeals
  <2> SUFFICES ASSUME NamedRowsExist, OneHookRefreshes, AtRest, "overlap" \notin disturbed,
                      NEW u \in Users \ failed, latest[u] # NoName
               PROVE  /\ UserIDByUsername(latest[u]) = {u}
                      /\ \A cmd \in Cmds : rows[<<cmd, u>>].n > 0 => rows[<<cmd, u>>].name = latest[u]
    BY DEF RefreshHeals
  <2>1. Due(u)
    BY DEF Due
  <2> QED BY <2>1, FoundByName DEF Keys
<1> QED BY <1>1, OneHookInvariant, PTL

\* Undisturbed, /stats tells the truth at rest.
THEOREM StatsAreTrueCorrect == Spec => []StatsAreTrue
<1>1. TypeOK /\ NamedRowsExist /\ OneHookRefreshes /\ InvocationsCounted => StatsAreTrue
  <2> SUFFICES ASSUME TypeOK, NamedRowsExist, OneHookRefreshes, InvocationsCounted, AtRest,
                      disturbed = {}
               PROVE  /\ \A cmd \in Cmds :
                           TopCommands[cmd] = Total(invoked, {cmd} \X (Users \cup {Anonymous}))
                      /\ \A u \in Users : latest[u] # NoName =>
                           /\ UserIDByUsername(latest[u]) = {u}
                           /\ TopUsers[u] = Total(invoked, {k \in Keys : k[2] = u /\ invoked[k] > 0})
                           /\ \A cmd \in DOMAIN CommandsOf(u) : CommandsOf(u)[cmd] = invoked[<<cmd, u>>]
    BY DEF StatsAreTrue
  <2>1. failed = {} /\ \A k \in Keys : invoked[k] = rows[k].n
    <3>1. \A k \in Keys : Uncounted(k) = 0
      BY DEF Uncounted, AtRest, NoHook
    <3>2. \A k \in Keys : rows[k].n \in Nat
      BY DEF TypeOK, Row
    <3> QED BY <3>1, <3>2 DEF InvocationsCounted
  <2>2. Counts = invoked
    BY <2>1 DEF Counts, TypeOK
  <2>3. ASSUME NEW cmd \in Cmds
        PROVE  TopCommands[cmd] = Total(invoked, {cmd} \X (Users \cup {Anonymous}))
    BY <2>2 DEF TopCommands
  <2>4. ASSUME NEW u \in Users, latest[u] # NoName
        PROVE  /\ UserIDByUsername(latest[u]) = {u}
               /\ TopUsers[u] = Total(invoked, {k \in Keys : k[2] = u /\ invoked[k] > 0})
               /\ \A cmd \in DOMAIN CommandsOf(u) : CommandsOf(u)[cmd] = invoked[<<cmd, u>>]
    <3>1. Due(u)
      BY <2>1, <2>4 DEF Due
    <3>2. /\ UserIDByUsername(latest[u]) = {u}
          /\ \A k \in Keys : k[2] = u /\ rows[k].n > 0 => rows[k].name = latest[u]
      BY <3>1, FoundByName
    <3>3. NamedRows(u) = {k \in Keys : k[2] = u /\ invoked[k] > 0}
      BY <2>1, <2>4, <3>2 DEF NamedRows
    <3>4. NamedRows(u) # {}
      BY <2>4, <3>2 DEF NamedRows, UserIDByUsername
    <3>5. TopUsers[u] = Total(Counts, NamedRows(u))
      BY <3>4 DEF TopUsers
    <3>6. \A cmd \in DOMAIN CommandsOf(u) : CommandsOf(u)[cmd] = invoked[<<cmd, u>>]
      BY <2>1 DEF CommandsOf, Keys
    <3> QED BY <2>2, <3>2, <3>3, <3>5, <3>6
  <2> QED BY <2>3, <2>4
<1> QED BY <1>1, OneHookInvariant, PTL
=============================================================================
