----------------------------- MODULE UsageStats -----------------------------
(***************************************************************************)
(* The usage counters behind /stats.  Every authorised command starts a    *)
(* detached hook that counts it in the row of its command and sender, then *)
(* gives all rows of the sender the username of the update, and takes that *)
(* username from the rows of everybody else.                               *)
(*                                                                         *)
(* In MongoDB these are three calls; an UpdateMany changes one document    *)
(* after the other, and hooks overlap.  In memory one mutex covers them.   *)
(***************************************************************************)
EXTENDS Integers, FiniteSets, FiniteSetsExt

CONSTANTS Hooks,       \* hook goroutines that may run at once
          Users, Cmds,
          Names,       \* public usernames
          NoName,      \* the sender has none, or a row has lost it
          Anonymous,   \* the user part of a command's anonymous row
          Faults,      \* subset of {"fail"}
          MaxCommands  \* bound: commands invoked

ASSUME StatsAssumption == /\ NoName \notin Names /\ Anonymous \notin Users
                          /\ MaxCommands \in Nat

VARIABLES backend,  \* "mongo" | "memory": chosen when the program starts
          rows,     \* usage rows by <<command, user>>; n = 0 is "no such row"
          hook,     \* what each hook is doing
          handle,   \* the username each user has in Telegram
          invoked,  \* history: commands invoked, by row
          latest,   \* history: username of each user's last command, until
                    \* another user has run a command under it
          failed,   \* history: users the hook of whose last command failed
          disturbed \* history: "overlap" once two hooks have run at once, "fail" once
                    \* one has failed

vars == <<backend, rows, hook, handle, invoked, latest, failed, disturbed>>

Keys == Cmds \X (Users \cup {Anonymous})
Row == [n : Nat, name : Names \cup {NoName}]
NoRow == [n |-> 0, name |-> NoName]
NoHook == [at |-> "idle", key |-> <<>>, name |-> NoName, todo |-> {}]
Running == [at : {"count", "rename", "evict"}, key : Keys,
            name : Names \cup {NoName}, todo : SUBSET Keys]

TypeOK == /\ backend \in {"mongo", "memory"}
          /\ rows \in [Keys -> Row]
          /\ hook \in [Hooks -> Running \cup {NoHook}]
          /\ handle \in [Users -> Names \cup {NoName}]
          /\ invoked \in [Keys -> Nat]
          /\ latest \in [Users -> Names \cup {NoName}]
          /\ failed \subseteq Users
          /\ disturbed \subseteq {"overlap", "fail"}

Init == /\ backend \in {"mongo", "memory"}
        /\ rows = [k \in Keys |-> NoRow]
        /\ hook = [h \in Hooks |-> NoHook]
        /\ handle = [u \in Users |-> NoName]
        /\ invoked = [k \in Keys |-> 0]
        /\ latest = [u \in Users |-> NoName]
        /\ failed = {}
        /\ disturbed = {}

-----------------------------------------------------------------------------
(* Telegram *)

Total(f, S) == MapThenSumSet(LAMBDA k : f[k], S)

\* A user takes, changes or drops a username; no two users have the same one.
ChangeUsername(u, name) ==
  /\ name # handle[u]
  /\ name = NoName \/ \A v \in Users : handle[v] # name
  /\ handle' = [handle EXCEPT ![u] = name]
  /\ UNCHANGED <<backend, rows, hook, invoked, latest, failed, disturbed>>

\* An authorised command of u starts its hook, which has the username of the update.
\* A sender without a public username counts for the command alone.
RunCommandHooks(h, u, cmd) ==
  LET name == handle[u]
      key == <<cmd, IF name = NoName THEN Anonymous ELSE u>>
  IN /\ hook[h] = NoHook
     /\ Total(invoked, Keys) < MaxCommands
     /\ hook' = [hook EXCEPT ![h] = [at |-> "count", key |-> key, name |-> name,
                                     todo |-> {}]]
     /\ invoked' = [invoked EXCEPT ![key] = @ + 1]
     /\ latest' = IF name = NoName THEN latest
                  ELSE [v \in Users |-> IF v = u THEN name
                                        ELSE IF latest[v] = name THEN NoName
                                        ELSE latest[v]]
     /\ failed' = IF name = NoName THEN failed ELSE failed \ {u}
     /\ disturbed' = IF \A g \in Hooks : hook[g] = NoHook THEN disturbed
                     ELSE disturbed \cup {"overlap"}
     /\ UNCHANGED <<backend, rows, handle>>

-----------------------------------------------------------------------------
(* Increment *)

User(h) == hook[h].key[2]
Named(row, name) == [row EXCEPT !.name = name]

Counted(row, name) == [n |-> row.n + 1, name |-> name]

\* Mutant: the filter misses rows whose name was cleared.
MutStaleNameNotCleared(h, k) == /\ rows[k].n > 0 /\ k[2] = User(h)
                                /\ rows[k].name \notin {hook[h].name, NoName}

\* The filters of the two UpdateMany calls.
StaleName(h, k) == rows[k].n > 0 /\ k[2] = User(h) /\ rows[k].name # hook[h].name
MovedName(h, k) == rows[k].n > 0 /\ k[2] # User(h) /\ rows[k].name = hook[h].name

\* The row after both of them.
Refreshed(h, k) == IF StaleName(h, k) THEN Named(rows[k], hook[h].name)
                   ELSE IF MovedName(h, k) THEN Named(rows[k], NoName) ELSE rows[k]

\* In memory: the count and the refresh are one step.
DocIncrement(h) ==
  /\ backend = "memory"
  /\ hook[h].at = "count"
  /\ LET key == hook[h].key
     IN rows' = [k \in Keys |-> IF k = key THEN Counted(rows[k], hook[h].name)
                                ELSE IF User(h) = Anonymous THEN rows[k]
                                ELSE Refreshed(h, k)]
  /\ hook' = [hook EXCEPT ![h] = NoHook]
  /\ UNCHANGED <<backend, handle, invoked, latest, failed, disturbed>>

\* Mutant: no refresh when the counted row has the name already.
MutCountRefreshesOnChange(h) ==
  /\ backend = "mongo"
  /\ hook[h].at = "count"
  /\ rows' = [rows EXCEPT ![hook[h].key] = Counted(@, hook[h].name)]
  /\ hook' = [hook EXCEPT ![h] =
                IF rows[hook[h].key].name = hook[h].name THEN NoHook
                ELSE [@ EXCEPT !.at = "rename", !.todo = {k \in Keys : k[2] = User(h)}]]
  /\ UNCHANGED <<backend, handle, invoked, latest, failed, disturbed>>

\* The upsert with $inc.
Count(h) ==
  /\ backend = "mongo"
  /\ hook[h].at = "count"
  /\ rows' = [rows EXCEPT ![hook[h].key] = Counted(@, hook[h].name)]
  /\ hook' = [hook EXCEPT ![h] =
                IF User(h) = Anonymous THEN NoHook
                ELSE [@ EXCEPT !.at = "rename", !.todo = {k \in Keys : k[2] = User(h)}]]
  /\ UNCHANGED <<backend, handle, invoked, latest, failed, disturbed>>

Visit(h, k, row) == /\ rows' = [rows EXCEPT ![k] = row]
                    /\ hook' = [hook EXCEPT ![h].todo = @ \ {k}]
                    /\ UNCHANGED <<backend, handle, invoked, latest, failed, disturbed>>

\* The scan of an UpdateMany comes to the row and looks at it as it is now.
Rename(h, k) ==
  /\ hook[h].at = "rename"
  /\ k \in hook[h].todo
  /\ Visit(h, k, IF StaleName(h, k) THEN Named(rows[k], hook[h].name) ELSE rows[k])

\* Mutant: the name is not taken from other users.
MutStartEvictNobody(h) ==
  /\ hook[h].at = "rename"
  /\ hook[h].todo = {}
  /\ hook' = [hook EXCEPT ![h].at = "evict", ![h].todo = {}]
  /\ UNCHANGED <<backend, rows, handle, invoked, latest, failed, disturbed>>

StartEvict(h) ==
  /\ hook[h].at = "rename"
  /\ hook[h].todo = {}
  /\ hook' = [hook EXCEPT ![h].at = "evict",
                          ![h].todo = {k \in Keys : k[2] \notin {User(h), Anonymous}}]
  /\ UNCHANGED <<backend, rows, handle, invoked, latest, failed, disturbed>>

Evict(h, k) ==
  /\ hook[h].at = "evict"
  /\ k \in hook[h].todo
  /\ Visit(h, k, IF MovedName(h, k) THEN Named(rows[k], NoName) ELSE rows[k])

EndHook(h) == /\ hook' = [hook EXCEPT ![h] = NoHook]
              /\ UNCHANGED <<backend, rows, handle, invoked, latest>>

Finish(h) == hook[h].at = "evict" /\ hook[h].todo = {} /\ EndHook(h)
             /\ UNCHANGED <<failed, disturbed>>

\* A call fails, or the hook's two seconds are over.
Fail(h) == /\ "fail" \in Faults
           /\ backend = "mongo"
           /\ hook[h] # NoHook
           /\ EndHook(h)
           /\ failed' = failed \cup ({User(h)} \cap Users)
           /\ disturbed' = disturbed \cup {"fail"}

HookStep(h) == \/ DocIncrement(h) \/ Count(h) \/ StartEvict(h) \/ Finish(h) \/ Fail(h)
               \/ \E k \in Keys : Rename(h, k) \/ Evict(h, k)

Next == \/ \E u \in Users, name \in Names \cup {NoName} : ChangeUsername(u, name)
        \/ \E h \in Hooks : \/ \E u \in Users, cmd \in Cmds : RunCommandHooks(h, u, cmd)
                            \/ HookStep(h)

Spec == Init /\ [][Next]_vars
-----------------------------------------------------------------------------
(* The queries of /stats *)

Counts == [k \in Keys |-> rows[k].n]
TopCommands == [cmd \in Cmds |-> Total(Counts, {cmd} \X (Users \cup {Anonymous}))]

NamedRows(u) == {k \in Keys : k[2] = u /\ rows[k].n > 0 /\ rows[k].name # NoName}
TopUsers == [u \in {v \in Users : NamedRows(v) # {}} |-> Total(Counts, NamedRows(u))]

\* The users a username may resolve to: FindOne takes any of their rows.
UserIDByUsername(name) ==
  {u \in Users : \E k \in Keys : k[2] = u /\ rows[k].n > 0 /\ rows[k].name = name}
CommandsOf(u) == [cmd \in {c \in Cmds : rows[<<c, u>>].n > 0} |-> rows[<<cmd, u>>].n]

-----------------------------------------------------------------------------
(* Inductive invariants *)

\* Whenever two users' rows bear the same name, a hook that gave it to one of them has
\* still to take it from the other.
WillEvict(h, k, other) ==
  /\ hook[h] # NoHook /\ hook[h].at # "count" /\ User(h) = k[2]
  /\ hook[h].name = rows[other].name
  /\ hook[h].at = "evict" => other \in hook[h].todo
SharedNameIsEvicted ==
  /\ \A k \in Keys : rows[k].name # NoName => rows[k].n > 0 /\ k[2] # Anonymous
  /\ \A k, l \in Keys : (k[2] # l[2] /\ rows[k].name = rows[l].name /\ rows[k].name # NoName)
       => \E h \in Hooks : WillEvict(h, k, l) \/ WillEvict(h, l, k)

\* One hook at a time.  A user's rows are due when their last hook went through or still
\* runs; what it has not yet written, the running hook has still to do.
Runs(h, u) == hook[h] # NoHook /\ hook[h].key[2] = u
Due(u) == latest[u] # NoName /\ u \notin failed

OneHook == \A g, h \in Hooks : hook[g] # NoHook /\ hook[h] # NoHook => g = h
LatestIsOneUsers == \A u, v \in Users : latest[u] = latest[v] /\ latest[u] # NoName => u = v
HookHasLatest == \A h \in Hooks, u \in Users : Runs(h, u) => Due(u) /\ latest[u] = hook[h].name
RowsAreNamed ==
  \A u \in Users, k \in Keys : (Due(u) /\ k[2] = u /\ rows[k].n > 0) =>
    \/ rows[k].name = latest[u]
    \/ \E h \in Hooks : /\ Runs(h, u)
                        /\ hook[h].at = "count" \/ (hook[h].at = "rename" /\ k \in hook[h].todo)
UserHasRow ==
  \A u \in Users : Due(u) => \/ \E k \in Keys : k[2] = u /\ rows[k].n > 0
                             \/ \E h \in Hooks : Runs(h, u) /\ hook[h].at = "count"
NobodyElseIsNamed ==
  \A u \in Users, k \in Keys : (Due(u) /\ k[2] # u /\ rows[k].name = latest[u]) =>
    \E h \in Hooks : Runs(h, u) /\ (hook[h].at = "evict" => k \in hook[h].todo)

OneHookRefreshes ==
  "overlap" \notin disturbed =>
    /\ OneHook /\ LatestIsOneUsers /\ HookHasLatest
    /\ RowsAreNamed /\ UserHasRow /\ NobodyElseIsNamed

\* Undisturbed, every invocation is counted or has a hook that will.
Uncounted(k) == IF \E h \in Hooks : hook[h].at = "count" /\ hook[h].key = k THEN 1 ELSE 0
InvocationsCounted ==
  disturbed = {} => failed = {} /\ \A k \in Keys : invoked[k] = rows[k].n + Uncounted(k)

-----------------------------------------------------------------------------
(* Properties *)

AtRest == \A h \in Hooks : hook[h] = NoHook

\* "Lookups by name resolve to one user", also when usernames change hands while hooks
\* overlap: at rest no two users' rows bear the same name, unless a hook has failed.
NameResolvesToOne ==
  AtRest /\ "fail" \notin disturbed =>
    \A k, l \in Keys : rows[k].name = rows[l].name /\ rows[k].name # NoName => k[2] = l[2]

\* With one hook at a time /stats tells the truth at rest: a user is found under the
\* name of their last command, with every command they ran under any name, and no
\* invocation is missing from the totals.
StatsAreTrue ==
  AtRest /\ disturbed = {} =>
    /\ \A cmd \in Cmds : TopCommands[cmd] = Total(invoked, {cmd} \X (Users \cup {Anonymous}))
    /\ \A u \in Users : latest[u] # NoName =>
         /\ UserIDByUsername(latest[u]) = {u}
         /\ TopUsers[u] = Total(invoked, {k \in Keys : k[2] = u /\ invoked[k] > 0})
         /\ \A cmd \in DOMAIN CommandsOf(u) : CommandsOf(u)[cmd] = invoked[<<cmd, u>>]

\* A refresh that failed half-way is made good by the user's next command: at rest a
\* user whose last hook went through is found by name, with all of their rows.
RefreshHeals ==
  AtRest /\ "overlap" \notin disturbed =>
    \A u \in Users \ failed : latest[u] # NoName =>
      /\ UserIDByUsername(latest[u]) = {u}
      /\ \A cmd \in Cmds : rows[<<cmd, u>>].n > 0 => rows[<<cmd, u>>].name = latest[u]
=============================================================================
