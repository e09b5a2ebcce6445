----------------------------- MODULE Dispatcher -----------------------------
(***************************************************************************)
(* The module registry and the dispatcher (internal/modules): a deploy     *)
(* builds the registry of the modules it enables, or refuses to start;     *)
(* the poller hands one update at a time to the first handler that matches *)
(* it, in the order Install registered them, which is that of a Go map     *)
(* among commands.  A command starts its hooks on a goroutine of its own.  *)
(* What the handlers do is left to the modules that extend this one.       *)
(***************************************************************************)
EXTENDS Integers, Sequences, FiniteSets, SequencesExt

CONSTANTS Catalog,    \* the factories: name -> [cmds, taps, crons, fallback, inline]
          Deploys,    \* values of MODULES: sequences of names
          Owner,      \* OWNER_ID, or NoId
          Admins,     \* ADMIN_IDS
          NoId,       \* the sender an update does not have
          Updates,    \* what Telegram sends
          MaxHooks    \* bound: hooks at once

Visibilities == {"public", "protected", "private", "unlisted"}

\* A factory declares visibilities the registry knows; prefixes and button data are
\* strings of characters.
ASSUME DispatcherAssumption ==
  /\ NoId \notin Admins /\ MaxHooks \in Nat
  /\ \A n \in DOMAIN Catalog :
       /\ \A c \in Catalog[n].cmds : c.vis \in Visibilities
       /\ \A t \in Catalog[n].taps : t.vis \in Visibilities /\ t.chars \in Seq(STRING)
  /\ \A u \in Updates : u.kind = "callback" => u.data \in Seq(STRING)

VARIABLES deploy,   \* the value of MODULES of the process that runs
          worker,   \* the update being handled, and by whom
          hooks,    \* how many goroutines run the hooks of a command
          process,  \* "up", or "refused" (Build failed)
          traces    \* history: what the update left behind so far, for anyone to see

dispatchVars == <<deploy, worker, hooks, process, traces>>

Nobody == [kind |-> "nobody", name |-> "none", vis |-> "public"]
Idle == [at |-> "idle", update |-> [kind |-> "none"], by |-> Nobody]
DispatchTypeOK ==
  /\ deploy \in Deploys
  /\ worker # Idle => /\ worker.at \in {"match", "run"} /\ worker.update \in Updates
                      /\ worker.by.vis \in Visibilities
  /\ hooks \in 0..MaxHooks
  /\ process \in {"up", "refused"}
  /\ traces \subseteq {"metric", "hook", "reply", "answer"}
-----------------------------------------------------------------------------
\* Build.
Loaded(enabled) == {n \in Range(enabled) : n \in DOMAIN Catalog}
Commands(enabled) == UNION {{[owner |-> n, name |-> c.name, vis |-> c.vis] : c \in Catalog[n].cmds}
                            : n \in Loaded(enabled)}
Taps(enabled) == UNION {{[owner |-> n, name |-> t.name, chars |-> t.chars, vis |-> t.vis]
                         : t \in Catalog[n].taps} : n \in Loaded(enabled)}
CommandConflict(enabled) == \E c, d \in Commands(enabled) : c # d /\ c.name = d.name

CronConflict(enabled) == \E m, n \in Loaded(enabled) :
  m # n /\ Catalog[m].crons \cap Catalog[n].crons # {}

\* Mutant: only equal prefixes are refused.
MutTapConflict(enabled) == \E s, t \in Taps(enabled) : s # t /\ s.name = t.name

TapConflict(enabled) == \E s, t \in Taps(enabled) : s # t /\ IsPrefix(s.chars, t.chars)

SingletonConflict(enabled) == \E m, n \in Loaded(enabled) :
  m # n /\ \/ Catalog[m].fallback /\ Catalog[n].fallback
           \/ Catalog[m].inline /\ Catalog[n].inline

Builds(enabled) ==
  /\ \A i, j \in DOMAIN enabled : enabled[i] = enabled[j] => i = j
  /\ Range(enabled) \subseteq DOMAIN Catalog
  /\ ~(CommandConflict(enabled) \/ CronConflict(enabled) \/ TapConflict(enabled)
         \/ SingletonConflict(enabled))

\* Auth.  An update without a sender, or an unset owner, has no privileges.
Permits(vis, from) ==
  \/ vis \in {"public", "unlisted"}
  \/ /\ from # NoId
     /\ \/ vis = "private" /\ Owner # NoId /\ from = Owner
        \/ vis = "protected" /\ (from \in Admins \/ (Owner # NoId /\ from = Owner))
-----------------------------------------------------------------------------
\* Install and the library: commands, taps, the fallback, inline queries.  A
\* name is typed in any case; matchCommand looks at all commands of a message,
\* commandName only at the first.
Named(u) == {u.typed[i].name : i \in DOMAIN u.typed}

CommandsFor(u) == IF u.kind # "message" THEN {}
  ELSE {[kind |-> "command", name |-> c.name, vis |-> c.vis] : c \in {d \in Commands(deploy) : d.name \in Named(u)}}

TapsFor(u) == IF u.kind # "callback" THEN {}
  ELSE {[kind |-> "callback", name |-> t.name, vis |-> t.vis] : t \in {s \in Taps(deploy) : IsPrefix(s.chars, u.data)}}

RestFor(u) ==
  IF u.kind = "message" /\ Len(u.typed) > 0 /\ \E n \in Loaded(deploy) : Catalog[n].fallback
  THEN {[kind |-> "fallback", name |-> u.typed[1].name, vis |-> "public"]}
  ELSE IF u.kind = "inline" /\ \E n \in Loaded(deploy) : Catalog[n].inline
  THEN {[kind |-> "inline", name |-> "none", vis |-> "public"]}
  ELSE {}

Receivers(u) == IF CommandsFor(u) \cup TapsFor(u) # {} THEN CommandsFor(u) \cup TapsFor(u)
                ELSE RestFor(u)

Take(u) == /\ process = "up" /\ worker = Idle
           /\ \E r \in Receivers(u) : worker' = [at |-> "match", update |-> u, by |-> r]
           /\ traces' = {} /\ UNCHANGED <<deploy, hooks, process>>

\* Denied in silence; only the spinner of a button is stopped.
Deny == /\ process = "up" /\ worker.at = "match" /\ ~Permits(worker.by.vis, worker.update.from)
        /\ traces' = (IF worker.by.kind = "callback" THEN traces \cup {"answer"} ELSE traces)
        /\ worker' = Idle /\ UNCHANGED <<deploy, hooks, process>>

\* Mutant: the command is counted, and its hooks started, before the check.
MutAdmit == /\ process = "up" /\ worker.at = "match" /\ "metric" \notin traces
            /\ IF worker.by.kind = "command"
               THEN /\ hooks < MaxHooks /\ hooks' = hooks + 1 /\ traces' = traces \cup {"metric", "hook"}
               ELSE UNCHANGED <<hooks, traces>>
            /\ worker' = (IF Permits(worker.by.vis, worker.update.from)
                          THEN [worker EXCEPT !.at = "run"] ELSE worker)
            /\ UNCHANGED <<deploy, process>>

Admit == /\ process = "up" /\ worker.at = "match" /\ Permits(worker.by.vis, worker.update.from)
         /\ IF worker.by.kind = "command"
            THEN /\ hooks < MaxHooks /\ hooks' = hooks + 1 /\ traces' = traces \cup {"metric", "hook"}
            ELSE UNCHANGED <<hooks, traces>>
         /\ worker' = [worker EXCEPT !.at = "run"] /\ UNCHANGED <<deploy, process>>

Running(kind) == process = "up" /\ worker.at = "run" /\ worker.by.kind = kind

\* The handler returns, with an error or without: it replied, or not.
Return == /\ process = "up" /\ worker.at = "run" /\ worker' = Idle
          /\ \E seen \in SUBSET {IF worker.by.kind = "callback" THEN "answer" ELSE "reply"} :
               traces' = traces \cup seen
          /\ UNCHANGED <<deploy, hooks, process>>

\* It panics, which is recovered: the query of a button is answered all the same.
Panics == /\ process = "up" /\ worker.at = "run" /\ worker' = Idle
          /\ traces' = (IF worker.by.kind = "callback" THEN traces \cup {"answer"} ELSE traces)
          /\ UNCHANGED <<deploy, hooks, process>>

\* Its goroutine has a barrier of its own, and two seconds.
HooksEnd == /\ process = "up" /\ hooks > 0 /\ hooks' = hooks - 1
            /\ UNCHANGED <<deploy, worker, process, traces>>
-----------------------------------------------------------------------------
\* When Build accepts the modules, every update has one receiver, whatever the
\* order Go's maps give Install, unless a message names two commands (module.go:
\* "Prefixes must be globally non-overlapping so one callback reaches one owner").
OneReceiver == process = "up" =>
  \A u \in Updates : (u.kind = "message" => \A m, n \in Named(u) : m = n)
                        => \A r, s \in Receivers(u) : r = s

Trusted(vis) == IF vis = "private" THEN {Owner} \ {NoId}
                ELSE IF vis = "protected" THEN Admins \cup ({Owner} \ {NoId})
                ELSE {u.from : u \in Updates}

\* A request its sender has no right to leaves nothing behind that tells a
\* command from none: no metric, no hook, no reply (dispatcher.go: "Denies are
\* silent"); an unset owner and an update without a sender give no right.
SilentDenial ==
  [][worker # Idle /\ worker.update.from \notin Trusted(worker.by.vis)
       => traces' \subseteq {"answer"}]_dispatchVars
=============================================================================
