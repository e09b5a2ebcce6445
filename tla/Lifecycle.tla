------------------------------ MODULE Lifecycle ------------------------------
(***************************************************************************)
(* One run of the server process (cmd/server/main.go): main starts the     *)
(* parts one after the other, waits for a signal, and stops them; log.Fatal *)
(* ends the process at once.  The poller handles one update at a time and  *)
(* starts a detached hook for a command; the scheduler fires jobs; they    *)
(* use the storage, and all but jobs count (internal/metrics) what the     *)
(* flusher logs.  A handler may take any time; a job has its time-out.     *)
(***************************************************************************)
EXTENDS Integers, FiniteSets

CONSTANTS MaxCounts    \* bound: increments of a run

ASSUME LifecycleAssumption == MaxCounts \in Nat

Names == {"command", "handler-panic"}   \* a counter of commands, and one of errors
Writers == {"handler", "hook"}
Flushers == {"flusher", "main"}
Absent == -1

VARIABLES main,       \* where main is
          signalled,  \* rootCtx is cancelled
          storage,    \* "none", "open" or "closed"
          polling, jobs, hook,   \* what the poller, the jobs and a hook do
          counter,    \* the counters of the registry: Absent or a number
          inc,        \* each writer's increment under way
          flush,      \* each flusher's flush: the names still to drain
          drained,    \* what its line will say
          logged,     \* history: what the log says of each name
          counted,    \* history: what each writer counted of it
          forced,     \* history: the shutdown did not wait for a handler
          misused     \* history: a closed storage was used by a handler or a job

lifeVars == <<main, signalled, storage, polling, jobs, hook, counter, inc, flush, drained,
              logged, counted, forced, misused>>

Boot == <<"provider", "stores", "registry", "menu", "cron", "webhook", "listen">>
Shutdown == <<"serve", "http", "polling", "metrics", "flush", "stopCron", "closeProvider", "stop", "exited">>
Stages == {Boot[i] : i \in 1..7} \cup {Shutdown[i] : i \in 1..9} \cup {"fatal"}

NoInc == [at |-> "none", name |-> "none"]

LifeTypeOK ==
  /\ main \in Stages /\ signalled \in BOOLEAN /\ storage \in {"none", "open", "closed"}
  /\ polling \in {"off", "wait", "count", "handle", "error", "stopped"}
  /\ jobs \in {"off", "wait", "run", "stopping", "running last", "stopped"}
  /\ hook \in {"none", "run", "panic"}
  /\ counter \in [Names -> {Absent} \cup 0..MaxCounts]
  /\ inc \in [Writers -> [at : {"none", "look", "add", "create"}, name : Names \cup {"none"}]]
  /\ flush \in [Flushers -> [at : {"idle", "drain", "log", "done"}, left : SUBSET Names, last : BOOLEAN]]
  /\ drained \in [Flushers -> [Names -> 0..MaxCounts]]
  /\ logged \in [Names -> 0..MaxCounts] /\ counted \in [Writers -> [Names -> 0..MaxCounts]]
  /\ forced \in BOOLEAN /\ misused \in BOOLEAN

Zero == [n \in Names |-> 0]

LifeInit ==
  /\ main = "provider" /\ signalled = FALSE /\ storage = "none"
  /\ polling = "off" /\ jobs = "off" /\ hook = "none"
  /\ counter = [n \in Names |-> Absent] /\ inc = [w \in Writers |-> NoInc]
  /\ flush = [f \in Flushers |-> [at |-> "idle", left |-> {}, last |-> FALSE]] /\ drained = [f \in Flushers |-> Zero]
  /\ logged = Zero /\ counted = [w \in Writers |-> Zero] /\ forced = FALSE /\ misused = FALSE

counterVars == <<counter, inc, flush, drained, logged, counted>>
workVars == <<polling, jobs, hook>>

Alive == main \notin {"exited", "fatal"}
-----------------------------------------------------------------------------
\* Counters.  A name is looked up under the read lock; a new one is created
\* under the lock, after a second look; an existing one is added to without it.
Locked == \E f \in Flushers : flush[f].at = "drain"

CountedOf(n) == counted["handler"][n] + counted["hook"][n]
Room == CountedOf("command") + CountedOf("handler-panic")
          + Cardinality({w \in Writers : inc[w] # NoInc}) < MaxCounts

Count(w, n) == /\ inc[w] = NoInc
               /\ Room
               /\ inc' = [inc EXCEPT ![w] = [at |-> "look", name |-> n]]

Look(w) == /\ inc[w].at = "look" /\ ~Locked
           /\ inc' = [inc EXCEPT ![w].at = IF counter[inc[w].name] = Absent THEN "create" ELSE "add"]
           /\ UNCHANGED <<counter, counted>>

Total(w) == /\ counted' = [counted EXCEPT ![w][inc[w].name] = @ + 1] /\ inc' = [inc EXCEPT ![w] = NoInc]

Add(w) == /\ inc[w].at = "add" /\ counter' = [counter EXCEPT ![inc[w].name] = @ + 1] /\ Total(w)

\* Mutant: the second look is forgotten.
MutCreate(w) == /\ inc[w].at = "create" /\ ~Locked
                /\ counter' = [counter EXCEPT ![inc[w].name] = 1] /\ Total(w)

Create(w) == /\ inc[w].at = "create" /\ ~Locked
             /\ counter' = [counter EXCEPT ![inc[w].name] = IF @ = Absent THEN 1 ELSE @ + 1]
             /\ Total(w)

Increment(w) == /\ Alive /\ (Look(w) \/ Add(w) \/ Create(w))
                /\ UNCHANGED <<main, signalled, storage, workVars, flush, drained, logged, forced, misused>>

\* snapshot holds the lock, and swaps one counter after the other.
StartFlush(f, last) == /\ flush[f].at = "idle" /\ ~Locked
                       /\ flush' = [flush EXCEPT ![f] = [at |-> "drain", left |-> Names, last |-> last]]
                       /\ drained' = [drained EXCEPT ![f] = Zero]

Drain(f) == \E n \in flush[f].left :
  /\ flush[f].at = "drain"
  /\ flush' = [flush EXCEPT ![f].left = @ \ {n}, ![f].at = IF flush[f].left = {n} THEN "log" ELSE @]
  /\ IF counter[n] = Absent THEN UNCHANGED <<counter, drained>>
     ELSE /\ drained' = [drained EXCEPT ![f][n] = counter[n]]
          /\ counter' = [counter EXCEPT ![n] = 0]
  /\ UNCHANGED logged

Log(f) == /\ flush[f].at = "log"
          /\ logged' = [n \in Names |-> logged[n] + drained[f][n]]
          /\ drained' = [drained EXCEPT ![f] = Zero]
          /\ flush' = [flush EXCEPT ![f].at = IF flush[f].last THEN "done" ELSE "idle"]
          /\ UNCHANGED counter

\* metrics.Run: a flush for every tick, and a last one when the context ends.
Tick(last) == /\ Alive /\ (last => signalled) /\ StartFlush("flusher", last)
              /\ UNCHANGED <<main, signalled, storage, workVars, counter, inc, logged, counted, forced, misused>>

FlushStep(f) == /\ Alive /\ (Drain(f) \/ Log(f))
                /\ UNCHANGED <<main, signalled, storage, workVars, inc, counted, forced, misused>>
-----------------------------------------------------------------------------
\* The work.  Whoever uses the storage may do so at any time while it runs.
Uses == misused' = (misused \/ storage # "open")

Work == <<main, signalled, storage, counter, flush, drained, logged, counted, forced>>

TakeUpdate == /\ Alive /\ polling = "wait" /\ ~signalled /\ polling' = "count"
              /\ UNCHANGED <<Work, jobs, hook, inc, misused>>

\* A command is counted, its hook runs on a goroutine of its own, and its
\* handler is called; callbacks and the rest are not counted.
Dispatch == /\ Alive /\ polling = "count" /\ inc["handler"] = NoInc
            /\ polling' = "handle"
            /\ \/ /\ Count("handler", "command")
                  /\ hook' = (IF hook = "none" THEN "run" ELSE hook)
               \/ UNCHANGED <<inc, hook>>
            /\ UNCHANGED <<Work, jobs, misused>>

\* The handler returns, or panics, which is counted (as is, under a name of its
\* own, an error).
Handle == /\ Alive /\ polling = "handle" /\ inc["handler"] = NoInc /\ Uses
          /\ \/ polling' = "wait" /\ UNCHANGED inc
             \/ polling' = "error" /\ Count("handler", "handler-panic")
          /\ UNCHANGED <<Work, jobs, hook>>

HandleFails == /\ Alive /\ polling = "error" /\ inc["handler"] = NoInc /\ polling' = "wait"
               /\ UNCHANGED <<Work, jobs, hook, inc, misused>>

\* b.Start returns once its worker is free.
PollingStops == /\ Alive /\ signalled /\ polling = "wait" /\ polling' = "stopped"
                /\ UNCHANGED <<Work, jobs, hook, inc, misused>>

\* The hook ends, within its two seconds, or panics, which is counted.
HookEnds == /\ Alive
            /\ \/ hook = "run" /\ hook' = "none" /\ UNCHANGED inc
               \/ hook = "run" /\ hook' = "panic" /\ Count("hook", "handler-panic")
               \/ hook = "panic" /\ inc["hook"] = NoInc /\ hook' = "none" /\ UNCHANGED inc
            /\ UNCHANGED <<Work, polling, jobs, misused>>

Fire == /\ Alive /\ jobs = "wait" /\ jobs' = "run"
        /\ UNCHANGED <<Work, polling, hook, inc, misused>>

JobEnds == /\ Alive /\ Uses
           /\ \/ jobs = "run" /\ jobs' = "wait"
              \/ jobs = "running last" /\ jobs' = "stopped"
           /\ UNCHANGED <<Work, polling, hook, inc>>
-----------------------------------------------------------------------------
MainVars == <<counterVars, hook, misused>>

Next1(stage) == LET i == CHOOSE j \in 1..7 : Boot[j] = stage
                IN  IF i = 7 THEN "serve" ELSE Boot[i + 1]

\* Each part is set up, or, where it is needed, its failure is fatal.
SetUp == /\ main \in {Boot[i] : i \in 1..7} /\ main' = Next1(main)
         /\ storage' = (IF main = "provider" THEN "open" ELSE storage)
         /\ jobs' = (IF main = "cron" THEN "wait" ELSE jobs)
         /\ polling' = (IF main = "listen" THEN "wait" ELSE polling)
         /\ UNCHANGED <<signalled, MainVars, forced>>

Fatal == /\ main \in {"provider", "stores", "registry", "cron"} /\ main' = "fatal"
         /\ UNCHANGED <<signalled, storage, polling, jobs, MainVars, forced>>

\* The goroutine of the HTTP server ends the process, too.
ServerCrashes == /\ main = "serve" /\ main' = "fatal"
                 /\ UNCHANGED <<signalled, storage, polling, jobs, MainVars, forced>>

Signal == /\ Alive /\ ~signalled /\ signalled' = TRUE
          /\ UNCHANGED <<main, storage, polling, jobs, MainVars, forced>>

Stop(from, to) == main = from /\ main' = to

ShutDownHttp == /\ signalled /\ (Stop("serve", "http") \/ Stop("http", "polling"))
                /\ UNCHANGED <<signalled, storage, polling, jobs, MainVars, forced>>

\* Mutant: main waits for the poller without the time-out.
MutPollingWait == /\ Stop("polling", "metrics") /\ polling = "stopped"
                  /\ UNCHANGED <<signalled, storage, polling, jobs, MainVars, forced>>

\* The poller has stopped, or the shutdown's time is over.
PollingWait == /\ Stop("polling", "metrics") /\ forced' = (forced \/ polling # "stopped")
               /\ UNCHANGED <<signalled, storage, polling, jobs, MainVars>>

MetricsWait == /\ flush["flusher"].at = "done" /\ Stop("metrics", "flush")
               /\ UNCHANGED <<signalled, storage, polling, jobs, MainVars, forced>>

LastFlush == /\ main = "flush" /\ StartFlush("main", TRUE)
             /\ UNCHANGED <<main, signalled, storage, workVars, counter, inc, logged, counted, forced, misused>>

\* Mutant: the deferred call does not wait for the job that runs.
MutStopCron == /\ \/ /\ flush["main"].at = "done" /\ Stop("flush", "stopCron")
                     /\ jobs' = IF jobs = "run" THEN "running last" ELSE "stopped"
                  \/ Stop("stopCron", "closeProvider") /\ UNCHANGED jobs
               /\ UNCHANGED <<signalled, storage, polling, MainVars, forced>>

\* The deferred calls: stopCron waits for the jobs, closeProvider disconnects.
StopCron == /\ \/ /\ flush["main"].at = "done" /\ Stop("flush", "stopCron")
                  /\ jobs' = IF jobs = "run" THEN "running last" ELSE "stopped"
               \/ jobs = "stopped" /\ Stop("stopCron", "closeProvider") /\ UNCHANGED jobs
            /\ UNCHANGED <<signalled, storage, polling, MainVars, forced>>

CloseProvider == /\ \/ Stop("closeProvider", "stop") /\ storage' = "closed"
                    \/ Stop("stop", "exited") /\ UNCHANGED storage
                 /\ UNCHANGED <<signalled, polling, jobs, MainVars, forced>>

MainStep == \/ SetUp \/ Fatal \/ ShutDownHttp \/ PollingWait \/ MetricsWait \/ LastFlush
            \/ StopCron \/ CloseProvider

LifeNext == \/ MainStep \/ ServerCrashes \/ Signal
            \/ \E last \in BOOLEAN : Tick(last)
            \/ \E f \in Flushers : FlushStep(f)
            \/ \E w \in Writers : Increment(w)
            \/ TakeUpdate \/ Dispatch \/ Handle \/ HandleFails \/ PollingStops \/ HookEnds
            \/ Fire \/ JobEnds

\* The goroutines of main and of the flusher run on; a tick that is due may win
\* once more against the cancelled context, not for ever; a job ends by its
\* time-out.  Nothing is assumed of a handler, a hook, or the poller.
LifeFairness == /\ WF_lifeVars(MainStep) /\ WF_lifeVars(JobEnds)
                /\ SF_lifeVars(Tick(TRUE))
                /\ \A f \in Flushers : WF_lifeVars(FlushStep(f))

LifeSpec == LifeInit /\ [][LifeNext]_lifeVars /\ LifeFairness
-----------------------------------------------------------------------------
Present(n) == IF counter[n] = Absent THEN 0 ELSE counter[n]
Drained(n) == drained["flusher"][n] + drained["main"][n]

\* An increment is never lost nor logged twice, however the flushes, the
\* creation of a counter and the increments interleave; and once the process
\* has shut down, what handlers counted has been logged, unless main gave up
\* waiting for one (main.go: "so the trailing window and the last in-flight
\* update are not lost").  A detached hook may still count after the last flush.
NoCountLost ==
  \A n \in Names : /\ CountedOf(n) = logged[n] + Present(n) + Drained(n)
                   /\ main = "exited" /\ ~forced => logged[n] >= counted["handler"][n]

\* The storage is closed after the last job and the last handler that uses it;
\* only a handler that outlives the shutdown's fifteen seconds can miss it.
JobsHaveStorage == misused => forced

\* A signal ends the process, whatever handlers do.
ShutdownEnds == signalled ~> ~Alive
=============================================================================
