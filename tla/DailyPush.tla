----------------------------- MODULE DailyPush ------------------------------
(***************************************************************************)
(* The opt-in daily push shared by the lol and weather (flood alert)       *)
(* modules: the subscriber slot with its commands, the once-a-day claim,   *)
(* the fan-out and the pruning of unreachable chats.                       *)
(*                                                                         *)
(* Several processes share the store (a redeploy that overlaps two         *)
(* containers); the subscriber mutex is private to each.  Store writes are *)
(* the single steps that DocStore promises.                                *)
(***************************************************************************)
EXTENDS Integers, FiniteSets

CONSTANTS Procs,       \* bot processes
          Pollers,     \* the processes that also serve the chat commands
          Pairs,       \* possible subscribers, <<chat, topic>>
          LastDay,     \* bound: days modelled
          Slots,       \* cron schedules a day: 1 for lol, 2 for the flood alert
          MayBeQuiet,  \* a fetch may find nothing worth sending (flood alert)
          Faults       \* subset of {"crash", "timeout", "lostReply", "send"}

ASSUME PushAssumption == /\ Pollers \subseteq Procs
                         /\ LastDay \in Nat \ {0}
                         /\ Slots \in Nat \ {0}
                         /\ MayBeQuiet \in BOOLEAN

VARIABLES subs,      \* the stored subscriber list (one row per pair)
          pushDate,  \* the claim document: last claimed day and its version
          day, slot, \* the clock
          fired,     \* processes whose cron has fired in this slot
          at,        \* where the cron run of each process is
          list,      \* subscribers it read before fetching
          held,      \* version of the claim document it read
          todo,      \* subscribers it has still to send to
          dead,      \* sets of pairs its failed sends condemn
          pruning,   \* the one of them that an open removal is asked to remove
          cmd,       \* the command a process is serving
          loaded,    \* the list an open read-modify-write will store
          mu,        \* holder of each process's subscriber mutex
          blocked,   \* pairs Telegram refuses, and for how wide a reason

          winners,   \* history: fan-outs started for each day
          got,       \* history: messages delivered for each day and pair
          member,    \* history: what the effective commands and prunings were asked for
          refused    \* history: pairs a terminal send error has ever covered

run == <<at, list, held, todo, dead, pruning>>
command == <<cmd, loaded, mu>>
history == <<winners, got, member, refused>>
clock == <<day, slot>>
vars == <<subs, pushDate, clock, fired, run, command, blocked, history>>

Days == 1 .. LastDay
NoCmd == [kind |-> "none", pair |-> <<>>]
Commands == [kind : {"add", "remove"}, pair : Pairs] \cup {NoCmd}
Reach == {"ok", "topic", "chat"}
Phases == {"idle", "fetch", "claim", "swap", "send", "prune", "pruneSave"}

TypeOK == /\ subs \subseteq Pairs
          /\ pushDate \in [day : 0 .. LastDay, ver : Nat]
          /\ day \in Days /\ slot \in 1 .. Slots
          /\ fired \subseteq Procs
          /\ at \in [Procs -> Phases]
          /\ list \in [Procs -> SUBSET Pairs]
          /\ held \in [Procs -> Nat]
          /\ todo \in [Procs -> SUBSET Pairs]
          /\ dead \in [Procs -> SUBSET SUBSET Pairs]
          /\ pruning \in [Procs -> SUBSET Pairs]
          /\ cmd \in [Procs -> Commands]
          /\ loaded \in [Procs -> SUBSET Pairs]
          /\ mu \in [Procs -> {"free", "cmd", "run"}]
          /\ blocked \in [Pairs -> Reach]
          /\ winners \in [Days -> Nat]
          /\ got \in [Days -> [Pairs -> Nat]]
          /\ member \subseteq Pairs /\ refused \subseteq Pairs

Init == /\ subs \in SUBSET Pairs
        /\ pushDate = [day |-> 0, ver |-> 0]
        /\ day = 1 /\ slot = 1
        /\ fired = {}
        /\ at = [p \in Procs |-> "idle"]
        /\ list = [p \in Procs |-> {}]
        /\ held = [p \in Procs |-> 0]
        /\ todo = [p \in Procs |-> {}]
        /\ dead = [p \in Procs |-> {}]
        /\ pruning = [p \in Procs |-> {}]
        /\ cmd = [p \in Procs |-> NoCmd]
        /\ loaded = [p \in Procs |-> {}]
        /\ mu = [p \in Procs |-> "free"]
        /\ blocked = [s \in Pairs |-> "ok"]
        /\ winners = [d \in Days |-> 0]
        /\ got = [d \in Days |-> [s \in Pairs |-> 0]]
        /\ member = subs
        /\ refused = {}

-----------------------------------------------------------------------------
(* Subscribe and unsubscribe: Get, mutate, Put of one slot under the mutex *)

SameChat(s) == {t \in Pairs : t[1] = s[1]}

\* The handlers hold the mutex for the whole read-modify-write.  A command that
\* finds nothing to do only replies.
StartCommand(p, kind, s) ==
  /\ p \in Pollers
  /\ cmd[p].kind = "none"
  /\ mu[p] = "free"
  /\ mu' = [mu EXCEPT ![p] = "cmd"]
  /\ cmd' = [cmd EXCEPT ![p] = [kind |-> kind, pair |-> s]]
  /\ \/ kind = "add" /\ s \notin subs /\ loaded' = [loaded EXCEPT ![p] = subs \cup {s}]
     \/ kind = "remove" /\ s \in subs /\ loaded' = [loaded EXCEPT ![p] = subs \ {s}]
  /\ UNCHANGED <<subs, pushDate, clock, fired, run, blocked, history>>

\* Mutant: the handler returns with the mutex locked.
MutEndCommandLocked(p) == /\ cmd' = [cmd EXCEPT ![p] = NoCmd]
                          /\ UNCHANGED <<mu, loaded, pushDate, clock, fired, run,
                                         blocked, winners, got, refused>>

EndCommand(p) == /\ cmd' = [cmd EXCEPT ![p] = NoCmd]
                 /\ mu' = [mu EXCEPT ![p] = "free"]
                 /\ UNCHANGED <<loaded, pushDate, clock, fired, run, blocked,
                                winners, got, refused>>

SaveCommand(p) ==
  /\ cmd[p].kind # "none"
  /\ subs' = loaded[p]
  /\ member' = IF cmd[p].kind = "add" THEN member \cup {cmd[p].pair}
                                      ELSE member \ {cmd[p].pair}
  /\ EndCommand(p)

CommandFails(p) == cmd[p].kind # "none" /\ EndCommand(p) /\ UNCHANGED <<subs, member>>

-----------------------------------------------------------------------------
(* The cron run: list, fetch, claim the day, fan out, prune *)

EndRun(p) == at' = [at EXCEPT ![p] = "idle"]
Goto(p, phase) == at' = [at EXCEPT ![p] = phase]

\* The subscriber list is read first, without the mutex; an empty one ends the run.
Fire(p) ==
  /\ at[p] = "idle"
  /\ p \notin fired
  /\ fired' = fired \cup {p}
  /\ IF subs = {} THEN UNCHANGED at ELSE Goto(p, "fetch")
  /\ list' = [list EXCEPT ![p] = subs]
  /\ UNCHANGED <<subs, pushDate, clock, held, todo, dead, pruning, command, blocked, history>>

FetchSucceeds(p) ==
  /\ at[p] = "fetch"
  /\ Goto(p, "claim")
  /\ UNCHANGED <<subs, pushDate, clock, fired, list, held, todo, dead, pruning, command,
                 blocked, history>>

\* A failed fetch, or one that shows no risk, leaves the day unclaimed.
FetchFails(p) ==
  /\ at[p] = "fetch"
  /\ EndRun(p)
  /\ UNCHANGED <<subs, pushDate, clock, fired, list, held, todo, dead, pruning, command,
                 blocked, history>>

FetchIsQuiet(p) == MayBeQuiet /\ FetchFails(p)

\* ClaimDay's Get.
ClaimRead(p) ==
  /\ at[p] = "claim"
  /\ IF pushDate.day = day THEN EndRun(p) ELSE Goto(p, "swap")
  /\ held' = [held EXCEPT ![p] = pushDate.ver]
  /\ UNCHANGED <<subs, pushDate, clock, fired, list, todo, dead, pruning, command, blocked,
                 history>>

\* Mutant: the claim is stored with Put instead of PutVersioned.
MutClaimUnversioned(p) ==
  /\ at[p] = "swap"
  /\ pushDate' = [day |-> day, ver |-> pushDate.ver + 1]
  /\ winners' = [winners EXCEPT ![day] = @ + 1]
  /\ todo' = [todo EXCEPT ![p] = list[p]]
  /\ dead' = [dead EXCEPT ![p] = {}]
  /\ Goto(p, "send")
  /\ UNCHANGED <<subs, clock, fired, list, held, pruning, command, blocked, got,
                 member, refused>>

\* ClaimDay's PutVersioned; a conflict means another run has the day.
ClaimSwap(p) ==
  /\ at[p] = "swap"
  /\ IF pushDate.ver = held[p]
       THEN /\ pushDate' = [day |-> day, ver |-> pushDate.ver + 1]
            /\ winners' = [winners EXCEPT ![day] = @ + 1]
            /\ todo' = [todo EXCEPT ![p] = list[p]]
            /\ dead' = [dead EXCEPT ![p] = {}]
            /\ Goto(p, "send")
       ELSE EndRun(p) /\ UNCHANGED <<pushDate, winners, todo, dead>>
  /\ UNCHANGED <<subs, clock, fired, list, held, pruning, command, blocked, got,
                 member, refused>>

\* The claim is stored, but its caller sees an error and sends nothing.
ClaimUnacknowledged(p) ==
  /\ "lostReply" \in Faults
  /\ at[p] = "swap"
  /\ pushDate.ver = held[p]
  /\ pushDate' = [day |-> day, ver |-> pushDate.ver + 1]
  /\ EndRun(p)
  /\ UNCHANGED <<subs, clock, fired, list, held, todo, dead, pruning, command, blocked,
                 history>>

\* Mutant: every terminal error condemns the whole chat.
MutCondemnedChat(s) == SameChat(s)

\* The pairs a terminal error on s condemns: the chat's, or the topic alone.
Condemned(s) == IF blocked[s] = "chat" THEN SameChat(s) ELSE {s}

Sent(p, s) == /\ at[p] = "send"
              /\ s \in todo[p]
              /\ todo' = [todo EXCEPT ![p] = @ \ {s}]
              /\ UNCHANGED <<subs, pushDate, clock, fired, at, list, held, pruning, command,
                             blocked, winners, member>>

Deliver(p, s) == /\ blocked[s] = "ok"
                 /\ Sent(p, s)
                 /\ got' = [got EXCEPT ![day][s] = @ + 1]
                 /\ UNCHANGED <<dead, refused>>

\* ClassifyTerminal: the subscriber will be pruned after the batch.
SendRefused(p, s) == /\ blocked[s] # "ok"
                     /\ Sent(p, s)
                     /\ dead' = [dead EXCEPT ![p] = @ \cup {Condemned(s)}]
                     /\ refused' = refused \cup {t \in SameChat(s) :
                                                   t = s \/ blocked[t] = "chat"}
                     /\ UNCHANGED got

\* A rate limit, an outage: the subscriber stays, the batch goes on.
SendFails(p, s) == /\ "send" \in Faults
                   /\ Sent(p, s)
                   /\ UNCHANGED <<dead, got, refused>>

\* Mutant: the run prunes without the subscriber mutex.
MutPruneUnlocked(p) ==
  /\ at[p] = "send"
  /\ todo[p] = {}
  /\ IF dead[p] = {} THEN EndRun(p) ELSE Goto(p, "prune")
  /\ UNCHANGED <<subs, pushDate, clock, fired, list, held, todo, dead, pruning, command,
                 blocked, history>>

FinishSending(p) ==
  /\ at[p] = "send"
  /\ todo[p] = {}
  /\ IF dead[p] = {}
       THEN EndRun(p) /\ UNCHANGED mu
       ELSE /\ mu[p] = "free"
            /\ mu' = [mu EXCEPT ![p] = "run"]
            /\ Goto(p, "prune")
  /\ UNCHANGED <<subs, pushDate, clock, fired, list, held, todo, dead, pruning, cmd, loaded,
                 blocked, history>>

\* One RemoveAllForChat or Remove: read the list; store it if it changes.
PruneLoad(p, item) ==
  /\ at[p] = "prune"
  /\ item \in dead[p]
  /\ dead' = [dead EXCEPT ![p] = @ \ {item}]
  /\ pruning' = [pruning EXCEPT ![p] = item]
  /\ loaded' = [loaded EXCEPT ![p] = subs \ item]
  /\ IF subs \cap item = {} THEN UNCHANGED at ELSE Goto(p, "pruneSave")
  /\ UNCHANGED <<subs, pushDate, clock, fired, list, held, todo, cmd, mu, blocked,
                 history>>

PruneSave(p) ==
  /\ at[p] = "pruneSave"
  /\ subs' = loaded[p]
  /\ member' = member \ pruning[p]
  /\ Goto(p, "prune")
  /\ UNCHANGED <<pushDate, clock, fired, list, held, todo, dead, pruning, command, blocked,
                 winners, got, refused>>

PruneSaveFails(p) ==
  /\ at[p] = "pruneSave"
  /\ Goto(p, "prune")
  /\ UNCHANGED <<subs, pushDate, clock, fired, list, held, todo, dead, pruning, command,
                 blocked, history>>

PruneDone(p) ==
  /\ at[p] = "prune"
  /\ dead[p] = {}
  /\ EndRun(p)
  /\ mu' = [mu EXCEPT ![p] = "free"]
  /\ UNCHANGED <<subs, pushDate, clock, fired, list, held, todo, dead, pruning, cmd, loaded,
                 blocked, history>>

\* The run's minute is over: pending calls fail, unsent subscribers are dropped, and
\* nothing is pruned.  (A fan-out that is not throttled goes on with sends that fail.)
\* A wait for the mutex does not time out.
RunTimesOut(p) ==
  /\ "timeout" \in Faults
  /\ at[p] # "idle"
  /\ at[p] = "send" => todo[p] # {}
  /\ EndRun(p)
  /\ mu' = [mu EXCEPT ![p] = IF @ = "run" THEN "free" ELSE @]
  /\ UNCHANGED <<subs, pushDate, clock, fired, list, held, todo, dead, pruning, cmd, loaded,
                 blocked, history>>

-----------------------------------------------------------------------------
(* Processes, clock and Telegram *)

\* A restarted process has lost its run, its command and its mutex.
Crash(p) ==
  /\ "crash" \in Faults
  /\ EndRun(p)
  /\ cmd' = [cmd EXCEPT ![p] = NoCmd]
  /\ mu' = [mu EXCEPT ![p] = "free"]
  /\ UNCHANGED <<subs, pushDate, clock, fired, list, held, todo, dead, pruning, loaded,
                 blocked, history>>

\* Runs last at most a minute, schedules are hours apart.
NextSlot ==
  /\ \A p \in Procs : at[p] = "idle"
  /\ \/ slot < Slots /\ slot' = slot + 1 /\ UNCHANGED day
     \/ slot = Slots /\ day < LastDay /\ slot' = 1 /\ day' = day + 1
  /\ fired' = {}
  /\ UNCHANGED <<subs, pushDate, run, command, blocked, history>>

\* A chat blocks the bot or takes it back; a topic takes away its right to post.
ChangeReach(s, r) ==
  /\ blocked' = [t \in Pairs |-> IF t = s \/ (t[1] = s[1] /\ "chat" \in {r, blocked[s]})
                                   THEN r ELSE blocked[t]]
  /\ UNCHANGED <<subs, pushDate, clock, fired, run, command, history>>

RunStep(p) ==
  \/ FetchSucceeds(p) \/ FetchFails(p) \/ FetchIsQuiet(p)
  \/ ClaimRead(p) \/ ClaimSwap(p) \/ ClaimUnacknowledged(p)
  \/ \E s \in Pairs : Deliver(p, s) \/ SendRefused(p, s) \/ SendFails(p, s)
  \/ FinishSending(p)
  \/ \E item \in dead[p] : PruneLoad(p, item)
  \/ PruneSave(p) \/ PruneSaveFails(p) \/ PruneDone(p)
  \/ RunTimesOut(p)

CommandStep(p) == SaveCommand(p) \/ CommandFails(p)

Next ==
  \/ \E p \in Procs : \/ Fire(p) \/ RunStep(p) \/ CommandStep(p) \/ Crash(p)
                      \/ \E kind \in {"add", "remove"}, s \in Pairs : StartCommand(p, kind, s)
  \/ NextSlot
  \/ \E s \in Pairs, r \in Reach : ChangeReach(s, r)

Spec == Init /\ [][Next]_vars

\* A run and a command, once started, go on; nothing else is obliged to happen.
\* A sync.Mutex is handed to a goroutine that has long waited for it: hence the
\* strong fairness of the step that locks it.
FairSpec == Spec /\ \A p \in Procs : /\ WF_vars(RunStep(p))
                                    /\ SF_vars(FinishSending(p))
                                    /\ WF_vars(CommandStep(p))

-----------------------------------------------------------------------------
(* Inductive invariants *)

\* Whoever is about to claim the day with the stored version has read a document
\* of an earlier day, and no day after the stored one has been won.
ClaimIsCurrent ==
  /\ pushDate.day <= day
  /\ \A d \in Days : d > pushDate.day => winners[d] = 0
  /\ \A p \in Procs : at[p] = "swap" =>
       /\ held[p] <= pushDate.ver
       /\ held[p] = pushDate.ver => pushDate.day < day

\* The one run that is sending is the day's winner, and whom it has still to
\* send to has received nothing.
SenderIsWinner ==
  /\ \A d \in Days, s \in Pairs : winners[d] = 0 => got[d][s] = 0
  /\ \A p \in Procs : at[p] = "send" =>
       /\ winners[day] # 0
       /\ \A s \in todo[p] : got[day][s] = 0
       /\ \A q \in Procs : at[q] = "send" => q = p

\* Of a process's command and its pruning only the holder of the mutex runs, and
\* what it will store is the list with its own change.
MutexHeld ==
  \A p \in Procs :
    /\ mu[p] = "cmd" <=> cmd[p].kind # "none"
    /\ mu[p] = "run" <=> at[p] \in {"prune", "pruneSave"}
    /\ cmd[p].kind = "add" => loaded[p] = subs \cup {cmd[p].pair}
    /\ cmd[p].kind = "remove" => loaded[p] = subs \ {cmd[p].pair}
    /\ at[p] = "pruneSave" => loaded[p] = subs \ pruning[p]

-----------------------------------------------------------------------------
(* Properties *)

\* ClaimDay: at most one fan-out starts per day, whatever containers overlap,
\* crons double-fire, processes crash or replies get lost.
OnePushPerDay == \A d \in Days : winners[d] <= 1

\* No subscriber gets the day's message twice, a retry cron or a crash in the
\* middle of a fan-out notwithstanding.
AtMostOneMessage == \A d \in Days, s \in Pairs : got[d][s] <= 1

\* With a single process, the stored list is what the commands and prunings that
\* took effect were asked to add and to remove, and nothing else: a write of one
\* never takes another's change back, a prune's no join but of the item it was
\* asked to remove (push.go:185 under mu).
SubscriptionsKept == subs = member

\* Pruning drops only pairs that a terminal error covered: a topic's error never
\* takes its sister topics along.
OnlyUnreachablePruned ==
  [][\A p \in Procs : at[p] = "pruneSave" /\ at'[p] = "prune" =>
        (subs \ subs') \subseteq refused]_vars

\* A run always ends, also when it waits for the mutex a command holds.
RunsEnd == \A p \in Procs : at[p] # "idle" ~> at[p] = "idle"

\* "The day is claimed only when an alert goes out, so the retry [...] covers a
\* 10:30 run that failed": once the claiming run is over, someone was alerted.
ClaimedMeansAlerted ==
  (pushDate.day = day /\ \A p \in Procs : at[p] = "idle")
    => \E s \in Pairs : got[day][s] > 0
=============================================================================
