---------------------------- MODULE StockDividend ----------------------------
(***************************************************************************)
(* One user's stock account and one SSI dividend event of a ticker: the    *)
(* portfolio commands, the /stock_portfolio flow that discovers the event  *)
(* and suggests it with a button, and the press that credits it.           *)
(*                                                                         *)
(* Workers are the handler goroutines of the one process.  The bot runs    *)
(* one (bot.WithNotAsyncHandlers); the code also locks for the case of     *)
(* several, so the model takes any number.  Time is counted in days.       *)
(***************************************************************************)
EXTENDS Integers, Sequences

CONSTANTS Workers,
          Free,                   \* the user lock is not held
          Kind,                   \* "cash" | "shares"
          PerShare, Owned, New,   \* VND per share; the share ratio
          MaxCash, MaxShares,     \* the largest balance and holding allowed
          Discovery, Retention,   \* days: dividendDiscoveryWindow, dividendRetentionDays
          RecordDays,             \* record days SSI may state; 0 is "not yet known"
          Faults,                 \* subset of {"save", "lostReply", "send", "edit", "crash"}
          LastDay, MaxLives, MaxMessages  \* bounds

Published == 1   \* publication day of the event

ASSUME DividendAssumption ==
  /\ Free \notin Workers
  /\ Kind \in {"cash", "shares"}
  /\ PerShare \in Nat \ {0} /\ Owned \in Nat \ {0} /\ New \in Nat \ {0}
  /\ MaxCash \in Nat /\ MaxShares \in Nat
  /\ Discovery \in Nat /\ Retention \in Nat /\ Discovery < Retention
  /\ LastDay \in Nat \ {0} /\ MaxLives \in Nat /\ MaxMessages \in Nat

\* SSI states no Record date that lies more than the difference of the two windows
\* before the publication.
ASSUME RecordDaysAssumption ==
  RecordDays \subseteq {d \in Nat : d = 0 \/ d + Retention > Published + Discovery}

VARIABLES store,     \* the stored portfolio
          pending,   \* the stored action of the newest suggestion
          msgs,      \* suggestion messages sent, oldest first
          buttons,   \* those that show their button
          feed,      \* Record date SSI states now
          day,
          lives,     \* position lifecycles opened so far
          lock,      \* the user's key of keylock.Map
          call,      \* the handler call each worker is in
          credited   \* history: how often the event has been paid out

vars == <<store, pending, msgs, buttons, feed, day, lives, lock, call, credited>>

NoEvent == -1
NoRecord == [known |-> FALSE, day |-> 0, done |-> FALSE]
NoAction == [msg |-> 0, life |-> 0, expires |-> 0]
NewPortfolio == [cash |-> 0, qty |-> 0, life |-> 0, opened |-> 0, rec |-> NoRecord]

\* A call: its place, the day it began, the portfolio it loaded and the one it will
\* save, what it asks SSI for and the Record date answered, the message it sends or
\* whose action it consumes, the message of the action it found, and the one whose
\* button was pressed.
NoCall == [at |-> "idle", since |-> 0, read |-> NewPortfolio, mine |-> NewPortfolio,
           job |-> "none", found |-> NoEvent, msg |-> 0, old |-> 0, pressed |-> 0]

Records == [known : BOOLEAN, day : Nat, done : BOOLEAN]
Portfolios == [cash : Nat, qty : Nat, life : Nat, opened : Nat, rec : Records]
Actions == [msg : Nat, life : Nat, expires : Nat]
Messages == [life : Nat, expires : Nat, bound : BOOLEAN]
Places == {"idle", "save", "cleanup", "delete", "fetch", "syncLock", "syncSave",
           "notify", "suggestLock", "send", "bind", "retire", "expired",
           "consumeLock", "credit", "discard"}
Calls == [at : Places, since : Nat, read : Portfolios, mine : Portfolios,
          job : {"none", "recent", "historical"}, found : Nat \cup {NoEvent},
          msg : Nat, old : Nat, pressed : Nat]

TypeOK == /\ store \in Portfolios
          /\ pending \in Actions
          /\ msgs \in Seq(Messages)
          /\ buttons \subseteq Nat
          /\ feed \in RecordDays
          /\ day \in Nat /\ lives \in Nat /\ credited \in Nat
          /\ lock \in Workers \cup {Free}
          /\ call \in [Workers -> Calls]

\* A new account, or one whose position predates the openedAt marker (zero).
Init == /\ store \in {NewPortfolio, [NewPortfolio EXCEPT !.qty = 1]}
        /\ pending = NoAction
        /\ msgs = <<>> /\ buttons = {}
        /\ feed \in RecordDays
        /\ day = 1 /\ lives = 0 /\ credited = 0
        /\ lock = Free
        /\ call = [w \in Workers |-> NoCall]

-----------------------------------------------------------------------------
(* Portfolio and history operators *)

Due(r, now) == r.day > 0 /\ now >= r.day
Expired(r, now) == now >= Retention + (IF r.day # 0 THEN r.day ELSE Published)

\* positionOpenedByRecordDate; a legacy position (openedAt zero) is eligible.
OpenedByRecordDate(p) == p.rec.day > 0 /\ p.opened <= p.rec.day

\* An event the /stock_portfolio flow has something to say about.
Open(p) == p.qty > 0 /\ p.rec.known /\ ~p.rec.done

Topup(p) == [p EXCEPT !.cash = @ + 1]

Buy(p) == IF p.qty = 0
            THEN [p EXCEPT !.cash = @ - 1, !.qty = 1, !.life = lives + 1, !.opened = day]
            ELSE [p EXCEPT !.cash = @ - 1, !.qty = @ + 1]

\* A full exit ends the position's lifecycle; its dividend history stays.
Sell(p, n) == IF n = p.qty
                THEN [p EXCEPT !.cash = @ + n, !.qty = 0, !.life = 0, !.opened = 0]
                ELSE [p EXCEPT !.cash = @ + n, !.qty = @ - n]

Entitlement(n) == (n * New) \div Owned

CashDividend(p) == [p EXCEPT !.cash = @ + p.qty * PerShare]
ShareDividend(p) == [p EXCEPT !.qty = @ + Entitlement(p.qty)]

\* checkedVNDBalance, shareDividendEntitlement and checkedHoldingAfterDividend.
CashFits(p) == p.qty > 0 /\ p.cash + p.qty * PerShare <= MaxCash
SharesFit(p) == /\ p.qty > 0 /\ Entitlement(p.qty) > 0
                /\ p.qty + Entitlement(p.qty) <= MaxShares

\* applySuggestedDividend with the processed mark; refused when Fits is false.
Fits(p) == IF Kind = "cash" THEN CashFits(p) ELSE SharesFit(p)
Credited(p) == [(IF Kind = "cash" THEN CashDividend(p) ELSE ShareDividend(p))
                  EXCEPT !.rec.done = TRUE]

\* pruneDividendHistory, then upsertDividendEvent of what SSI answered.
Pruned(p, now) == IF p.rec.known /\ Expired(p.rec, now)
                    THEN [p EXCEPT !.rec = NoRecord] ELSE p
Merged(p, d, now) ==
  LET kept == Pruned(p, now)
  IN IF d # NoEvent /\ ~Expired([p.rec EXCEPT !.day = d], now)
       THEN [kept EXCEPT !.rec = [known |-> TRUE, day |-> d, done |-> kept.rec.done]]
       ELSE kept

\* dividendFetchJobs, for the one event.
JobFor(p, now) ==
  CASE p.qty > 0 /\ Published >= now - Discovery -> "recent"
    [] Open(p) /\ Published < now - Discovery /\ (p.rec.day = 0 \/ Due(p.rec, now))
         -> "historical"
    [] OTHER -> "none"

-----------------------------------------------------------------------------
(* Steps *)

At(w, place) == call[w].at = place
Goto(w, c) == call' = [call EXCEPT ![w] = c]
On(w, place) == [call[w] EXCEPT !.at = place]
Began(place) == [NoCall EXCEPT !.at = place, !.since = day]
Acquire(w) == lock = Free /\ lock' = w
Release(w) == lock' = IF lock = w THEN Free ELSE lock
Return(w) == Goto(w, NoCall) /\ Release(w)

\* Put of a portfolio or an action: done, failed, or done with the reply lost.
PutOutcomes == {"ok"} \cup (Faults \cap {"save", "lostReply"})
Put(doc, new, outcome) == IF outcome = "save" THEN doc ELSE new

\* A trading or dividend command loads under the lock, after any price fetch, and
\* saves what it made of the portfolio; one that is refused only replies.
Command(w, new) == /\ At(w, "idle")
                   /\ Acquire(w)
                   /\ Goto(w, [Began("save") EXCEPT !.read = store, !.mine = new])
                   /\ UNCHANGED <<store, pending, msgs, buttons, feed, day, credited>>

HandleTopup(w) == store.cash < MaxCash /\ Command(w, Topup(store)) /\ UNCHANGED lives

HandleBuy(w) == /\ store.cash > 0 /\ store.qty < MaxShares
                /\ store.qty = 0 => lives < MaxLives
                /\ lives' = IF store.qty = 0 THEN lives + 1 ELSE lives
                /\ Command(w, Buy(store))

HandleSell(w) == \E n \in 1 .. store.qty : /\ store.cash + n <= MaxCash
                                           /\ Command(w, Sell(store, n))
                                           /\ UNCHANGED lives

HandleCashDividend(w) ==
  CashFits(store) /\ Command(w, CashDividend(store)) /\ UNCHANGED lives

HandleShareDividend(w) ==
  SharesFit(store) /\ Command(w, ShareDividend(store)) /\ UNCHANGED lives

SaveCommand(w) ==
  /\ At(w, "save")
  /\ \E outcome \in PutOutcomes : store' = Put(store, call[w].mine, outcome)
  /\ Return(w)
  /\ UNCHANGED <<pending, msgs, buttons, feed, day, lives, credited>>

-----------------------------------------------------------------------------
(* /stock_portfolio *)

\* handleStats: the snapshot decides what SSI is asked for.
BeginPortfolio(w) ==
  /\ At(w, "idle")
  /\ Len(msgs) < MaxMessages
  /\ Goto(w, [Began("cleanup") EXCEPT !.job = JobFor(store, day)])
  /\ UNCHANGED <<store, pending, msgs, buttons, feed, day, lives, lock, credited>>

\* cleanupExpiredDividends, without the lock: the read, then the delete.
CleanupRead(w) ==
  /\ At(w, "cleanup")
  /\ Goto(w, On(w, IF pending # NoAction /\ pending.expires <= call[w].since
                     THEN "delete" ELSE "fetch"))
  /\ UNCHANGED <<store, pending, msgs, buttons, feed, day, lives, lock, credited>>

\* A best-effort Delete.
DeleteAction == pending' \in {NoAction} \cup (IF "save" \in Faults THEN {pending} ELSE {})

CleanupDelete(w) ==
  /\ At(w, "delete")
  /\ DeleteAction
  /\ Goto(w, On(w, "fetch"))
  /\ UNCHANGED <<store, msgs, buttons, feed, day, lives, lock, credited>>

\* SSI may fail, or omit the event.
Fetch(w) ==
  /\ At(w, "fetch")
  /\ \E d \in {NoEvent} \cup (IF call[w].job # "none" THEN {feed} ELSE {}) :
       Goto(w, [On(w, "syncLock") EXCEPT !.found = d])
  /\ UNCHANGED <<store, pending, msgs, buttons, feed, day, lives, lock, credited>>

\* Mutant: the merge starts from a portfolio read without the lock.
MutSyncUnlocked(w) ==
  /\ At(w, "syncLock")
  /\ LET new == Merged(store, call[w].found, call[w].since)
     IN Goto(w, [On(w, IF new = store THEN "notify" ELSE "syncSave")
                   EXCEPT !.read = store, !.mine = new])
  /\ UNCHANGED <<store, pending, msgs, buttons, feed, day, lives, lock, credited>>

\* syncDividendHistory reloads under the lock and saves only a change.
Sync(w) ==
  /\ At(w, "syncLock")
  /\ lock = Free
  /\ LET new == Merged(store, call[w].found, call[w].since)
     IN IF new = store
          THEN UNCHANGED lock /\ Goto(w, On(w, "notify"))
          ELSE /\ Acquire(w)
               /\ Goto(w, [On(w, "syncSave") EXCEPT !.read = store, !.mine = new])
  /\ UNCHANGED <<store, pending, msgs, buttons, feed, day, lives, credited>>

\* After an error the user is told, and the flow ends.
SyncSave(w) ==
  /\ At(w, "syncSave")
  /\ Release(w)
  /\ \E outcome \in PutOutcomes :
       /\ store' = Put(store, call[w].mine, outcome)
       /\ Goto(w, IF outcome = "ok" THEN On(w, "notify") ELSE NoCall)
  /\ UNCHANGED <<pending, msgs, buttons, feed, day, lives, credited>>

\* The reload without the lock that decides between a suggestion and a notice (which
\* changes nothing) or silence.
Notify(w) ==
  /\ At(w, "notify")
  /\ Goto(w, IF Open(store) /\ Due(store.rec, call[w].since)
               THEN [On(w, "suggestLock") EXCEPT !.read = store]
               ELSE NoCall)
  /\ UNCHANGED <<store, pending, msgs, buttons, feed, day, lives, lock, credited>>

\* sendDividendSuggestion checks the event and the position again.
Suggest(w) ==
  /\ At(w, "suggestLock")
  /\ lock = Free
  /\ IF /\ Open(store)
        /\ Due(store.rec, day)
        /\ store.life = call[w].read.life
        /\ OpenedByRecordDate(store)
       THEN lock' = w /\ Goto(w, [On(w, "send") EXCEPT !.old = pending.msg])
       ELSE UNCHANGED lock /\ Goto(w, NoCall)
  /\ UNCHANGED <<store, pending, msgs, buttons, feed, day, lives, credited>>

Send(w) ==
  /\ At(w, "send")
  /\ msgs' = Append(msgs, [life |-> store.life, expires |-> day + 1, bound |-> FALSE])
  /\ buttons' = buttons \cup {Len(msgs) + 1}
  /\ Goto(w, [On(w, "bind") EXCEPT !.msg = Len(msgs) + 1])
  /\ UNCHANGED <<store, pending, feed, day, lives, lock, credited>>

SendFails(w) ==
  /\ "send" \in Faults
  /\ At(w, "send")
  /\ Return(w)
  /\ UNCHANGED <<store, pending, msgs, buttons, feed, day, lives, credited>>

\* A best-effort edit.
RemoveButton(m) ==
  buttons' \in {buttons \ {m}} \cup (IF "edit" \in Faults THEN {buttons} ELSE {})

\* The pending action is bound to the message; its Put supersedes the previous one.
Bind(w) ==
  /\ At(w, "bind")
  /\ LET m == call[w].msg
         action == [msg |-> m, life |-> msgs[m].life, expires |-> msgs[m].expires]
     IN \E outcome \in PutOutcomes :
          /\ pending' = Put(pending, action, outcome)
          /\ IF outcome = "ok"
               THEN /\ msgs' = [msgs EXCEPT ![m].bound = TRUE]
                    /\ Goto(w, On(w, "retire"))
                    /\ UNCHANGED <<buttons, lock>>
               ELSE Return(w) /\ RemoveButton(m) /\ UNCHANGED msgs
  /\ UNCHANGED <<store, feed, day, lives, credited>>

Retire(w) ==
  /\ At(w, "retire")
  /\ Return(w)
  /\ IF call[w].old # 0 THEN RemoveButton(call[w].old) ELSE UNCHANGED buttons
  /\ UNCHANGED <<store, pending, msgs, feed, day, lives, credited>>

-----------------------------------------------------------------------------
(* A press of the "Apply dividend" button *)

\* resolveDividendCallback, without the lock.  A press may arrive after its button
\* was removed; only the one the action is bound to is taken further.
Press(w, m) ==
  /\ At(w, "idle")
  /\ pending.msg = m
  /\ Goto(w, [Began(IF pending.expires <= day THEN "expired" ELSE "consumeLock")
                EXCEPT !.msg = m, !.pressed = m])
  /\ UNCHANGED <<store, pending, msgs, buttons, feed, day, lives, lock, credited>>

\* Mutant: a rejection returns without unlocking.
MutRejectLocked(w) ==
  /\ At(w, "expired") \/ At(w, "discard")
  /\ DeleteAction
  /\ RemoveButton(call[w].msg)
  /\ Goto(w, NoCall)
  /\ UNCHANGED <<store, msgs, feed, day, lives, lock, credited>>

\* invalidateDividendAction, after a rejection or a credit: delete the action and
\* remove the button of the message it names.
Reject(w) ==
  /\ At(w, "expired") \/ At(w, "discard")
  /\ DeleteAction
  /\ RemoveButton(call[w].msg)
  /\ Return(w)
  /\ UNCHANGED <<store, msgs, feed, day, lives, credited>>

\* Mutants: checks of the next operator that could be missing.
MutApplicableTwice(p, action) == p.qty > 0 /\ p.rec.known /\ Due(p.rec, day)
                                 /\ p.life = action.life
MutApplicableAnyLife(p, action) == Open(p) /\ Due(p.rec, day) /\ OpenedByRecordDate(p)

\* The checks that a suggestion must still pass when it is consumed.
Applicable(p, action) == /\ Open(p)
                         /\ Due(p.rec, day)
                         /\ p.life = action.life
                         /\ OpenedByRecordDate(p)

\* consumeDividendAction reads the action again under the lock, and that one counts.
\* A dividend that cannot be computed leaves everything as it is.
Consume(w) ==
  /\ At(w, "consumeLock")
  /\ lock = Free
  /\ CASE pending = NoAction \/ (Applicable(store, pending) /\ ~Fits(store)) ->
            UNCHANGED lock /\ Goto(w, NoCall)
       [] pending # NoAction /\ ~Applicable(store, pending) ->
            lock' = w /\ Goto(w, [On(w, "discard") EXCEPT !.msg = pending.msg])
       [] OTHER ->
            lock' = w /\ Goto(w, [On(w, "credit") EXCEPT !.msg = pending.msg,
                                                       !.read = store,
                                                       !.mine = Credited(store)])
  /\ UNCHANGED <<store, pending, msgs, buttons, feed, day, lives, credited>>

Credit(w) ==
  /\ At(w, "credit")
  /\ \E outcome \in PutOutcomes :
       /\ store' = Put(store, call[w].mine, outcome)
       /\ credited' = Put(credited, credited + 1, outcome)
       /\ IF outcome = "ok" THEN Goto(w, On(w, "discard")) /\ UNCHANGED lock
                            ELSE Return(w)
  /\ UNCHANGED <<pending, msgs, buttons, feed, day, lives>>

-----------------------------------------------------------------------------
(* The environment *)

\* A handler (bounded by its HTTP timeouts) runs over at most one midnight.
Tick == /\ day < LastDay
        /\ \A w \in Workers : At(w, "idle") \/ call[w].since = day
        /\ day' = day + 1
        /\ UNCHANGED <<store, pending, msgs, buttons, feed, lives, lock, call, credited>>

\* SSI sets or corrects the Record date.
Correct == /\ feed' \in RecordDays
           /\ UNCHANGED <<store, pending, msgs, buttons, day, lives, lock, call, credited>>

Crash == /\ "crash" \in Faults
         /\ call' = [w \in Workers |-> NoCall]
         /\ lock' = Free
         /\ UNCHANGED <<store, pending, msgs, buttons, feed, day, lives, credited>>

Commands(w) == HandleTopup(w) \/ HandleBuy(w) \/ HandleSell(w)
               \/ HandleCashDividend(w) \/ HandleShareDividend(w)

\* The steps of a call; those of LockStep wait for the user lock.
Step(w) == \/ SaveCommand(w) \/ CleanupRead(w) \/ CleanupDelete(w) \/ Fetch(w)
           \/ SyncSave(w) \/ Notify(w) \/ Send(w) \/ SendFails(w) \/ Bind(w)
           \/ Retire(w) \/ Reject(w) \/ Credit(w)
LockStep(w) == Sync(w) \/ Suggest(w) \/ Consume(w)

Next == \/ \E w \in Workers : \/ Commands(w) \/ BeginPortfolio(w)
                              \/ \E m \in 1 .. Len(msgs) : Press(w, m)
                              \/ Step(w) \/ LockStep(w)
        \/ Tick \/ Correct \/ Crash

Spec == Init /\ [][Next]_vars

\* A call goes on; a mutex is handed to a goroutine that has long waited for it.
FairSpec == Spec /\ \A w \in Workers : WF_vars(Step(w)) /\ SF_vars(LockStep(w))

-----------------------------------------------------------------------------
(* Inductive invariants *)

Idle == \A w \in Workers : At(w, "idle")

\* The places between taking the user lock and releasing it, and those that save.
Critical == {"save", "syncSave", "send", "bind", "retire", "credit", "discard"}
Saving == {"save", "syncSave", "credit"}

\* Only the holder of the lock is in its critical section.
LockHeld == \A w \in Workers : call[w].at \in Critical <=> lock = w

\* A message being bound has been sent, and the stored action is about a sent message
\* and the lifecycle that message was made for.
MessagesKnown ==
  /\ \A w \in Workers : At(w, "bind") => call[w].msg \in 1 .. Len(msgs)
  /\ pending # NoAction => /\ pending.msg \in 1 .. Len(msgs)
                           /\ pending.life = msgs[pending.msg].life

\* A payout about to be saved has passed the checks on the portfolio it loaded and on
\* the message that was pressed.
CreditReady ==
  \A w \in Workers : At(w, "credit") =>
    /\ Open(call[w].read) /\ Due(call[w].read.rec, day) /\ OpenedByRecordDate(call[w].read)
    /\ call[w].msg \in 1 .. Len(msgs)
    /\ msgs[call[w].msg].life = call[w].read.life
    /\ call[w].mine = Credited(call[w].read)

\* The one worker the bot runs leaves the action of a press alone until it has read it
\* again, so the action that counts is that of the button that was pressed.
Alone == \A v, w \in Workers : v = w
PressKept ==
  Alone => \A w \in Workers : /\ At(w, "consumeLock") => call[w].pressed = pending.msg
                              /\ At(w, "credit") => call[w].pressed = call[w].msg

\* Once paid out, the event is either remembered as processed or so old that SSI is no
\* longer asked for it: a portfolio request asks for recent events and for those it
\* remembers as open, and forgets none that is still recent.
Asking == {"cleanup", "delete", "fetch", "syncLock", "syncSave"}
CreditSettled ==
  /\ store.rec.known => store.rec.day \in RecordDays
  /\ credited # 0 => IF store.rec.known THEN store.rec.done ELSE day > Published + Discovery
  /\ \A w \in Workers :
       /\ call[w].since <= day
       /\ At(w, "save") => call[w].mine.rec = call[w].read.rec
       /\ At(w, "syncSave") =>
            call[w].mine = Merged(call[w].read, call[w].found, call[w].since)
       /\ call[w].at \in Asking =>
            /\ call[w].job = "recent" => call[w].since <= Published + Discovery
            /\ call[w].job = "historical" => credited = 0
            /\ credited # 0 /\ ~store.rec.known => call[w].since > Published + Discovery
            /\ call[w].found # NoEvent => call[w].found \in RecordDays /\ call[w].job # "none"

-----------------------------------------------------------------------------
(* Properties *)

\* The portfolio that a handler is about to overwrite is the one it loaded: no
\* trade, dividend or history refresh is lost, although the portfolio is saved with
\* an unversioned Put and SSI is asked without the lock.
NoLostUpdate == \A w \in Workers : call[w].at \in Saving => call[w].read = store

\* The event is paid out at most once, through repeated suggestions, presses, lost
\* replies, restarts, sales and repurchases, corrected Record dates and pruning.
CreditedOnce == credited <= 1

\* A payout happens from the Record date on, only if the position was open by then, and
\* only to the very lifecycle of the position that the action read again under the lock
\* was made for (dividend_callback.go:96-132).  With the one worker the bot runs that is
\* the action of the pressed button; were there several, the action might have been
\* replaced since the press.
CreditJustified ==
  [][credited' > credited =>
       /\ Open(store) /\ Due(store.rec, day) /\ OpenedByRecordDate(store)
       /\ \E w \in Workers : /\ At(w, "credit") /\ msgs[call[w].msg].life = store.life
                             /\ Alone => call[w].pressed = call[w].msg]_vars

\* Every call ends, so the user lock is always released.
CallsReturn == \A w \in Workers : ~At(w, "idle") ~> At(w, "idle")
=============================================================================
