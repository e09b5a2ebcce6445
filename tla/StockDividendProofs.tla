------------------------- MODULE StockDividendProofs -------------------------
(***************************************************************************)
(* Theorems about the stock account and its dividend event, for every      *)
(* number of workers, every bound and every schedule of record dates.      *)
(***************************************************************************)
EXTENDS StockDividend, TLAPS

-----------------------------------------------------------------------------
(* The operators on portfolios *)

\* The empty values have their types.
LEMMA NewTypes == /\ NoRecord \in Records /\ NewPortfolio \in Portfolios
                  /\ NoAction \in Actions /\ NoCall \in Calls
BY DEF NoRecord, Records, NewPortfolio, Portfolios, NoAction, Actions, NoCall, Calls,
       Places, NoEvent

\* The trading commands turn portfolios into portfolios.
LEMMA TradeTypes ==
  ASSUME NEW p \in Portfolios, lives \in Nat, day \in Nat
  PROVE  /\ Topup(p) \in Portfolios
         /\ p.cash > 0 => Buy(p) \in Portfolios
         /\ \A n \in 1 .. p.qty : Sell(p, n) \in Portfolios
<1>1. Topup(p) \in Portfolios
  BY DEF Topup, Portfolios
<1>0. /\ p.cash \in Nat /\ p.qty \in Nat /\ p.rec \in Records
      /\ p.life \in Nat /\ p.opened \in Nat
  BY DEF Portfolios
<1>2. ASSUME p.cash > 0 PROVE Buy(p) \in Portfolios
  <2>1. p.cash - 1 \in Nat /\ p.qty + 1 \in Nat /\ lives + 1 \in Nat
    BY <1>0, <1>2
  <2>2. CASE p.qty = 0
    BY <2>1, <2>2 DEF Buy, Portfolios
  <2>3. CASE p.qty # 0
    BY <2>1, <2>3 DEF Buy, Portfolios
  <2> QED BY <2>2, <2>3
<1>3. ASSUME NEW n \in 1 .. p.qty PROVE Sell(p, n) \in Portfolios
  <2>1. p.cash + n \in Nat /\ p.qty - n \in Nat
    BY <1>0
  <2>2. CASE n = p.qty
    BY <2>1, <2>2 DEF Sell, Portfolios
  <2>3. CASE n # p.qty
    BY <2>1, <2>3 DEF Sell, Portfolios
  <2> QED BY <2>2, <2>3
<1> QED BY <1>1, <1>2, <1>3

\* So do the dividends, when their guards hold.
LEMMA DividendTypes ==
  ASSUME NEW p \in Portfolios
  PROVE  /\ CashDividend(p) \in Portfolios
         /\ SharesFit(p) => ShareDividend(p) \in Portfolios
         /\ Fits(p) => Credited(p) \in Portfolios
<1> USE DividendAssumption
<1>1. p.qty \in Nat /\ p.cash \in Nat
  BY DEF Portfolios
<1>2. p.qty * PerShare \in Nat
  BY <1>1
<1>3. CashDividend(p) \in Portfolios
  BY <1>1, <1>2 DEF CashDividend, Portfolios
<1>4. Entitlement(p.qty) \in Int
  BY <1>1 DEF Entitlement
<1>5. SharesFit(p) => ShareDividend(p) \in Portfolios
  BY <1>1, <1>4 DEF SharesFit, ShareDividend, Portfolios
<1>6. ASSUME NEW q \in Portfolios PROVE [q EXCEPT !.rec.done = TRUE] \in Portfolios
  BY DEF Portfolios, Records
<1>7. Fits(p) => Credited(p) \in Portfolios
  BY <1>3, <1>5, <1>6 DEF Fits, Credited
<1> QED BY <1>3, <1>5, <1>7

\* The refreshed portfolio is a portfolio.
LEMMA MergedType ==
  ASSUME NEW p \in Portfolios, NEW d \in Nat \cup {NoEvent}, NEW now \in Nat
  PROVE  Merged(p, d, now) \in Portfolios
<1>1. Pruned(p, now) \in Portfolios
  BY NewTypes DEF Pruned, Portfolios
<1>2. ASSUME d # NoEvent, NEW q \in Portfolios
      PROVE  [q EXCEPT !.rec = [known |-> TRUE, day |-> d, done |-> q.rec.done]] \in Portfolios
  BY <1>2 DEF Portfolios, Records
<1> QED BY <1>1, <1>2 DEF Merged

-----------------------------------------------------------------------------
(* Type correctness *)

\* Moving a call to another place keeps its type.
LEMMA CallTypes ==
  ASSUME TypeOK, NEW w \in Workers
  PROVE  /\ \A c \in Calls : [call EXCEPT ![w] = c] \in [Workers -> Calls]
         /\ \A place \in Places : On(w, place) \in Calls /\ Began(place) \in Calls
BY NewTypes DEF TypeOK, On, Began, Calls

\* Every step keeps the types; binding relies on the message having been sent.
LEMMA TypeStep == TypeOK /\ MessagesKnown /\ [Next]_vars => TypeOK'
<1> SUFFICES ASSUME TypeOK, MessagesKnown, [Next]_vars PROVE TypeOK'
  OBVIOUS
<1>t. /\ store \in Portfolios /\ pending \in Actions /\ msgs \in Seq(Messages)
      /\ buttons \subseteq Nat /\ feed \in RecordDays
      /\ day \in Nat /\ lives \in Nat /\ credited \in Nat
      /\ lock \in Workers \cup {Free} /\ call \in [Workers -> Calls]
  BY DEF TypeOK
<1>0. NoAction \in Actions /\ NoCall \in Calls
  BY NewTypes
<1>1. CASE UNCHANGED vars
  BY <1>1 DEF vars, TypeOK
<1>2. ASSUME NEW w \in Workers, NEW new \in Portfolios, Command(w, new), lives' \in Nat
      PROVE TypeOK'
  <2>0. Began("save") \in Calls
    BY CallTypes DEF Places
  <2>1. [Began("save") EXCEPT !.read = store, !.mine = new] \in Calls
    BY <1>t, <2>0 DEF Calls
  <2> QED BY <1>t, <1>2, <2>1, CallTypes DEF Command, Goto, Acquire, TypeOK
<1>3. ASSUME NEW w \in Workers, Commands(w) PROVE TypeOK'
  <2>1. CASE HandleTopup(w)
    BY <1>t, <1>2, <2>1, TradeTypes DEF HandleTopup
  <2>2. CASE HandleBuy(w)
    <3>1. store.cash > 0 /\ lives' \in Nat /\ Command(w, Buy(store))
      BY <1>t, <2>2 DEF HandleBuy
    <3> QED BY <1>t, <1>2, <3>1, TradeTypes
  <2>3. CASE HandleSell(w)
    BY <1>t, <1>2, <2>3, TradeTypes DEF HandleSell
  <2>4. CASE HandleCashDividend(w)
    BY <1>t, <1>2, <2>4, DividendTypes DEF HandleCashDividend
  <2>5. CASE HandleShareDividend(w)
    BY <1>t, <1>2, <2>5, DividendTypes DEF HandleShareDividend
  <2> QED BY <1>3, <2>1, <2>2, <2>3, <2>4, <2>5 DEF Commands
<1>4. ASSUME NEW w \in Workers, BeginPortfolio(w) PROVE TypeOK'
  <2>0. Began("cleanup") \in Calls
    BY CallTypes DEF Places
  <2>1. [Began("cleanup") EXCEPT !.job = JobFor(store, day)] \in Calls
    BY <2>0 DEF JobFor, Calls
  <2> QED BY <1>t, <1>4, <2>1, CallTypes DEF BeginPortfolio, Goto, TypeOK
<1>5. ASSUME NEW w \in Workers, NEW m \in 1 .. Len(msgs), Press(w, m) PROVE TypeOK'
  <2>0. Began(IF pending.expires <= day THEN "expired" ELSE "consumeLock") \in Calls
    BY CallTypes DEF Places
  <2>1. [Began(IF pending.expires <= day THEN "expired" ELSE "consumeLock")
           EXCEPT !.msg = m, !.pressed = m] \in Calls
    <3>1. m \in Nat
      BY <1>t
    <3> QED BY <2>0, <3>1 DEF Calls
  <2>2. \E c \in Calls : Goto(w, c)
    BY <1>5, <2>1 DEF Press
  <2> QED BY <1>t, <1>5, <2>2, CallTypes DEF Press, Goto, TypeOK
<1>6. ASSUME NEW w \in Workers, Step(w) PROVE TypeOK'
  <2>c. /\ call[w] \in Calls /\ call[w].mine \in Portfolios /\ call[w].msg \in Nat
        /\ \A place \in Places : On(w, place) \in Calls
    BY <1>t, CallTypes DEF Calls
  <2>r. Release(w) => lock' \in Workers \cup {Free}
    BY <1>t DEF Release
  <2>d. DeleteAction => pending' \in Actions
    BY <1>t, <1>0 DEF DeleteAction
  <2>b. ASSUME NEW m, RemoveButton(m) PROVE buttons' \subseteq Nat
    BY <1>t, <2>b DEF RemoveButton
  <2>1. CASE SaveCommand(w)
    BY <1>t, <1>0, <2>c, <2>r, <2>1, CallTypes DEF SaveCommand, Put, Return, Goto, TypeOK
  <2>2. CASE CleanupRead(w)
    BY <1>t, <2>c, <2>2, CallTypes DEF CleanupRead, Goto, TypeOK, Places
  <2>3. CASE CleanupDelete(w)
    BY <1>t, <2>c, <2>d, <2>3, CallTypes DEF CleanupDelete, Goto, TypeOK, Places
  <2>4. CASE Fetch(w)
    <3>1. \A d \in Nat \cup {NoEvent} : [On(w, "syncLock") EXCEPT !.found = d] \in Calls
      BY <2>c DEF Calls, Places
    <3>2. feed \in Nat
      BY <1>t, RecordDaysAssumption
    <3>3. \E c \in Calls : Goto(w, c)
      BY <2>4, <3>1, <3>2 DEF Fetch
    <3> QED BY <1>t, <2>4, <3>3, CallTypes DEF Fetch, Goto, TypeOK
  <2>5. CASE SyncSave(w)
    <3>1. store' \in Portfolios
      BY <1>t, <2>c, <2>5 DEF SyncSave, Put
    <3>2. \E c \in Calls : Goto(w, c)
      BY <1>0, <2>c, <2>5 DEF SyncSave, Places
    <3> QED BY <1>t, <2>r, <2>5, <3>1, <3>2, CallTypes DEF SyncSave, Goto, TypeOK
  <2>6. CASE Notify(w)
    <3>1. [On(w, "suggestLock") EXCEPT !.read = store] \in Calls
      BY <1>t, <2>c DEF Calls, Places
    <3> QED BY <1>t, <1>0, <2>6, <3>1, CallTypes DEF Notify, Goto, TypeOK
  <2>7. CASE Send(w)
    <3>1. /\ [life |-> store.life, expires |-> day + 1, bound |-> FALSE] \in Messages
          /\ Len(msgs) + 1 \in Nat
      BY <1>t DEF Portfolios, Messages
    <3>2. [On(w, "bind") EXCEPT !.msg = Len(msgs) + 1] \in Calls
      BY <2>c, <3>1 DEF Calls, Places
    <3>3. msgs' \in Seq(Messages)
      BY <1>t, <2>7, <3>1 DEF Send
    <3>4. buttons' \subseteq Nat
      BY <1>t, <2>7, <3>1 DEF Send
    <3> QED BY <1>t, <2>7, <3>2, <3>3, <3>4, CallTypes DEF Send, Goto, TypeOK
  <2>8. CASE SendFails(w)
    BY <1>t, <1>0, <2>r, <2>8, CallTypes DEF SendFails, Return, Goto, TypeOK
  <2>9. CASE Bind(w)
    <3> DEFINE m == call[w].msg
               action == [msg |-> m, life |-> msgs[m].life, expires |-> msgs[m].expires]
    <3>1. CASE m \in 1 .. Len(msgs)
      <4>1. msgs[m] \in Messages
        BY <1>t, <3>1
      <4>2. action \in Actions
        BY <2>c, <4>1 DEF Messages, Actions
      <4>3. [msgs EXCEPT ![m].bound = TRUE] \in Seq(Messages)
        <5>1. [msgs[m] EXCEPT !.bound = TRUE] \in Messages
          BY <4>1 DEF Messages
        <5> QED BY <1>t, <3>1, <5>1
      <4>4. pending' \in Actions
        BY <1>t, <2>9, <4>2 DEF Bind, Put
      <4>5. msgs' \in Seq(Messages)
        BY <1>t, <2>9, <4>3 DEF Bind
      <4>6. buttons' \subseteq Nat /\ lock' \in Workers \cup {Free}
        BY <1>t, <2>b, <2>r, <2>9 DEF Bind, Return
      <4>7. call' \in [Workers -> Calls]
        BY <1>0, <2>c, <2>9, CallTypes DEF Bind, Return, Goto, Places
      <4> QED BY <1>t, <2>9, <4>4, <4>5, <4>6, <4>7 DEF Bind, TypeOK
    <3> QED BY <2>9, <3>1 DEF Bind, MessagesKnown
  <2>10. CASE Retire(w)
    BY <1>t, <1>0, <2>b, <2>r, <2>10, CallTypes DEF Retire, Return, Goto, TypeOK
  <2>11. CASE Reject(w)
    BY <1>t, <1>0, <2>b, <2>d, <2>r, <2>11, CallTypes DEF Reject, Return, Goto, TypeOK
  <2>12. CASE Credit(w)
    <3>1. store' \in Portfolios /\ credited' \in Nat
      BY <1>t, <2>c, <2>12 DEF Credit, Put
    <3>2. lock' \in Workers \cup {Free} /\ call' \in [Workers -> Calls]
      BY <1>t, <1>0, <2>c, <2>r, <2>12, CallTypes DEF Credit, Return, Goto, Places
    <3> QED BY <1>t, <2>12, <3>1, <3>2 DEF Credit, TypeOK
  <2> QED
    BY <1>6, <2>1, <2>2, <2>3, <2>4, <2>5, <2>6, <2>7, <2>8, <2>9, <2>10, <2>11,
       <2>12 DEF Step
<1>7. ASSUME NEW w \in Workers, LockStep(w) PROVE TypeOK'
  <2>c. /\ call[w] \in Calls /\ call[w].found \in Nat \cup {NoEvent}
        /\ call[w].since \in Nat
        /\ \A place \in Places : On(w, place) \in Calls
    BY <1>t, CallTypes DEF Calls
  <2>1. CASE Sync(w)
    <3> DEFINE new == Merged(store, call[w].found, call[w].since)
    <3>1. new \in Portfolios
      BY <1>t, <2>c, MergedType
    <3>2. [On(w, "syncSave") EXCEPT !.read = store, !.mine = new] \in Calls
      BY <1>t, <2>c, <3>1 DEF Calls, Places
    <3>3. On(w, "notify") \in Calls
      BY <2>c DEF Places
    <3> HIDE DEF new
    <3> QED BY <1>t, <2>1, <3>2, <3>3, CallTypes DEF Sync, Acquire, Goto, TypeOK, new
  <2>2. CASE Suggest(w)
    <3>1. [On(w, "send") EXCEPT !.old = pending.msg] \in Calls
      BY <1>t, <2>c DEF Calls, Places, Actions
    <3> QED BY <1>t, <1>0, <2>2, <3>1, CallTypes DEF Suggest, Goto, TypeOK
  <2>3. CASE Consume(w)
    <3>1. [On(w, "discard") EXCEPT !.msg = pending.msg] \in Calls
      BY <1>t, <2>c DEF Calls, Places, Actions
    <3>2. Fits(store) => [On(w, "credit") EXCEPT !.msg = pending.msg, !.read = store,
                            !.mine = Credited(store)] \in Calls
      BY <1>t, <2>c, DividendTypes DEF Calls, Places, Actions
    <3>3. lock' \in Workers \cup {Free} /\ \E c \in Calls : Goto(w, c)
      BY <1>t, <1>0, <2>3, <3>1, <3>2 DEF Consume
    <3>4. UNCHANGED <<store, pending, msgs, buttons, feed, day, lives, credited>>
      BY <2>3 DEF Consume
    <3> QED BY <1>t, <3>3, <3>4, CallTypes DEF Goto, TypeOK
  <2> QED BY <1>7, <2>1, <2>2, <2>3 DEF LockStep
<1>8. CASE Tick
  BY <1>t, <1>8 DEF Tick, TypeOK
<1>9. CASE Correct
  BY <1>t, <1>9 DEF Correct, TypeOK
<1>10. CASE Crash
  BY <1>t, <1>0, <1>10 DEF Crash, TypeOK
<1> QED
  BY <1>1, <1>3, <1>4, <1>5, <1>6, <1>7, <1>8, <1>9, <1>10 DEF Next

-----------------------------------------------------------------------------
(* The user lock *)

\* How a step of w treats the lock and the portfolio: it enters its critical section
\* by taking the free lock, leaves it by releasing the lock, saves only there, and
\* arrives at a save with the portfolio as it is stored.
Disciplined(w) ==
  /\ \A v \in Workers : v # w => call'[v] = call[v]
  /\ \/ call[w].at \notin Critical /\ call'[w].at \notin Critical /\ lock' = lock
     \/ call[w].at \notin Critical /\ lock = Free /\ lock' = w /\ call'[w].at \in Critical
     \/ call[w].at \in Critical /\ call'[w].at \notin Critical /\ lock' = Free
     \/ call[w].at \in Critical /\ call'[w].at \in Critical /\ lock' = lock
  /\ store' # store => call[w].at \in Saving
  /\ call'[w].at \in Saving => call'[w].read = store /\ store' = store

\* Every step of a worker is disciplined.
LEMMA WorkerStep ==
  ASSUME TypeOK, LockHeld, NEW w \in Workers,
         \/ Commands(w) \/ BeginPortfolio(w) \/ Step(w) \/ LockStep(w)
         \/ \E m \in 1 .. Len(msgs) : Press(w, m)
  PROVE  Disciplined(w)
<1> USE DEF Disciplined, Goto, At, On, Began, NoCall, Critical, Saving
<1>t. call \in [Workers -> Calls] /\ lock \in Workers \cup {Free}
  BY DEF TypeOK
<1>f. Free \notin Workers
  BY DividendAssumption
<1>l. call[w].at \in Critical <=> lock = w
  BY DEF LockHeld
<1>c. /\ call[w] = [at |-> call[w].at, since |-> call[w].since, read |-> call[w].read,
                    mine |-> call[w].mine, job |-> call[w].job,
                    found |-> call[w].found, msg |-> call[w].msg, old |-> call[w].old,
                    pressed |-> call[w].pressed]
  BY <1>t DEF Calls
<1>1. ASSUME NEW new, Command(w, new) PROVE Disciplined(w)
  BY <1>t, <1>1 DEF Command, Acquire
<1>2. CASE Commands(w)
  BY <1>1, <1>2 DEF Commands, HandleTopup, HandleBuy, HandleSell, HandleCashDividend,
     HandleShareDividend
<1>3. CASE BeginPortfolio(w)
  BY <1>t, <1>3 DEF BeginPortfolio
<1>4. ASSUME NEW m \in 1 .. Len(msgs), Press(w, m) PROVE Disciplined(w)
  BY <1>t, <1>4 DEF Press
<1>5. CASE Step(w)
  <2>1. CASE SaveCommand(w)
    BY <1>t, <1>l, <2>1 DEF SaveCommand, Return, Release
  <2>2. CASE CleanupRead(w)
    BY <1>t, <1>c, <2>2 DEF CleanupRead
  <2>3. CASE CleanupDelete(w)
    BY <1>t, <1>c, <2>3 DEF CleanupDelete
  <2>4. CASE Fetch(w)
    BY <1>t, <1>c, <2>4 DEF Fetch
  <2>5. CASE SyncSave(w)
    BY <1>t, <1>c, <1>l, <2>5 DEF SyncSave, Release
  <2>6. CASE Notify(w)
    BY <1>t, <1>c, <2>6 DEF Notify
  <2>7. CASE Send(w)
    BY <1>t, <1>c, <2>7 DEF Send
  <2>8. CASE SendFails(w)
    BY <1>t, <1>l, <2>8 DEF SendFails, Return, Release
  <2>9. CASE Bind(w)
    BY <1>t, <1>c, <1>l, <2>9 DEF Bind, Return, Release
  <2>10. CASE Retire(w)
    BY <1>t, <1>l, <2>10 DEF Retire, Return, Release
  <2>11. CASE Reject(w)
    BY <1>t, <1>l, <2>11 DEF Reject, Return, Release
  <2>12. CASE Credit(w)
    BY <1>t, <1>c, <1>l, <2>12 DEF Credit, Return, Release
  <2> QED
    BY <1>5, <2>1, <2>2, <2>3, <2>4, <2>5, <2>6, <2>7, <2>8, <2>9, <2>10, <2>11,
       <2>12 DEF Step
<1>6. CASE LockStep(w)
  <2>1. CASE Sync(w)
    BY <1>t, <1>c, <1>l, <1>f, <2>1 DEF Sync, Acquire
  <2>2. CASE Suggest(w)
    <3>1. /\ call[w].at = "suggestLock" /\ lock = Free /\ store' = store
          /\ \/ lock' = w /\ Goto(w, [On(w, "send") EXCEPT !.old = pending.msg])
             \/ lock' = lock /\ Goto(w, NoCall)
      BY <2>2 DEF Suggest
    <3>2. [On(w, "send") EXCEPT !.old = pending.msg].at = "send"
      BY <1>c
    <3>3. CASE lock' = w /\ Goto(w, [On(w, "send") EXCEPT !.old = pending.msg])
      <4>1. call'[w].at = "send" /\ \A v \in Workers : v # w => call'[v] = call[v]
        BY <1>t, <3>2, <3>3
      <4> QED BY <3>1, <3>3, <4>1
    <3>4. CASE lock' = lock /\ Goto(w, NoCall)
      BY <1>t, <3>1, <3>4
    <3> QED BY <3>1, <3>3, <3>4
  <2>3. CASE Consume(w)
    <3>1. /\ call[w].at = "consumeLock" /\ lock = Free /\ store' = store
          /\ \/ lock' = lock /\ Goto(w, NoCall)
             \/ lock' = w /\ Goto(w, [On(w, "discard") EXCEPT !.msg = pending.msg])
             \/ lock' = w /\ Goto(w, [On(w, "credit") EXCEPT !.msg = pending.msg,
                                         !.read = store, !.mine = Credited(store)])
      BY <2>3 DEF Consume
    <3>2. [On(w, "discard") EXCEPT !.msg = pending.msg].at = "discard"
      BY <1>c
    <3> DEFINE crediting == [On(w, "credit") EXCEPT !.msg = pending.msg, !.read = store,
                                                  !.mine = Credited(store)]
    <3>3. crediting.at = "credit" /\ crediting.read = store
      BY <1>c
    <3> HIDE DEF crediting
    <3>4. CASE lock' = lock /\ Goto(w, NoCall)
      BY <1>t, <3>1, <3>4
    <3>5. CASE lock' = w /\ Goto(w, [On(w, "discard") EXCEPT !.msg = pending.msg])
      <4>1. call'[w].at = "discard" /\ \A v \in Workers : v # w => call'[v] = call[v]
        BY <1>t, <3>2, <3>5
      <4> QED BY <3>1, <3>5, <4>1
    <3>6. CASE lock' = w /\ Goto(w, crediting)
      <4>1. call'[w] = crediting /\ \A v \in Workers : v # w => call'[v] = call[v]
        BY <1>t, <3>6
      <4> QED BY <3>1, <3>3, <3>6, <4>1
    <3> QED BY <3>1, <3>4, <3>5, <3>6 DEF crediting
  <2> QED BY <1>6, <2>1, <2>2, <2>3 DEF LockStep
<1> QED BY <1>2, <1>3, <1>4, <1>5, <1>6

\* A disciplined step keeps the lock discipline, and no other worker can be about to
\* overwrite what it saves.
LEMMA DisciplinedKeeps ==
  ASSUME LockHeld, NoLostUpdate, NEW w \in Workers, Disciplined(w)
  PROVE  LockHeld' /\ NoLostUpdate'
<1>f. Free \notin Workers
  BY DividendAssumption
<1>1. LockHeld'
  BY <1>f DEF LockHeld, Disciplined
<1>2. ASSUME NEW v \in Workers, call'[v].at \in Saving PROVE call'[v].read = store'
  <2>1. CASE v = w
    BY <1>2, <2>1 DEF Disciplined
  <2>2. CASE v # w
    <3>1. call'[v] = call[v] /\ call[v].read = store
      BY <1>2, <2>2 DEF Disciplined, NoLostUpdate
    <3>2. lock = v
      BY <1>2, <3>1 DEF LockHeld, Saving, Critical
    <3>3. call[w].at \notin Saving
      BY <2>2, <3>2 DEF LockHeld, Saving, Critical
    <3> QED BY <3>1, <3>3 DEF Disciplined
  <2> QED BY <2>1, <2>2
<1> QED BY <1>1, <1>2 DEF NoLostUpdate

\* Every step keeps the lock discipline and NoLostUpdate.
LEMMA LockStepKeeps ==
  TypeOK /\ LockHeld /\ NoLostUpdate /\ [Next]_vars => LockHeld' /\ NoLostUpdate'
<1> SUFFICES ASSUME TypeOK, LockHeld, NoLostUpdate, [Next]_vars
             PROVE LockHeld' /\ NoLostUpdate'
  OBVIOUS
<1>1. CASE \E w \in Workers : \/ Commands(w) \/ BeginPortfolio(w)
                              \/ \E m \in 1 .. Len(msgs) : Press(w, m)
                              \/ Step(w) \/ LockStep(w)
  <2> PICK w \in Workers : \/ Commands(w) \/ BeginPortfolio(w)
                           \/ \E m \in 1 .. Len(msgs) : Press(w, m)
                           \/ Step(w) \/ LockStep(w)
    BY <1>1
  <2>1. Disciplined(w)
    BY WorkerStep
  <2> QED BY <2>1, DisciplinedKeeps
<1>2. CASE UNCHANGED <<store, call, lock>>
  BY <1>2 DEF LockHeld, NoLostUpdate
<1>3. CASE Crash
  BY <1>3, DividendAssumption DEF Crash, LockHeld, NoLostUpdate, NoCall, Critical, Saving
<1> QED
  BY <1>1, <1>2, <1>3 DEF Next, vars, Tick, Correct

-----------------------------------------------------------------------------
(* Messages and the stored action *)

\* Only Send moves a call to the place where its message is bound, only Consume to the
\* one where a payout is saved, only Press to the one where its action is read again, and
\* no step but Send and Bind touches a message or stores an action.
LEMMA Arrivals ==
  ASSUME TypeOK, NEW w \in Workers,
         \/ Commands(w) \/ BeginPortfolio(w) \/ \E m \in 1 .. Len(msgs) : Press(w, m)
         \/ SaveCommand(w) \/ CleanupRead(w) \/ CleanupDelete(w) \/ Fetch(w)
         \/ SyncSave(w) \/ Notify(w) \/ SendFails(w) \/ Retire(w) \/ Reject(w)
         \/ Credit(w) \/ LockStep(w)
  PROVE  /\ call'[w].at # "bind" /\ (call'[w].at = "credit" => Consume(w))
         /\ call'[w].at = "consumeLock" => \E m \in 1 .. Len(msgs) : Press(w, m)
         /\ \A v \in Workers : v # w => call'[v] = call[v]
         /\ UNCHANGED msgs
         /\ pending' \in {pending, NoAction}
<1> USE DEF Goto, On, Began, NoCall
<1>t. call \in [Workers -> Calls]
  BY DEF TypeOK
<1>c. /\ call[w] = [at |-> call[w].at, since |-> call[w].since, read |-> call[w].read,
                    mine |-> call[w].mine, job |-> call[w].job,
                    found |-> call[w].found, msg |-> call[w].msg, old |-> call[w].old,
                    pressed |-> call[w].pressed]
  BY <1>t DEF Calls
<1>1. CASE Commands(w)
  <2>1. ASSUME NEW new, Command(w, new)
        PROVE  /\ call'[w].at \notin {"bind", "credit", "consumeLock"}
               /\ \A v \in Workers : v # w => call'[v] = call[v]
               /\ UNCHANGED <<msgs, pending>>
    BY <1>t, <2>1 DEF Command
  <2> QED BY <1>1, <2>1 DEF Commands, HandleTopup, HandleBuy, HandleSell,
        HandleCashDividend, HandleShareDividend
<1>2. CASE BeginPortfolio(w)
  BY <1>t, <1>2 DEF BeginPortfolio
<1>3. ASSUME NEW m \in 1 .. Len(msgs), Press(w, m)
      PROVE  /\ call'[w].at \notin {"bind", "credit"} /\ \A v \in Workers : v # w => call'[v] = call[v]
             /\ UNCHANGED <<msgs, pending>>
  BY <1>t, <1>3 DEF Press
<1>4. CASE SaveCommand(w)
  BY <1>t, <1>4 DEF SaveCommand, Return
<1>5. CASE CleanupRead(w)
  BY <1>t, <1>c, <1>5 DEF CleanupRead
<1>6. CASE CleanupDelete(w)
  BY <1>t, <1>c, <1>6 DEF CleanupDelete, DeleteAction
<1>7. CASE Fetch(w)
  BY <1>t, <1>c, <1>7 DEF Fetch
<1>8. CASE SyncSave(w)
  BY <1>t, <1>c, <1>8 DEF SyncSave
<1>9. CASE Notify(w)
  BY <1>t, <1>c, <1>9 DEF Notify
<1>10. CASE SendFails(w)
  BY <1>t, <1>10 DEF SendFails, Return
<1>11. CASE Retire(w)
  BY <1>t, <1>11 DEF Retire, Return
<1>12. CASE Reject(w)
  BY <1>t, <1>12 DEF Reject, Return, DeleteAction
<1>13. CASE Credit(w)
  BY <1>t, <1>c, <1>13 DEF Credit, Return
<1>14. CASE Sync(w)
  <2> DEFINE new == Merged(store, call[w].found, call[w].since)
             saving == [On(w, "syncSave") EXCEPT !.read = store, !.mine = new]
  <2>1. saving.at = "syncSave" /\ On(w, "notify").at = "notify"
    BY <1>c
  <2> HIDE DEF new, saving
  <2>2. call' = [call EXCEPT ![w] = saving] \/ call' = [call EXCEPT ![w] = On(w, "notify")]
    BY <1>14 DEF Sync, new, saving
  <2> HIDE DEF On
  <2> QED BY <1>t, <1>14, <2>1, <2>2 DEF Sync
<1>15. CASE Suggest(w)
  <2> DEFINE sending == [On(w, "send") EXCEPT !.old = pending.msg]
  <2>1. sending.at = "send"
    BY <1>c
  <2> HIDE DEF sending
  <2>2. call' = [call EXCEPT ![w] = sending] \/ call' = [call EXCEPT ![w] = NoCall]
    BY <1>15 DEF Suggest, sending
  <2> QED BY <1>t, <1>15, <2>1, <2>2 DEF Suggest
<1>16. CASE Consume(w)
  <2> DEFINE discarding == [On(w, "discard") EXCEPT !.msg = pending.msg]
             crediting == [On(w, "credit") EXCEPT !.msg = pending.msg, !.read = store,
                                                !.mine = Credited(store)]
  <2>1. discarding.at = "discard" /\ crediting.at = "credit"
    BY <1>c
  <2> HIDE DEF discarding, crediting
  <2>2. \/ call' = [call EXCEPT ![w] = discarding] \/ call' = [call EXCEPT ![w] = NoCall]
        \/ call' = [call EXCEPT ![w] = crediting]
    BY <1>16 DEF Consume, discarding, crediting
  <2> QED BY <1>t, <1>16, <2>1, <2>2 DEF Consume
<1> QED
  BY <1>1, <1>2, <1>3, <1>4, <1>5, <1>6, <1>7, <1>8, <1>9, <1>10, <1>11, <1>12, <1>13,
     <1>14, <1>15, <1>16 DEF LockStep

\* Every step keeps the stored action about a message that was sent, and about the
\* lifecycle the message was made for.
LEMMA MessagesStep ==
  TypeOK /\ MessagesKnown /\ [Next]_vars => MessagesKnown'
<1> SUFFICES ASSUME TypeOK, MessagesKnown, [Next]_vars PROVE MessagesKnown'
  OBVIOUS
<1>t. /\ call \in [Workers -> Calls] /\ msgs \in Seq(Messages) /\ pending \in Actions
      /\ Len(msgs) \in Nat
  BY DEF TypeOK
<1> DEFINE Binding == \A w \in Workers : call'[w].at = "bind" => call'[w] = call[w]
<1>0. ASSUME Binding, UNCHANGED msgs, pending' \in {pending, NoAction}
      PROVE MessagesKnown'
  <2>1. \A w \in Workers : call'[w].at = "bind" => call'[w].msg \in 1 .. Len(msgs')
    BY <1>0 DEF MessagesKnown, At
  <2>2. pending' # NoAction => /\ pending'.msg \in 1 .. Len(msgs')
                               /\ pending'.life = msgs'[pending'.msg].life
    BY <1>0 DEF MessagesKnown
  <2> QED BY <2>1, <2>2 DEF MessagesKnown, At
<1>1. CASE UNCHANGED vars
  BY <1>0, <1>1 DEF vars
<1>2. CASE Tick \/ Correct
  BY <1>0, <1>2 DEF Tick, Correct
<1>3. CASE Crash
  BY <1>0, <1>3 DEF Crash, NoCall
<1>4. ASSUME NEW w \in Workers,
             \/ Commands(w) \/ BeginPortfolio(w) \/ \E m \in 1 .. Len(msgs) : Press(w, m)
             \/ SaveCommand(w) \/ CleanupRead(w) \/ CleanupDelete(w) \/ Fetch(w)
             \/ SyncSave(w) \/ Notify(w) \/ SendFails(w) \/ Retire(w) \/ Reject(w)
             \/ Credit(w) \/ LockStep(w)
      PROVE MessagesKnown'
  <2>1. /\ call'[w].at # "bind" /\ \A v \in Workers : v # w => call'[v] = call[v]
        /\ UNCHANGED msgs
        /\ pending' \in {pending, NoAction}
    BY <1>4, Arrivals
  <2> QED BY <1>0, <2>1
<1>6. ASSUME NEW w \in Workers, Send(w) PROVE MessagesKnown'
  <2> DEFINE m == [life |-> store.life, expires |-> day + 1, bound |-> FALSE]
             binding == [On(w, "bind") EXCEPT !.msg = Len(msgs) + 1]
  <2>1. /\ msgs' = Append(msgs, m)
        /\ call' = [call EXCEPT ![w] = binding]
        /\ pending' = pending
    BY <1>6 DEF Send, Goto
  <2>2. binding.msg = Len(msgs) + 1
    BY <1>t DEF On, Calls
  <2>3. m \in Messages
    BY DEF TypeOK, Portfolios, Messages
  <2> HIDE DEF m, binding
  <2>4. /\ Len(msgs') = Len(msgs) + 1
        /\ \A i \in 1 .. Len(msgs) : msgs'[i] = msgs[i]
    BY <1>t, <2>1, <2>3
  <2>5. call'[w].msg = Len(msgs) + 1 /\ \A v \in Workers : v # w => call'[v] = call[v]
    BY <1>t, <2>1, <2>2
  <2>6. ASSUME NEW v \in Workers, call'[v].at = "bind"
        PROVE  call'[v].msg \in 1 .. Len(msgs')
    <3>1. CASE v = w
      BY <1>t, <2>4, <2>5, <3>1
    <3>2. CASE v # w
      BY <1>t, <2>4, <2>5, <2>6, <3>2 DEF MessagesKnown, At
    <3> QED BY <3>1, <3>2
  <2>7. pending' # NoAction => /\ pending'.msg \in 1 .. Len(msgs')
                               /\ pending'.life = msgs'[pending'.msg].life
    BY <1>t, <2>1, <2>4 DEF MessagesKnown
  <2> QED BY <2>6, <2>7 DEF MessagesKnown, At
<1>7. ASSUME NEW w \in Workers, Bind(w) PROVE MessagesKnown'
  <2> DEFINE m == call[w].msg
  <2>1. m \in 1 .. Len(msgs)
    BY <1>7 DEF Bind, MessagesKnown, At
  <2>2. pending' \in {pending,
                      [msg |-> m, life |-> msgs[m].life, expires |-> msgs[m].expires]}
    BY <1>7 DEF Bind, Put
  <2>3. msgs' \in {msgs, [msgs EXCEPT ![m].bound = TRUE]}
    BY <1>7 DEF Bind
  <2>4. On(w, "retire").at = "retire"
    BY <1>t DEF On, Calls
  <2>5. \/ call' = [call EXCEPT ![w] = On(w, "retire")]
        \/ call' = [call EXCEPT ![w] = NoCall]
    BY <1>7 DEF Bind, Return, Goto
  <2>6. \A v \in Workers : call'[v].at = "bind" => call'[v] = call[v]
    BY <1>t, <2>4, <2>5 DEF NoCall
  <2>7. Len(msgs') = Len(msgs) /\ \A i \in 1 .. Len(msgs) : msgs'[i].life = msgs[i].life
    <3> DEFINE bound == [msgs[m] EXCEPT !.bound = TRUE]
    <3>1. bound.life = msgs[m].life
      BY <1>t, <2>1 DEF Messages
    <3> HIDE DEF bound
    <3>2. msgs' \in {msgs, [msgs EXCEPT ![m] = bound]}
      BY <2>3 DEF bound
    <3> QED BY <1>t, <2>1, <3>1, <3>2
  <2>8. pending' # NoAction => /\ pending'.msg \in 1 .. Len(msgs)
                               /\ pending'.life = msgs[pending'.msg].life
    BY <2>1, <2>2 DEF MessagesKnown
  <2> QED BY <2>6, <2>7, <2>8 DEF MessagesKnown, At
<1> QED
  BY <1>1, <1>2, <1>3, <1>4, <1>6, <1>7 DEF Next, Step

-----------------------------------------------------------------------------
(* What a payout has checked *)

\* A payout about to be saved keeps what Consume established: days only pass, and the
\* lifecycle a message was made for never changes.
LEMMA ReadyStep ==
  TypeOK /\ MessagesKnown /\ CreditReady /\ [Next]_vars => CreditReady'
<1> SUFFICES ASSUME TypeOK, MessagesKnown, CreditReady, [Next]_vars,
                    NEW v \in Workers, call'[v].at = "credit"
             PROVE  /\ Open(call'[v].read)
                    /\ Due(call'[v].read.rec, day') /\ OpenedByRecordDate(call'[v].read)
                    /\ call'[v].msg \in 1 .. Len(msgs')
                    /\ msgs'[call'[v].msg].life = call'[v].read.life
                    /\ call'[v].mine = Credited(call'[v].read)
  BY DEF CreditReady, At
<1>t. /\ call \in [Workers -> Calls] /\ msgs \in Seq(Messages) /\ pending \in Actions
      /\ Len(msgs) \in Nat /\ day \in Nat /\ store \in Portfolios
  BY DEF TypeOK
<1>1. ASSUME call'[v] = call[v], day' \in Nat, day' >= day, Len(msgs') >= Len(msgs),
             Len(msgs') \in Nat,
             \A i \in 1 .. Len(msgs) : msgs'[i].life = msgs[i].life
      PROVE  /\ Open(call'[v].read)
             /\ Due(call'[v].read.rec, day') /\ OpenedByRecordDate(call'[v].read)
             /\ call'[v].msg \in 1 .. Len(msgs')
             /\ msgs'[call'[v].msg].life = call'[v].read.life
             /\ call'[v].mine = Credited(call'[v].read)
  <2>1. /\ Open(call[v].read) /\ Due(call[v].read.rec, day) /\ OpenedByRecordDate(call[v].read)
        /\ call[v].msg \in 1 .. Len(msgs) /\ msgs[call[v].msg].life = call[v].read.life
        /\ call[v].mine = Credited(call[v].read)
    BY <1>1 DEF CreditReady, At
  <2>2. call[v].read.rec.day \in Nat
    BY <1>t DEF Calls, Portfolios, Records
  <2> QED BY <1>t, <1>1, <2>1, <2>2 DEF Due
<1>2. CASE UNCHANGED <<call, msgs>> /\ day' \in {day, day + 1}
  BY <1>t, <1>1, <1>2
<1>3. CASE Crash
  BY <1>3 DEF Crash, NoCall
<1>4. ASSUME NEW w \in Workers, Send(w) \/ Bind(w) PROVE call'[v] = call[v]
  <2> DEFINE binding == [On(w, "bind") EXCEPT !.msg = Len(msgs) + 1]
             retiring == On(w, "retire")
  <2>1. binding.at = "bind" /\ retiring.at = "retire" /\ NoCall.at = "idle"
    BY <1>t DEF On, Calls, NoCall
  <2> HIDE DEF binding, retiring
  <2>2. \/ call' = [call EXCEPT ![w] = binding]
        \/ call' = [call EXCEPT ![w] = retiring]
        \/ call' = [call EXCEPT ![w] = NoCall]
    BY <1>4 DEF Send, Bind, Return, Goto, binding, retiring
  <2> QED BY <1>t, <2>1, <2>2
<1>5. ASSUME NEW w \in Workers, Send(w)
      PROVE  /\ day' = day /\ Len(msgs') = Len(msgs) + 1
             /\ \A i \in 1 .. Len(msgs) : msgs'[i].life = msgs[i].life
  <2> DEFINE m == [life |-> store.life, expires |-> day + 1, bound |-> FALSE]
  <2>1. msgs' = Append(msgs, m) /\ day' = day
    BY <1>5 DEF Send
  <2>2. m \in Messages
    BY <1>t DEF Portfolios, Messages
  <2> HIDE DEF m
  <2> QED BY <1>t, <2>1, <2>2
<1>6. ASSUME NEW w \in Workers, Bind(w)
      PROVE  /\ day' = day /\ Len(msgs') = Len(msgs)
             /\ \A i \in 1 .. Len(msgs) : msgs'[i].life = msgs[i].life
  <2> DEFINE m == call[w].msg
             bound == [msgs[m] EXCEPT !.bound = TRUE]
  <2>1. m \in 1 .. Len(msgs)
    BY <1>6 DEF Bind, MessagesKnown, At
  <2>2. bound.life = msgs[m].life
    BY <1>t, <2>1 DEF Messages
  <2>3. msgs' \in {msgs, [msgs EXCEPT ![m] = bound]} /\ day' = day
    BY <1>6 DEF Bind
  <2> HIDE DEF bound
  <2> QED BY <1>t, <2>1, <2>2, <2>3
<1>7. ASSUME NEW w \in Workers, Consume(w), v = w
      PROVE  /\ Open(call'[v].read)
             /\ Due(call'[v].read.rec, day') /\ OpenedByRecordDate(call'[v].read)
             /\ call'[v].msg \in 1 .. Len(msgs')
             /\ msgs'[call'[v].msg].life = call'[v].read.life
             /\ call'[v].mine = Credited(call'[v].read)
  <2> DEFINE crediting == [On(w, "credit") EXCEPT !.msg = pending.msg, !.read = store,
                                                !.mine = Credited(store)]
             discarding == [On(w, "discard") EXCEPT !.msg = pending.msg]
  <2>1. discarding.at = "discard"
    BY <1>t DEF On, Calls
  <2>2. crediting.read = store /\ crediting.msg = pending.msg
        /\ crediting.mine = Credited(store)
    <3>1. call[w] = [at |-> call[w].at, since |-> call[w].since, read |-> call[w].read,
                     mine |-> call[w].mine, job |-> call[w].job,
                     found |-> call[w].found, msg |-> call[w].msg, old |-> call[w].old,
                    pressed |-> call[w].pressed]
      BY <1>t DEF Calls
    <3> QED BY <3>1 DEF On
  <2> HIDE DEF crediting, discarding
  <2>3. \/ call' = [call EXCEPT ![w] = NoCall]
        \/ call' = [call EXCEPT ![w] = discarding]
        \/ /\ call' = [call EXCEPT ![w] = crediting]
           /\ pending # NoAction /\ Applicable(store, pending)
    BY <1>7 DEF Consume, Goto, crediting, discarding
  <2>4. /\ call'[v] = crediting /\ pending # NoAction /\ Applicable(store, pending)
        /\ day' = day /\ msgs' = msgs
    BY <1>t, <1>7, <2>1, <2>3 DEF NoCall, Consume
  <2> QED BY <1>7, <2>2, <2>4 DEF Applicable, MessagesKnown
<1>8. ASSUME NEW w \in Workers,
             \/ Commands(w) \/ BeginPortfolio(w) \/ \E m \in 1 .. Len(msgs) : Press(w, m)
             \/ SaveCommand(w) \/ CleanupRead(w) \/ CleanupDelete(w) \/ Fetch(w)
             \/ SyncSave(w) \/ Notify(w) \/ SendFails(w) \/ Retire(w) \/ Reject(w)
             \/ Credit(w) \/ LockStep(w)
      PROVE  \/ call'[v] = call[v] /\ UNCHANGED <<msgs, day>>
             \/ Consume(w) /\ v = w
  <2>1. /\ call'[w].at = "credit" => Consume(w)
        /\ \A u \in Workers : u # w => call'[u] = call[u]
        /\ UNCHANGED msgs
    BY <1>8, Arrivals
  <2>2. UNCHANGED day
    BY <1>8 DEF Commands, HandleTopup, HandleBuy, HandleSell, HandleCashDividend,
       HandleShareDividend, Command, BeginPortfolio, Press, SaveCommand, CleanupRead,
       CleanupDelete, Fetch, SyncSave, Notify, SendFails, Retire, Reject, Credit,
       LockStep, Sync, Suggest, Consume
  <2> QED BY <2>1, <2>2
<1> QED
  BY <1>t, <1>1, <1>2, <1>3, <1>4, <1>5, <1>6, <1>7, <1>8
     DEF Next, Step, Tick, Correct, vars

-----------------------------------------------------------------------------
\* The portfolio, the action, the messages and every call keep their types.
THEOREM TypeCorrect == Spec => []TypeOK
<1>1. Init => TypeOK /\ MessagesKnown
  BY NewTypes, DividendAssumption DEF Init, TypeOK, MessagesKnown, At, NoCall, Portfolios,
     NewPortfolio
<1> QED
  BY <1>1, TypeStep, MessagesStep, PTL DEF Spec

\* The stored action is always about a sent message and the lifecycle of that message.
LEMMA MessagesInvariant == Spec => []MessagesKnown
<1>1. Init => TypeOK /\ MessagesKnown
  BY NewTypes, DividendAssumption DEF Init, TypeOK, MessagesKnown, At, NoCall, Portfolios,
     NewPortfolio
<1> QED
  BY <1>1, TypeStep, MessagesStep, PTL DEF Spec

\* No handler overwrites a portfolio it has not just loaded, however many run.
THEOREM NoLostUpdateCorrect == Spec => []NoLostUpdate
<1>1. Init => LockHeld /\ NoLostUpdate
  BY DividendAssumption DEF Init, LockHeld, NoLostUpdate, NoCall, Critical, Saving
<1> QED
  BY <1>1, TypeCorrect, LockStepKeeps, PTL DEF Spec

\* Only Credit pays the event out.
LEMMA OnlyCreditPays ==
  ASSUME TypeOK, Next, credited' > credited
  PROVE  \E w \in Workers : Credit(w)
<1>0. credited \in Nat
  BY DEF TypeOK
<1>1. ASSUME NEW w \in Workers, Commands(w) PROVE credited' = credited
  BY <1>1 DEF Commands, HandleTopup, HandleBuy, HandleSell, HandleCashDividend,
     HandleShareDividend, Command
<1>2. ASSUME NEW w \in Workers,
             BeginPortfolio(w) \/ (\E m \in 1 .. Len(msgs) : Press(w, m)) \/ LockStep(w)
      PROVE  credited' = credited
  BY <1>2 DEF BeginPortfolio, Press, LockStep, Sync, Suggest, Consume
<1>3. ASSUME NEW w \in Workers, Step(w), ~Credit(w) PROVE credited' = credited
  BY <1>3 DEF Step, SaveCommand, CleanupRead, CleanupDelete, Fetch, SyncSave, Notify, Send,
     SendFails, Bind, Retire, Reject
<1>4. ASSUME Tick \/ Correct \/ Crash PROVE credited' = credited
  BY <1>4 DEF Tick, Correct, Crash
<1> QED BY <1>0, <1>1, <1>2, <1>3, <1>4 DEF Next

\* With one worker nothing but its own call touches the action of a press.
LEMMA PressStep == TypeOK /\ PressKept /\ [Next]_vars => PressKept'
<1> SUFFICES ASSUME TypeOK, PressKept, [Next]_vars, Alone, NEW w \in Workers
             PROVE  /\ call'[w].at = "consumeLock" => call'[w].pressed = pending'.msg
                    /\ call'[w].at = "credit" => call'[w].pressed = call'[w].msg
  BY DEF PressKept, Alone, At
<1>t. call \in [Workers -> Calls]
  BY DEF TypeOK
<1>k. /\ call[w].at = "consumeLock" => call[w].pressed = pending.msg
      /\ call[w].at = "credit" => call[w].pressed = call[w].msg
  BY DEF PressKept, At
<1>1. CASE UNCHANGED <<call, pending>>
  BY <1>k, <1>1
<1>2. CASE Crash
  BY <1>2 DEF Crash, NoCall
<1>3. ASSUME NEW m \in 1 .. Len(msgs), Press(w, m)
      PROVE  call'[w].pressed = m /\ pending' = pending /\ pending.msg = m /\ call'[w].msg = m
  <2> DEFINE c == [Began(IF pending.expires <= day THEN "expired" ELSE "consumeLock")
                     EXCEPT !.msg = m, !.pressed = m]
  <2>1. c.msg = m /\ c.pressed = m
    BY DEF Began, NoCall
  <2>2. call' = [call EXCEPT ![w] = c] /\ pending' = pending /\ pending.msg = m
    BY <1>3 DEF Press, Goto
  <2> HIDE DEF c
  <2> QED BY <1>t, <2>1, <2>2
<1>4. CASE Consume(w)
  <2> DEFINE crediting == [On(w, "credit") EXCEPT !.msg = pending.msg, !.read = store,
                                                !.mine = Credited(store)]
             discarding == [On(w, "discard") EXCEPT !.msg = pending.msg]
  <2>1. /\ crediting.at = "credit" /\ crediting.msg = pending.msg
        /\ crediting.pressed = call[w].pressed /\ discarding.at = "discard"
        /\ NoCall.at = "idle"
    <3>1. call[w] = [at |-> call[w].at, since |-> call[w].since, read |-> call[w].read,
                     mine |-> call[w].mine, job |-> call[w].job,
                     found |-> call[w].found, msg |-> call[w].msg, old |-> call[w].old,
                     pressed |-> call[w].pressed]
      BY <1>t DEF Calls
    <3> QED BY <3>1 DEF On, NoCall
  <2> HIDE DEF crediting, discarding
  <2>2. \/ call' = [call EXCEPT ![w] = NoCall]
        \/ call' = [call EXCEPT ![w] = discarding]
        \/ call' = [call EXCEPT ![w] = crediting]
    BY <1>4 DEF Consume, Goto, crediting, discarding
  <2>3. call[w].at = "consumeLock"
    BY <1>4 DEF Consume, At
  <2> QED BY <1>t, <1>k, <2>1, <2>2, <2>3
<1>5. CASE Send(w) \/ Bind(w)
  <2> DEFINE binding == [On(w, "bind") EXCEPT !.msg = Len(msgs) + 1]
             retiring == On(w, "retire")
  <2>1. binding.at = "bind" /\ retiring.at = "retire" /\ NoCall.at = "idle"
    BY <1>t DEF On, Calls, NoCall
  <2> HIDE DEF binding, retiring
  <2>2. \/ call' = [call EXCEPT ![w] = binding]
        \/ call' = [call EXCEPT ![w] = retiring]
        \/ call' = [call EXCEPT ![w] = NoCall]
    BY <1>5 DEF Send, Bind, Return, Goto, binding, retiring
  <2> QED BY <1>t, <2>1, <2>2
<1>6. ASSUME \/ Commands(w) \/ BeginPortfolio(w) \/ \E m \in 1 .. Len(msgs) : Press(w, m)
             \/ SaveCommand(w) \/ CleanupRead(w) \/ CleanupDelete(w) \/ Fetch(w)
             \/ SyncSave(w) \/ Notify(w) \/ SendFails(w) \/ Retire(w) \/ Reject(w)
             \/ Credit(w) \/ LockStep(w)
      PROVE  /\ call'[w].at = "credit" => Consume(w)
             /\ call'[w].at = "consumeLock" => \E m \in 1 .. Len(msgs) : Press(w, m)
  BY <1>6, Arrivals
<1> QED
  <2>1. CASE \E v \in Workers : Commands(v) \/ BeginPortfolio(v) \/ Step(v) \/ LockStep(v)
                               \/ \E m \in 1 .. Len(msgs) : Press(v, m)
    <3>1. \/ Commands(w) \/ BeginPortfolio(w) \/ Step(w) \/ LockStep(w)
          \/ \E m \in 1 .. Len(msgs) : Press(w, m)
      BY <2>1 DEF Alone
    <3> QED BY <1>3, <1>4, <1>5, <1>6, <3>1 DEF Step
  <2>2. CASE Tick \/ Correct \/ UNCHANGED vars
    BY <1>1, <2>2 DEF Tick, Correct, vars
  <2> QED BY <1>2, <2>1, <2>2 DEF Next

\* However many handlers run and whatever fails, a payout happens from the Record date
\* on, to the lifecycle that the action read under the lock was made for, and where
\* there is one worker, as in the bot, that is the action of the pressed button.
THEOREM CreditJustifiedCorrect == Spec => CreditJustified
<1>1. Init => CreditReady /\ PressKept
  BY DEF Init, CreditReady, PressKept, At, NoCall
<1>2. TypeOK /\ NoLostUpdate /\ CreditReady /\ PressKept /\ Next /\ credited' > credited =>
        /\ Open(store) /\ Due(store.rec, day) /\ OpenedByRecordDate(store)
        /\ \E w \in Workers : /\ At(w, "credit") /\ msgs[call[w].msg].life = store.life
                              /\ Alone => call[w].pressed = call[w].msg
  <2> SUFFICES ASSUME TypeOK, NoLostUpdate, CreditReady, PressKept, Next, credited' > credited
               PROVE  /\ Open(store) /\ Due(store.rec, day) /\ OpenedByRecordDate(store)
                      /\ \E w \in Workers : /\ At(w, "credit")
                                            /\ msgs[call[w].msg].life = store.life
                                            /\ Alone => call[w].pressed = call[w].msg
    OBVIOUS
  <2>1. PICK w \in Workers : Credit(w)
    BY OnlyCreditPays
  <2>2. At(w, "credit")
    BY <2>1 DEF Credit
  <2>3. call[w].read = store
    BY <2>2 DEF NoLostUpdate, At, Saving
  <2>4. Alone => call[w].pressed = call[w].msg
    BY <2>2 DEF PressKept
  <2> QED BY <2>2, <2>3, <2>4 DEF CreditReady
<1>3. Spec => []CreditReady
  BY <1>1, ReadyStep, TypeCorrect, MessagesInvariant, PTL DEF Spec
<1>4. Spec => []PressKept
  BY <1>1, PressStep, TypeCorrect, PTL DEF Spec
<1> QED
  BY <1>2, <1>3, <1>4, TypeCorrect, NoLostUpdateCorrect, PTL DEF Spec, CreditJustified

-----------------------------------------------------------------------------
(* The event is paid out once *)

\* The places where CreditSettled asks something of a call.
Watched == Asking \cup {"save", "syncSave"}

\* A call moved to another place.
LEMMA MovedCall ==
  ASSUME call \in [Workers -> Calls], NEW w \in Workers, NEW place
  PROVE  /\ call[w] = [at |-> call[w].at, since |-> call[w].since, read |-> call[w].read,
                       mine |-> call[w].mine, job |-> call[w].job,
                       found |-> call[w].found, msg |-> call[w].msg, old |-> call[w].old,
                    pressed |-> call[w].pressed]
         /\ On(w, place) =
              [at |-> place, since |-> call[w].since, read |-> call[w].read,
               mine |-> call[w].mine, job |-> call[w].job,
               found |-> call[w].found, msg |-> call[w].msg, old |-> call[w].old,
                    pressed |-> call[w].pressed]
<1>1. call[w] = [at |-> call[w].at, since |-> call[w].since, read |-> call[w].read,
                 mine |-> call[w].mine, job |-> call[w].job,
                 found |-> call[w].found, msg |-> call[w].msg, old |-> call[w].old,
                    pressed |-> call[w].pressed]
  BY DEF Calls
<1> QED BY <1>1 DEF On

\* The steps that neither prepare a save nor ask SSI anything leave the account alone.
LEMMA QuietStep ==
  ASSUME TypeOK, CreditSettled, NEW w \in Workers,
         \/ \E m \in 1 .. Len(msgs) : Press(w, m)
         \/ Notify(w) \/ Suggest(w) \/ Send(w) \/ SendFails(w) \/ Bind(w) \/ Retire(w)
         \/ Reject(w) \/ Consume(w)
  PROVE  /\ call'[w].at \notin Watched /\ call'[w].since <= day
         /\ UNCHANGED <<store, credited, day>>
<1>t. call \in [Workers -> Calls] /\ day \in Nat
  BY DEF TypeOK
<1>s. call[w].since <= day
  BY DEF CreditSettled
<1> USE DEF Watched, Asking
<1>0. NoCall.at = "idle" /\ NoCall.since = 0
  BY DEF NoCall
<1>1. CASE \E m \in 1 .. Len(msgs) : Press(w, m)
  <2>1. PICK m \in 1 .. Len(msgs) : Press(w, m)
    BY <1>1
  <2> DEFINE c == [Began(IF pending.expires <= day THEN "expired" ELSE "consumeLock")
                     EXCEPT !.msg = m, !.pressed = m]
  <2>2. c.at \in {"expired", "consumeLock"} /\ c.since = day
    BY DEF Began, NoCall
  <2> HIDE DEF c
  <2>3. call' = [call EXCEPT ![w] = c]
    BY <2>1 DEF Press, Goto, c
  <2>4. UNCHANGED <<store, credited, day>>
    BY <2>1 DEF Press
  <2>5. call'[w] = c
    BY <1>t, <2>3
  <2> QED BY <1>t, <2>2, <2>4, <2>5
<1>2. ASSUME NEW c, call' = [call EXCEPT ![w] = c], c.at \notin Watched, c.since <= day
      PROVE  call'[w].at \notin Watched /\ call'[w].since <= day
  BY <1>t, <1>2
<1>3. CASE Notify(w)
  <2> DEFINE c == [On(w, "suggestLock") EXCEPT !.read = store]
  <2>1. c.at = "suggestLock" /\ c.since <= day
    BY <1>t, <1>s, MovedCall
  <2> HIDE DEF c
  <2>2. \/ call' = [call EXCEPT ![w] = c] \/ call' = [call EXCEPT ![w] = NoCall]
    BY <1>3 DEF Notify, Goto, c
  <2> QED BY <1>t, <1>0, <1>2, <1>3, <2>1, <2>2 DEF Notify
<1>4. CASE Suggest(w)
  <2> DEFINE c == [On(w, "send") EXCEPT !.old = pending.msg]
  <2>1. c.at = "send" /\ c.since <= day
    BY <1>t, <1>s, MovedCall
  <2> HIDE DEF c
  <2>2. \/ call' = [call EXCEPT ![w] = c] \/ call' = [call EXCEPT ![w] = NoCall]
    BY <1>4 DEF Suggest, Goto, c
  <2> QED BY <1>t, <1>0, <1>2, <1>4, <2>1, <2>2 DEF Suggest
<1>5. CASE Send(w)
  <2> DEFINE c == [On(w, "bind") EXCEPT !.msg = Len(msgs) + 1]
  <2>1. c.at = "bind" /\ c.since <= day
    BY <1>t, <1>s, MovedCall
  <2> HIDE DEF c
  <2>2. call' = [call EXCEPT ![w] = c]
    BY <1>5 DEF Send, Goto, c
  <2> QED BY <1>t, <1>2, <1>5, <2>1, <2>2 DEF Send
<1>6. CASE Bind(w)
  <2>1. On(w, "retire").at = "retire" /\ On(w, "retire").since <= day
    BY <1>t, <1>s, MovedCall
  <2>2. \/ call' = [call EXCEPT ![w] = On(w, "retire")]
        \/ call' = [call EXCEPT ![w] = NoCall]
    BY <1>6 DEF Bind, Return, Goto
  <2> QED BY <1>t, <1>0, <1>2, <1>6, <2>1, <2>2 DEF Bind
<1>7. CASE SendFails(w) \/ Retire(w) \/ Reject(w)
  BY <1>t, <1>0, <1>7 DEF SendFails, Retire, Reject, Return, Goto
<1>8. CASE Consume(w)
  <2> DEFINE discarding == [On(w, "discard") EXCEPT !.msg = pending.msg]
             crediting == [On(w, "credit") EXCEPT !.msg = pending.msg, !.read = store,
                                                !.mine = Credited(store)]
  <2>1. /\ discarding.at = "discard" /\ discarding.since <= day
        /\ crediting.at = "credit" /\ crediting.since <= day
    BY <1>t, <1>s, MovedCall
  <2> HIDE DEF discarding, crediting
  <2>2. \/ call' = [call EXCEPT ![w] = discarding] \/ call' = [call EXCEPT ![w] = NoCall]
        \/ call' = [call EXCEPT ![w] = crediting]
    BY <1>8 DEF Consume, Goto, discarding, crediting
  <2> QED BY <1>t, <1>0, <1>2, <1>8, <2>1, <2>2 DEF Consume
<1> QED BY <1>1, <1>3, <1>4, <1>5, <1>6, <1>7, <1>8

\* A refresh that follows a payout keeps the processed mark, or drops a record so old
\* that the request did not ask for the event.
LEMMA MergedSettled ==
  ASSUME NEW p \in Portfolios, NEW now \in Nat, NEW d \in Nat \cup {NoEvent},
         IF p.rec.known THEN p.rec.done /\ p.rec.day \in RecordDays
                        ELSE now > Published + Discovery,
         d # NoEvent => now <= Published + Discovery
  PROVE  LET new == Merged(p, d, now)
         IN IF new.rec.known THEN new.rec.done ELSE now > Published + Discovery
<1>1. p.rec \in Records /\ p.rec.day \in Nat
  BY DEF Portfolios, Records
<1>2. ASSUME p.rec.known, Expired(p.rec, now) PROVE now > Published + Discovery
  BY <1>1, <1>2, DividendAssumption, RecordDaysAssumption DEF Expired, Published
<1>3. CASE ~p.rec.known
  <2>1. d = NoEvent
    BY <1>3, DividendAssumption DEF Published
  <2> QED BY <1>3, <2>1 DEF Merged, Pruned
<1>4. CASE p.rec.known /\ Expired(p.rec, now)
  <2>1. now > Published + Discovery /\ d = NoEvent
    BY <1>2, <1>4, DividendAssumption DEF Published
  <2>2. Merged(p, d, now) = [p EXCEPT !.rec = NoRecord]
    BY <1>4, <2>1 DEF Merged, Pruned
  <2>3. [p EXCEPT !.rec = NoRecord].rec = NoRecord
    BY DEF Portfolios
  <2> QED BY <2>1, <2>2, <2>3 DEF NoRecord
<1>5. CASE p.rec.known /\ ~Expired(p.rec, now)
  <2>1. Pruned(p, now) = p
    BY <1>5 DEF Pruned
  <2>2. \/ Merged(p, d, now) = p
        \/ Merged(p, d, now) =
             [p EXCEPT !.rec = [known |-> TRUE, day |-> d, done |-> p.rec.done]]
    BY <2>1 DEF Merged
  <2>3. [p EXCEPT !.rec = [known |-> TRUE, day |-> d, done |-> p.rec.done]].rec
          = [known |-> TRUE, day |-> d, done |-> p.rec.done]
    BY DEF Portfolios
  <2>4. p.rec.done
    BY <1>5
  <2>5. CASE Merged(p, d, now) = p
    BY <1>5, <2>4, <2>5
  <2>6. CASE Merged(p, d, now) =
               [p EXCEPT !.rec = [known |-> TRUE, day |-> d, done |-> p.rec.done]]
    BY <2>3, <2>4, <2>6
  <2> QED BY <2>2, <2>5, <2>6
<1> QED BY <1>3, <1>4, <1>5

\* What CreditSettled asks of one call, by its fields.
LEMMA SettledBy ==
  ASSUME NEW self, Workers = {self},
         (store.rec.known => store.rec.day \in RecordDays)',
         (credited # 0 => IF store.rec.known THEN store.rec.done
                                             ELSE day > Published + Discovery)',
         call'[self].since <= day',
         \/ call'[self].at \notin Watched
         \/ call'[self].at = "save" /\ call'[self].mine.rec = call'[self].read.rec
         \/ /\ call'[self].at \in Asking
            /\ call'[self].at = "syncSave" =>
                 call'[self].mine = Merged(call'[self].read, call'[self].found,
                                           call'[self].since)
            /\ call'[self].job = "recent" => call'[self].since <= Published + Discovery
            /\ call'[self].job = "historical" => credited' = 0
            /\ credited' # 0 /\ ~store'.rec.known => call'[self].since > Published + Discovery
            /\ call'[self].found # NoEvent =>
                 call'[self].found \in RecordDays /\ call'[self].job # "none"
  PROVE  CreditSettled'
BY DEF CreditSettled, At, Watched, Asking

\* With one worker every step keeps the payout settled and single.
LEMMA SettledStep ==
  ASSUME NEW self, Workers = {self}
  PROVE  TypeOK /\ NoLostUpdate /\ CreditReady /\ CreditSettled /\ CreditedOnce
           /\ [Next]_vars => CreditSettled' /\ CreditedOnce'
<1> SUFFICES ASSUME TypeOK, NoLostUpdate, CreditReady, CreditSettled, CreditedOnce,
                    [Next]_vars
             PROVE  CreditSettled' /\ CreditedOnce'
  OBVIOUS
<1> DEFINE w == self
<1>t. /\ call \in [Workers -> Calls] /\ call[w] \in Calls /\ day \in Nat /\ credited \in Nat
      /\ store \in Portfolios /\ store.rec \in Records /\ w \in Workers
  BY DEF TypeOK, Portfolios
<1>s. /\ store.rec.known => store.rec.day \in RecordDays
      /\ credited # 0 => IF store.rec.known THEN store.rec.done
                                            ELSE day > Published + Discovery
      /\ call[w].since <= day
      /\ At(w, "save") => call[w].mine.rec = call[w].read.rec
      /\ At(w, "syncSave") =>
           call[w].mine = Merged(call[w].read, call[w].found, call[w].since)
      /\ call[w].at \in Asking =>
           /\ call[w].job = "recent" => call[w].since <= Published + Discovery
           /\ call[w].job = "historical" => credited = 0
           /\ credited # 0 /\ ~store.rec.known => call[w].since > Published + Discovery
           /\ call[w].found # NoEvent =>
                call[w].found \in RecordDays /\ call[w].job # "none"
  BY <1>t DEF CreditSettled
<1>r. call[w].at \in Saving => call[w].read = store
  BY <1>t DEF NoLostUpdate
<1>0. ASSUME UNCHANGED <<store, credited, day>>,
             call'[w].at \notin Watched, call'[w].since <= day
      PROVE  CreditSettled' /\ CreditedOnce'
  BY <1>0, <1>s, SettledBy DEF CreditedOnce
<1>1. CASE Tick \/ Correct \/ UNCHANGED vars
  <2>1. UNCHANGED <<store, call, credited>> /\ day' \in {day, day + 1}
    BY <1>1 DEF Tick, Correct, vars
  <2>2. call[w].since \in Nat /\ day' >= day /\ day' \in Nat
    BY <1>t, <2>1 DEF Calls
  <2> QED BY <1>t, <1>s, <2>1, <2>2, DividendAssumption
             DEF CreditSettled, CreditedOnce, At, Published
<1>2. CASE Crash
  BY <1>0, <1>2, <1>t DEF Crash, NoCall, Watched, Asking
<1>3. ASSUME NEW new, Command(w, new), new.rec = store.rec
      PROVE  CreditSettled' /\ CreditedOnce'
  <2> DEFINE c == [Began("save") EXCEPT !.read = store, !.mine = new]
  <2>1. c.at = "save" /\ c.mine.rec = c.read.rec /\ c.since = day
    BY <1>3 DEF Began, NoCall
  <2> HIDE DEF c
  <2>2. call'[w] = c /\ UNCHANGED <<store, credited, day>>
    BY <1>t, <1>3 DEF Command, Goto, c
  <2> QED BY <1>t, <1>s, <2>1, <2>2, SettledBy DEF CreditedOnce
<1>4. CASE Commands(w)
  <2>1. /\ Topup(store).rec = store.rec /\ Buy(store).rec = store.rec
        /\ CashDividend(store).rec = store.rec /\ ShareDividend(store).rec = store.rec
        /\ \A n \in 1 .. store.qty : Sell(store, n).rec = store.rec
    BY <1>t DEF Topup, Buy, CashDividend, ShareDividend, Sell, Portfolios
  <2> QED BY <1>3, <1>4, <2>1 DEF Commands, HandleTopup, HandleBuy, HandleSell,
        HandleCashDividend, HandleShareDividend
<1>5. CASE BeginPortfolio(w)
  <2> DEFINE c == [Began("cleanup") EXCEPT !.job = JobFor(store, day)]
  <2>1. c.at = "cleanup" /\ c.since = day /\ c.found = NoEvent /\ c.job = JobFor(store, day)
    BY DEF Began, NoCall
  <2> HIDE DEF c
  <2>2. call'[w] = c /\ UNCHANGED <<store, credited, day>>
    BY <1>t, <1>5 DEF BeginPortfolio, Goto, c
  <2>3. JobFor(store, day) = "recent" => day <= Published + Discovery
    BY <1>t, DividendAssumption DEF JobFor, Published
  <2>4. JobFor(store, day) = "historical" => Open(store)
    BY DEF JobFor
  <2>5. Open(store) => credited = 0
    BY <1>s DEF Open
  <2> QED BY <1>t, <1>s, <2>1, <2>2, <2>3, <2>4, <2>5, SettledBy DEF CreditedOnce, Asking
<1>6. ASSUME \/ \E m \in 1 .. Len(msgs) : Press(w, m)
             \/ Notify(w) \/ Suggest(w) \/ Send(w) \/ SendFails(w) \/ Bind(w) \/ Retire(w)
             \/ Reject(w) \/ Consume(w)
      PROVE  CreditSettled' /\ CreditedOnce'
  BY <1>0, <1>t, <1>6, QuietStep
<1>7. CASE SaveCommand(w)
  <2>1. store' \in {store, call[w].mine} /\ call[w].mine.rec = store.rec
    BY <1>r, <1>s, <1>7 DEF SaveCommand, Put, Saving, At
  <2>2. call'[w] = NoCall /\ UNCHANGED <<credited, day>>
    BY <1>t, <1>7 DEF SaveCommand, Return, Goto
  <2> QED BY <1>t, <1>s, <2>1, <2>2, SettledBy DEF CreditedOnce, NoCall, Watched, Asking
<1>8. ASSUME NEW c, call'[w] = c, UNCHANGED <<store, credited, day>>,
             call[w].at \in Asking, c.at \in Asking \ {"syncSave"}, c.since = call[w].since,
             c.job = call[w].job,
             c.found # NoEvent => c.found \in RecordDays /\ c.job # "none"
      PROVE  CreditSettled' /\ CreditedOnce'
  BY <1>t, <1>s, <1>8, SettledBy DEF CreditedOnce
<1>9. CASE CleanupRead(w) \/ CleanupDelete(w)
  <2>1. PICK place \in {"delete", "fetch"} : call' = [call EXCEPT ![w] = On(w, place)]
    BY <1>9 DEF CleanupRead, CleanupDelete, Goto
  <2>2. /\ call'[w].at = place /\ call'[w].since = call[w].since
        /\ call'[w].job = call[w].job /\ call'[w].found = call[w].found
    BY <1>t, <2>1, MovedCall
  <2>3. call[w].at \in Asking /\ UNCHANGED <<store, credited, day>>
    BY <1>9 DEF CleanupRead, CleanupDelete, At, Asking
  <2> QED BY <1>8, <1>s, <2>2, <2>3 DEF Asking
<1>10. CASE Fetch(w)
  <2>1. PICK d \in {NoEvent} \cup (IF call[w].job # "none" THEN {feed} ELSE {}) :
          call' = [call EXCEPT ![w] = [On(w, "syncLock") EXCEPT !.found = d]]
    BY <1>10 DEF Fetch, Goto
  <2> DEFINE c == [On(w, "syncLock") EXCEPT !.found = d]
  <2>2. /\ c.at = "syncLock" /\ c.since = call[w].since
        /\ c.job = call[w].job /\ c.found = d
    BY <1>t, MovedCall
  <2> HIDE DEF c
  <2>3. call'[w] = c
    BY <1>t, <2>1 DEF c
  <2>4. d # NoEvent => d \in RecordDays /\ call[w].job # "none"
    BY <2>1 DEF TypeOK
  <2>5. call[w].at \in Asking /\ UNCHANGED <<store, credited, day>>
    BY <1>10 DEF Fetch, At, Asking
  <2> QED BY <1>8, <2>2, <2>3, <2>4, <2>5 DEF Asking
<1>11. CASE Sync(w)
  <2> DEFINE new == Merged(store, call[w].found, call[w].since)
             c == [On(w, "syncSave") EXCEPT !.read = store, !.mine = new]
  <2>1. /\ c.at = "syncSave" /\ c.since = call[w].since /\ c.job = call[w].job
        /\ c.found = call[w].found /\ c.read = store /\ c.mine = new
    BY <1>t, MovedCall
  <2>2. On(w, "notify").at = "notify" /\ On(w, "notify").since = call[w].since
    BY <1>t, MovedCall
  <2> HIDE DEF c
  <2>3. call'[w] = c \/ call'[w] = On(w, "notify")
    BY <1>t, <1>11 DEF Sync, Goto, c
  <2>4. call[w].at \in Asking /\ UNCHANGED <<store, credited, day>>
    BY <1>11 DEF Sync, At, Asking
  <2>5. CASE call'[w] = On(w, "notify")
    BY <1>0, <1>s, <2>2, <2>4, <2>5 DEF Watched, Asking
  <2>6. CASE call'[w] = c
    BY <1>t, <1>s, <2>1, <2>4, <2>6, SettledBy DEF CreditedOnce, Asking
  <2> QED BY <2>3, <2>5, <2>6
<1>12. CASE SyncSave(w)
  <2> DEFINE now == call[w].since
             d == call[w].found
  <2>1. /\ At(w, "syncSave") /\ call[w].at \in Asking /\ call[w].read = store
        /\ call[w].mine = Merged(store, d, now)
        /\ now \in Nat /\ d \in Nat \cup {NoEvent}
    BY <1>t, <1>r, <1>s, <1>12 DEF SyncSave, At, Asking, Saving, Calls
  <2>2. store' \in {store, call[w].mine} /\ UNCHANGED <<credited, day>>
    BY <1>12 DEF SyncSave, Put
  <2>3. \/ call' = [call EXCEPT ![w] = On(w, "notify")]
        \/ call' = [call EXCEPT ![w] = NoCall]
    BY <1>12 DEF SyncSave, Goto
  <2>4. call'[w].at \notin Watched /\ call'[w].since <= day'
    BY <1>t, <1>s, <2>2, <2>3, MovedCall DEF NoCall, Watched, Asking
  <2>5. Merged(store, d, now).rec.known => Merged(store, d, now).rec.day \in RecordDays
    <3> DEFINE kept == Pruned(store, now)
               r == [known |-> TRUE, day |-> d, done |-> kept.rec.done]
    <3>1. [store EXCEPT !.rec = NoRecord].rec = NoRecord
      BY <1>t DEF Portfolios
    <3>2. kept \in {store, [store EXCEPT !.rec = NoRecord]}
      BY DEF Pruned
    <3>3. kept \in Portfolios
      BY <1>t, <3>2, NewTypes DEF Portfolios
    <3>4. kept.rec.known => kept.rec.day \in RecordDays
      <4>1. CASE kept = store
        BY <1>s, <4>1
      <4>2. CASE kept = [store EXCEPT !.rec = NoRecord]
        BY <3>1, <4>2 DEF NoRecord
      <4> QED BY <3>2, <4>1, <4>2
    <3>5. [kept EXCEPT !.rec = r].rec = r /\ r.day = d
      BY <3>3 DEF Portfolios
    <3> HIDE DEF r
    <3>6. \/ Merged(store, d, now) = kept
          \/ d # NoEvent /\ Merged(store, d, now) = [kept EXCEPT !.rec = r]
      BY DEF Merged, r
    <3>7. d # NoEvent => d \in RecordDays
      BY <1>s, <2>1
    <3> HIDE DEF kept
    <3> QED BY <3>4, <3>5, <3>6, <3>7
  <2>6. ASSUME credited # 0
        PROVE  IF Merged(store, d, now).rec.known THEN Merged(store, d, now).rec.done
                                                  ELSE now > Published + Discovery
    <3>1. d # NoEvent => now <= Published + Discovery
      BY <1>s, <1>t, <2>1, <2>6 DEF Calls
    <3>2. IF store.rec.known THEN store.rec.done /\ store.rec.day \in RecordDays
                             ELSE now > Published + Discovery
      BY <1>s, <2>1, <2>6
    <3> QED BY <1>t, <2>1, <3>1, <3>2, MergedSettled
  <2>7. (credited # 0 => IF store.rec.known THEN store.rec.done
                                            ELSE day > Published + Discovery)'
    BY <1>t, <1>s, <2>1, <2>2, <2>6, DividendAssumption DEF Published
  <2>8. (store.rec.known => store.rec.day \in RecordDays)'
    BY <1>s, <2>1, <2>2, <2>5
  <2> QED BY <2>2, <2>4, <2>7, <2>8, SettledBy DEF CreditedOnce
<1>13. CASE Credit(w)
  <2>1. call[w].read = store /\ Open(store) /\ call[w].mine = Credited(store)
    BY <1>r, <1>t, <1>13 DEF Credit, At, CreditReady, Saving
  <2>2. credited = 0
    BY <1>s, <2>1 DEF Open
  <2>3. /\ Credited(store).rec.known /\ Credited(store).rec.done
        /\ Credited(store).rec.day = store.rec.day
    <3>1. \A p \in Portfolios : /\ CashDividend(p).rec = p.rec /\ ShareDividend(p).rec = p.rec
      BY DEF CashDividend, ShareDividend, Portfolios
    <3>2. PICK p : /\ p \in {CashDividend(store), ShareDividend(store)}
                   /\ Credited(store) = [p EXCEPT !.rec.done = TRUE]
      BY DEF Credited
    <3> QED BY <1>t, <2>1, <3>1, <3>2 DEF Open, CashDividend, ShareDividend, Portfolios,
               Records
  <2>4. /\ \/ store' = store /\ credited' = credited
           \/ store' = Credited(store) /\ credited' \in {credited, credited + 1}
        /\ day' = day
    BY <2>1, <1>13 DEF Credit, Put
  <2>5. \/ call' = [call EXCEPT ![w] = On(w, "discard")]
        \/ call' = [call EXCEPT ![w] = NoCall]
    BY <1>13 DEF Credit, Return, Goto
  <2>6. call'[w].at \notin Watched /\ call'[w].since <= day'
    BY <1>t, <1>s, <2>4, <2>5, MovedCall DEF NoCall, Watched, Asking
  <2>7. CreditedOnce'
    BY <2>2, <2>4 DEF CreditedOnce
  <2> QED BY <1>s, <2>1, <2>2, <2>3, <2>4, <2>6, <2>7, SettledBy DEF Open
<1> QED
  BY <1>1, <1>2, <1>4, <1>5, <1>6, <1>7, <1>9, <1>10, <1>11, <1>12, <1>13
     DEF Next, Step, LockStep

\* With one handler at a time, as the bot runs them, the event is paid out at most once
\* whatever fails, however often the Record date is corrected and buttons are pressed.
THEOREM CreditedOnceCorrect ==
  ASSUME NEW self, Workers = {self}
  PROVE  Spec => []CreditedOnce
<1>1. Init => CreditReady /\ CreditSettled /\ CreditedOnce
  BY DEF Init, CreditReady, CreditSettled, CreditedOnce, At, NoCall, Asking, NewPortfolio,
     NoRecord
<1>2. TypeOK /\ NoLostUpdate /\ CreditReady /\ CreditSettled /\ CreditedOnce
        /\ [Next]_vars => CreditSettled' /\ CreditedOnce'
  BY SettledStep
<1>3. Spec => []CreditReady
  <2>1. Init => CreditReady
    BY <1>1
  <2> QED BY <2>1, ReadyStep, TypeCorrect, MessagesInvariant, PTL DEF Spec
<1> QED
  BY <1>1, <1>2, <1>3, TypeCorrect, NoLostUpdateCorrect, PTL DEF Spec

=============================================================================
