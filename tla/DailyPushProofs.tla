--------------------------- MODULE DailyPushProofs ---------------------------
(***************************************************************************)
(* Theorems about the daily push, for any number of processes, subscribers *)
(* and days, and any combination of faults.                                *)
(***************************************************************************)
EXTENDS DailyPush, TLAPS

USE DEF clock, run, command, history

-----------------------------------------------------------------------------
(* Type correctness *)

\* The value a subscription command writes is a command.
LEMMA CommandType == /\ NoCmd \in Commands
                     /\ \A kind \in {"add", "remove"}, s \in Pairs :
                          [kind |-> kind, pair |-> s] \in Commands
BY DEF Commands

\* A command that is running is about a pair.
LEMMA RunningCommand == \A c \in Commands : c.kind # "none" => c.pair \in Pairs
BY DEF Commands, NoCmd

\* Every step keeps the types.
LEMMA TypeStep == TypeOK /\ [Next]_vars => TypeOK'
<1> SUFFICES ASSUME TypeOK, [Next]_vars PROVE TypeOK'
  OBVIOUS
<1> USE PushAssumption, CommandType DEF TypeOK, Reach, Phases
<1>1. CASE UNCHANGED vars
  BY <1>1 DEF vars
<1>2. ASSUME NEW p \in Procs, Fire(p) PROVE TypeOK'
  BY <1>2 DEF Fire, Goto
<1>3. ASSUME NEW p \in Procs, RunStep(p) PROVE TypeOK'
  <2>1. CASE FetchSucceeds(p)
    BY <2>1 DEF FetchSucceeds, Goto
  <2>2. CASE FetchFails(p)
    BY <2>2 DEF FetchFails, EndRun
  <2>3. CASE FetchIsQuiet(p)
    BY <2>3 DEF FetchIsQuiet, FetchFails, EndRun
  <2>4. CASE ClaimRead(p)
    BY <2>4 DEF ClaimRead, Goto, EndRun
  <2>5. CASE ClaimSwap(p)
    <3>1. CASE pushDate.ver = held[p]
      <4>1. pushDate' \in [day : 0 .. LastDay, ver : Nat]
        <5>1. day \in 0 .. LastDay /\ pushDate.ver + 1 \in Nat
          BY DEF Days
        <5> QED BY <2>5, <3>1, <5>1 DEF ClaimSwap
      <4>3. winners' \in [Days -> Nat]
        <5>1. winners' = [winners EXCEPT ![day] = @ + 1] /\ winners \in [Days -> Nat]
          BY <2>5, <3>1 DEF ClaimSwap
        <5> QED BY <5>1
      <4>2. /\ todo' \in [Procs -> SUBSET Pairs]
            /\ dead' \in [Procs -> SUBSET SUBSET Pairs]
            /\ at' \in [Procs -> Phases]
        BY <2>5, <3>1 DEF ClaimSwap, Goto
      <4> QED BY <2>5, <3>1, <4>1, <4>2, <4>3 DEF ClaimSwap
    <3>2. CASE pushDate.ver # held[p]
      BY <2>5, <3>2 DEF ClaimSwap, EndRun
    <3> QED BY <3>1, <3>2
  <2>6. CASE ClaimUnacknowledged(p)
    BY <2>6 DEF ClaimUnacknowledged, EndRun, Days
  <2>7. ASSUME NEW s \in Pairs, Deliver(p, s) PROVE TypeOK'
    <3>1. got' \in [Days -> [Pairs -> Nat]]
      BY <2>7 DEF Deliver, Sent
    <3> QED BY <2>7, <3>1 DEF Deliver, Sent
  <2>8. ASSUME NEW s \in Pairs, SendRefused(p, s) PROVE TypeOK'
    BY <2>8 DEF SendRefused, Sent, Condemned, SameChat
  <2>9. ASSUME NEW s \in Pairs, SendFails(p, s) PROVE TypeOK'
    BY <2>9 DEF SendFails, Sent
  <2>10. CASE FinishSending(p)
    BY <2>10 DEF FinishSending, EndRun, Goto
  <2>11. ASSUME NEW item \in dead[p], PruneLoad(p, item) PROVE TypeOK'
    BY <2>11 DEF PruneLoad, Goto
  <2>12. CASE PruneSave(p)
    BY <2>12 DEF PruneSave, Goto
  <2>13. CASE PruneSaveFails(p)
    BY <2>13 DEF PruneSaveFails, Goto
  <2>14. CASE PruneDone(p)
    BY <2>14 DEF PruneDone, EndRun
  <2>15. CASE RunTimesOut(p)
    BY <2>15 DEF RunTimesOut, EndRun
  <2> QED
    BY <1>3, <2>1, <2>2, <2>3, <2>4, <2>5, <2>6, <2>7, <2>8, <2>9, <2>10, <2>11,
       <2>12, <2>13, <2>14, <2>15 DEF RunStep
<1>4. ASSUME NEW p \in Procs, CommandStep(p) PROVE TypeOK'
  <2>1. CASE SaveCommand(p)
    BY <2>1, RunningCommand DEF SaveCommand, EndCommand
  <2>2. CASE CommandFails(p)
    BY <2>2 DEF CommandFails, EndCommand
  <2> QED BY <1>4, <2>1, <2>2 DEF CommandStep
<1>5. ASSUME NEW p \in Procs, Crash(p) PROVE TypeOK'
  BY <1>5 DEF Crash, EndRun
<1>6. ASSUME NEW p \in Procs, NEW kind \in {"add", "remove"}, NEW s \in Pairs,
             StartCommand(p, kind, s)
      PROVE TypeOK'
  <2>1. loaded' \in [Procs -> SUBSET Pairs]
    BY <1>6 DEF StartCommand
  <2>2. /\ mu' \in [Procs -> {"free", "cmd", "run"}]
        /\ cmd' \in [Procs -> Commands]
    BY <1>6 DEF StartCommand
  <2>3. UNCHANGED <<subs, pushDate, day, slot, fired, at, list, held, todo, dead, pruning,
                    blocked, winners, got, member, refused>>
    BY <1>6 DEF StartCommand
  <2> QED BY <2>1, <2>2, <2>3
<1>7. CASE NextSlot
  BY <1>7 DEF NextSlot, Days
<1>8. ASSUME NEW s \in Pairs, NEW r \in Reach, ChangeReach(s, r) PROVE TypeOK'
  BY <1>8 DEF ChangeReach
<1> HIDE DEF TypeOK, Reach
<1> QED
  BY <1>1, <1>2, <1>3, <1>4, <1>5, <1>6, <1>7, <1>8 DEF Next

\* Every variable of the push keeps its type, whatever fails.
THEOREM TypeCorrect == Spec => []TypeOK
<1>1. Init => TypeOK
  <2> SUFFICES ASSUME Init PROVE TypeOK
    OBVIOUS
  <2>1. winners \in [Days -> Nat] /\ got \in [Days -> [Pairs -> Nat]]
    BY DEF Init
  <2>2. cmd \in [Procs -> Commands]
    BY CommandType DEF Init
  <2>3. pushDate \in [day : 0 .. LastDay, ver : Nat] /\ day \in Days /\ slot \in 1 .. Slots
    BY PushAssumption DEF Init, Days
  <2>4. /\ at \in [Procs -> Phases] /\ held \in [Procs -> Nat]
        /\ list \in [Procs -> SUBSET Pairs] /\ todo \in [Procs -> SUBSET Pairs]
        /\ dead \in [Procs -> SUBSET SUBSET Pairs] /\ loaded \in [Procs -> SUBSET Pairs]
        /\ pruning \in [Procs -> SUBSET Pairs]
        /\ mu \in [Procs -> {"free", "cmd", "run"}] /\ blocked \in [Pairs -> Reach]
    BY DEF Init, Phases, Reach
  <2>5. subs \subseteq Pairs /\ fired \subseteq Procs /\ member \subseteq Pairs
        /\ refused \subseteq Pairs
    BY DEF Init
  <2> QED
    BY <2>1, <2>2, <2>3, <2>4, <2>5 DEF TypeOK
<1>2. QED
  BY <1>1, TypeStep, PTL DEF Spec

-----------------------------------------------------------------------------
(* The claim *)

\* Every step keeps ClaimIsCurrent: only ClaimRead makes a run ready to claim,
\* only a claim changes the document, and it makes every other run's version old.
LEMMA ClaimStep == TypeOK /\ ClaimIsCurrent /\ [Next]_vars => ClaimIsCurrent'
<1> SUFFICES ASSUME TypeOK, ClaimIsCurrent, [Next]_vars PROVE ClaimIsCurrent'
  OBVIOUS
<1> DEFINE Same == UNCHANGED <<pushDate, winners, day, held>>
           Ready == \A p \in Procs : at'[p] = "swap" => at[p] = "swap"
<1>0. Same /\ Ready => ClaimIsCurrent'
  BY DEF ClaimIsCurrent
<1> HIDE DEF Same, Ready
<1> USE DEF TypeOK
<1>1. CASE UNCHANGED vars
  BY <1>0, <1>1 DEF vars, Same, Ready
<1>2. ASSUME NEW p \in Procs, Fire(p) PROVE ClaimIsCurrent'
  BY <1>0, <1>2 DEF Fire, Goto, Same, Ready
<1>3. ASSUME NEW p \in Procs, RunStep(p) PROVE ClaimIsCurrent'
  <2>1. CASE ClaimRead(p)
    <3>1. /\ UNCHANGED <<pushDate, winners, day>>
          /\ held'[p] = pushDate.ver
          /\ at'[p] = "swap" => pushDate.day # day
          /\ \A q \in Procs : q # p => at'[q] = at[q] /\ held'[q] = held[q]
      BY <2>1 DEF ClaimRead, Goto, EndRun
    <3>2. pushDate.day \in Int /\ day \in Int /\ pushDate.ver \in Int
      BY DEF Days
    <3>3. pushDate'.day <= day' /\ \A d \in Days : d > pushDate'.day => winners'[d] = 0
      BY <3>1 DEF ClaimIsCurrent
    <3>4. ASSUME NEW q \in Procs, at'[q] = "swap"
          PROVE  /\ held'[q] <= pushDate'.ver
                 /\ held'[q] = pushDate'.ver => pushDate'.day < day'
      <4>1. CASE q = p
        <5>1. pushDate' = pushDate /\ day' = day /\ held'[q] = pushDate.ver
          BY <3>1, <4>1
        <5>2. pushDate.day # day /\ pushDate.day <= day
          BY <3>1, <3>4, <4>1 DEF ClaimIsCurrent
        <5> HIDE DEF TypeOK
        <5> QED BY <3>2, <5>1, <5>2
      <4>2. CASE q # p
        BY <3>1, <3>4, <4>2 DEF ClaimIsCurrent
      <4> QED BY <4>1, <4>2
    <3> QED BY <3>3, <3>4 DEF ClaimIsCurrent
  <2>2. CASE ClaimSwap(p) /\ pushDate.ver # held[p]
    BY <1>0, <2>2 DEF ClaimSwap, EndRun, Same, Ready
  <2>3. CASE (ClaimSwap(p) /\ pushDate.ver = held[p]) \/ ClaimUnacknowledged(p)
    <3>1. /\ pushDate' = [day |-> day, ver |-> pushDate.ver + 1]
          /\ UNCHANGED <<day, held>>
          /\ at'[p] # "swap"
          /\ \A q \in Procs : q # p => at'[q] = at[q]
          /\ \A d \in Days : d # day => winners'[d] = winners[d]
      BY <2>3 DEF ClaimSwap, ClaimUnacknowledged, Goto, EndRun
    <3>2. pushDate.day \in Int /\ day \in Int /\ pushDate.ver \in Int
      BY DEF Days
    <3>3. \A q \in Procs : held[q] \in Int
      OBVIOUS
    <3>4. \A d \in Days : d \in Int
      BY DEF Days
    <3> QED BY <3>1, <3>2, <3>3, <3>4 DEF ClaimIsCurrent
  <2>4. CASE FetchSucceeds(p) \/ FetchFails(p) \/ FetchIsQuiet(p)
    BY <1>0, <2>4 DEF FetchSucceeds, FetchFails, FetchIsQuiet, Goto, EndRun, Same, Ready
  <2>5. ASSUME NEW s \in Pairs, Deliver(p, s) \/ SendRefused(p, s) \/ SendFails(p, s)
        PROVE ClaimIsCurrent'
    BY <1>0, <2>5 DEF Deliver, SendRefused, SendFails, Sent, Same, Ready
  <2>6. CASE FinishSending(p)
    BY <1>0, <2>6 DEF FinishSending, EndRun, Goto, Same, Ready
  <2>7. ASSUME NEW item \in dead[p], PruneLoad(p, item) PROVE ClaimIsCurrent'
    BY <1>0, <2>7 DEF PruneLoad, Goto, Same, Ready
  <2>8. CASE PruneSave(p) \/ PruneSaveFails(p) \/ PruneDone(p)
    BY <1>0, <2>8 DEF PruneSave, PruneSaveFails, PruneDone, Goto, EndRun, Same, Ready
  <2>9. CASE RunTimesOut(p)
    BY <1>0, <2>9 DEF RunTimesOut, EndRun, Same, Ready
  <2> QED
    BY <1>3, <2>1, <2>2, <2>3, <2>4, <2>5, <2>6, <2>7, <2>8, <2>9 DEF RunStep
<1>4. ASSUME NEW p \in Procs, CommandStep(p) PROVE ClaimIsCurrent'
  BY <1>0, <1>4 DEF CommandStep, SaveCommand, CommandFails, EndCommand, Same, Ready
<1>5. ASSUME NEW p \in Procs, Crash(p) PROVE ClaimIsCurrent'
  BY <1>0, <1>5 DEF Crash, EndRun, Same, Ready
<1>6. ASSUME NEW p \in Procs, NEW kind \in {"add", "remove"}, NEW s \in Pairs,
             StartCommand(p, kind, s)
      PROVE ClaimIsCurrent'
  BY <1>0, <1>6 DEF StartCommand, Same, Ready
<1>7. CASE NextSlot
  <2>1. /\ UNCHANGED <<pushDate, winners, held, at>>
        /\ day' = day \/ day' = day + 1
        /\ \A p \in Procs : at[p] = "idle"
    BY <1>7 DEF NextSlot
  <2>2. pushDate.day \in Int /\ day \in Int
    BY DEF Days
  <2> QED BY <2>1, <2>2 DEF ClaimIsCurrent
<1>8. ASSUME NEW s \in Pairs, NEW r \in Reach, ChangeReach(s, r) PROVE ClaimIsCurrent'
  BY <1>0, <1>8 DEF ChangeReach, Same, Ready
<1> HIDE DEF TypeOK
<1> QED
  BY <1>1, <1>2, <1>3, <1>4, <1>5, <1>6, <1>7, <1>8 DEF Next

\* Initially no day has been won and no run is under way.
LEMMA ClaimInit == Init => ClaimIsCurrent
BY DEF Init, ClaimIsCurrent, Days

\* A claim is always made with the version at which the swap could still succeed.
LEMMA ClaimInvariant == Spec => []ClaimIsCurrent
BY ClaimInit, TypeCorrect, ClaimStep, PTL DEF Spec

\* At most one fan-out starts on any day, whatever processes overlap, crash or
\* lose the reply of their claim: a claim succeeds only on a day not yet won.
THEOREM OnePushPerDayCorrect == Spec => []OnePushPerDay
<1>1. Init => OnePushPerDay
  BY DEF Init, OnePushPerDay, Days
<1>2. TypeOK /\ ClaimIsCurrent /\ OnePushPerDay /\ [Next]_vars => OnePushPerDay'
  <2> SUFFICES ASSUME TypeOK, ClaimIsCurrent, OnePushPerDay, [Next]_vars
               PROVE OnePushPerDay'
    OBVIOUS
  <2>0. UNCHANGED winners => OnePushPerDay'
    BY DEF OnePushPerDay
  <2>1. ASSUME NEW p \in Procs, ClaimSwap(p), pushDate.ver = held[p]
        PROVE OnePushPerDay'
    <3>1. winners' = [winners EXCEPT ![day] = @ + 1] /\ at[p] = "swap"
      BY <2>1 DEF ClaimSwap
    <3>2. pushDate.day < day /\ day \in Days
      BY <2>1, <3>1 DEF ClaimIsCurrent, TypeOK
    <3>3. winners[day] = 0
      BY <3>2 DEF ClaimIsCurrent, TypeOK, Days
    <3> QED BY <3>1, <3>2, <3>3 DEF OnePushPerDay, TypeOK
  <2>2. ASSUME NEW p \in Procs, ClaimSwap(p), pushDate.ver # held[p]
        PROVE OnePushPerDay'
    BY <2>0, <2>2 DEF ClaimSwap
  <2>3. CASE UNCHANGED winners
    BY <2>0, <2>3
  <2>4. (\E p \in Procs : ClaimSwap(p)) \/ UNCHANGED winners
    BY DEF Next, vars, Fire, RunStep, CommandStep, Crash, StartCommand, NextSlot,
           ChangeReach, FetchSucceeds, FetchFails, FetchIsQuiet, ClaimRead,
           ClaimUnacknowledged, Deliver, SendRefused, SendFails, Sent,
           FinishSending, PruneLoad, PruneSave, PruneSaveFails, PruneDone,
           RunTimesOut, SaveCommand, CommandFails, EndCommand
  <2> QED BY <2>1, <2>2, <2>3, <2>4
<1>3. QED
  BY <1>1, <1>2, TypeCorrect, ClaimInvariant, PTL DEF Spec

-----------------------------------------------------------------------------
(* The fan-out *)

\* Every step keeps SenderIsWinner: a run enters the fan-out only by winning a
\* day, and then no other run is in it and nothing has been delivered that day.
LEMMA SenderStep ==
  TypeOK /\ ClaimIsCurrent /\ SenderIsWinner /\ [Next]_vars => SenderIsWinner'
<1> SUFFICES ASSUME TypeOK, ClaimIsCurrent, SenderIsWinner, [Next]_vars
             PROVE SenderIsWinner'
  OBVIOUS
<1> DEFINE Same == UNCHANGED <<winners, got, day>>
           Fewer == \A p \in Procs : at'[p] = "send" =>
                      at[p] = "send" /\ todo'[p] \subseteq todo[p]
<1>0. Same /\ Fewer => SenderIsWinner'
  BY DEF SenderIsWinner
<1> HIDE DEF Same, Fewer
<1>t. /\ day \in Days
      /\ at \in [Procs -> Phases]
      /\ todo \in [Procs -> SUBSET Pairs]
      /\ list \in [Procs -> SUBSET Pairs]
      /\ winners \in [Days -> Nat]
      /\ got \in [Days -> [Pairs -> Nat]]
  BY DEF TypeOK
<1>1. CASE UNCHANGED vars
  BY <1>0, <1>1 DEF vars, Same, Fewer
<1>2. ASSUME NEW p \in Procs, Fire(p) PROVE SenderIsWinner'
  BY <1>0, <1>t, <1>2 DEF Fire, Goto, Same, Fewer
<1>3. ASSUME NEW p \in Procs, RunStep(p) PROVE SenderIsWinner'
  <2>1. CASE ClaimRead(p)
    BY <1>0, <1>t, <2>1 DEF ClaimRead, EndRun, Goto, Same, Fewer
  <2>2. CASE ClaimSwap(p) /\ pushDate.ver # held[p]
    BY <1>0, <1>t, <2>2 DEF ClaimSwap, EndRun, Same, Fewer
  <2>3. CASE ClaimSwap(p) /\ pushDate.ver = held[p]
    <3>1. /\ winners' = [winners EXCEPT ![day] = @ + 1]
          /\ todo' = [todo EXCEPT ![p] = list[p]]
          /\ at' = [at EXCEPT ![p] = "send"]
          /\ at[p] = "swap"
          /\ UNCHANGED <<got, day>>
      BY <2>3 DEF ClaimSwap, Goto
    <3>2. winners[day] = 0
      <4>1. pushDate.day < day
        BY <2>3, <3>1 DEF ClaimIsCurrent
      <4> QED BY <1>t, <4>1 DEF ClaimIsCurrent, Days, TypeOK
    <3>3. \A q \in Procs : at[q] # "send"
      BY <3>2 DEF SenderIsWinner
    <3>4. \A s \in Pairs : got[day][s] = 0
      BY <1>t, <3>2 DEF SenderIsWinner
    <3>5. winners'[day] = 1 /\ \A d \in Days : winners'[d] = 0 => winners[d] = 0
      BY <1>t, <3>1, <3>2
    <3>6. \A q \in Procs : at'[q] = "send" => q = p
      BY <1>t, <3>1, <3>3
    <3>7. \A s \in todo'[p] : s \in Pairs
      BY <1>t, <3>1
    <3> QED BY <3>1, <3>4, <3>5, <3>6, <3>7 DEF SenderIsWinner
  <2>4. CASE FetchSucceeds(p) \/ FetchFails(p) \/ FetchIsQuiet(p)
             \/ ClaimUnacknowledged(p)
    BY <1>0, <1>t, <2>4 DEF FetchSucceeds, FetchFails, FetchIsQuiet,
       ClaimUnacknowledged, Goto, EndRun, Same, Fewer
  <2>5. ASSUME NEW s \in Pairs, SendRefused(p, s) \/ SendFails(p, s)
        PROVE SenderIsWinner'
    BY <1>0, <1>t, <2>5 DEF SendRefused, SendFails, Sent, Same, Fewer
  <2>6. ASSUME NEW s \in Pairs, Deliver(p, s) PROVE SenderIsWinner'
    <3>1. /\ at[p] = "send" /\ s \in todo[p]
          /\ todo' = [todo EXCEPT ![p] = @ \ {s}]
          /\ got' = [got EXCEPT ![day][s] = @ + 1]
          /\ UNCHANGED <<at, winners, day>>
      BY <2>6 DEF Deliver, Sent
    <3>2. winners[day] # 0
      BY <3>1 DEF SenderIsWinner
    <3>3. \A q \in Procs : at[q] = "send" => q = p
      BY <3>1 DEF SenderIsWinner
    <3>4. \A d \in Days, t \in Pairs : (d # day \/ t # s) => got'[d][t] = got[d][t]
      BY <1>t, <3>1
    <3>5. \A t \in todo'[p] : t \in todo[p] /\ t # s /\ t \in Pairs
      BY <1>t, <3>1
    <3>6. \A t \in todo'[p] : got'[day][t] = 0
      BY <1>t, <3>1, <3>4, <3>5 DEF SenderIsWinner
    <3>7. \A d \in Days, t \in Pairs : winners'[d] = 0 => got'[d][t] = 0
      BY <3>1, <3>2, <3>4 DEF SenderIsWinner
    <3> QED BY <3>1, <3>2, <3>3, <3>6, <3>7 DEF SenderIsWinner
  <2>7. CASE FinishSending(p)
    BY <1>0, <1>t, <2>7 DEF FinishSending, EndRun, Goto, Same, Fewer
  <2>8. ASSUME NEW item \in dead[p], PruneLoad(p, item) PROVE SenderIsWinner'
    BY <1>0, <1>t, <2>8 DEF PruneLoad, Goto, Same, Fewer
  <2>9. CASE PruneSave(p) \/ PruneSaveFails(p) \/ PruneDone(p)
    BY <1>0, <1>t, <2>9 DEF PruneSave, PruneSaveFails, PruneDone, Goto, EndRun, Same, Fewer
  <2>10. CASE RunTimesOut(p)
    BY <1>0, <1>t, <2>10 DEF RunTimesOut, EndRun, Same, Fewer
  <2> QED
    BY <1>3, <2>1, <2>2, <2>3, <2>4, <2>5, <2>6, <2>7, <2>8, <2>9, <2>10 DEF RunStep
<1>4. ASSUME NEW p \in Procs, CommandStep(p) PROVE SenderIsWinner'
  BY <1>0, <1>4 DEF CommandStep, SaveCommand, CommandFails, EndCommand, Same, Fewer
<1>5. ASSUME NEW p \in Procs, Crash(p) PROVE SenderIsWinner'
  BY <1>0, <1>t, <1>5 DEF Crash, EndRun, Same, Fewer
<1>6. ASSUME NEW p \in Procs, NEW kind \in {"add", "remove"}, NEW s \in Pairs,
             StartCommand(p, kind, s)
      PROVE SenderIsWinner'
  BY <1>0, <1>6 DEF StartCommand, Same, Fewer
<1>7. CASE NextSlot
  BY <1>7 DEF NextSlot, SenderIsWinner
<1>8. ASSUME NEW s \in Pairs, NEW r \in Reach, ChangeReach(s, r) PROVE SenderIsWinner'
  BY <1>0, <1>8 DEF ChangeReach, Same, Fewer
<1> QED
  BY <1>1, <1>2, <1>3, <1>4, <1>5, <1>6, <1>7, <1>8 DEF Next

\* Whoever is sending always won the claim of that day.
LEMMA SenderInvariant == Spec => []SenderIsWinner
<1>1. Init => SenderIsWinner
  BY DEF Init, SenderIsWinner
<1> QED
  BY <1>1, TypeCorrect, ClaimInvariant, SenderStep, PTL DEF Spec

\* No subscriber is sent a day's message twice.
THEOREM AtMostOneMessageCorrect == Spec => []AtMostOneMessage
<1>1. Init => AtMostOneMessage
  BY DEF Init, AtMostOneMessage
<1>2. TypeOK /\ SenderIsWinner /\ AtMostOneMessage /\ [Next]_vars => AtMostOneMessage'
  <2> SUFFICES ASSUME TypeOK, SenderIsWinner, AtMostOneMessage, [Next]_vars
               PROVE AtMostOneMessage'
    OBVIOUS
  <2>1. ASSUME NEW p \in Procs, NEW s \in Pairs, Deliver(p, s)
        PROVE AtMostOneMessage'
    <3>1. got' = [got EXCEPT ![day][s] = @ + 1]
      BY <2>1 DEF Deliver
    <3>2. got[day][s] = 0
      BY <2>1 DEF Deliver, Sent, SenderIsWinner
    <3>3. got \in [Days -> [Pairs -> Nat]] /\ day \in Days
      BY DEF TypeOK
    <3>4. \A d \in Days, t \in Pairs :
            got'[d][t] = IF d = day /\ t = s THEN 1 ELSE got[d][t]
      BY <3>1, <3>2, <3>3
    <3> QED BY <3>4 DEF AtMostOneMessage
  <2>2. CASE UNCHANGED got
    BY <2>2 DEF AtMostOneMessage
  <2>3. (\E p \in Procs, s \in Pairs : Deliver(p, s)) \/ UNCHANGED got
    BY DEF Next, vars, Fire, RunStep, CommandStep, Crash, StartCommand, NextSlot,
           ChangeReach, FetchSucceeds, FetchFails, FetchIsQuiet, ClaimRead,
           ClaimSwap, ClaimUnacknowledged, SendRefused, SendFails, Sent,
           FinishSending, PruneLoad, PruneSave, PruneSaveFails, PruneDone,
           RunTimesOut, SaveCommand, CommandFails, EndCommand
  <2> QED BY <2>1, <2>2, <2>3
<1>3. QED
  BY <1>1, <1>2, TypeCorrect, SenderInvariant, PTL DEF Spec

-----------------------------------------------------------------------------
(* The subscriber list *)

\* With one process, every step keeps the mutex discipline and the stored list
\* equal to what the commands and prunings were asked for.
LEMMA SubscriptionStep ==
  ASSUME NEW self, Procs = {self}
  PROVE  TypeOK /\ MutexHeld /\ SubscriptionsKept /\ [Next]_vars
           => MutexHeld' /\ SubscriptionsKept'
<1> SUFFICES ASSUME TypeOK, MutexHeld, SubscriptionsKept, [Next]_vars
             PROVE MutexHeld' /\ SubscriptionsKept'
  OBVIOUS
<1> DEFINE Same == UNCHANGED <<subs, member, cmd, loaded, mu>>
           Phase == at'[self] \in {"prune", "pruneSave"}
                      <=> at[self] \in {"prune", "pruneSave"}
           Saving == at'[self] = "pruneSave" =>
                       at[self] = "pruneSave" /\ pruning'[self] = pruning[self]
<1>0. Same /\ Phase /\ Saving => MutexHeld' /\ SubscriptionsKept'
  BY DEF MutexHeld, SubscriptionsKept
<1> HIDE DEF Same, Phase, Saving
<1>t. /\ at \in [Procs -> Phases]
      /\ mu \in [Procs -> {"free", "cmd", "run"}]
      /\ cmd \in [Procs -> Commands]
      /\ loaded \in [Procs -> SUBSET Pairs] /\ pruning \in [Procs -> SUBSET Pairs]
      /\ self \in Procs
  BY DEF TypeOK
<1>m. /\ mu[self] = "cmd" <=> cmd[self].kind # "none"
      /\ mu[self] = "run" <=> at[self] \in {"prune", "pruneSave"}
      /\ cmd[self].kind = "add" => loaded[self] = subs \cup {cmd[self].pair}
      /\ cmd[self].kind = "remove" => loaded[self] = subs \ {cmd[self].pair}
      /\ at[self] = "pruneSave" => loaded[self] = subs \ pruning[self]
      /\ subs = member
  BY <1>t DEF MutexHeld, SubscriptionsKept
<1>n. NoCmd.kind = "none" /\ cmd[self].kind \in {"none", "add", "remove"}
  BY <1>t DEF NoCmd, Commands
<1>1. CASE UNCHANGED vars
  BY <1>0, <1>1 DEF vars, Same, Phase, Saving
<1>2. CASE Fire(self)
  BY <1>0, <1>t, <1>2 DEF Fire, Goto, Same, Phase, Saving
<1>3. CASE RunStep(self)
  <2>1. CASE FetchSucceeds(self) \/ FetchFails(self) \/ FetchIsQuiet(self)
             \/ ClaimRead(self) \/ ClaimSwap(self) \/ ClaimUnacknowledged(self)
    BY <1>0, <1>t, <2>1 DEF FetchSucceeds, FetchFails, FetchIsQuiet, ClaimRead,
       ClaimSwap, ClaimUnacknowledged, Goto, EndRun, Same, Phase, Saving
  <2>2. ASSUME NEW s \in Pairs,
               Deliver(self, s) \/ SendRefused(self, s) \/ SendFails(self, s)
        PROVE MutexHeld' /\ SubscriptionsKept'
    BY <1>0, <2>2 DEF Deliver, SendRefused, SendFails, Sent, Same, Phase, Saving
  <2>3. CASE FinishSending(self)
    <3>1. CASE dead[self] = {}
      BY <1>0, <1>t, <2>3, <3>1 DEF FinishSending, EndRun, Same, Phase, Saving
    <3>2. CASE dead[self] # {}
      <4>1. /\ mu'[self] = "run" /\ mu[self] = "free" /\ at'[self] = "prune"
            /\ UNCHANGED <<subs, member, cmd, loaded>>
        BY <1>t, <2>3, <3>2 DEF FinishSending, Goto
      <4> QED BY <1>m, <1>n, <4>1 DEF MutexHeld, SubscriptionsKept
    <3> QED BY <3>1, <3>2
  <2>4. ASSUME NEW item \in dead[self], PruneLoad(self, item)
        PROVE MutexHeld' /\ SubscriptionsKept'
    <3>1. /\ loaded'[self] = subs \ item /\ pruning'[self] = item
          /\ at[self] = "prune" /\ at'[self] \in {"prune", "pruneSave"}
          /\ UNCHANGED <<subs, member, cmd, mu>>
      BY <1>t, <2>4 DEF PruneLoad, Goto
    <3> QED BY <1>m, <1>n, <3>1 DEF MutexHeld, SubscriptionsKept
  <2>5. CASE PruneSave(self)
    <3>1. /\ subs' = loaded[self] /\ member' = member \ pruning[self]
          /\ at[self] = "pruneSave" /\ at'[self] = "prune"
          /\ UNCHANGED <<cmd, loaded, mu>>
      BY <1>t, <2>5 DEF PruneSave, Goto
    <3>2. subs' = member'
      BY <1>m, <3>1
    <3> QED BY <1>m, <1>n, <3>1, <3>2 DEF MutexHeld, SubscriptionsKept
  <2>6. CASE PruneSaveFails(self)
    BY <1>0, <1>t, <2>6 DEF PruneSaveFails, Goto, Same, Phase, Saving
  <2>7. CASE PruneDone(self)
    <3>1. /\ at[self] = "prune" /\ at'[self] = "idle" /\ mu'[self] = "free"
          /\ UNCHANGED <<subs, member, cmd, loaded>>
      BY <1>t, <2>7 DEF PruneDone, EndRun
    <3> QED BY <1>m, <1>n, <3>1 DEF MutexHeld, SubscriptionsKept
  <2>8. CASE RunTimesOut(self)
    <3>1. /\ at'[self] = "idle" /\ mu'[self] = IF mu[self] = "run" THEN "free" ELSE mu[self]
          /\ UNCHANGED <<subs, member, cmd, loaded>>
      BY <1>t, <2>8 DEF RunTimesOut, EndRun
    <3> QED BY <1>m, <1>n, <3>1 DEF MutexHeld, SubscriptionsKept
  <2> QED
    BY <1>3, <2>1, <2>2, <2>3, <2>4, <2>5, <2>6, <2>7, <2>8 DEF RunStep
<1>4. CASE SaveCommand(self)
  <2>1. /\ cmd[self].kind # "none"
        /\ subs' = loaded[self]
        /\ member' = IF cmd[self].kind = "add" THEN member \cup {cmd[self].pair}
                                               ELSE member \ {cmd[self].pair}
        /\ cmd'[self] = NoCmd /\ mu'[self] = "free"
        /\ UNCHANGED <<at, loaded>>
    BY <1>t, <1>4 DEF SaveCommand, EndCommand
  <2>2. subs' = member'
    BY <1>m, <1>n, <2>1
  <2> QED BY <1>m, <1>n, <2>1, <2>2 DEF MutexHeld, SubscriptionsKept
<1>5. CASE CommandFails(self)
  <2>1. /\ cmd[self].kind # "none" /\ cmd'[self] = NoCmd /\ mu'[self] = "free"
        /\ UNCHANGED <<at, loaded, subs, member>>
    BY <1>t, <1>5 DEF CommandFails, EndCommand
  <2> QED BY <1>m, <1>n, <2>1 DEF MutexHeld, SubscriptionsKept
<1>6. CASE Crash(self)
  <2>1. /\ at'[self] = "idle" /\ cmd'[self] = NoCmd /\ mu'[self] = "free"
        /\ UNCHANGED <<loaded, subs, member>>
    BY <1>t, <1>6 DEF Crash, EndRun
  <2> QED BY <1>m, <1>n, <2>1 DEF MutexHeld, SubscriptionsKept
<1>7. ASSUME NEW kind \in {"add", "remove"}, NEW s \in Pairs, StartCommand(self, kind, s)
      PROVE MutexHeld' /\ SubscriptionsKept'
  <2>1. /\ mu[self] = "free" /\ mu'[self] = "cmd"
        /\ cmd'[self].kind = kind /\ cmd'[self].pair = s
        /\ kind = "add" => loaded'[self] = subs \cup {s}
        /\ kind = "remove" => loaded'[self] = subs \ {s}
        /\ UNCHANGED <<at, subs, member>>
    BY <1>t, <1>7 DEF StartCommand
  <2> QED BY <1>m, <1>n, <2>1 DEF MutexHeld, SubscriptionsKept
<1>8. CASE NextSlot
  BY <1>0, <1>8 DEF NextSlot, Same, Phase, Saving
<1>9. ASSUME NEW s \in Pairs, NEW r \in Reach, ChangeReach(s, r)
      PROVE MutexHeld' /\ SubscriptionsKept'
  BY <1>0, <1>9 DEF ChangeReach, Same, Phase, Saving
<1> QED
  BY <1>1, <1>2, <1>3, <1>4, <1>5, <1>6, <1>7, <1>8, <1>9 DEF Next, CommandStep

\* With one process the list is what commands and prunings were asked for: no
\* subscription is lost to a prune's write or a command's, and no removal undone,
\* since the mutex makes their read-modify-writes exclude each other.
THEOREM SubscriptionsKeptCorrect ==
  ASSUME NEW self, Procs = {self}
  PROVE  Spec => []SubscriptionsKept
<1>1. Init => MutexHeld /\ SubscriptionsKept
  BY DEF Init, MutexHeld, SubscriptionsKept, NoCmd
<1>2. TypeOK /\ MutexHeld /\ SubscriptionsKept /\ [Next]_vars
        => MutexHeld' /\ SubscriptionsKept'
  BY SubscriptionStep
<1> QED
  BY <1>1, <1>2, TypeCorrect, PTL DEF Spec

-----------------------------------------------------------------------------
(* Pruning drops the unreachable only *)

\* Whoever a run condemns, or leaves out of the list it is about to store, was covered by a
\* terminal error; and a chat that blocks the bot blocks it in all its topics.
CondemnedWereRefused ==
  /\ \A s, t \in Pairs : t[1] = s[1] /\ blocked[s] = "chat" => blocked[t] = "chat"
  /\ \A p \in Procs : \A item \in dead[p] : item \subseteq refused
  /\ \A p \in Procs : at[p] = "pruneSave" => subs \ loaded[p] \subseteq refused

\* A step that condemns nobody, loads no list and changes no chat.
LEMMA NobodyCondemned ==
  ASSUME NEW self, Procs = {self}, CondemnedWereRefused, UNCHANGED <<subs, blocked>>,
         refused \subseteq refused', dead'[self] \subseteq dead[self],
         at'[self] = "pruneSave" => at[self] = "pruneSave" /\ loaded'[self] = loaded[self]
  PROVE  CondemnedWereRefused'
BY DEF CondemnedWereRefused

LEMMA CondemnedStep ==
  ASSUME NEW self, Procs = {self}
  PROVE  TypeOK /\ MutexHeld /\ CondemnedWereRefused /\ [Next]_vars => CondemnedWereRefused'
<1> SUFFICES ASSUME TypeOK, MutexHeld, CondemnedWereRefused, [Next]_vars
             PROVE CondemnedWereRefused'
  OBVIOUS
<1>t. /\ at \in [Procs -> Phases] /\ loaded \in [Procs -> SUBSET Pairs]
      /\ dead \in [Procs -> SUBSET SUBSET Pairs] /\ blocked \in [Pairs -> Reach]
      /\ refused \subseteq Pairs /\ self \in Procs
  BY DEF TypeOK
<1>m. /\ at[self] = "pruneSave" => mu[self] = "run"
      /\ cmd[self].kind # "none" => mu[self] = "cmd"
  BY <1>t DEF MutexHeld
<1>1. CASE UNCHANGED vars
  BY <1>1, NobodyCondemned DEF vars
<1>2. CASE Fire(self)
  BY <1>t, <1>2, NobodyCondemned DEF Fire, Goto
<1>3. CASE RunStep(self)
  <2>1. CASE FetchSucceeds(self) \/ FetchFails(self) \/ FetchIsQuiet(self)
             \/ ClaimRead(self) \/ ClaimUnacknowledged(self)
    BY <1>t, <2>1, NobodyCondemned DEF FetchSucceeds, FetchFails, FetchIsQuiet, ClaimRead,
       ClaimUnacknowledged, Goto, EndRun
  <2>2. CASE ClaimSwap(self)
    <3>1. /\ dead'[self] \subseteq dead[self] /\ at'[self] # "pruneSave"
          /\ UNCHANGED <<subs, blocked, refused>>
      BY <1>t, <2>2 DEF ClaimSwap, Goto, EndRun
    <3> QED BY <3>1, NobodyCondemned
  <2>3. ASSUME NEW s \in Pairs, Deliver(self, s) \/ SendFails(self, s)
        PROVE CondemnedWereRefused'
    BY <2>3, NobodyCondemned DEF Deliver, SendFails, Sent
  <2>4. ASSUME NEW s \in Pairs, SendRefused(self, s) PROVE CondemnedWereRefused'
    <3>1. /\ dead'[self] = dead[self] \cup {Condemned(s)}
          /\ refused' = refused \cup {t \in SameChat(s) : t = s \/ blocked[t] = "chat"}
          /\ UNCHANGED <<subs, blocked, at, loaded>>
      BY <1>t, <2>4 DEF SendRefused, Sent
    <3>2. Condemned(s) \subseteq refused'
      BY <3>1 DEF Condemned, SameChat, CondemnedWereRefused
    <3> QED BY <3>1, <3>2 DEF CondemnedWereRefused
  <2>5. CASE FinishSending(self) \/ PruneDone(self) \/ RunTimesOut(self) \/ PruneSaveFails(self)
    BY <1>t, <2>5, NobodyCondemned DEF FinishSending, PruneDone, RunTimesOut, PruneSaveFails,
       EndRun, Goto
  <2>6. ASSUME NEW item \in dead[self], PruneLoad(self, item) PROVE CondemnedWereRefused'
    <3>1. /\ loaded'[self] = subs \ item /\ dead'[self] = dead[self] \ {item}
          /\ UNCHANGED <<subs, blocked, refused>>
      BY <1>t, <2>6 DEF PruneLoad
    <3>2. item \subseteq refused
      BY <1>t, <2>6 DEF CondemnedWereRefused
    <3> QED BY <3>1, <3>2 DEF CondemnedWereRefused
  <2>7. CASE PruneSave(self)
    <3>1. at'[self] = "prune" /\ UNCHANGED <<dead, blocked, refused>>
      BY <1>t, <2>7 DEF PruneSave, Goto
    <3> QED BY <3>1 DEF CondemnedWereRefused
  <2> QED
    BY <1>3, <2>1, <2>2, <2>3, <2>4, <2>5, <2>6, <2>7 DEF RunStep
<1>4. CASE SaveCommand(self)
  <2>1. at[self] # "pruneSave" /\ UNCHANGED <<at, dead, blocked, refused>>
    BY <1>m, <1>4 DEF SaveCommand, EndCommand
  <2> QED BY <2>1 DEF CondemnedWereRefused
<1>5. CASE CommandFails(self)
  BY <1>5, NobodyCondemned DEF CommandFails, EndCommand
<1>6. CASE Crash(self)
  BY <1>t, <1>6, NobodyCondemned DEF Crash, EndRun
<1>7. ASSUME NEW kind \in {"add", "remove"}, NEW s \in Pairs, StartCommand(self, kind, s)
      PROVE CondemnedWereRefused'
  <2>1. at[self] # "pruneSave" /\ UNCHANGED <<at, subs, dead, blocked, refused>>
    BY <1>m, <1>7 DEF StartCommand
  <2> QED BY <2>1, NobodyCondemned
<1>8. CASE NextSlot
  BY <1>8, NobodyCondemned DEF NextSlot
<1>9. ASSUME NEW s \in Pairs, NEW r \in Reach, ChangeReach(s, r)
      PROVE CondemnedWereRefused'
  <2>1. /\ UNCHANGED <<subs, at, loaded, dead, refused>>
        /\ \A t \in Pairs : blocked'[t] = IF t = s \/ (t[1] = s[1] /\ "chat" \in {r, blocked[s]})
                                            THEN r ELSE blocked[t]
    BY <1>9 DEF ChangeReach
  <2>2. \A u, t \in Pairs : t[1] = u[1] /\ blocked'[u] = "chat" => blocked'[t] = "chat"
    BY <2>1 DEF CondemnedWereRefused
  <2> QED BY <2>1, <2>2 DEF CondemnedWereRefused
<1> QED
  BY <1>1, <1>2, <1>3, <1>4, <1>5, <1>6, <1>7, <1>8, <1>9 DEF Next, CommandStep

\* With one process a pruning drops only subscribers that a terminal error covered, whatever
\* subscribes, fails or changes its rights between the sending and the pruning.
THEOREM OnlyUnreachablePrunedCorrect ==
  ASSUME NEW self, Procs = {self}
  PROVE  Spec => OnlyUnreachablePruned
<1>1. Init => MutexHeld /\ SubscriptionsKept /\ CondemnedWereRefused
  BY DEF Init, MutexHeld, SubscriptionsKept, NoCmd, CondemnedWereRefused
<1>2. TypeOK /\ MutexHeld /\ SubscriptionsKept /\ CondemnedWereRefused /\ [Next]_vars
        => MutexHeld' /\ SubscriptionsKept' /\ CondemnedWereRefused'
  BY SubscriptionStep, CondemnedStep
<1>3. TypeOK /\ CondemnedWereRefused /\ [Next]_vars =>
        [\A p \in Procs : at[p] = "pruneSave" /\ at'[p] = "prune" =>
            (subs \ subs') \subseteq refused]_vars
  <2> SUFFICES ASSUME TypeOK, CondemnedWereRefused, [Next]_vars,
                      at[self] = "pruneSave", at'[self] = "prune"
               PROVE  subs \ subs' \subseteq refused
    OBVIOUS
  <2>1. CASE PruneSave(self)
    BY <2>1 DEF PruneSave, CondemnedWereRefused
  <2>2. CASE SaveCommand(self)
    BY <2>2 DEF SaveCommand, EndCommand
  <2>3. CASE ~PruneSave(self) /\ ~SaveCommand(self)
    <3>1. subs' = subs
      BY <2>3 DEF vars, Next, RunStep, CommandStep, Fire, FetchSucceeds, FetchFails, FetchIsQuiet, ClaimRead,
        ClaimSwap, ClaimUnacknowledged, Deliver, SendRefused, SendFails, Sent, FinishSending, PruneLoad,
        PruneSaveFails, PruneDone, RunTimesOut, CommandFails, Crash, StartCommand, NextSlot, ChangeReach
    <3> QED BY <3>1
  <2> QED BY <2>1, <2>2, <2>3
<1> QED
  BY <1>1, <1>2, <1>3, TypeCorrect, PTL DEF Spec, OnlyUnreachablePruned
=============================================================================
