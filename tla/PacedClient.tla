----------------------------- MODULE PacedClient -----------------------------
(***************************************************************************)
(* The HTTP client of a crawl (crawler/client.go): goroutines that call    *)
(* Get share one clock of request slots.  A slot is reserved under a       *)
(* mutex, waited for, used once; a transient failure backs off and         *)
(* reserves again.  Time is kept relative to now: gap is how far the next  *)
(* free slot lies ahead, left what a timer has still to run.  A timer may  *)
(* fire late, so the promise is about the slots.                           *)
(***************************************************************************)
EXTENDS Integers, FiniteSets

CONSTANTS Callers,
          Delay,      \* ticks between two slots
          Second,     \* ticks of the first backoff
          Retries

ASSUME ClientAssumption == /\ Delay \in Nat \ {0} /\ Second \in Nat \ {0}
                           /\ Retries \in Nat

VARIABLES gap,        \* nextSlot - now, 0 when it has passed
          call,       \* each caller's Get
          since,      \* history: ticks since the last slot came due, up to Delay
          spacing     \* history: since, when the latest slot came due

clientVars == <<gap, call, since, spacing>>

NoGet == [at |-> "idle", left |-> 0, attempt |-> 0]

ClientTypeOK == /\ gap \in Nat /\ since \in 0..Delay /\ spacing \in 0..Delay
                /\ call \in [Callers -> [at : {"idle", "backoff", "wait", "fetch", "done", "failed"},
                                         left : Nat, attempt : 0..Retries]]

ClientInit == /\ gap = 0 /\ call = [c \in Callers |-> NoGet]
              /\ since = Delay /\ spacing = Delay

\* The slots that come due in this step, after a wait of the given ticks.
ComeDue(due, ticks) ==
  LET gone == IF since + ticks < Delay THEN since + ticks ELSE Delay
  IN  IF due = {} THEN since' = gone /\ UNCHANGED spacing
      ELSE since' = 0 /\ spacing' = IF Cardinality(due) = 1 THEN gone ELSE 0

\* Mutant: the slot is read under the mutex and claimed without it.
MutReserve(c, n) ==
  /\ call' = [call EXCEPT ![c] = [at |-> "wait", left |-> gap, attempt |-> n]]
  /\ gap' = IF gap = 0 THEN Delay ELSE gap
  /\ ComeDue(IF gap = 0 THEN {c} ELSE {}, 0)

\* Claims the next free slot; one that is due now needs no timer.
Reserve(c, n) ==
  /\ call' = [call EXCEPT ![c] = [at |-> "wait", left |-> gap, attempt |-> n]]
  /\ gap' = gap + Delay
  /\ ComeDue(IF gap = 0 THEN {c} ELSE {}, 0)

Get(c) == /\ call[c].at \in {"idle", "done", "failed"}
          /\ Reserve(c, 0)

Leave(c, at) == /\ call' = [call EXCEPT ![c] = [NoGet EXCEPT !.at = at]]
                /\ UNCHANGED <<gap, since, spacing>>

\* The timer of a slot or of a backoff has run out.
Wake(c) == /\ call[c].left = 0
           /\ \/ /\ call[c].at = "wait"
                 /\ call' = [call EXCEPT ![c].at = "fetch"]
                 /\ UNCHANGED <<gap, since, spacing>>
              \/ call[c].at = "backoff" /\ Reserve(c, call[c].attempt)

\* A context that ends aborts a wait; a slot once reserved is not given back.
Abort(c) == call[c].at \in {"wait", "backoff"} /\ Leave(c, "failed")

\* The answer: a page, a final refusal, or a failure worth a retry.
Answer(c) == call[c].at = "fetch" /\ Leave(c, "done")

Refuse(c) == call[c].at = "fetch" /\ Leave(c, "failed")

Fail(c) == /\ call[c].at = "fetch"
           /\ IF call[c].attempt < Retries
              THEN /\ call' = [call EXCEPT
                        ![c] = [at |-> "backoff", left |-> Second * 2^call[c].attempt,
                                attempt |-> call[c].attempt + 1]]
                   /\ UNCHANGED <<gap, since, spacing>>
              ELSE Leave(c, "failed")

Timers == {c \in Callers : call[c].left > 0}

\* One tick; it is taken only while a timer or the next slot is ahead.
ClockTick ==
  /\ gap > 0 \/ Timers # {}
  /\ gap' = IF gap > 0 THEN gap - 1 ELSE 0
  /\ call' = [c \in Callers |-> IF c \in Timers THEN [call[c] EXCEPT !.left = @ - 1] ELSE call[c]]
  /\ ComeDue({c \in Timers : call[c].at = "wait" /\ call[c].left = 1}, 1)

ClientStep(c) == Wake(c) \/ Answer(c) \/ Refuse(c) \/ Fail(c)

ClientNext == ClockTick \/ \E c \in Callers : Get(c) \/ ClientStep(c) \/ Abort(c)

ClientSpec == ClientInit /\ [][ClientNext]_clientVars

\* However many workers call Get, and however often they retry, two request
\* slots are never closer than the delay: more workers never mean more
\* requests per second (crawler/client.go:31-34, 58-59).
RequestsSpaced == spacing >= Delay
-----------------------------------------------------------------------------
\* Why: whoever waits is a whole delay away from the last slot that came due,
\* from everybody else who waits, and from the next slot to be given out.
Waiting(c) == call[c].at = "wait" /\ call[c].left > 0

SlotsApart ==
  /\ gap >= Delay - since
  /\ \A c \in Callers : Waiting(c) => /\ call[c].left >= Delay - since
                                      /\ gap >= call[c].left + Delay
  /\ \A c, d \in Callers : c # d /\ Waiting(c) /\ Waiting(d) =>
       \/ call[c].left >= call[d].left + Delay
       \/ call[d].left >= call[c].left + Delay
=============================================================================
