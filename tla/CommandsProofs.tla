--------------------------- MODULE CommandsProofs ---------------------------
(***************************************************************************)
(* The commands.  The books of gold and coin balance and are not           *)
(* overdrawn, for any number of handlers and processes, any tolerance and  *)
(* any amounts; /addsticker says what it did; the dispatcher hands each    *)
(* update to one receiver and denies in silence, for any catalog of        *)
(* modules; an alias is what was last saved; the rules of a thread and the *)
(* verdicts are those of its own list, for any texts.                      *)
(***************************************************************************)
EXTENDS MCCommands, FiniteSetTheorems, SequenceTheorems, WellFoundedInduction, TLAPS

-----------------------------------------------------------------------------
(* gold and coin *)

\* A trade that goes on has its amounts; a handler that has not saved has
\* written nothing.
Started == \A x \in Handlers :
  /\ h[x].at \notin {"done", "failed"} => h[x].written = 0
  /\ h[x].at = "done" => h[x].written = 1
  /\ h[x].at \in {"price", "lock", "load", "save"} => h[x].trade.op \in {"topup", "buy", "sell"}

\* The version a handler holds tells whether what it has read is still stored.
ReadIsCurrent == \A x \in Handlers : h[x].at = "save" =>
  /\ h[x].version <= doc.version
  /\ h[x].version = doc.version => h[x].read = [cash |-> doc.cash, held |-> doc.held]

\* The stored money is as it was normalised, so that reading it changes nothing.
StoredNormal == Normal(doc.cash) = doc.cash

Balanced == /\ Within(doc.cash - booked.cash, (Eps - 1) * trades.written)
            /\ Within(doc.held - booked.held, (Eps - 1) * trades.written)

TradeInv == TypeOK /\ Started /\ ReadIsCurrent /\ StoredNormal /\ Balanced /\ NoOverdraft

Phases == {"idle", "price", "lock", "load", "save", "done", "refused", "failed"}
Calls  == [at : Phases, trade : Trades \cup {NoTrade}, version : Nat, read : Assets,
           attempt : 0..MaxAttempts, written : 0..1]

\* What an update of one field does to a handler.
LEMMA AtField ==
  ASSUME NEW r \in Calls, NEW v \in Phases, NEW s, s = [r EXCEPT !.at = v]
  PROVE  s \in Calls /\ s.at = v /\ s.trade = r.trade /\ s.version = r.version /\ s.read = r.read /\ s.attempt = r.attempt /\ s.written = r.written
BY DEF Calls

LEMMA TradeField ==
  ASSUME NEW r \in Calls, NEW v \in Trades \cup {NoTrade}, NEW s, s = [r EXCEPT !.trade = v]
  PROVE  s \in Calls /\ s.trade = v /\ s.at = r.at /\ s.written = r.written
BY DEF Calls

LEMMA VersionField ==
  ASSUME NEW r \in Calls, NEW v \in Nat, NEW s, s = [r EXCEPT !.version = v]
  PROVE  s \in Calls /\ s.version = v /\ s.at = r.at /\ s.trade = r.trade /\ s.read = r.read /\ s.written = r.written
BY DEF Calls

LEMMA ReadField ==
  ASSUME NEW r \in Calls, NEW v \in Assets, NEW s, s = [r EXCEPT !.read = v]
  PROVE  s \in Calls /\ s.read = v /\ s.at = r.at /\ s.trade = r.trade /\ s.version = r.version /\ s.written = r.written
BY DEF Calls

LEMMA AttemptField ==
  ASSUME NEW r \in Calls, NEW v \in 0..MaxAttempts, NEW s, s = [r EXCEPT !.attempt = v]
  PROVE  s \in Calls /\ s.attempt = v /\ s.at = r.at /\ s.trade = r.trade /\ s.written = r.written
BY DEF Calls

LEMMA WrittenField ==
  ASSUME NEW r \in Calls, NEW v \in 0..1, NEW s, s = [r EXCEPT !.written = v]
  PROVE  s \in Calls /\ s.written = v /\ s.at = r.at /\ s.trade = r.trade /\ s.version = r.version /\ s.read = r.read /\ s.attempt = r.attempt
BY DEF Calls

LEMMA HandlersCall == ASSUME TypeOK PROVE h \in [Handlers -> Calls]
BY DEF TypeOK, Calls, Phases

LEMMA TradeAmounts ==
  ASSUME NEW t \in Trades
  PROVE  t.money \in Nat /\ t.qty \in Nat /\ t.op \in {"topup", "buy", "sell"}
<1>1. Amounts \cup {0} \subseteq Nat
  BY TradeAssumption
<1>2. t.money \in Amounts \cup {0} /\ t.qty \in Amounts \cup {0}
  BY DEF Trades
<1> QED
  BY <1>1, <1>2 DEF Trades

LEMMA NormalIsClose ==
  ASSUME NEW n \in Int
  PROVE  /\ Normal(n) \in Int /\ Normal(Normal(n)) = Normal(n)
         /\ Within(Normal(n) - n, Eps - 1)
         /\ \A m \in Int : m <= 0 /\ n >= m => Normal(n) >= m
BY TradeAssumption DEF Normal, Within

LEMMA OneMoreWithin ==
  ASSUME NEW e \in Nat, NEW n \in Nat, NEW a \in Int, NEW b \in Int,
         Within(a, e * n), Within(b, e)
  PROVE  Within(a + b, e * (n + 1))
<1>1. e * (n + 1) = e * n + e /\ e * n \in Int
  OBVIOUS
<1> HIDE DEF Within
<1> DEFINE k == e * n
<1>2. k \in Int /\ Within(a, k)
  BY <1>1
<1> HIDE DEF k
<1>3. Within(a + b, k + e)
  BY <1>2 DEF Within
<1> QED
  BY <1>1, <1>3 DEF k

\* What a trade does to the money and to the asset, up to less than a dust.
LEMMA TradedIsClose ==
  ASSUME NEW p \in Assets, NEW t \in Trades, kind \in {"gold", "coin"}
  PROVE  /\ Money(t) \in Int /\ Asset(t) \in Int
         /\ Traded(p, t) \in Assets
         /\ Normal(Traded(p, t).cash) = Traded(p, t).cash
         /\ Within(Traded(p, t).cash - (p.cash + Money(t)), Eps - 1)
         /\ Within(Traded(p, t).held - (p.held + Asset(t)), Eps - 1)
<1>1. Money(t) \in Int /\ Asset(t) \in Int
  BY TradeAmounts DEF Money, Asset
<1>2. p.cash + Money(t) \in Int /\ p.held + Asset(t) \in Int
  BY <1>1 DEF Assets
<1>3. /\ Traded(p, t).cash = Normal(p.cash + Money(t))
      /\ Traded(p, t).held \in {p.held + Asset(t), Normal(p.held + Asset(t))}
      /\ Traded(p, t) = [cash |-> Traded(p, t).cash, held |-> Traded(p, t).held]
  BY DEF Traded
<1>4. Within(0, Eps - 1)
  BY TradeAssumption DEF Within
<1>5. Within(Traded(p, t).held - (p.held + Asset(t)), Eps - 1) /\ Traded(p, t).held \in Int
  BY <1>2, <1>3, <1>4, NormalIsClose
<1>6. /\ Traded(p, t).cash \in Int /\ Normal(Traded(p, t).cash) = Traded(p, t).cash
      /\ Within(Traded(p, t).cash - (p.cash + Money(t)), Eps - 1)
  BY <1>2, <1>3, NormalIsClose
<1> QED
  BY <1>1, <1>3, <1>5, <1>6 DEF Assets

\* A trade that is accepted overdraws nothing by more than a dust.
LEMMA AcceptedIsCovered ==
  ASSUME NEW p \in Assets, NEW t \in Trades, kind \in {"gold", "coin"},
         p.cash >= -Eps, p.held >= -Eps, Accepts(p, t)
  PROVE  Traded(p, t).cash >= -Eps /\ Traded(p, t).held >= -Eps
<1>1. -Eps \in Int /\ -Eps <= 0
  BY TradeAssumption
<1>2. p.cash + Money(t) \in Int /\ p.cash + Money(t) >= -Eps
  <2>1. p.cash \in Int /\ t.money \in Nat /\ t.qty \in Nat /\ t.op \in {"topup", "buy", "sell"} /\ Eps \in Nat
    BY TradeAssumption, TradeAmounts DEF Assets
  <2>2. CASE t.op = "buy"
    <3>1. p.cash + Eps >= t.money
      BY <2>2 DEF Accepts, Covers
    <3> QED
      BY <2>1, <2>2, <3>1 DEF Money
  <2>3. CASE t.op # "buy"
    BY <2>1, <2>3 DEF Money
  <2> QED
    BY <2>2, <2>3
<1>3. p.held + Asset(t) \in Int /\ p.held + Asset(t) >= -Eps
  <2>1. p.held \in Int /\ t.money \in Nat /\ t.qty \in Nat /\ t.op \in {"topup", "buy", "sell"} /\ Eps \in Nat
    BY TradeAssumption, TradeAmounts DEF Assets
  <2>2. CASE t.op = "sell"
    <3>1. p.held + Eps >= t.qty
      BY <2>2 DEF Accepts, Covers
    <3> QED
      BY <2>1, <2>2, <3>1 DEF Asset
  <2>3. CASE t.op # "sell"
    BY <2>1, <2>3 DEF Asset
  <2> QED
    BY <2>2, <2>3
<1>4. /\ Traded(p, t).cash = Normal(p.cash + Money(t))
      /\ Traded(p, t).held \in {p.held + Asset(t), Normal(p.held + Asset(t))}
  BY DEF Traded
<1> QED
  BY <1>1, <1>2, <1>3, <1>4, NormalIsClose

LEMMA StoreKeepsInv ==
  ASSUME TradeInv, NEW x \in Handlers, NEW to \in {"done", "failed"}, Store(x, to)
  PROVE  TradeInv'
<1> DEFINE t == h[x].trade
           q == Traded(h[x].read, t)
<1>1. /\ h[x].at = "save" /\ h[x].written = 0 /\ t \in Trades /\ h[x].read \in Assets
      /\ h[x].read = [cash |-> doc.cash, held |-> doc.held]
  BY DEF Store, Writable, TradeInv, TypeOK, Started, ReadIsCurrent, Trades, NoTrade
<1>2. kind \in {"gold", "coin"} /\ doc.cash \in Int /\ doc.held \in Int /\ doc.version \in Nat
  BY DEF TradeInv, TypeOK
<1>3. /\ Money(t) \in Int /\ Asset(t) \in Int /\ q \in Assets /\ Normal(q.cash) = q.cash
      /\ Within(q.cash - (doc.cash + Money(t)), Eps - 1)
      /\ Within(q.held - (doc.held + Asset(t)), Eps - 1)
  BY <1>1, <1>2, TradedIsClose
<1>4. /\ doc' = [version |-> doc.version + 1, cash |-> q.cash, held |-> q.held]
      /\ booked' = [cash |-> booked.cash + Money(t), held |-> booked.held + Asset(t)]
      /\ trades' = [trades EXCEPT !.written = @ + 1]
      /\ UNCHANGED <<kind, proc, lock>>
  BY DEF Store
<1>13. PICK new : new \in Calls /\ new.at = to /\ new.written = 1 /\ h' = [h EXCEPT ![x] = new]
  <2>1. h[x] \in Calls /\ to \in Phases /\ h[x].written + 1 = 1
    BY <1>1, HandlersCall DEF TradeInv, Phases
  <2>2. PICK r : r = [h[x] EXCEPT !.at = to]
    OBVIOUS
  <2>3. r \in Calls /\ r.at = to
    BY <2>1, <2>2, AtField
  <2>4. PICK s : s = [r EXCEPT !.written = 1]
    OBVIOUS
  <2>5. s \in Calls /\ s.at = to /\ s.written = 1
    BY <2>3, <2>4, 1 \in 0..1, WrittenField
  <2>6. h' = [h EXCEPT ![x] = [h[x] EXCEPT !.at = to, !.written = h[x].written + 1]]
    BY DEF Store
  <2>7. [h[x] EXCEPT !.at = to, !.written = h[x].written + 1] = s
    BY <2>1, <2>2, <2>4, Zenon
  <2> QED
    BY <2>5, <2>6, <2>7
<1>5. Accepts(h[x].read, t) /\ Valid(q)
  BY DEF Store, Writable
<1>6. new.at = to /\ new.written = 1 /\ h'[x] = new /\ \A y \in Handlers \ {x} : h'[y] = h[y]
  BY <1>13 DEF TradeInv, TypeOK
<1>7. TypeOK'
  <2>1. doc' \in [version : Nat, cash : Int, held : Int]
    BY <1>2, <1>3, <1>4 DEF Assets
  <2>2. booked' \in Assets /\ trades' \in [begun : 0..MaxTrades, written : Nat]
    BY <1>3, <1>4 DEF TradeInv, TypeOK, Assets
  <2>3. h' \in [Handlers -> Calls]
    BY <1>13, HandlersCall DEF TradeInv
  <2> QED
    BY <1>4, <2>1, <2>2, <2>3 DEF TradeInv, TypeOK, Calls, Phases
<1>8. Started'
  BY <1>6 DEF TradeInv, Started
<1>9. ReadIsCurrent'
  <2> SUFFICES ASSUME NEW y \in Handlers, h'[y].at = "save"
               PROVE  h'[y].version < doc'.version
    BY <1>2, <1>4, <1>7 DEF ReadIsCurrent, TypeOK
  <2>1. y # x /\ h'[y] = h[y]
    BY <1>6
  <2> QED
    BY <1>2, <1>4, <2>1 DEF TradeInv, ReadIsCurrent, TypeOK
<1>10. StoredNormal'
  BY <1>3, <1>4 DEF StoredNormal
<1>11. Balanced'
  <2> DEFINE n == trades.written
             a == doc.cash - booked.cash
             b == q.cash - (doc.cash + Money(t))
             c == doc.held - booked.held
             d == q.held - (doc.held + Asset(t))
  <2>1. Eps - 1 \in Nat /\ n \in Nat /\ booked.cash \in Int /\ booked.held \in Int
    BY TradeAssumption DEF TradeInv, TypeOK, Assets
  <2>2. a \in Int /\ b \in Int /\ c \in Int /\ d \in Int
    BY <1>2, <1>3, <2>1 DEF Assets
  <2>3. Within(a, (Eps - 1) * n) /\ Within(b, Eps - 1) /\ Within(c, (Eps - 1) * n) /\ Within(d, Eps - 1)
    BY <1>3 DEF TradeInv, Balanced
  <2>4. Within(a + b, (Eps - 1) * (n + 1)) /\ Within(c + d, (Eps - 1) * (n + 1))
    <3> HIDE DEF a, b, c, d, n
    <3> QED
      BY <2>1, <2>2, <2>3, OneMoreWithin
  <2>5. doc'.cash - booked'.cash = a + b /\ doc'.held - booked'.held = c + d
    BY <1>2, <1>3, <1>4, <2>1 DEF Assets
  <2>6. trades'.written = n + 1
    BY <1>4 DEF TradeInv, TypeOK
  <2> HIDE DEF a, b, c, d, n
  <2> QED
    BY <2>4, <2>5, <2>6 DEF Balanced
<1>12. NoOverdraft'
  <2>1. h[x].read.cash >= -Eps /\ h[x].read.held >= -Eps
    BY <1>1, <1>2 DEF TradeInv, NoOverdraft
  <2>2. q.cash >= -Eps /\ q.held >= -Eps
    BY <1>1, <1>2, <1>5, <2>1, AcceptedIsCovered
  <2> HIDE DEF q
  <2> QED
    BY <1>4, <1>5, <2>2 DEF NoOverdraft, Valid
<1> QED
  BY <1>7, <1>8, <1>9, <1>10, <1>11, <1>12 DEF TradeInv

\* A step of one handler that leaves the documents and the books alone.
LEMMA MoveKeepsInv ==
  ASSUME TradeInv, NEW x \in Handlers, NEW r,
         UNCHANGED <<kind, proc, doc, booked>>,
         lock' \in [Processes -> Handlers \cup {"free"}],
         trades' \in [begun : 0..MaxTrades, written : Nat], trades'.written = trades.written,
         h' = [h EXCEPT ![x] = r],
         r \in Calls,
         r.at \notin {"done", "failed"} => r.written = 0,
         r.at = "done" => r.written = 1,
         r.at \in {"price", "lock", "load", "save"} => r.trade.op \in {"topup", "buy", "sell"},
         r.at = "save" => /\ r.version = doc.version
                          /\ r.read = [cash |-> doc.cash, held |-> doc.held]
  PROVE  TradeInv'
<1>1. h'[x] = r /\ \A y \in Handlers \ {x} : h'[y] = h[y]
  BY DEF TradeInv, TypeOK
<1>2. TypeOK'
  <2>1. h' \in [Handlers -> Calls]
    BY HandlersCall DEF TradeInv
  <2> QED
    BY <2>1 DEF TradeInv, TypeOK, Calls, Phases
<1>3. Started'
  BY <1>1 DEF TradeInv, Started
<1>4. ReadIsCurrent'
  BY <1>1 DEF TradeInv, ReadIsCurrent, TypeOK
<1>5. StoredNormal' /\ Balanced' /\ NoOverdraft'
  BY DEF TradeInv, StoredNormal, Balanced, NoOverdraft
<1> QED
  BY <1>2, <1>3, <1>4, <1>5 DEF TradeInv

\* A handler that ends, and one that goes on to a phase before the save.
LEMMA ToKeepsInv ==
  ASSUME TradeInv, NEW x \in Handlers, NEW to \in {"lock", "load", "refused", "failed"}, To(x, to),
         UNCHANGED <<kind, proc, doc, booked, trades>>,
         lock' \in [Processes -> Handlers \cup {"free"}],
         h[x].at \in {"price", "lock", "load", "save"}
  PROVE  TradeInv'
<1>1. PICK r : r = [h[x] EXCEPT !.at = to]
  OBVIOUS
<1>2. h[x] \in Calls /\ to \in Phases
  BY HandlersCall DEF TradeInv, Phases
<1>3. r \in Calls /\ r.at = to /\ r.written = h[x].written /\ r.trade = h[x].trade
  BY <1>1, <1>2, AtField
<1>4. h' = [h EXCEPT ![x] = r] /\ h[x].written = 0 /\ h[x].trade.op \in {"topup", "buy", "sell"}
  BY <1>1 DEF To, TradeInv, Started
<1>5. trades' \in [begun : 0..MaxTrades, written : Nat]
  BY DEF TradeInv, TypeOK
<1> QED
  BY <1>3, <1>4, <1>5, MoveKeepsInv

LEMMA StartKeepsInv ==
  ASSUME TradeInv, NEW x \in Handlers, Start(x)
  PROVE  TradeInv'
<1>1. Rest \in Calls /\ Rest.written = 0
  BY TradeAssumption DEF Rest, Calls, Phases, Assets
<1>2. /\ UNCHANGED <<kind, proc, doc, lock, booked>> /\ lock' \in [Processes -> Handlers \cup {"free"}]
      /\ trades' \in [begun : 0..MaxTrades, written : Nat] /\ trades'.written = trades.written
  <2>1. /\ trades \in [begun : 0..MaxTrades, written : Nat] /\ trades.begun < MaxTrades
        /\ trades' = [trades EXCEPT !.begun = @ + 1]
    BY DEF Start, TradeInv, TypeOK
  <2>2. trades.begun + 1 \in 0..MaxTrades
    BY <2>1, TradeAssumption
  <2>3. trades' \in [begun : 0..MaxTrades, written : Nat] /\ trades'.written = trades.written
    BY <2>1, <2>2
  <2> QED
    BY <2>3 DEF Start, TradeInv, TypeOK
<1>3. ASSUME NEW to \in {"lock", "price"}, NEW t \in Trades,
             h' = [h EXCEPT ![x] = [Rest EXCEPT !.at = to, !.trade = t]]
      PROVE  TradeInv'
  <2>1. PICK r : r = [Rest EXCEPT !.at = to]
    OBVIOUS
  <2>2. r \in Calls /\ r.at = to /\ r.written = 0
    BY <1>1, <2>1, AtField DEF Phases
  <2>3. PICK s : s = [r EXCEPT !.trade = t]
    OBVIOUS
  <2>4. s \in Calls /\ s.at = to /\ s.written = 0 /\ s.trade = t /\ t.op \in {"topup", "buy", "sell"}
    BY <2>2, <2>3, TradeField DEF Trades
  <2>5. h' = [h EXCEPT ![x] = s]
    BY <1>3, <2>1, <2>3, Zenon
  <2> QED
    BY <1>2, <2>4, <2>5, MoveKeepsInv
<1>4. CASE \E m \in Amounts : h' = [h EXCEPT ![x] = [Rest EXCEPT
             !.at = "lock", !.trade = [op |-> "topup", money |-> m, qty |-> 0]]]
  BY <1>3, <1>4 DEF Trades
<1>5. CASE \E op \in {"buy", "sell"} :
             h' = [h EXCEPT ![x] = [Rest EXCEPT !.at = "price", !.trade = [NoTrade EXCEPT !.op = op]]]
  <2>1. PICK op \in {"buy", "sell"} :
             h' = [h EXCEPT ![x] = [Rest EXCEPT !.at = "price", !.trade = [NoTrade EXCEPT !.op = op]]]
    BY <1>5
  <2>2. [NoTrade EXCEPT !.op = op] \in Trades
    BY DEF NoTrade, Trades
  <2> QED
    BY <1>3, <2>1, <2>2
<1> QED
  BY <1>4, <1>5 DEF Start

\* The price is asked for a trade that has its operation.
LEMMA PriceKeepsInv ==
  ASSUME TradeInv, NEW x \in Handlers, Price(x)
  PROVE  TradeInv'
<1>1. /\ h[x].at = "price" /\ UNCHANGED <<kind, proc, doc, lock, booked, trades>>
      /\ lock' \in [Processes -> Handlers \cup {"free"}]
      /\ trades' \in [begun : 0..MaxTrades, written : Nat]
  BY DEF Price, TradeInv, TypeOK
<1>2. CASE To(x, "refused")
  BY <1>1, <1>2, ToKeepsInv
<1>3. ASSUME NEW m \in Amounts, NEW q \in Amounts,
             h' = [h EXCEPT ![x].at = "lock", ![x].trade = [op |-> @.op, money |-> m, qty |-> q]]
      PROVE  TradeInv'
  <2>1. h[x] \in Calls /\ h[x].written = 0
    BY <1>1, HandlersCall DEF TradeInv, Started
  <2>2. PICK t : t = [op |-> h[x].trade.op, money |-> m, qty |-> q]
    OBVIOUS
  <2>3. t \in Trades
    BY <1>1, <2>2 DEF TradeInv, Started, Trades
  <2>4. PICK r : r = [h[x] EXCEPT !.at = "lock"]
    OBVIOUS
  <2>5. r \in Calls /\ r.at = "lock" /\ r.written = 0
    BY <2>1, <2>4, AtField DEF Phases
  <2>6. PICK s : s = [r EXCEPT !.trade = t]
    OBVIOUS
  <2>7. s \in Calls /\ s.at = "lock" /\ s.written = 0 /\ s.trade = t /\ t.op \in {"topup", "buy", "sell"}
    BY <2>3, <2>5, <2>6, TradeField DEF Trades
  <2>8. h' = [h EXCEPT ![x] = [h[x] EXCEPT !.at = "lock", !.trade = t]]
    BY <1>3, <2>2
  <2>9. h' = [h EXCEPT ![x] = s]
    BY <2>4, <2>6, <2>8, Zenon
  <2> QED
    BY <1>1, <2>7, <2>9, MoveKeepsInv
<1> QED
  BY <1>2, <1>3 DEF Price

LEMMA LoadKeepsInv ==
  ASSUME TradeInv, NEW x \in Handlers, Load(x)
  PROVE  TradeInv'
<1>1. PICK p : p = [cash |-> Normal(doc.cash), held |-> doc.held]
  OBVIOUS
<1>2. p \in Assets /\ p = [cash |-> doc.cash, held |-> doc.held] /\ doc.version \in Nat
  BY <1>1 DEF TradeInv, TypeOK, StoredNormal, Assets
<1>3. h[x] \in Calls /\ h[x].written = 0 /\ h[x].trade.op \in {"topup", "buy", "sell"}
  BY HandlersCall DEF Load, TradeInv, Started
<1>4. PICK r : r = [h[x] EXCEPT !.at = "save"]
  OBVIOUS
<1>5. r \in Calls /\ r.at = "save" /\ r.written = 0 /\ r.trade = h[x].trade
  BY <1>3, <1>4, AtField DEF Phases
<1>6. PICK s : s = [r EXCEPT !.version = doc.version]
  OBVIOUS
<1>7. s \in Calls /\ s.at = "save" /\ s.written = 0 /\ s.trade = h[x].trade /\ s.version = doc.version
  BY <1>2, <1>5, <1>6, VersionField
<1>8. PICK u : u = [s EXCEPT !.read = p]
  OBVIOUS
<1>9. u \in Calls /\ u.at = "save" /\ u.written = 0 /\ u.trade = h[x].trade /\ u.version = doc.version /\ u.read = p
  BY <1>2, <1>7, <1>8, ReadField
<1>10. h' = [h EXCEPT ![x] = [h[x] EXCEPT !.at = "save", !.version = doc.version, !.read = p]]
  BY <1>1 DEF Load
<1>11. h' = [h EXCEPT ![x] = u]
  BY <1>4, <1>6, <1>8, <1>10, Zenon
<1>12. /\ UNCHANGED <<kind, proc, doc, booked>> /\ lock' \in [Processes -> Handlers \cup {"free"}]
       /\ trades' \in [begun : 0..MaxTrades, written : Nat] /\ trades'.written = trades.written
  BY DEF Load, TradeInv, TypeOK
<1> QED
  BY <1>2, <1>3, <1>9, <1>11, <1>12, MoveKeepsInv

LEMMA ConflictKeepsInv ==
  ASSUME TradeInv, NEW x \in Handlers, Conflict(x)
  PROVE  TradeInv'
<1>1. /\ h[x].at = "save" /\ UNCHANGED <<kind, proc, doc, lock, booked, trades>>
      /\ lock' \in [Processes -> Handlers \cup {"free"}]
      /\ trades' \in [begun : 0..MaxTrades, written : Nat]
  BY DEF Conflict, Writable, TradeInv, TypeOK
<1>2. CASE To(x, "failed")
  BY <1>1, <1>2, ToKeepsInv
<1>3. CASE /\ h[x].attempt + 1 < MaxAttempts
           /\ h' = [h EXCEPT ![x].at = "load", ![x].attempt = @ + 1]
  <2>1. h[x] \in Calls /\ h[x].written = 0 /\ h[x].attempt + 1 \in 0..MaxAttempts
    BY <1>1, <1>3, HandlersCall, TradeAssumption DEF TradeInv, Started, Calls
  <2>2. PICK r : r = [h[x] EXCEPT !.at = "load"]
    OBVIOUS
  <2>3. r \in Calls /\ r.at = "load" /\ r.written = 0 /\ r.trade = h[x].trade
    BY <2>1, <2>2, AtField DEF Phases
  <2>4. PICK s : s = [r EXCEPT !.attempt = h[x].attempt + 1]
    OBVIOUS
  <2>5. s \in Calls /\ s.at = "load" /\ s.written = 0 /\ s.trade = h[x].trade /\ h[x].trade.op \in {"topup", "buy", "sell"}
    BY <1>1, <2>1, <2>3, <2>4, AttemptField DEF TradeInv, Started
  <2>6. h' = [h EXCEPT ![x] = [h[x] EXCEPT !.at = "load", !.attempt = h[x].attempt + 1]]
    BY <1>3
  <2>7. h' = [h EXCEPT ![x] = s]
    BY <2>2, <2>4, <2>6, Zenon
  <2> QED
    BY <1>1, <2>5, <2>7, MoveKeepsInv
<1> QED
  BY <1>2, <1>3 DEF Conflict

LEMMA ReleaseKeepsInv ==
  ASSUME TradeInv, NEW x \in Handlers, Release(x)
  PROVE  TradeInv'
<1>1. Rest \in Calls /\ Rest.written = 0 /\ Rest.at = "idle"
  BY TradeAssumption DEF Rest, Calls, Phases, Assets
<1>2. /\ UNCHANGED <<kind, proc, doc, booked, trades>> /\ lock' \in [Processes -> Handlers \cup {"free"}]
      /\ trades' \in [begun : 0..MaxTrades, written : Nat] /\ h' = [h EXCEPT ![x] = Rest]
  BY DEF Release, TradeInv, TypeOK
<1> QED
  BY <1>1, <1>2, MoveKeepsInv

\* The inductive invariant that the books rest on: what a handler has read and
\* may still store is the stored portfolio.
THEOREM TradeInvCorrect == Spec => []TradeInv
<1>1. Init => TradeInv
  <2> SUFFICES ASSUME Init PROVE TradeInv
    OBVIOUS
  <2>1. TypeOK
    BY TradeAssumption DEF Init, TypeOK, Rest, Assets
  <2>2. Started /\ ReadIsCurrent
    BY DEF Init, Rest, Started, ReadIsCurrent
  <2>3. (Eps - 1) * 0 = 0 /\ Eps \in Nat \ {0}
    BY TradeAssumption
  <2>4. StoredNormal /\ Balanced /\ NoOverdraft
    BY <2>3 DEF Init, StoredNormal, Normal, Balanced, Within, NoOverdraft
  <2> QED
    BY <2>1, <2>2, <2>4 DEF TradeInv
<1>2. TradeInv /\ [Next]_vars => TradeInv'
  <2> SUFFICES ASSUME TradeInv, [Next]_vars PROVE TradeInv'
    OBVIOUS
  <2>1. ASSUME NEW x \in Handlers, Lock(x) PROVE TradeInv'
    <3>1. /\ h[x].at = "lock" /\ UNCHANGED <<kind, proc, doc, booked, trades>> /\ To(x, "load")
          /\ lock' \in [Processes -> Handlers \cup {"free"}]
      BY <2>1 DEF Lock, TradeInv, TypeOK
    <3> QED
      BY <3>1, ToKeepsInv
  <2>2. ASSUME NEW x \in Handlers, Refuse(x) \/ StoreFails(x) PROVE TradeInv'
    <3>1. /\ h[x].at \in {"load", "save"} /\ UNCHANGED <<kind, proc, doc, booked, trades>>
          /\ lock' \in [Processes -> Handlers \cup {"free"}]
          /\ To(x, "refused") \/ To(x, "failed")
      BY <2>2 DEF Refuse, StoreFails, Writable, TradeInv, TypeOK
    <3> QED
      BY <3>1, ToKeepsInv
  <2>3. ASSUME NEW x \in Handlers, Save(x) \/ SaveUnacknowledged(x) PROVE TradeInv'
    BY <2>3, StoreKeepsInv DEF Save, SaveUnacknowledged
  <2>4. CASE UNCHANGED vars
    BY <2>4 DEF vars, TradeInv, TypeOK, Started, ReadIsCurrent, StoredNormal, Balanced, NoOverdraft
  <2> QED
    BY <2>1, <2>2, <2>3, <2>4, StartKeepsInv, PriceKeepsInv, LoadKeepsInv, ConflictKeepsInv, ReleaseKeepsInv
    DEF Next, Step
<1> QED
  BY <1>1, <1>2, PTL DEF Spec

\* Type correctness, for any handlers, processes and amounts.
THEOREM TradeTypeCorrect == Spec => []TypeOK
<1>1. TradeInv => TypeOK
  BY DEF TradeInv
<1> QED
  BY <1>1, TradeInvCorrect, PTL

\* The books are the sum of the trades that were written, and users are told the
\* truth about theirs, for any number of handlers in any number of processes.
THEOREM BooksBalanceCorrect == Spec => []BooksBalance
<1>1. TradeInv => BooksBalance
  BY DEF TradeInv, TypeOK, Started, Balanced, BooksBalance, TradeOutcome
<1> QED
  BY <1>1, TradeInvCorrect, PTL

\* However trades follow each other, nothing is overdrawn by more than a dust,
\* for any tolerance and any amounts.
THEOREM NoOverdraftCorrect == Spec => []NoOverdraft
<1>1. TradeInv => NoOverdraft
  BY DEF TradeInv
<1> QED
  BY <1>1, TradeInvCorrect, PTL

-----------------------------------------------------------------------------
(* /addsticker *)

\* Until it replies, a command has put nothing and said nothing; one that creates the
\* pack knows there was none of the owner's.
PutNothing == put = 0 /\ answer = "silent"
Underway == at \notin {"idle", "reply"} => PutNothing /\ owner # NoOwner
AtMostReplies == at = "idle" => PutNothing
CreatesMissing == at = "create" => pack.size = 0 \/ pack.owner # owner

StickerInv == /\ StickerTypeOK /\ Underway /\ AtMostReplies /\ CreatesMissing
              /\ StickerAnswerIsTrue

\* A handler that spends time has no more of it than before.
LEMMA SpendsTime ==
  ASSUME left \in 0..(Still + Moving), NEW most \in 0..left, Spend(most)
  PROVE  /\ left' \in 0..(Still + Moving) /\ left' <= left /\ left - most <= left'
         /\ left' \in Nat
BY PackAssumption DEF Spend

\* A step to another phase, or to the reply, that puts nothing.
LEMMA MovesOn ==
  ASSUME StickerInv, at \notin {"idle", "reply"}, UNCHANGED <<text, configVars, pack, source, put>>,
         NEW to \in {"media", "add", "create"}, at' = to, UNCHANGED answer,
         to = "create" => pack.size = 0 \/ pack.owner # owner,
         known' \in BOOLEAN, left' \in 0..(Still + Moving), began' \in 0..(Still + Moving)
  PROVE  StickerInv'
<1>1. PutNothing /\ PutNothing' /\ owner' = owner /\ owner # NoOwner
  BY DEF StickerInv, Underway, configVars, PutNothing
<1>2. StickerTypeOK'
  BY DEF StickerInv, StickerTypeOK, configVars
<1>3. StickerAnswerIsTrue'
  BY <1>1 DEF StickerAnswerIsTrue, PutNothing
<1> QED BY <1>1, <1>2, <1>3 DEF StickerInv, Underway, AtMostReplies, CreatesMissing

\* A step that says what it is sure of.
LEMMA SaysTruth ==
  ASSUME StickerInv, UNCHANGED <<text, configVars>>, source' \in Sources,
         NEW what \in Answers \ {"silent"}, Say(what),
         put' \in {0, 1},
         what \in {"added", "created"} => put' = 1,
         what \in {"full", "taken", "misconfigured", "refused", "nomedia"} => put' = 0,
         what = "taken" => pack'.size = 0 \/ pack'.owner # owner,
         what = "nomedia" /\ began' > 1 => left' > 0,
         pack' \in [owner : Owners, size : 0..MaxPack],
         known' \in BOOLEAN, left' \in 0..(Still + Moving), began' \in 0..(Still + Moving)
  PROVE  StickerInv'
<1>1. at' = "reply" /\ answer' = what /\ owner' = owner
  BY DEF Say, configVars
<1>2. StickerTypeOK'
  BY <1>1 DEF StickerInv, StickerTypeOK, configVars, Answers
<1>3. StickerAnswerIsTrue'
  BY <1>1 DEF StickerAnswerIsTrue
<1> QED BY <1>1, <1>2, <1>3 DEF StickerInv, Underway, AtMostReplies, CreatesMissing

\* What a command of /addsticker keeps, whatever Telegram answers and however long it
\* takes, and what others change meanwhile.
LEMMA StickerStep == StickerInv /\ [StickerNext]_stickerVars => StickerInv'
<1> SUFFICES ASSUME StickerInv, [StickerNext]_stickerVars PROVE StickerInv'
  OBVIOUS
<1>t. /\ Still \in Nat /\ Moving \in Nat /\ Reserve \in Nat \ {0} /\ MaxPack \in Nat \ {0}
      /\ left \in 0..(Still + Moving) /\ left \in Nat /\ began \in 0..(Still + Moving)
      /\ pack \in [owner : Owners, size : 0..MaxPack] /\ pack.size \in Nat
      /\ known \in BOOLEAN /\ source \in Sources
  BY PackAssumption DEF StickerInv, StickerTypeOK
<1>r. ASSUME at' = "idle", answer' = "silent", put' = 0, left' = 0, began' = 0,
             source' = "none", text' \in Seq(Runes), owner' \in Owners \cup {NoOwner},
             manages' \in BOOLEAN, known' \in BOOLEAN, UNCHANGED pack
      PROVE  StickerInv'
  <2>1. StickerTypeOK'
    BY <1>r, <1>t DEF StickerTypeOK, Answers, Sources
  <2> QED BY <1>r, <2>1 DEF StickerInv, Underway, AtMostReplies, CreatesMissing, PutNothing,
                            StickerAnswerIsTrue
<1>1. CASE UNCHANGED stickerVars
  BY <1>1 DEF StickerInv, StickerTypeOK, Underway, AtMostReplies, CreatesMissing, PutNothing,
              StickerAnswerIsTrue, stickerVars, configVars, handlerVars
<1>2. CASE at = "idle" /\ TypeRune /\ UNCHANGED <<configVars, known, pack, handlerVars>>
  <2>1. text' \in Seq(Runes)
    BY <1>2 DEF TypeRune, StickerInv, StickerTypeOK
  <2>2. UNCHANGED <<configVars, known, pack, handlerVars>>
    BY <1>2
  <2> QED BY <2>1, <2>2 DEF StickerInv, StickerTypeOK, Underway, AtMostReplies, CreatesMissing,
                            PutNothing, StickerAnswerIsTrue, configVars, handlerVars
<1>3. ASSUME NEW s \in Sources, AddSticker(s) PROVE StickerInv'
  <2>1. /\ at = "idle" /\ source' = s /\ put' = 0 /\ began' = 0
        /\ left' = (IF s = "video" THEN Moving ELSE Still)
        /\ UNCHANGED <<text, configVars, known, pack>>
        /\ IF owner = NoOwner THEN Say("failed") ELSE Goes("username")
    BY <1>3 DEF AddSticker
  <2>2. left' \in 0..(Still + Moving) /\ began' \in 0..(Still + Moving)
    BY <1>t, <2>1
  <2>3. PutNothing
    BY <2>1 DEF StickerInv, AtMostReplies
  <2>4. CASE owner = NoOwner
    BY <1>t, <2>1, <2>2, <2>4, SaysTruth DEF Answers
  <2>5. CASE owner # NoOwner
    <3>1. at' = "username" /\ PutNothing' /\ UNCHANGED <<text, owner, manages, known, pack>>
      BY <2>1, <2>3, <2>5 DEF Goes, PutNothing, configVars
    <3>2. StickerTypeOK'
      BY <1>t, <2>1, <2>2, <3>1 DEF StickerInv, StickerTypeOK, PutNothing, Answers
    <3> QED BY <2>5, <3>1, <3>2 DEF StickerInv, Underway, AtMostReplies, CreatesMissing,
                                    PutNothing, StickerAnswerIsTrue
  <2> QED BY <2>4, <2>5
<1>4. CASE ResolveUsername
  <2>1. at = "username" /\ Resolve /\ UNCHANGED <<text, configVars, pack, source, began, put>>
    BY <1>4 DEF ResolveUsername
  <2>2. known' \in BOOLEAN /\ left' \in 0..(Still + Moving)
    <3>1. CASE known
      BY <1>t, <2>1, <3>1 DEF Resolve
    <3>2. CASE ~known
      <4>1. Spend(left) /\ known' \in {FALSE, InTime}
        BY <2>1, <3>2 DEF Resolve
      <4>2. InTime \in BOOLEAN
        BY DEF InTime
      <4>3. left \in 0..left
        BY <1>t
      <4>4. left' \in 0..(Still + Moving)
        BY <1>t, <4>1, <4>3, SpendsTime
      <4> QED BY <4>1, <4>2, <4>4
    <3> QED BY <3>1, <3>2
  <2>3. PutNothing /\ put' = 0
    BY <2>1 DEF StickerInv, Underway, PutNothing
  <2>4. ASSUME NEW what \in {"failed", "misconfigured", "refused"}, Say(what) PROVE StickerInv'
    BY <1>t, <2>1, <2>2, <2>3, <2>4, SaysTruth DEF Answers
  <2>5. ASSUME NEW to \in {"add", "media"}, Goes(to) PROVE StickerInv'
    BY <1>t, <2>1, <2>2, <2>5, MovesOn DEF Goes
  <2>6. \/ \E what \in {"failed", "misconfigured", "refused"} : Say(what)
        \/ \E to \in {"add", "media"} : Goes(to)
    BY <1>4 DEF ResolveUsername
  <2> QED BY <2>4, <2>5, <2>6
<1>5. CASE Media
  <2> DEFINE most == IF MediaTime(left) < left THEN MediaTime(left) ELSE left
  <2>1. /\ at = "media" /\ began' = left /\ Spend(most)
        /\ (left' > left - most /\ Goes("add")) \/ Say("nomedia")
        /\ UNCHANGED <<text, configVars, known, pack, source, put>>
    BY <1>5 DEF Media, MediaFails
  <2>2. most \in 0..left
    BY <1>t DEF MediaTime
  <2>3. left > 1 => left - most > 0
    BY <1>t DEF MediaTime
  <2> HIDE DEF most
  <2>4. left' \in 0..(Still + Moving) /\ left - most <= left' /\ left' \in Nat
    BY <1>t, <2>1, <2>2, SpendsTime
  <2>5. began' > 1 => left' > 0
    BY <1>t, <2>1, <2>2, <2>3, <2>4
  <2>6. PutNothing /\ put' = 0 /\ known' \in BOOLEAN /\ began' \in 0..(Still + Moving)
    BY <1>t, <2>1 DEF StickerInv, Underway, PutNothing
  <2>7. CASE Goes("add")
    BY <1>t, <2>1, <2>4, <2>6, <2>7, MovesOn DEF Goes
  <2>8. CASE Say("nomedia")
    BY <1>t, <2>1, <2>4, <2>5, <2>6, <2>8, SaysTruth DEF Answers
  <2> QED BY <2>1, <2>7, <2>8
<1>6. CASE Add
  <2>1. /\ at = "add" /\ Spend(left) /\ UNCHANGED <<text, configVars, known, source, began>>
    BY <1>6 DEF Add
  <2>2. left' \in 0..(Still + Moving)
    BY <1>t, <2>1, SpendsTime
  <2>3. PutNothing /\ put = 0
    BY <2>1 DEF StickerInv, Underway, PutNothing
  <2>4. PICK a \in AddAnswers, applied \in BOOLEAN :
          /\ applied \in Effects(a, AddAnswers)
          /\ IF applied THEN pack' = [pack EXCEPT !.size = @ + 1] /\ put' = put + 1
             ELSE UNCHANGED <<pack, put>>
          /\ \/ a = "ok" /\ Say("added")
             \/ Missing(a) /\ Goes("create")
             \/ a \in {"full", "refused"} /\ Say(a)
             \/ a = "lost" /\ ~Missing(a) /\ Say("failed")
    BY <1>6 DEF Add, Effects
  <2>5. /\ a \in {"ok", "missing", "full", "refused", "lost"}
        /\ a = "ok" => applied = TRUE
        /\ a \notin {"ok", "lost"} => applied = FALSE
        /\ applied \in BOOLEAN
    BY <2>4 DEF AddAnswers, Effects
  <2>6. applied => pack.size < MaxPack
    <3>1. ASSUME applied PROVE "ok" \in AddAnswers
      <4>1. CASE a = "lost" /\ "ok" \in AddAnswers
        BY <4>1
      <4>2. CASE ~(a = "lost" /\ "ok" \in AddAnswers)
        BY <2>4, <3>1, <4>2 DEF Effects
      <4> QED BY <4>1, <4>2
    <3>2. "ok" \in AddAnswers => pack.size # MaxPack
      BY DEF AddAnswers
    <3> QED BY <1>t, <3>1, <3>2
  <2>7. pack' \in [owner : Owners, size : 0..MaxPack] /\ put' \in {0, 1}
        /\ (applied => put' = 1) /\ (~applied => put' = 0 /\ pack' = pack)
    BY <1>t, <2>3, <2>4, <2>5, <2>6
  <2>8. CASE a = "ok" /\ Say("added")
    BY <1>t, <2>1, <2>2, <2>5, <2>7, <2>8, SaysTruth DEF Answers
  <2>9. CASE Missing(a) /\ Goes("create")
    <3>1. a = "missing" /\ ~applied
      BY <2>5, <2>9 DEF Missing
    <3>2. pack.size = 0 \/ pack.owner # owner
      BY <2>4, <3>1 DEF AddAnswers
    <3> QED BY <1>t, <2>1, <2>2, <2>3, <2>7, <2>9, <3>1, <3>2, MovesOn DEF Goes
  <2>10. CASE a \in {"full", "refused"} /\ Say(a)
    BY <1>t, <2>1, <2>2, <2>5, <2>7, <2>10, SaysTruth DEF Answers
  <2>11. CASE a = "lost" /\ Say("failed")
    BY <1>t, <2>1, <2>2, <2>5, <2>7, <2>11, SaysTruth DEF Answers
  <2> QED BY <2>4, <2>8, <2>9, <2>10, <2>11
<1>7. CASE Create
  <2>1. /\ at = "create" /\ Spend(left) /\ UNCHANGED <<text, configVars, known, source, began>>
    BY <1>7 DEF Create
  <2>2. left' \in 0..(Still + Moving)
    BY <1>t, <2>1, SpendsTime
  <2>3. put = 0 /\ owner \in Owners /\ (pack.size = 0 \/ pack.owner # owner)
    BY <2>1 DEF StickerInv, Underway, PutNothing, CreatesMissing, StickerTypeOK
  <2>4. PICK a \in CreateAnswers, applied \in BOOLEAN :
          /\ applied \in Effects(a, CreateAnswers)
          /\ IF applied THEN pack' = [owner |-> owner, size |-> 1] /\ put' = put + 1
             ELSE UNCHANGED <<pack, put>>
          /\ \/ a = "ok" /\ Say("created")
             \/ a = "occupied" /\ Say("taken")
             \/ a = "refused" /\ Say("refused")
             \/ a = "lost" /\ Say("failed")
    BY <1>7 DEF Create, Effects
  <2>5. /\ a \in {"ok", "refused", "lost", "occupied"}
        /\ a = "ok" => applied = TRUE
        /\ a \notin {"ok", "lost"} => applied = FALSE
        /\ applied \in BOOLEAN
    BY <2>4 DEF CreateAnswers, Effects
  <2>6. pack' \in [owner : Owners, size : 0..MaxPack] /\ put' \in {0, 1}
        /\ (applied => put' = 1) /\ (~applied => put' = 0 /\ pack' = pack)
    BY <1>t, <2>3, <2>4, <2>5
  <2>7. CASE a = "ok" /\ Say("created")
    BY <1>t, <2>1, <2>2, <2>5, <2>6, <2>7, SaysTruth DEF Answers
  <2>8. CASE a = "occupied" /\ Say("taken")
    BY <1>t, <2>1, <2>2, <2>3, <2>5, <2>6, <2>8, SaysTruth DEF Answers
  <2>9. CASE a = "refused" /\ Say("refused")
    BY <1>t, <2>1, <2>2, <2>5, <2>6, <2>9, SaysTruth DEF Answers
  <2>10. CASE a = "lost" /\ Say("failed")
    BY <1>t, <2>1, <2>2, <2>5, <2>6, <2>10, SaysTruth DEF Answers
  <2> QED BY <2>4, <2>7, <2>8, <2>9, <2>10
<1>8. CASE Reply
  <2>1. UNCHANGED <<owner, manages, known, pack>> /\ text' \in Seq(Runes)
    BY <1>8 DEF Reply, configVars
  <2> QED BY <1>8, <1>r, <2>1 DEF Reply, StickerInv, StickerTypeOK
<1>9. CASE DeletePack
  <2>1. /\ pack' = [pack EXCEPT !.size = 0] /\ UNCHANGED <<text, configVars, known, handlerVars>>
    BY <1>9 DEF DeletePack
  <2>2. pack' \in [owner : Owners, size : 0..MaxPack] /\ pack'.size = 0
    BY <1>t, <2>1
  <2> HIDE <2>1
  <2>3. UNCHANGED <<text, owner, manages, known, at, source, left, began, answer, put>>
    BY <2>1 DEF configVars, handlerVars
  <2> QED BY <2>2, <2>3 DEF StickerInv, StickerTypeOK, Underway, AtMostReplies, CreatesMissing,
                            PutNothing, StickerAnswerIsTrue
<1>10. ASSUME NEW o \in Owners \cup {NoOwner}, NEW m \in BOOLEAN, Reconfigure(o, m)
       PROVE  StickerInv'
  <2>1. text' \in Seq(Runes)
    BY <1>10 DEF Reconfigure
  <2> QED BY <1>10, <1>r, <2>1 DEF Reconfigure
<1> QED
  BY <1>1, <1>2, <1>3, <1>4, <1>5, <1>6, <1>7, <1>8, <1>9, <1>10 DEF StickerNext

\* /addsticker says what happened, for any time limits and any size of the pack.
THEOREM StickerAnswerIsTrueCorrect == StickerSpec => []StickerAnswerIsTrue
<1>1. StickerInit => StickerInv
  <2> SUFFICES ASSUME StickerInit PROVE StickerInv
    OBVIOUS
  <2>1. StickerTypeOK
    <3>1. text \in Seq(Runes)
      BY DEF StickerInit, EmojiInit
    <3>2. pack \in [owner : Owners, size : 0..MaxPack] /\ 0 \in 0..(Still + Moving)
      BY PackAssumption DEF StickerInit
    <3>3. /\ owner \in Owners /\ manages \in BOOLEAN /\ known \in BOOLEAN /\ put = 0
          /\ at = "idle" /\ source = "none" /\ answer = "silent" /\ left = 0 /\ began = 0
      BY DEF StickerInit
    <3> QED BY <3>1, <3>2, <3>3 DEF StickerTypeOK, Sources, Answers
  <2> QED BY <2>1 DEF StickerInit, StickerInv, Underway, AtMostReplies, CreatesMissing,
                      PutNothing, StickerAnswerIsTrue
<1>2. StickerInv => StickerAnswerIsTrue
  BY DEF StickerInv
<1> QED BY <1>1, <1>2, StickerStep, PTL DEF StickerSpec

-----------------------------------------------------------------------------
(* The dispatcher *)

\* Of two prefixes of one sequence, the shorter is a prefix of the other.
LEMMA PrefixesOfOne ==
  ASSUME NEW S, NEW s \in Seq(S), NEW t \in Seq(S), NEW d \in Seq(S),
         IsPrefix(s, d), IsPrefix(t, d), Len(s) <= Len(t)
  PROVE  IsPrefix(s, t)
<1>1. /\ Len(s) \in Nat /\ Len(t) \in Nat /\ Len(d) \in Nat /\ Len(t) <= Len(d)
      /\ SubSeq(s, 1, Len(s)) = SubSeq(d, 1, Len(s))
      /\ SubSeq(t, 1, Len(t)) = SubSeq(d, 1, Len(t))
  BY DEF IsPrefix
<1>2. SubSeq(t, 1, Len(t)) = t
  BY <1>1
<1>3. SubSeq(t, 1, Len(s)) = SubSeq(d, 1, Len(s))
  BY <1>1, <1>2
<1> QED BY <1>1, <1>3 DEF IsPrefix

\* In the modules that Build accepts, an update that names one command has one receiver.
LEMMA BuiltHasOneReceiver ==
  ASSUME Builds(deploy), NEW u \in Updates, u.kind = "message" => \A m, n \in Named(u) : m = n,
         NEW r \in Receivers(u), NEW s \in Receivers(u)
  PROVE  r = s
<1>1. ASSUME NEW x \in CommandsFor(u), NEW y \in CommandsFor(u) PROVE x = y
  <2>1. u.kind = "message"
    BY <1>1 DEF CommandsFor
  <2>2. PICK c \in Commands(deploy) : c.name \in Named(u)
                                      /\ x = [kind |-> "command", name |-> c.name, vis |-> c.vis]
    BY <1>1, <2>1 DEF CommandsFor
  <2>3. PICK d \in Commands(deploy) : d.name \in Named(u)
                                      /\ y = [kind |-> "command", name |-> d.name, vis |-> d.vis]
    BY <1>1, <2>1 DEF CommandsFor
  <2>4. c.name = d.name
    BY <2>1, <2>2, <2>3
  <2>5. c = d
    BY <2>4 DEF Builds, CommandConflict
  <2> QED BY <2>2, <2>3, <2>5
<1>2. ASSUME NEW x \in TapsFor(u), NEW y \in TapsFor(u) PROVE x = y
  <2>1. u.kind = "callback"
    BY <1>2 DEF TapsFor
  <2>2. PICK c \in Taps(deploy) : IsPrefix(c.chars, u.data)
                                  /\ x = [kind |-> "callback", name |-> c.name, vis |-> c.vis]
    BY <1>2, <2>1 DEF TapsFor
  <2>3. PICK d \in Taps(deploy) : IsPrefix(d.chars, u.data)
                                  /\ y = [kind |-> "callback", name |-> d.name, vis |-> d.vis]
    BY <1>2, <2>1 DEF TapsFor
  <2>4. ASSUME NEW t \in Taps(deploy) PROVE t.chars \in Seq(STRING)
    <3>1. PICK n \in Loaded(deploy) : \E p \in Catalog[n].taps : t.chars = p.chars
      BY DEF Taps
    <3> QED BY <3>1, DispatcherAssumption DEF Loaded
  <2>5. /\ c.chars \in Seq(STRING) /\ d.chars \in Seq(STRING) /\ u.data \in Seq(STRING)
        /\ Len(c.chars) \in Nat /\ Len(d.chars) \in Nat
    BY <2>1, <2>4, DispatcherAssumption
  <2>6. IsPrefix(c.chars, d.chars) \/ IsPrefix(d.chars, c.chars)
    BY <2>2, <2>3, <2>5, PrefixesOfOne
  <2>7. c = d
    BY <2>6 DEF Builds, TapConflict
  <2> QED BY <2>2, <2>3, <2>7
<1>3. CommandsFor(u) = {} \/ TapsFor(u) = {}
  BY DEF CommandsFor, TapsFor
<1>4. CASE CommandsFor(u) \cup TapsFor(u) # {}
  BY <1>1, <1>2, <1>3, <1>4 DEF Receivers
<1>5. CASE CommandsFor(u) \cup TapsFor(u) = {}
  BY <1>5 DEF Receivers, RestFor
<1> QED BY <1>4, <1>5

\* What the dispatcher knows of the update it handles.
Dispatched ==
  /\ process = "up" => Builds(deploy)
  /\ worker # Idle => /\ worker.at \in {"match", "run"} /\ worker.update \in Updates
                      /\ worker.by \in Receivers(worker.update)
  /\ worker.at = "match" => traces = {}
  /\ worker.at = "run" => worker.update.from \in Trusted(worker.by.vis)

\* Whoever is permitted is trusted.
LEMMA PermittedIsTrusted ==
  ASSUME NEW u \in Updates, NEW vis, Permits(vis, u.from)
  PROVE  u.from \in Trusted(vis)
BY DEF Permits, Trusted

\* A handler that runs ends, or goes on unchanged.
Ends == worker' = Idle /\ UNCHANGED <<deploy, process>>
Bides == UNCHANGED <<deploy, process, worker, traces>>

\* What every step behind the dispatcher does to the update.
LEMMA WorkerMoves ==
  ASSUME [AliasNext]_aliasVars
  PROVE  \/ \E u \in Updates : Take(u)
         \/ Deny \/ Admit
         \/ Bides
         \/ worker.at = "run" /\ Ends
         \/ Redeploy
<1>1. ASSUME HooksEnd \/ UNCHANGED aliasVars PROVE Bides
  BY <1>1 DEF HooksEnd, aliasVars, dispatchVars, Bides
<1>2. ASSUME Panics \/ Return PROVE worker.at = "run" /\ Ends
  BY <1>2 DEF Panics, Return, Ends
<1>3. ASSUME RefuseAlias \/ SaveAlias \/ Unalias \/ Insert \/ Fallback \/ Inline
      PROVE  worker.at = "run" /\ Ends
  BY <1>3 DEF RefuseAlias, SaveAlias, Unalias, Insert, Fallback, Inline, Handling, Running,
              Replies, replied, Ends
<1> QED BY <1>1, <1>2, <1>3 DEF AliasNext

\* Every step keeps it.
LEMMA DispatchedStep == Dispatched /\ [AliasNext]_aliasVars => Dispatched'
<1> SUFFICES ASSUME Dispatched, [AliasNext]_aliasVars PROVE Dispatched'
  OBVIOUS
<1>i. Idle.at = "idle"
  BY DEF Idle
<1>r. \A u : UNCHANGED deploy => Receivers(u)' = Receivers(u)
  BY DEF Receivers, CommandsFor, TapsFor, RestFor, Commands, Taps, Loaded
<1>1. ASSUME NEW u \in Updates, Take(u) PROVE Dispatched'
  <2>1. /\ UNCHANGED <<deploy, process>> /\ traces' = {}
        /\ \E r \in Receivers(u) : worker' = [at |-> "match", update |-> u, by |-> r]
    BY <1>1 DEF Take
  <2> QED BY <1>r, <2>1 DEF Dispatched, Builds, CommandConflict, CronConflict, TapConflict,
                            SingletonConflict
<1>2. CASE Deny
  BY <1>2, <1>i DEF Dispatched, Deny
<1>3. CASE Admit
  <2>1. /\ worker.at = "match" /\ worker' = [worker EXCEPT !.at = "run"]
        /\ Permits(worker.by.vis, worker.update.from) /\ UNCHANGED <<deploy, process>>
    BY <1>3 DEF Admit
  <2>2. worker # Idle
    BY <1>i, <2>1
  <2>3. worker'.update = worker.update /\ worker'.by = worker.by
    BY <2>1
  <2>4. worker.update \in Updates
    BY <2>2 DEF Dispatched
  <2>5. worker'.update.from \in Trusted(worker'.by.vis)
    BY <2>1, <2>3, <2>4, PermittedIsTrusted
  <2>6. worker'.at # "match"
    BY <2>1
  <2> QED BY <1>r, <2>1, <2>2, <2>3, <2>5, <2>6 DEF Dispatched
<1>4. CASE Bides
  BY <1>4, <1>r DEF Dispatched, Bides
<1>5. CASE worker.at = "run" /\ Ends
  BY <1>5, <1>i DEF Dispatched, Ends
<1>6. CASE Redeploy
  BY <1>6, <1>i DEF Redeploy, Dispatched
<1> QED BY <1>1, <1>2, <1>3, <1>4, <1>5, <1>6, WorkerMoves

\* In the beginning nothing is handled.
LEMMA DispatchedInit == AliasInit => Dispatched
BY DEF AliasInit, Dispatched, Idle

\* Whoever has no right to a command learns nothing of it, for any catalog of modules,
\* owner and admins.
THEOREM SilentDenialCorrect == AliasSpec => SilentDenial
<1>1. Dispatched /\ [AliasNext]_aliasVars =>
        [worker # Idle /\ worker.update.from \notin Trusted(worker.by.vis)
           => traces' \subseteq {"answer"}]_dispatchVars
  <2> SUFFICES ASSUME Dispatched, [AliasNext]_aliasVars, worker # Idle,
                      worker.update.from \notin Trusted(worker.by.vis)
               PROVE  traces' \subseteq {"answer"}
    OBVIOUS
  <2>1. worker.at = "match" /\ traces = {} /\ worker.update \in Updates
    BY DEF Dispatched
  <2>2. ~Admit
    BY <2>1, PermittedIsTrusted DEF Admit
  <2>3. CASE Deny
    BY <2>1, <2>3 DEF Deny
  <2>4. CASE Bides
    BY <2>1, <2>4 DEF Bides
  <2> QED BY <2>1, <2>2, <2>3, <2>4, WorkerMoves DEF Take, Redeploy
<1> QED BY <1>1, DispatchedInit, DispatchedStep, PTL DEF AliasSpec, SilentDenial

\* The part of the aliases is what AliasSpec says, the other parts leave it alone.
LEMMA AliasPart == CommandsSpec => AliasSpec
<1>1. CommandsInit => AliasInit
  BY DEF CommandsInit, AliasRest
<1>2. [CommandsNext]_commandVars => [AliasNext]_aliasVars
  BY DEF CommandsNext, commandVars
<1> QED BY <1>1, <1>2, PTL DEF CommandsSpec, AliasSpec

\* Every update has one receiver, for any catalog of modules that Build accepts.
THEOREM UpdatesHaveOneReceiverCorrect == CommandsSpec => []UpdatesHaveOneReceiver
<1>1. Dispatched => UpdatesHaveOneReceiver
  BY BuiltHasOneReceiver DEF Dispatched, UpdatesHaveOneReceiver, OneReceiver
<1> QED BY <1>1, AliasPart, DispatchedInit, DispatchedStep, PTL DEF AliasSpec


-----------------------------------------------------------------------------
(* Aliases *)

\* The fields of a message in the order in which capture looks at them.
LEMMA OrderIs ==
  /\ DOMAIN Order = 1..9
  /\ Order[1] = "sticker" /\ Order[2] = "animation" /\ Order[3] = "video_note"
  /\ Order[4] = "video" /\ Order[5] = "voice" /\ Order[6] = "audio"
  /\ Order[7] = "photo" /\ Order[8] = "document" /\ Order[9] = "text"
BY DEF Order

LEMMA OrderIsInjective == \A i, j \in 1..9 : Order[i] = Order[j] => i = j
<1>1. \A i \in 1..9 : i = 1 \/ i = 2 \/ i = 3 \/ i = 4 \/ i = 5 \/ i = 6 \/ i = 7 \/ i = 8 \/ i = 9
  OBVIOUS
<1> QED BY <1>1, OrderIs

\* A message is captured as what it was: of the two fields of a GIF the first is its own.
LEMMA CaptureIsKind ==
  ASSUME NEW c \in Contents
  PROVE  Captures(c) /\ Capture(c) = [kind |-> c.kind, content |-> c] /\ c.kind \in Range(Order)
<1>1. /\ c.kind \in Range(Order)
      /\ c.fields = {c.kind} \cup (IF c.kind = "animation" THEN {"document"} ELSE {})
  BY AliasesAssumption
<1>2. PICK i \in 1..9 : Order[i] = c.kind
  BY <1>1, OrderIs DEF Range
<1> DEFINE First(j) == Order[j] \in c.fields /\ \A l \in 1..(j - 1) : Order[l] \notin c.fields
<1>3. First(i)
  <2>1. Order[i] \in c.fields
    BY <1>1, <1>2
  <2>2. ASSUME NEW l \in 1..(i - 1) PROVE Order[l] \notin c.fields
    <3>1. l \in 1..9 /\ l # i
      BY <2>2
    <3>2. Order[l] # c.kind
      BY <1>2, <3>1, OrderIsInjective
    <3>3. CASE c.kind = "animation"
      <4>1. i = 2
        BY <1>2, <3>3, OrderIs, OrderIsInjective
      <4>2. Order[l] = "sticker"
        BY <2>2, <4>1, OrderIs
      <4> QED BY <1>1, <3>2, <4>2
    <3>4. CASE c.kind # "animation"
      BY <1>1, <3>2, <3>4
    <3> QED BY <3>3, <3>4
  <2> QED BY <2>1, <2>2
<1>4. \A j \in 1..9 : First(j) => j = i
  <2>1. ASSUME NEW j \in 1..9, First(j) PROVE ~(i < j) /\ ~(j < i)
    <3>1. i < j => i \in 1..(j - 1)
      OBVIOUS
    <3>2. j < i => j \in 1..(i - 1)
      OBVIOUS
    <3> QED BY <1>3, <2>1, <3>1, <3>2
  <2> QED BY <2>1
<1>5. (CHOOSE j \in 1..9 : First(j)) = i
  BY <1>3, <1>4
<1>6. Capture(c) = [kind |-> Order[CHOOSE j \in 1..9 : First(j)], content |-> c]
  BY OrderIs DEF Capture
<1>7. Captures(c)
  BY <1>1 DEF Captures
<1> QED BY <1>1, <1>2, <1>5, <1>6, <1>7

Folded(n) == [name |-> n, caps |-> FALSE]
AsSaved(n) == IF told[n] = Free THEN Nothing ELSE [kind |-> told[n].kind, content |-> told[n]]

\* What is saved under a settled name is what the bot said, under the folded name only; a
\* request that is handled has not been answered.
SavedTypes == /\ saved \in [Keys -> Entry \cup {Nothing}]
              /\ told \in [NameSet -> Contents \cup {Free, Unsure}]
SavedAsTold == \A n \in NameSet : told[n] # Unsure => saved[Folded(n)] = AsSaved(n)
SavedFolded == \A k \in Keys : saved[k] # Nothing => k = Folded(k.name)
AsksOnce == worker # Idle => sent = NotAsked
AliasInv == /\ Dispatched /\ SavedTypes /\ SavedAsTold /\ SavedFolded /\ AsksOnce
            /\ AliasIsLastSaved

\* A name that was typed can be saved, under its folded form.
LEMMA KeyOfName ==
  /\ \A t \in Keys : t.name \in NameSet /\ Key(t) = Folded(t.name)
  /\ \A n \in NameSet : Folded(n) \in Keys /\ Folded(n).name = n
  /\ \A t \in Typed : Parses(t) => t \in Keys
<1>1. \A t \in Keys : t.name \in NameSet /\ Key(t) = Folded(t.name)
  BY DEF NameSet, Key, Folded
<1>2. ASSUME NEW n \in NameSet PROVE Folded(n) \in Keys /\ Folded(n).name = n
  <2>1. PICK t \in Keys : t.name = n
    BY DEF NameSet
  <2>2. PICK s \in Typed : t = s \/ t = Key(s)
    BY <2>1 DEF Keys
  <2>3. Parses(t)
    BY DEF Keys
  <2>5. Key(s) = Folded(n)
    <3>1. CASE t = s
      BY <2>1, <3>1 DEF Key, Folded
    <3>2. CASE t = Key(s)
      <4>1. t.name = s.name
        BY <3>2 DEF Key
      <4> QED BY <2>1, <4>1 DEF Key, Folded
    <3> QED BY <2>2, <3>1, <3>2
  <2>4. Folded(n).name = n
    BY DEF Folded
  <2> QED BY <2>1, <2>2, <2>3, <2>4, <2>5 DEF Keys, Parses
<1> QED BY <1>1, <1>2 DEF Keys

\* No message is the mark of a free or an unsure name.
LEMMA MarksAreApart ==
  /\ \A c \in Contents : c # Free /\ c # Unsure /\ [kind |-> c.kind, content |-> c] \in Entry
  /\ Nothing \notin Entry /\ Free # Unsure
<1>1. \A x \in Range(Order) : x # "nothing" /\ x # "unsure"
  <2>1. \A i \in 1..9 : i = 1 \/ i = 2 \/ i = 3 \/ i = 4 \/ i = 5 \/ i = 6 \/ i = 7 \/ i = 8 \/ i = 9
    OBVIOUS
  <2> QED BY <2>1, OrderIs DEF Range
<1>2. Free.kind = "nothing" /\ Unsure.kind = "unsure" /\ Nothing.kind = "nothing"
  BY DEF Free, Nothing, Unsure
<1>3. \A c \in Contents : c.kind \in Range(Order)
  BY CaptureIsKind
<1>4. \A c \in Contents : [kind |-> c.kind, content |-> c] \in Entry
  BY <1>3 DEF Entry
<1>5. Nothing \notin Entry
  BY <1>1, <1>2 DEF Entry
<1> QED BY <1>1, <1>2, <1>3, <1>4, <1>5

\* The arguments of an alias command are typed.
LEMMA CommandIsMessage ==
  ASSUME Dispatched, NEW command, Handling(command)
  PROVE  /\ worker # Idle /\ worker.at = "run" /\ aliasUpdate \in Updates
         /\ aliasUpdate.kind = "message" /\ aliasUpdate.arg \in Typed
<1>1. worker.at = "run" /\ worker.by.kind = "command"
  BY DEF Handling, Running
<1>2. worker # Idle
  BY <1>1 DEF Idle
<1>3. worker.update \in Updates /\ worker.by \in Receivers(worker.update)
  BY <1>2 DEF Dispatched
<1>4. worker.update.kind = "message"
  BY <1>1, <1>3 DEF Receivers, CommandsFor, TapsFor, RestFor
<1> QED BY <1>1, <1>2, <1>3, <1>4 DEF aliasUpdate, Typed

\* A step that answers nothing and writes nothing.
LEMMA LeavesSaved ==
  ASSUME AliasInv, Dispatched', UNCHANGED <<saved, told>>,
         sent' = NotAsked \/ (sent' = sent /\ (worker' = worker \/ worker' = Idle))
  PROVE  AliasInv'
<1>1. SavedTypes' /\ SavedAsTold' /\ SavedFolded'
  BY DEF AliasInv, SavedTypes, SavedAsTold, SavedFolded, AsSaved
<1>2. AsksOnce'
  BY DEF AliasInv, AsksOnce
<1>3. AliasIsLastSaved'
  <2>1. CASE sent' = NotAsked
    BY <2>1 DEF AliasIsLastSaved, NotAsked
  <2>2. CASE sent' = sent
    BY <2>2 DEF AliasInv, AliasIsLastSaved, Sends, Settled
  <2> QED BY <2>1, <2>2
<1> QED BY <1>1, <1>2, <1>3 DEF AliasInv

\* A name is saved, deleted, or neither, and the bot says so, or the name is unsure.
LEMMA WritesName ==
  ASSUME AliasInv, Dispatched', worker # Idle, worker' = Idle, UNCHANGED sent,
         NEW n \in NameSet, NEW e \in Entry \cup {Nothing}, NEW said,
         \/ said \in Contents /\ e = [kind |-> said.kind, content |-> said]
         \/ said = Free /\ e = Nothing,
         \/ UNCHANGED <<saved, told>>
         \/ saved' = [saved EXCEPT ![Folded(n)] = e] /\ told' = [told EXCEPT ![n] = said]
         \/ /\ saved' \in {saved, [saved EXCEPT ![Folded(n)] = e]}
            /\ told' = [told EXCEPT ![n] = Unsure]
  PROVE  AliasInv'
<1>s. sent = NotAsked /\ sent' = NotAsked
  BY DEF AliasInv, AsksOnce
<1>1. CASE UNCHANGED <<saved, told>>
  BY <1>1, <1>s, LeavesSaved
<1>2. CASE /\ saved' \in {saved, [saved EXCEPT ![Folded(n)] = e]}
           /\ \/ told' = [told EXCEPT ![n] = Unsure]
              \/ /\ saved' = [saved EXCEPT ![Folded(n)] = e]
                 /\ told' = [told EXCEPT ![n] = said]
  <2>1. Folded(n) \in Keys /\ Folded(n).name = n
    BY KeyOfName
  <2>2. SavedTypes /\ SavedAsTold /\ SavedFolded
    BY DEF AliasInv
  <2>3. \A k \in Keys : saved'[k] = saved[k] \/ (k = Folded(n) /\ saved'[k] = e)
    BY <1>2, <2>1, <2>2 DEF SavedTypes
  <2>4. SavedTypes'
    BY <1>2, <2>2 DEF SavedTypes
  <2>5. SavedFolded'
    BY <2>1, <2>2, <2>3 DEF SavedFolded
  <2>6. ASSUME NEW m \in NameSet, told'[m] # Unsure PROVE saved'[Folded(m)] = AsSaved(m)'
    <3>1. CASE m = n
      <4>1. told'[m] = said /\ saved'[Folded(m)] = e
        BY <1>2, <2>1, <2>2, <2>6, <3>1 DEF SavedTypes
      <4> QED BY <4>1, MarksAreApart DEF AsSaved
    <3>2. CASE m # n
      <4>1. told'[m] = told[m]
        BY <1>2, <2>2, <3>2 DEF SavedTypes
      <4>2. Folded(m) \in Keys /\ Folded(m) # Folded(n)
        BY <2>1, <3>2, KeyOfName
      <4>3. saved'[Folded(m)] = saved[Folded(m)]
        BY <2>3, <4>2
      <4> QED BY <2>2, <2>6, <4>1, <4>3 DEF SavedAsTold, AsSaved
    <3> QED BY <3>1, <3>2
  <2>7. SavedAsTold'
    BY <2>6 DEF SavedAsTold
  <2>8. AliasIsLastSaved' /\ AsksOnce'
    BY <1>s DEF AliasIsLastSaved, NotAsked, AsksOnce
  <2> QED BY <2>4, <2>5, <2>7, <2>8 DEF AliasInv
<1> QED BY <1>1, <1>2

\* What a name sends is what is saved under it.
LEMMA SendsSaved ==
  ASSUME AliasInv, NEW n \in Settled
  PROVE  Sends(n) = {saved[Folded(n)]} \ {Nothing}
<1>1. n \in NameSet /\ told[n] # Unsure /\ saved[Folded(n)] = AsSaved(n)
  BY DEF AliasInv, SavedAsTold, Settled
<1>2. told[n] = Free \/ told[n] \in Contents
  BY <1>1 DEF AliasInv, SavedTypes
<1>3. CASE told[n] = Free
  BY <1>1, <1>3 DEF Sends, AsSaved
<1>4. CASE told[n] # Free
  <2>1. saved[Folded(n)] = [kind |-> told[n].kind, content |-> told[n]]
    BY <1>1, <1>4 DEF AsSaved
  <2>2. saved[Folded(n)] # Nothing
    BY <1>2, <1>4, <2>1, MarksAreApart
  <2>3. Sends(n) = {[kind |-> told[n].kind, content |-> told[n]]}
    BY <1>4 DEF Sends
  <2> QED BY <2>1, <2>2, <2>3
<1> QED BY <1>3, <1>4

\* A request for a name is answered with what is saved under it.
LEMMA AnswersName ==
  ASSUME AliasInv, Dispatched', worker' = Idle, UNCHANGED <<saved, told>>,
         NEW t \in Keys, SendSaved(t)
  PROVE  AliasInv'
<1>1. SavedTypes' /\ SavedAsTold' /\ SavedFolded' /\ AsksOnce'
  BY DEF AliasInv, SavedTypes, SavedAsTold, SavedFolded, AsSaved, AsksOnce
<1>2. \A n \in NameSet : Sends(n)' = Sends(n) /\ Settled' = Settled
  BY DEF Sends, Settled
<1>3. CASE sent' = [how |-> "failed", name |-> t.name, got |-> {}]
  BY <1>1, <1>3 DEF AliasInv, AliasIsLastSaved
<1>4. CASE sent' = [how |-> "insert", name |-> t.name, got |-> {saved[Key(t)]} \ {Nothing}]
  <2>1. t.name \in NameSet /\ Key(t) = Folded(t.name)
    BY KeyOfName
  <2>2. t.name \in Settled => sent'.got = Sends(t.name)
    BY <1>4, <2>1, SendsSaved
  <2>3. sent'.how = "insert" /\ sent'.name = t.name
    BY <1>4
  <2>4. AliasIsLastSaved'
    BY <1>2, <2>1, <2>2, <2>3 DEF AliasIsLastSaved
  <2> QED BY <1>1, <2>4 DEF AliasInv
<1> QED BY <1>3, <1>4 DEF SendSaved

\* The picker shows every saved name that matches, when Telegram's limit lets it.
LEMMA PickerShows ==
  ASSUME AliasInv, NEW q, NEW shown \in SUBSET Matching(q),
         Cardinality(shown) = IF Cardinality(Matching(q)) < MaxResults
                              THEN Cardinality(Matching(q)) ELSE MaxResults,
         Cardinality(NameSet) <= MaxResults
  PROVE  shown = Matching(q)
<1> DEFINE m == Matching(q)
           f == [k \in m |-> k.name]
<1>1. \A k \in m : k \in Keys /\ k = Folded(k.name) /\ k.name \in NameSet
  BY KeyOfName DEF Matching, AliasInv, SavedFolded
<1>2. f \in Injection(m, NameSet)
  <2>1. f \in [m -> NameSet]
    BY <1>1
  <2>2. ASSUME NEW a \in m, NEW b \in m, f[a] = f[b] PROVE a = b
    <3>1. a.name = b.name
      BY <2>2
    <3> QED BY <1>1, <3>1
  <2>3. IsInjective(f)
    BY <2>2 DEF IsInjective
  <2> QED BY <2>1, <2>3 DEF Injection
<1> HIDE DEF f, m
<1>3. IsFiniteSet(m) /\ Cardinality(m) <= Cardinality(NameSet)
  BY <1>2, NamesAssumption, FS_Injection
<1>4. Cardinality(m) \in Nat /\ Cardinality(NameSet) \in Nat /\ MaxResults \in Nat
  BY <1>3, NamesAssumption, AliasesAssumption, FS_CardinalityType
<1>5. Cardinality(shown) = Cardinality(m)
  BY <1>3, <1>4 DEF m
<1> QED BY <1>3, <1>5, FS_Subset DEF m

\* Every step keeps what the aliases promise.
LEMMA AliasStep == AliasInv /\ [AliasNext]_aliasVars => AliasInv'
<1> SUFFICES ASSUME AliasInv, [AliasNext]_aliasVars PROVE AliasInv'
  OBVIOUS
<1>d. Dispatched /\ Dispatched'
  BY DispatchedStep DEF AliasInv
<1>i. Idle.at = "idle"
  BY DEF Idle
<1>1. CASE UNCHANGED aliasVars
  BY <1>d, <1>1, LeavesSaved DEF aliasVars, dispatchVars
<1>2. ASSUME NEW u \in Updates, Take(u), sent' = NotAsked, UNCHANGED <<saved, told>>
      PROVE  AliasInv'
  BY <1>d, <1>2, LeavesSaved
<1>3. CASE /\ Deny \/ Admit \/ Panics \/ HooksEnd \/ (~OfAlias /\ Return)
           /\ UNCHANGED <<saved, told, sent>>
  <2>1. worker' = worker \/ worker' = Idle \/ worker # Idle
    BY <1>3, <1>i DEF Admit, Deny, Panics, HooksEnd, Return
  <2>2. CASE worker' = worker \/ worker' = Idle
    BY <1>d, <1>3, <2>2, LeavesSaved
  <2>3. CASE worker # Idle
    <3>1. sent' = NotAsked
      BY <1>3, <2>3 DEF AliasInv, AsksOnce
    <3> QED BY <1>d, <1>3, <3>1, LeavesSaved
  <2> QED BY <2>1, <2>2, <2>3
<1>4. CASE RefuseAlias
  BY <1>d, <1>4, LeavesSaved DEF RefuseAlias, Replies
<1>5. CASE SaveAlias
  <2> DEFINE u == aliasUpdate
             n == u.arg.name
             e == Capture(u.reply)
  <2>1. /\ Handling("alias") /\ ~Refused(u) /\ worker' = Idle /\ UNCHANGED sent
        /\ \/ UNCHANGED <<saved, told>>
           \/ saved' = [saved EXCEPT ![Key(u.arg)] = e] /\ told' = [told EXCEPT ![n] = u.reply]
           \/ /\ saved' \in {saved, [saved EXCEPT ![Key(u.arg)] = e]}
              /\ told' = [told EXCEPT ![n] = Unsure]
    BY <1>5 DEF SaveAlias, Replies
  <2>2. worker # Idle /\ u \in Updates /\ u.kind = "message" /\ u.arg \in Typed
    BY <1>d, <2>1, CommandIsMessage
  <2>3. Parses(u.arg) /\ Captures(u.reply)
    BY <2>1 DEF Refused
  <2>4. u.arg \in Keys /\ n \in NameSet /\ Key(u.arg) = Folded(n)
    BY <2>2, <2>3, KeyOfName
  <2>5. u.reply \in Contents
    BY <2>2, <2>3, AliasesAssumption
  <2>6. e = [kind |-> u.reply.kind, content |-> u.reply] /\ e \in Entry
    BY <2>5, CaptureIsKind, MarksAreApart
  <2> HIDE DEF e, n, u
  <2> QED BY <1>d, <2>1, <2>2, <2>4, <2>5, <2>6, WritesName
<1>6. CASE Unalias
  <2> DEFINE t == aliasUpdate.arg
             n == t.name
  <2>1. /\ Handling("unalias") /\ worker' = Idle /\ UNCHANGED sent
        /\ \/ UNCHANGED <<saved, told>>
           \/ /\ Parses(t)
              /\ \/ saved' = [saved EXCEPT ![Key(t)] = Nothing] /\ told' = [told EXCEPT ![n] = Free]
                 \/ /\ saved' \in {saved, [saved EXCEPT ![Key(t)] = Nothing]}
                    /\ told' = [told EXCEPT ![n] = Unsure]
    BY <1>6 DEF Unalias, Replies
  <2>2. worker # Idle /\ t \in Typed
    BY <1>d, <2>1, CommandIsMessage
  <2>3. CASE UNCHANGED <<saved, told>>
    BY <1>d, <2>1, <2>3, LeavesSaved
  <2>4. CASE Parses(t)
    <3>1. n \in NameSet /\ Key(t) = Folded(n)
      BY <2>2, <2>4, KeyOfName
    <3> HIDE DEF t, n
    <3> QED BY <1>d, <2>1, <2>2, <3>1, WritesName
  <2> QED BY <2>1, <2>3, <2>4
<1>7. CASE Insert
  <2>1. /\ Handling("insert") /\ worker' = Idle /\ UNCHANGED <<saved, told>>
        /\ IF Parses(aliasUpdate.arg) THEN SendSaved(aliasUpdate.arg) ELSE UNCHANGED sent
    BY <1>7 DEF Insert, Replies
  <2>2. aliasUpdate.arg \in Typed
    BY <1>d, <2>1, CommandIsMessage
  <2>3. CASE Parses(aliasUpdate.arg)
    BY <1>d, <2>1, <2>2, <2>3, AnswersName, KeyOfName
  <2>4. CASE ~Parses(aliasUpdate.arg)
    BY <1>d, <2>1, <2>4, LeavesSaved
  <2> QED BY <2>3, <2>4
<1>8. CASE Fallback
  <2> DEFINE t == [name |-> worker.by.name, caps |-> FALSE]
  <2>1. /\ worker' = Idle /\ UNCHANGED <<saved, told>>
        /\ IF t \in Keys THEN SendSaved(t) ELSE UNCHANGED sent
    BY <1>8 DEF Fallback
  <2> HIDE DEF t
  <2> QED BY <1>d, <2>1, AnswersName, LeavesSaved
<1>9. CASE Inline
  <2> DEFINE q == aliasUpdate.query
  <2>1. worker' = Idle /\ UNCHANGED <<saved, told>>
    BY <1>9 DEF Inline
  <2>2. SavedTypes' /\ SavedAsTold' /\ SavedFolded' /\ AsksOnce'
    BY <2>1 DEF AliasInv, SavedTypes, SavedAsTold, SavedFolded, AsSaved, AsksOnce
  <2>3. CASE sent' = [how |-> "failed", name |-> q, got |-> {}]
    BY <1>d, <2>2, <2>3 DEF AliasInv, AliasIsLastSaved
  <2>4. ASSUME NEW shown \in SUBSET Matching(q),
               Cardinality(shown) = IF Cardinality(Matching(q)) < MaxResults
                                    THEN Cardinality(Matching(q)) ELSE MaxResults,
               sent' = [how |-> "inline", name |-> q, got |-> {saved[k] : k \in shown}]
        PROVE  AliasInv'
    <3>1. sent'.how = "inline" /\ sent'.name = q /\ sent'.got = {saved[k] : k \in shown}
      BY <2>4
    <3>2. ASSUME Cardinality(NameSet) <= MaxResults, NEW n \in Settled, q \in {Unnamed, n}
          PROVE  {e \in Sends(n) : e.kind # "video_note"} \subseteq sent'.got
      <4>1. shown = Matching(q)
        BY <2>4, <3>2, PickerShows
      <4>2. Folded(n) \in Keys /\ Folded(n).name = n
        BY KeyOfName DEF Settled
      <4>3. Sends(n) = {saved[Folded(n)]} \ {Nothing}
        BY SendsSaved
      <4>4. saved[Folded(n)] # Nothing /\ saved[Folded(n)].kind # "video_note"
              => Folded(n) \in Matching(q)
        BY <3>2, <4>2 DEF Matching
      <4> QED BY <3>1, <4>1, <4>3, <4>4
    <3>3. ASSUME Settled = NameSet
          PROVE  sent'.got \subseteq UNION {Sends(n) : n \in NameSet}
      <4>1. ASSUME NEW k \in shown PROVE saved[k] \in Sends(k.name) /\ k.name \in NameSet
        <5>1. k \in Keys /\ saved[k] # Nothing
          BY DEF Matching
        <5>2. k = Folded(k.name) /\ k.name \in NameSet
          BY <5>1, KeyOfName DEF AliasInv, SavedFolded
        <5>3. Sends(k.name) = {saved[Folded(k.name)]} \ {Nothing}
          BY <3>3, <5>2, SendsSaved
        <5> QED BY <5>1, <5>2, <5>3
      <4> QED BY <3>1, <4>1
    <3>4. Settled' = Settled /\ \A n \in NameSet : Sends(n)' = Sends(n)
      BY <2>1 DEF Settled, Sends
    <3>5. Settled \subseteq NameSet
      BY DEF Settled
    <3> HIDE DEF q
    <3>6. AliasIsLastSaved'
      BY <3>1, <3>2, <3>3, <3>4, <3>5 DEF AliasIsLastSaved
    <3> QED BY <1>d, <2>2, <3>6 DEF AliasInv
  <2> QED BY <1>9, <2>3, <2>4 DEF Inline
<1>10. CASE Redeploy
  BY <1>d, <1>10, LeavesSaved DEF Redeploy
<1> QED
  BY <1>1, <1>2, <1>3, <1>4, <1>5, <1>6, <1>7, <1>8, <1>9, <1>10 DEF AliasNext

\* A name sends what was last saved under it, for any names and messages, any catalog of
\* modules and any sequence of deploys.
THEOREM AliasIsLastSavedCorrect == AliasSpec => []AliasIsLastSaved
<1>1. AliasInit => AliasInv
  <2> SUFFICES ASSUME AliasInit PROVE AliasInv
    OBVIOUS
  <2>1. /\ saved = [k \in Keys |-> Nothing] /\ told = [n \in NameSet |-> Free]
        /\ worker = Idle /\ sent = NotAsked
    BY DEF AliasInit
  <2>2. SavedTypes /\ SavedFolded /\ AsksOnce
    BY <2>1 DEF SavedTypes, SavedFolded, AsksOnce
  <2>3. SavedAsTold
    BY <2>1, KeyOfName DEF SavedAsTold, AsSaved
  <2>4. AliasIsLastSaved
    BY <2>1 DEF AliasIsLastSaved, NotAsked
  <2> QED BY <2>2, <2>3, <2>4, DispatchedInit DEF AliasInv
<1>2. AliasInv => AliasIsLastSaved
  BY DEF AliasInv
<1> QED BY <1>1, <1>2, AliasStep, PTL DEF AliasSpec

-----------------------------------------------------------------------------
(* blacklist: what the escaping does *)

\* Induction over the naturals, for a set: the library's theorem is about an
\* operator.
LEMMA NatSetInduction ==
  ASSUME NEW G \in SUBSET Nat, 0 \in G, \A n \in G : n + 1 \in G
  PROVE  \A n \in Nat : n \in G
<1> SUFFICES ASSUME NEW m \in Nat, m \notin G PROVE FALSE
  OBVIOUS
<1>1. PICK n \in Nat \ G : \A k \in Nat \ G : <<k, n>> \notin OpToRel(<, Nat)
  BY WFMin, NatLessThanWellFounded
<1>2. n - 1 \in Nat
  OBVIOUS
<1>3. n - 1 \in G
  <2> SUFFICES <<n - 1, n>> \in OpToRel(<, Nat)
    BY <1>1, <1>2
  <2>1. <<n - 1, n>> \in Nat \X Nat /\ <<n - 1, n>>[1] = n - 1 /\ <<n - 1, n>>[2] = n
    BY <1>2
  <2> QED BY <2>1 DEF OpToRel
<1> QED BY <1>3

\* The position of i among the kept ones.
Place(kept, i) == Cardinality({j \in kept : j <= i})

LEMMA KeptIsFinite ==
  ASSUME NEW n \in Nat, NEW kept \in SUBSET (1..n)
  PROVE  /\ IsFiniteSet(kept) /\ Cardinality(kept) \in Nat
         /\ \A i \in kept : i \in Nat /\ i <= n
<1>1. IsFiniteSet(1..n)
  BY FS_Interval
<1>2. IsFiniteSet(kept)
  BY <1>1, FS_Subset
<1> QED BY <1>2, FS_CardinalityType

LEMMA PlaceIsUnique ==
  ASSUME NEW n \in Nat, NEW kept \in SUBSET (1..n), NEW i \in kept, NEW k \in kept
  PROVE  /\ Cardinality(kept) \in Nat
         /\ Place(kept, i) \in 1..Cardinality(kept)
         /\ Place(kept, i) = Place(kept, k) => i = k
<1> DEFINE Below(x) == {j \in kept : j <= x}
<1>1. /\ IsFiniteSet(kept) /\ Cardinality(kept) \in Nat
      /\ \A j \in kept : j \in Nat
  BY KeptIsFinite
<1>2. ASSUME NEW x \in kept
      PROVE  /\ IsFiniteSet(Below(x)) /\ Cardinality(Below(x)) \in 1..Cardinality(kept)
  <2>1. Below(x) \in SUBSET kept /\ x \in Below(x)
    OBVIOUS
  <2>2. IsFiniteSet(Below(x)) /\ Cardinality(Below(x)) <= Cardinality(kept)
    BY <1>1, <2>1, FS_Subset
  <2>3. Cardinality(Below(x)) \in Nat /\ Cardinality(Below(x)) # 0
    BY <2>1, <2>2, FS_CardinalityType, FS_EmptySet
  <2> QED BY <1>1, <2>2, <2>3
<1>3. ASSUME NEW x \in kept, NEW y \in kept, x < y
      PROVE  Cardinality(Below(x)) # Cardinality(Below(y))
  <2>0. x \in Nat /\ y \in Nat
    BY <1>1
  <2>1. Below(x) \in SUBSET Below(y)
    <3> SUFFICES ASSUME NEW j \in kept, j <= x PROVE j <= y
      OBVIOUS
    <3> QED BY <1>1, <1>3, <2>0
  <2>9. y <= y /\ ~(y <= x)
    BY <1>3, <2>0
  <2>2. y \in Below(y) /\ y \notin Below(x)
    BY <2>9
  <2> QED BY <1>2, <2>1, <2>2, FS_Subset
<1>4. i \in Nat /\ k \in Nat
  OBVIOUS
<1>5. Place(kept, i) = Cardinality(Below(i)) /\ Place(kept, k) = Cardinality(Below(k))
  BY DEF Place
<1> QED BY <1>1, <1>2, <1>3, <1>4, <1>5

LEMMA EveryPlaceIsTaken ==
  ASSUME NEW n \in Nat, NEW kept \in SUBSET (1..n), NEW p \in 1..Cardinality(kept)
  PROVE  \E i \in kept : Place(kept, i) = p
<1>1. /\ IsFiniteSet(kept) /\ Cardinality(kept) \in Nat
      /\ \A j \in kept : j \in Nat
  BY KeptIsFinite
<1> DEFINE f == [i \in kept |-> Place(kept, i)]
<1>2. f \in Injection(kept, 1..Cardinality(kept))
  <2>1. f \in [kept -> 1..Cardinality(kept)]
    BY PlaceIsUnique
  <2>2. \A a, b \in kept : f[a] = f[b] => a = b
    BY PlaceIsUnique
  <2> QED BY <2>1, <2>2 DEF Injection, IsInjective
<1>3. IsFiniteSet(1..Cardinality(kept)) /\ Cardinality(1..Cardinality(kept)) = Cardinality(kept)
  BY <1>1, FS_Interval
<1>4. f \in Surjection(kept, 1..Cardinality(kept))
  BY <1>2, <1>3, FS_Injection
<1> QED BY <1>4 DEF Surjection

\* The n-th kept character is at the n-th place.
LEMMA CharacterAtPlace ==
  ASSUME NEW n \in Nat, NEW kept \in SUBSET (1..n), NEW s, NEW i \in kept
  PROVE  At(s, kept)[Place(kept, i)] = s[i]
<1>1. Place(kept, i) \in 1..Cardinality(kept)
  BY PlaceIsUnique
<1> DEFINE c == CHOOSE k \in kept : Place(kept, k) = Place(kept, i)
<1>2. c \in kept /\ Place(kept, c) = Place(kept, i)
  OBVIOUS
<1>3. c = i
  BY <1>2, PlaceIsUnique
<1>4. At(s, kept)[Place(kept, i)] = s[c]
  BY <1>1 DEF At, Place
<1> QED BY <1>3, <1>4

LEMMA KeptIsText ==
  ASSUME NEW S, NEW n \in Nat, NEW kept \in SUBSET (1..n), NEW s, \A i \in kept : s[i] \in S
  PROVE  At(s, kept) \in Seq(S) /\ Len(At(s, kept)) = Cardinality(kept)
<1>1. Cardinality(kept) \in Nat
  BY KeptIsFinite
<1>2. DOMAIN At(s, kept) = 1..Cardinality(kept)
  BY DEF At
<1>3. ASSUME NEW p \in 1..Cardinality(kept) PROVE At(s, kept)[p] \in S
  <2>1. PICK i \in kept : Place(kept, i) = p
    BY EveryPlaceIsTaken
  <2> QED BY <2>1, CharacterAtPlace
<1>4. At(s, kept) = [p \in 1..Cardinality(kept) |-> At(s, kept)[p]]
  BY DEF At
<1> QED BY <1>1, <1>2, <1>3, <1>4

\* One more kept character.
IsLonger(t, s, x) == t = Append(s, x)

KeepsMore(S, n, kept, s, more, w, x) ==
  /\ kept \in SUBSET (1..n) /\ more = kept \cup {n + 1}
  /\ \A i \in kept : s[i] \in S /\ w[i] = s[i]
  /\ w[n + 1] = x /\ x \in S

LEMMA KeepOneMore ==
  ASSUME NEW S, NEW n \in Nat, NEW kept, NEW s, NEW more, NEW w, NEW x,
         KeepsMore(S, n, kept, s, more, w, x)
  PROVE  IsLonger(At(w, more), At(s, kept), x)
<1> DEFINE m == n + 1
<1>0. /\ kept \in SUBSET (1..n) /\ more = kept \cup {m} /\ m = n + 1
      /\ \A i \in kept : s[i] \in S /\ w[i] = s[i]
      /\ w[m] = x /\ x \in S
  BY DEF KeepsMore
<1> HIDE DEF m
<1> USE <1>0
<1>1. more \in SUBSET (1..m) /\ m \notin kept /\ m \in Nat /\ m \in more
  OBVIOUS
<1>2. /\ Cardinality(kept) \in Nat /\ Cardinality(more) = Cardinality(kept) + 1
      /\ \A j \in kept : j \in Nat /\ j <= n
  BY <1>1, KeptIsFinite, FS_AddElement
<1>3. At(w, more) \in Seq(S) /\ Len(At(w, more)) = Cardinality(kept) + 1
  BY <1>1, <1>2, KeptIsText
<1>4. At(s, kept) \in Seq(S) /\ Len(At(s, kept)) = Cardinality(kept)
  BY KeptIsText
<1>5. ASSUME NEW p \in 1..Cardinality(kept) PROVE At(w, more)[p] = At(s, kept)[p]
  <2>1. PICK i \in kept : Place(kept, i) = p
    BY EveryPlaceIsTaken
  <2>2. Place(more, i) = Place(kept, i)
    <3>1. {j \in more : j <= i} = {j \in kept : j <= i}
      BY <1>1, <1>2
    <3> QED BY <3>1 DEF Place
  <2>3. At(w, more)[Place(more, i)] = w[i]
    <3>1. m \in Nat /\ more \in SUBSET (1..m) /\ i \in more
      BY <1>1
    <3> HIDE <1>0
    <3> QED BY <3>1, CharacterAtPlace
  <2>4. At(s, kept)[Place(kept, i)] = s[i]
    BY CharacterAtPlace
  <2> QED BY <2>1, <2>2, <2>3, <2>4
<1>6. At(w, more)[Cardinality(kept) + 1] = x
  <2>1. \A j \in more : j <= m
    BY <1>2
  <2>0. {j \in more : j <= m} = more
    BY <2>1
  <2>2. Place(more, m) = Cardinality(kept) + 1
    BY <1>2, <2>0 DEF Place
  <2>3. At(w, more)[Place(more, m)] = w[m]
    BY <1>1, CharacterAtPlace
  <2> QED BY <2>2, <2>3
<1>7. /\ Append(At(s, kept), x) \in Seq(S)
      /\ Len(Append(At(s, kept), x)) = Cardinality(kept) + 1
      /\ \A p \in 1..Cardinality(kept) : Append(At(s, kept), x)[p] = At(s, kept)[p]
      /\ Append(At(s, kept), x)[Cardinality(kept) + 1] = x
  BY <1>4, AppendProperties
<1>8. ASSUME NEW p \in 1..Cardinality(kept) + 1 PROVE At(w, more)[p] = Append(At(s, kept), x)[p]
  <2>1. CASE p = Cardinality(kept) + 1
    BY <1>6, <1>7, <2>1
  <2>2. CASE p \in 1..Cardinality(kept)
    BY <1>5, <1>7, <2>2
  <2>3. Cardinality(kept) \in Nat
    BY <1>2
  <2>4. p = Cardinality(kept) + 1 \/ p \in 1..Cardinality(kept)
    BY <2>3
  <2> QED BY <2>1, <2>2, <2>4
<1> QED BY <1>3, <1>7, <1>8, SeqEqual DEF IsLonger


\* The function by which FlattenSeq computes.
IsFlat(f, ss) == f = [i \in 1..Len(ss) |-> IF i = 1 THEN ss[i] ELSE f[i - 1] \o ss[i]]

LEMMA OneIsFlat ==
  ASSUME NEW ss, Len(ss) \in Nat, NEW f, NEW g, IsFlat(f, ss), IsFlat(g, ss)
  PROVE  f = g
<1> DEFINE G == {n \in Nat : n \in 1..Len(ss) => f[n] = g[n]}
<1>1. \A i \in 1..Len(ss) : /\ f[i] = IF i = 1 THEN ss[i] ELSE f[i - 1] \o ss[i]
                            /\ g[i] = IF i = 1 THEN ss[i] ELSE g[i - 1] \o ss[i]
  BY DEF IsFlat
<1>2. G \in SUBSET Nat /\ 0 \in G
  OBVIOUS
<1>3. ASSUME NEW n \in G PROVE n + 1 \in G
  <2>1. SUFFICES ASSUME n + 1 \in 1..Len(ss) PROVE f[n + 1] = g[n + 1]
    OBVIOUS
  <2>2. CASE n = 0
    BY <1>1, <2>1, <2>2
  <2>3. CASE n # 0
    <3>1. n \in 1..Len(ss) /\ n + 1 - 1 = n /\ n + 1 # 1
      BY <2>1, <2>3
    <3>2. f[n] = g[n]
      BY <3>1
    <3> QED BY <1>1, <2>1, <3>1, <3>2
  <2> QED BY <2>2, <2>3
<1>4. \A n \in Nat : n \in G
  <2> HIDE DEF G
  <2> QED BY <1>2, <1>3, NatSetInduction
<1>5. \A i \in 1..Len(ss) : f[i] = g[i]
  BY <1>4
<1>6. /\ f = [i \in 1..Len(ss) |-> f[i]] /\ g = [i \in 1..Len(ss) |-> g[i]]
  BY DEF IsFlat
<1> QED BY <1>5, <1>6

LEMMA FlatExtends ==
  ASSUME NEW S, NEW ss \in Seq(Seq(S)), NEW b \in Seq(S), NEW f, IsFlat(f, ss),
         \A i \in 1..Len(ss) : f[i] \in Seq(S)
  PROVE  \E g : /\ IsFlat(g, Append(ss, b))
                /\ \A i \in 1..Len(ss) + 1 : g[i] \in Seq(S)
                /\ g[Len(ss) + 1] = IF Len(ss) = 0 THEN b ELSE f[Len(ss)] \o b
<1> DEFINE n == Len(ss)
           last == IF n = 0 THEN b ELSE f[n] \o b
           g == [i \in 1..n + 1 |-> IF i = n + 1 THEN last ELSE f[i]]
           more == Append(ss, b)
<1>1. n \in Nat /\ Len(more) = n + 1 /\ more[n + 1] = b /\ \A i \in 1..n : more[i] = ss[i]
  BY AppendProperties, LenProperties
<1>2. last \in Seq(S)
  BY <1>1, ConcatProperties
<1>3. \A i \in 1..n + 1 : g[i] \in Seq(S)
  BY <1>1, <1>2
<1>4. g[n + 1] = last
  BY <1>1
<1>5. ASSUME NEW i \in 1..n + 1 PROVE g[i] = IF i = 1 THEN more[i] ELSE g[i - 1] \o more[i]
  <2>1. CASE i = n + 1
    <3>1. n # 0 => i - 1 \in 1..n + 1 /\ i - 1 # n + 1 /\ i - 1 = n /\ i # 1
      BY <1>1, <2>1
    <3>2. n # 0 => g[i - 1] = f[n]
      BY <3>1
    <3> QED BY <1>1, <1>4, <2>1, <3>1, <3>2
  <2>2. CASE i \in 1..n
    <3>1. i # n + 1 /\ (i # 1 => i - 1 \in 1..n /\ i - 1 # n + 1)
      BY <1>1, <2>2
    <3>2. f[i] = IF i = 1 THEN ss[i] ELSE f[i - 1] \o ss[i]
      BY <2>2 DEF IsFlat
    <3>3. g[i] = f[i] /\ (i # 1 => g[i - 1] = f[i - 1])
      BY <1>1, <3>1
    <3> QED BY <1>1, <2>2, <3>2, <3>3
  <2> QED BY <1>1, <2>1, <2>2
<1>6. IsFlat(g, more)
  <2>1. g = [i \in 1..n + 1 |-> g[i]]
    OBVIOUS
  <2>2. g = [i \in 1..n + 1 |-> IF i = 1 THEN more[i] ELSE g[i - 1] \o more[i]]
    BY <1>5, <2>1
  <2> QED BY <1>1, <2>2 DEF IsFlat
<1> QED BY <1>3, <1>4, <1>6

LEMMA FlatExists ==
  ASSUME NEW S, NEW ss \in Seq(Seq(S))
  PROVE  \E f : IsFlat(f, ss) /\ \A i \in 1..Len(ss) : f[i] \in Seq(S)
<1> DEFINE Has(t) == \E f : IsFlat(f, t) /\ \A i \in 1..Len(t) : f[i] \in Seq(S)
           G == {n \in Nat : \A t \in Seq(Seq(S)) : Len(t) = n => Has(t)}
<1>1. G \in SUBSET Nat
  OBVIOUS
<1>2. 0 \in G
  <2> SUFFICES ASSUME NEW t \in Seq(Seq(S)), Len(t) = 0 PROVE Has(t)
    OBVIOUS
  <2> DEFINE f == [i \in 1..0 |-> i]
  <2>1. IsFlat(f, t) /\ \A i \in 1..Len(t) : f[i] \in Seq(S)
    BY DEF IsFlat
  <2> QED BY <2>1
<1>3. ASSUME NEW n \in G PROVE n + 1 \in G
  <2> SUFFICES ASSUME NEW t \in Seq(Seq(S)), Len(t) = n + 1 PROVE Has(t)
    OBVIOUS
  <2>1. n \in Nat /\ t # <<>>
    BY EmptySeq
  <2>2. PICK r \in Seq(Seq(S)), b \in Seq(S) : t = Append(r, b)
    BY <2>1, SequenceEmptyOrAppend
  <2>3. Len(r) = n
    BY <2>1, <2>2, AppendProperties, LenProperties
  <2>4. Has(r)
    BY <2>3
  <2>5. PICK f : IsFlat(f, r) /\ \A i \in 1..Len(r) : f[i] \in Seq(S)
    BY <2>4
  <2>6. PICK g : IsFlat(g, t) /\ \A i \in 1..Len(r) + 1 : g[i] \in Seq(S)
    BY <2>2, <2>5, FlatExtends
  <2> QED BY <2>3, <2>6
<1>4. \A n \in Nat : n \in G
  <2> HIDE DEF G
  <2> QED BY <1>1, <1>2, <1>3, NatSetInduction
<1> QED BY <1>4, LenProperties

LEMMA FlattenIsFlat ==
  ASSUME NEW S, NEW ss \in Seq(Seq(S)), Len(ss) # 0, NEW f, IsFlat(f, ss)
  PROVE  FlattenSeq(ss) = f[Len(ss)]
<1> DEFINE g == CHOOSE th : th = [i \in 1..Len(ss) |-> IF i = 1 THEN ss[i] ELSE th[i - 1] \o ss[i]]
<1>1. FlattenSeq(ss) = g[Len(ss)]
  BY Zenon DEF FlattenSeq
<1>2. IsFlat(g, ss)
  BY Zenon DEF IsFlat
<1>3. Len(ss) \in Nat
  BY LenProperties
<1>4. f = g
  BY <1>2, <1>3, OneIsFlat
<1> QED BY <1>1, <1>4

LEMMA FlattenOneMore ==
  ASSUME NEW S, NEW ss \in Seq(Seq(S)), NEW b \in Seq(S)
  PROVE  /\ FlattenSeq(ss) \in Seq(S)
         /\ FlattenSeq(Append(ss, b)) = FlattenSeq(ss) \o b
<1>1. PICK f : IsFlat(f, ss) /\ \A i \in 1..Len(ss) : f[i] \in Seq(S)
  BY FlatExists
<1>2. PICK g : /\ IsFlat(g, Append(ss, b))
               /\ g[Len(ss) + 1] = IF Len(ss) = 0 THEN b ELSE f[Len(ss)] \o b
  BY <1>1, FlatExtends
<1>3. /\ Len(ss) \in Nat /\ Append(ss, b) \in Seq(Seq(S)) /\ Len(Append(ss, b)) = Len(ss) + 1
  BY AppendProperties, LenProperties
<1>4. FlattenSeq(Append(ss, b)) = g[Len(ss) + 1]
  <2> DEFINE more == Append(ss, b)
  <2>1. more \in Seq(Seq(S)) /\ Len(more) # 0 /\ Len(more) = Len(ss) + 1
    BY <1>3
  <2>2. IsFlat(g, more)
    BY <1>2
  <2> HIDE DEF more
  <2>3. FlattenSeq(more) = g[Len(more)]
    BY <2>1, <2>2, FlattenIsFlat
  <2> QED BY <2>1, <2>3 DEF more
<1>5. CASE Len(ss) = 0
  <2>1. ss = <<>>
    BY <1>5, EmptySeq
  <2>2. FlattenSeq(ss) = <<>>
    BY <2>1 DEF FlattenSeq
  <2>3. <<>> \o b = b /\ <<>> \in Seq(S)
    BY EmptySeq, ConcatEmptySeq
  <2> QED BY <1>2, <1>4, <1>5, <2>2, <2>3
<1>6. CASE Len(ss) # 0
  <2>1. FlattenSeq(ss) = f[Len(ss)]
    BY <1>1, <1>6, FlattenIsFlat
  <2>2. Len(ss) \in 1..Len(ss)
    BY <1>3, <1>6
  <2> QED BY <1>1, <1>2, <1>4, <1>6, <2>1, <2>2
<1> QED BY <1>5, <1>6


LEMMA EscapeOneMore ==
  ASSUME NEW S, NEW s \in Seq(S), NEW x \in S, NEW by \in Seq(S), NEW c
  PROVE  /\ Escape(s, c, by) \in Seq(S)
         /\ Escape(Append(s, x), c, by) = Escape(s, c, by) \o (IF x = c THEN by ELSE <<x>>)
<1> DEFINE Block(y) == IF y = c THEN by ELSE <<y>>
           blocks == [i \in DOMAIN s |-> Block(s[i])]
           more == [i \in DOMAIN Append(s, x) |-> Block(Append(s, x)[i])]
<1>1. \A y \in S : Block(y) \in Seq(S)
  OBVIOUS
<1>2. blocks \in Seq(Seq(S)) /\ Len(blocks) = Len(s)
  <2>1. DOMAIN s = 1..Len(s) /\ Len(s) \in Nat /\ \A i \in 1..Len(s) : s[i] \in S
    BY LenProperties
  <2>2. \A i \in 1..Len(s) : Block(s[i]) \in Seq(S)
    BY <1>1, <2>1
  <2> HIDE DEF Block
  <2> QED BY <2>1, <2>2
<1>3. more = Append(blocks, Block(x))
  <2>1. /\ DOMAIN s = 1..Len(s) /\ Len(s) \in Nat /\ DOMAIN Append(s, x) = 1..Len(s) + 1
        /\ \A i \in 1..Len(s) : Append(s, x)[i] = s[i]
        /\ Append(s, x)[Len(s) + 1] = x
    BY LenProperties, AppendProperties
  <2>2. /\ Append(blocks, Block(x)) \in Seq(Seq(S)) /\ Len(Append(blocks, Block(x))) = Len(s) + 1
        /\ \A i \in 1..Len(s) : Append(blocks, Block(x))[i] = blocks[i]
        /\ Append(blocks, Block(x))[Len(s) + 1] = Block(x)
    <3>1. Block(x) \in Seq(S)
      BY <1>1
    <3> HIDE DEF Block, blocks
    <3> QED BY <1>2, <3>1, AppendProperties
  <2>3. \A i \in 1..Len(s) + 1 : i = Len(s) + 1 \/ i \in 1..Len(s)
    BY <2>1
  <2>4. ASSUME NEW i \in 1..Len(s) + 1 PROVE Block(Append(s, x)[i]) = Append(blocks, Block(x))[i]
    <3>1. i \in 1..Len(s) => blocks[i] = Block(s[i])
      BY <2>1
    <3> HIDE DEF Block, blocks
    <3> QED BY <2>1, <2>2, <2>3, <3>1
  <2>5. Append(blocks, Block(x)) = [i \in 1..Len(s) + 1 |-> Append(blocks, Block(x))[i]]
    <3> HIDE DEF Block, blocks
    <3> QED BY <2>2, LenProperties
  <2> HIDE DEF Block, blocks
  <2> QED BY <2>1, <2>4, <2>5
<1>4. Escape(s, c, by) = FlattenSeq(blocks) /\ Escape(Append(s, x), c, by) = FlattenSeq(more)
  BY DEF Escape
<1>5. Block(x) \in Seq(S)
  BY <1>1
<1>6. FlattenSeq(blocks) \in Seq(S) /\ FlattenSeq(more) = FlattenSeq(blocks) \o Block(x)
  <2> HIDE DEF Block, blocks, more
  <2> QED BY <1>2, <1>3, <1>5, FlattenOneMore
<1> QED BY <1>4, <1>6

LEMMA EscapeNothing == ASSUME NEW c, NEW by PROVE Escape(<<>>, c, by) = <<>>
<1>1. Escape(<<>>, c, by) = FlattenSeq([i \in DOMAIN <<>> |-> IF <<>>[i] = c THEN by ELSE <<(<<>>[i])>>])
  BY DEF Escape
<1>2. \A f : f = [i \in DOMAIN <<>> |-> IF <<>>[i] = c THEN by ELSE <<(<<>>[i])>>] => f = <<>>
  OBVIOUS
<1>3. Len(<<>>) = 0
  OBVIOUS
<1> QED BY <1>1, <1>2, <1>3 DEF FlattenSeq

\* Where a text of three characters occurs.
Matches(s, sub) == {i \in 1..(Len(s) - Len(sub) + 1) : SubSeq(s, i, i + Len(sub) - 1) = sub}
Collapsed(s, sub, c) == [i \in DOMAIN s |-> IF i \in Matches(s, sub) THEN c ELSE s[i]]
Kept(s, sub) == {i \in DOMAIN s : ~\E m \in Matches(s, sub) : m < i /\ i < m + Len(sub)}

LEMMA CollapseKeeps == ASSUME NEW s, NEW sub, NEW c
                       PROVE Collapse(s, sub, c) = At(Collapsed(s, sub, c), Kept(s, sub))
  BY Zenon DEF Collapse, Collapsed, Kept, Matches

LEMMA MatchOfThree ==
  ASSUME NEW S, NEW s \in Seq(S), NEW a \in S, NEW b \in S, NEW d \in S
  PROVE  /\ Len(<<a, b, d>>) = 3
         /\ Matches(s, <<a, b, d>>) = {i \in 1..(Len(s) - 2) : s[i] = a /\ s[i + 1] = b /\ s[i + 2] = d}
<1> DEFINE sub == <<a, b, d>>
<1>1. sub \in Seq(S) /\ Len(sub) = 3 /\ sub[1] = a /\ sub[2] = b /\ sub[3] = d
  OBVIOUS
<1>2. Len(s) \in Nat /\ Len(s) - 3 + 1 = Len(s) - 2 /\ \A j \in 1..Len(s) : s[j] \in S
  BY LenProperties
<1>3. ASSUME NEW i \in 1..(Len(s) - 2)
      PROVE  SubSeq(s, i, i + 3 - 1) = sub <=> s[i] = a /\ s[i + 1] = b /\ s[i + 2] = d
  <2> DEFINE mid == SubSeq(s, i, i + 3 - 1)
  <2>1. /\ mid \in Seq(S) /\ Len(mid) = 3
        /\ mid[1] = s[i] /\ mid[2] = s[i + 1] /\ mid[3] = s[i + 2]
    <3>1. i \in Int /\ i + 3 - 1 \in Int /\ \A j \in i..(i + 3 - 1) : s[j] \in S
      BY <1>2
    <3> QED BY <3>1, SubSeqProperties
  <2> HIDE DEF mid, sub
  <2>2. ASSUME mid[1] = sub[1], mid[2] = sub[2], mid[3] = sub[3] PROVE mid = sub
    <3>1. \A j \in 1..Len(mid) : mid[j] = sub[j]
      BY <2>1, <2>2
    <3> QED BY <1>1, <2>1, <3>1, SeqEqual
  <2>3. mid = sub <=> mid[1] = sub[1] /\ mid[2] = sub[2] /\ mid[3] = sub[3]
    BY <2>2
  <2>4. mid = sub <=> s[i] = a /\ s[i + 1] = b /\ s[i + 2] = d
    BY <1>1, <2>1, <2>3
  <2> QED BY <2>4 DEF mid
<1>4. Matches(s, sub) = {i \in 1..(Len(s) - 2) : SubSeq(s, i, i + 3 - 1) = sub}
  <2> HIDE DEF sub
  <2> QED BY <1>1, <1>2 DEF Matches
<1> HIDE DEF sub
<1>5. Matches(s, sub) = {i \in 1..(Len(s) - 2) : s[i] = a /\ s[i + 1] = b /\ s[i + 2] = d}
  BY <1>3, <1>4
<1> QED BY <1>1, <1>5 DEF sub


LEMMA CollapseKeepsMore ==
  ASSUME NEW S, NEW n \in Nat, NEW u, NEW w, NEW sub, NEW c, NEW x,
         KeepsMore(S, n, Kept(u, sub), Collapsed(u, sub, c), Kept(w, sub), Collapsed(w, sub, c), x)
  PROVE  IsLonger(Collapse(w, sub, c), Collapse(u, sub, c), x)
<1>1. IsLonger(At(Collapsed(w, sub, c), Kept(w, sub)), At(Collapsed(u, sub, c), Kept(u, sub)), x)
  BY KeepOneMore
<1> QED BY <1>1, CollapseKeeps, Zenon

\* A character that completes no occurrence is taken over.
LEMMA CollapseOneMore ==
  ASSUME NEW S, NEW u \in Seq(S), NEW x \in S, NEW a \in S, NEW b \in S, NEW d \in S, NEW c \in S,
         ~(Len(u) > 1 /\ u[Len(u) - 1] = a /\ u[Len(u)] = b /\ x = d)
  PROVE  IsLonger(Collapse(Append(u, x), <<a, b, d>>, c), Collapse(u, <<a, b, d>>, c), x)
<1> DEFINE sub == <<a, b, d>>
           n == Len(u)
           w == Append(u, x)
<1>1. /\ n \in Nat /\ DOMAIN u = 1..n /\ DOMAIN w = 1..n + 1 /\ Len(w) = n + 1 /\ w \in Seq(S)
      /\ \A i \in 1..n : w[i] = u[i] /\ u[i] \in S
      /\ w[n + 1] = x
      /\ ~(n > 1 /\ u[n - 1] = a /\ u[n] = b /\ x = d)
  BY LenProperties, AppendProperties
<1>2. /\ Len(sub) = 3
      /\ Matches(u, sub) = {i \in 1..(n - 2) : u[i] = a /\ u[i + 1] = b /\ u[i + 2] = d}
  BY MatchOfThree
<1>3. Matches(w, sub) = {i \in 1..(Len(w) - 2) : w[i] = a /\ w[i + 1] = b /\ w[i + 2] = d}
  <2> HIDE DEF w
  <2> QED BY <1>1, MatchOfThree
<1> HIDE DEF sub, w, n
<1>4. Matches(w, sub) = Matches(u, sub)
  <2>1. ASSUME NEW i \in 1..(n - 2)
        PROVE  i \in 1..(Len(w) - 2) /\ w[i] = u[i] /\ w[i + 1] = u[i + 1] /\ w[i + 2] = u[i + 2]
    BY <1>1
  <2>2. ASSUME NEW i \in 1..(Len(w) - 2), i \notin 1..(n - 2)
        PROVE  ~(w[i] = a /\ w[i + 1] = b /\ w[i + 2] = d)
    <3>1. i = n - 1 /\ n > 1 /\ i + 1 = n /\ i + 2 = n + 1 /\ i \in 1..n /\ n \in 1..n
      BY <1>1, <2>2
    <3> QED BY <1>1, <3>1
  <2> QED BY <1>2, <1>3, <2>1, <2>2
<1>5. \A m \in Matches(u, sub) : m \in Nat /\ m <= n - 2
  BY <1>1, <1>2
<1>6. Kept(w, sub) = Kept(u, sub) \cup {n + 1} /\ Kept(u, sub) \in SUBSET (1..n)
  <2>1. Kept(u, sub) = {i \in 1..n : ~\E m \in Matches(u, sub) : m < i /\ i < m + 3}
    BY <1>1, <1>2 DEF Kept
  <2>2. Kept(w, sub) = {i \in 1..n + 1 : ~\E m \in Matches(u, sub) : m < i /\ i < m + 3}
    BY <1>1, <1>2, <1>4 DEF Kept
  <2>3. ~\E m \in Matches(u, sub) : m < n + 1 /\ n + 1 < m + 3
    BY <1>1, <1>5
  <2>4. 1..n + 1 = (1..n) \cup {n + 1}
    BY <1>1
  <2> QED BY <2>1, <2>2, <2>3, <2>4
<1>7. /\ \A i \in Kept(u, sub) : /\ Collapsed(u, sub, c)[i] \in S
                                 /\ Collapsed(w, sub, c)[i] = Collapsed(u, sub, c)[i]
      /\ Collapsed(w, sub, c)[n + 1] = x
  <2>1. \A i \in 1..n : /\ Collapsed(u, sub, c)[i] = IF i \in Matches(u, sub) THEN c ELSE u[i]
                        /\ Collapsed(w, sub, c)[i] = IF i \in Matches(u, sub) THEN c ELSE w[i]
    BY <1>1, <1>4 DEF Collapsed
  <2>2. Collapsed(w, sub, c)[n + 1] = IF n + 1 \in Matches(u, sub) THEN c ELSE w[n + 1]
    BY <1>1, <1>4 DEF Collapsed
  <2>3. n + 1 \notin Matches(u, sub)
    BY <1>1, <1>5
  <2> QED BY <1>1, <1>6, <2>1, <2>2, <2>3
<1>8. KeepsMore(S, n, Kept(u, sub), Collapsed(u, sub, c), Kept(w, sub), Collapsed(w, sub, c), x)
  BY <1>1, <1>6, <1>7 DEF KeepsMore
<1>9. IsLonger(Collapse(w, sub, c), Collapse(u, sub, c), x)
  <2>1. n \in Nat
    BY <1>1
  <2> QED BY <1>8, <2>1, CollapseKeepsMore
<1> QED BY <1>9 DEF w, sub

\* An occurrence at the end is replaced: one of three characters, the first of
\* them only there, overlaps no other.
LEMMA CollapseMatch ==
  ASSUME NEW S, NEW u \in Seq(S), NEW a \in S, NEW b \in S, NEW d \in S, NEW c \in S, a # b, a # d
  PROVE  Collapse(u \o <<a, b, d>>, <<a, b, d>>, c) = Append(Collapse(u, <<a, b, d>>, c), c)
<1> DEFINE sub == <<a, b, d>>
           n == Len(u)
           w == u \o sub
<1>0. sub \in Seq(S) /\ Len(sub) = 3 /\ sub[1] = a /\ sub[2] = b /\ sub[3] = d
  OBVIOUS
<1>1. /\ n \in Nat /\ DOMAIN u = 1..n /\ DOMAIN w = 1..n + 3 /\ Len(w) = n + 3 /\ w \in Seq(S)
      /\ \A i \in 1..n : w[i] = u[i] /\ u[i] \in S
      /\ w[n + 1] = a /\ w[n + 2] = b /\ w[n + 3] = d
  <2> HIDE DEF sub
  <2>1. n \in Nat /\ DOMAIN u = 1..n /\ \A i \in 1..n : u[i] \in S
    BY LenProperties
  <2>2. w \in Seq(S) /\ Len(w) = n + 3 /\ \A i \in 1..n + 3 : w[i] = IF i <= n THEN u[i] ELSE sub[i - n]
    <3> HIDE DEF n
    <3>1. w \in Seq(S) /\ Len(w) = Len(u) + Len(sub)
          /\ \A i \in 1..Len(u) + Len(sub) : w[i] = IF i <= Len(u) THEN u[i] ELSE sub[i - Len(u)]
      BY <1>0, ConcatProperties
    <3> QED BY <1>0, <3>1 DEF n
  <2>3. DOMAIN w = 1..n + 3
    BY <2>2, LenProperties
  <2>4. n + 1 \in 1..n + 3 /\ n + 2 \in 1..n + 3 /\ n + 3 \in 1..n + 3 /\ n + 1 - n = 1 /\ n + 2 - n = 2 /\ n + 3 - n = 3
    BY <2>1
  <2>5. w[n + 1] = sub[1] /\ w[n + 2] = sub[2] /\ w[n + 3] = sub[3]
    BY <2>1, <2>2, <2>4
  <2>6. \A i \in 1..n : w[i] = u[i]
    BY <2>1, <2>2
  <2> HIDE DEF w
  <2> QED BY <1>0, <2>1, <2>2, <2>3, <2>5, <2>6
<1>2. /\ Len(sub) = 3
      /\ Matches(u, sub) = {i \in 1..(n - 2) : u[i] = a /\ u[i + 1] = b /\ u[i + 2] = d}
  BY MatchOfThree
<1>3. Matches(w, sub) = {i \in 1..(Len(w) - 2) : w[i] = a /\ w[i + 1] = b /\ w[i + 2] = d}
  <2> HIDE DEF w
  <2>1. w \in Seq(S)
    BY <1>1
  <2> QED BY <2>1, MatchOfThree
<1> HIDE DEF sub, w, n
<1>4. Matches(w, sub) = Matches(u, sub) \cup {n + 1}
  <2>1. ASSUME NEW i \in 1..(n - 2)
        PROVE  i \in 1..(Len(w) - 2) /\ w[i] = u[i] /\ w[i + 1] = u[i + 1] /\ w[i + 2] = u[i + 2]
    BY <1>1
  <2>2. ASSUME NEW i \in 1..(Len(w) - 2), i \notin 1..(n - 2), i # n + 1
        PROVE  ~(w[i] = a /\ w[i + 1] = b /\ w[i + 2] = d)
    <3>1. i = n - 1 \/ i = n
      BY <1>1, <2>2
    <3>2. CASE i = n - 1
      <4>1. i + 2 = n + 1
        BY <1>1, <3>2
      <4> QED BY <1>1, <4>1
    <3>3. CASE i = n
      BY <1>1, <3>3
    <3> QED BY <3>1, <3>2, <3>3
  <2>3. n + 1 \in 1..(Len(w) - 2) /\ n + 1 + 1 = n + 2 /\ n + 1 + 2 = n + 3
    BY <1>1
  <2>4. n + 1 \in Matches(w, sub)
    BY <1>1, <1>3, <2>3
  <2> QED BY <1>2, <1>3, <2>1, <2>2, <2>4
<1>5. \A m \in Matches(u, sub) : m \in Nat /\ m <= n - 2
  BY <1>1, <1>2
<1>6. Kept(w, sub) = Kept(u, sub) \cup {n + 1} /\ Kept(u, sub) \in SUBSET (1..n)
  <2>1. Kept(u, sub) = {i \in 1..n : ~\E m \in Matches(u, sub) : m < i /\ i < m + 3}
    BY <1>1, <1>2 DEF Kept
  <2>2. Kept(w, sub) = {i \in 1..n + 3 : ~\E m \in Matches(w, sub) : m < i /\ i < m + 3}
    BY <1>1, <1>2 DEF Kept
  <2>3. ~\E m \in Matches(w, sub) : m < n + 1 /\ n + 1 < m + 3
    BY <1>1, <1>4, <1>5
  <2>4. ASSUME NEW i \in 1..n
        PROVE  (\E m \in Matches(w, sub) : m < i /\ i < m + 3)
                 <=> (\E m \in Matches(u, sub) : m < i /\ i < m + 3)
    <3>1. ~(n + 1 < i)
      BY <1>1
    <3> QED BY <1>4, <3>1
  <2>5. \A i \in {n + 2, n + 3} : \E m \in Matches(w, sub) : m < i /\ i < m + 3
    <3>1. n + 1 \in Matches(w, sub)
      BY <1>4
    <3>2. \A i \in {n + 2, n + 3} : n + 1 < i /\ i < n + 1 + 3
      BY <1>1
    <3> QED BY <3>1, <3>2
  <2>6. 1..n + 3 = (1..n) \cup {n + 1, n + 2, n + 3} /\ n + 1 \in 1..n + 3
    BY <1>1
  <2>7. ASSUME NEW i PROVE i \in Kept(w, sub) <=> i \in Kept(u, sub) \cup {n + 1}
    <3>1. CASE i \in 1..n
      BY <1>1, <2>1, <2>2, <2>4, <2>6, <3>1
    <3>2. CASE i = n + 1
      BY <2>2, <2>3, <2>6, <3>2
    <3>3. CASE i \in {n + 2, n + 3}
      BY <1>1, <2>1, <2>2, <2>5, <3>3
    <3>4. CASE i \notin 1..n + 3
      BY <2>1, <2>2, <2>6, <3>4
    <3> QED BY <2>6, <3>1, <3>2, <3>3, <3>4
  <2> QED BY <2>1, <2>7
<1>7. /\ \A i \in Kept(u, sub) : /\ Collapsed(u, sub, c)[i] \in S
                                 /\ Collapsed(w, sub, c)[i] = Collapsed(u, sub, c)[i]
      /\ Collapsed(w, sub, c)[n + 1] = c
  <2>1. \A i \in 1..n : /\ Collapsed(u, sub, c)[i] = IF i \in Matches(u, sub) THEN c ELSE u[i]
                        /\ i \in 1..n + 3 /\ i # n + 1
    BY <1>1 DEF Collapsed
  <2>2. \A i \in 1..n + 3 : Collapsed(w, sub, c)[i] = IF i \in Matches(w, sub) THEN c ELSE w[i]
    BY <1>1 DEF Collapsed
  <2>3. n + 1 \in 1..n + 3 /\ n + 1 \in Matches(w, sub)
    BY <1>1, <1>4
  <2>4. \A i \in 1..n : i \in Matches(w, sub) <=> i \in Matches(u, sub)
    BY <1>4, <2>1
  <2> QED BY <1>1, <1>6, <2>1, <2>2, <2>3, <2>4
<1>8. KeepsMore(S, n, Kept(u, sub), Collapsed(u, sub, c), Kept(w, sub), Collapsed(w, sub, c), c)
  BY <1>1, <1>6, <1>7 DEF KeepsMore
<1>9. Collapse(w, sub, c) = Append(Collapse(u, sub, c), c)
  <2>1. n \in Nat
    BY <1>1
  <2> QED BY <1>8, <2>1, CollapseKeepsMore DEF IsLonger
<1> QED BY <1>9 DEF w, sub


\* The provers do not know that a literal is a string.
Chars == STRING \cup {"%", "2", "5", "F", "/", "0", ":", "b", "w", "a", "x", "x-acute"}

LEMMA Literals == /\ "%" \in Chars /\ "2" \in Chars /\ "5" \in Chars /\ "F" \in Chars /\ "/" \in Chars
                  /\ "0" \in Chars /\ ":" \in Chars /\ "b" \in Chars /\ "w" \in Chars
                  /\ "a" \in Chars /\ "x" \in Chars /\ "x-acute" \in Chars
  BY DEF Chars

\* In an escaped text each % begins one of the two escapes.
Marked(u) == \A i \in 1..Len(u) : u[i] = "%" =>
  i + 2 <= Len(u) /\ u[i + 1] = "2" /\ u[i + 2] \in {"5", "F"}

LEMMA MarkedOneMore ==
  ASSUME NEW u \in Seq(Chars), Marked(u), NEW x \in Chars, x # "%"
  PROVE  Marked(Append(u, x))
<1>1. /\ Len(u) \in Nat /\ Len(Append(u, x)) = Len(u) + 1 /\ Append(u, x)[Len(u) + 1] = x
      /\ \A i \in 1..Len(u) : Append(u, x)[i] = u[i]
  BY LenProperties, AppendProperties
<1> SUFFICES ASSUME NEW i \in 1..Len(u) + 1, Append(u, x)[i] = "%"
             PROVE  i + 2 <= Len(u) + 1 /\ Append(u, x)[i + 1] = "2" /\ Append(u, x)[i + 2] \in {"5", "F"}
  BY <1>1 DEF Marked
<1>2. i \in 1..Len(u) /\ u[i] = "%"
  BY <1>1
<1>3. i + 2 <= Len(u) /\ u[i + 1] = "2" /\ u[i + 2] \in {"5", "F"}
  BY <1>2 DEF Marked
<1>4. i + 1 \in 1..Len(u) /\ i + 2 \in 1..Len(u)
  BY <1>1, <1>2, <1>3
<1> QED BY <1>1, <1>3, <1>4

LEMMA MarkedOneEscape ==
  ASSUME NEW u \in Seq(Chars), Marked(u), NEW y \in {"5", "F"}
  PROVE  Marked(u \o <<"%", "2", y>>)
<1> DEFINE w == u \o <<"%", "2", y>>
<1>1. /\ Len(u) \in Nat /\ Len(w) = Len(u) + 3 /\ \A i \in 1..Len(u) : w[i] = u[i]
      /\ w[Len(u) + 1] = "%" /\ w[Len(u) + 2] = "2" /\ w[Len(u) + 3] = y
  BY LenProperties
<1> HIDE DEF w
<1> SUFFICES ASSUME NEW i \in 1..Len(u) + 3, w[i] = "%"
             PROVE  i + 2 <= Len(u) + 3 /\ w[i + 1] = "2" /\ w[i + 2] \in {"5", "F"}
  BY <1>1 DEF Marked, w
<1>2. CASE i \in 1..Len(u)
  <2>1. i + 2 <= Len(u) /\ u[i + 1] = "2" /\ u[i + 2] \in {"5", "F"}
    BY <1>1, <1>2 DEF Marked
  <2>2. i + 1 \in 1..Len(u) /\ i + 2 \in 1..Len(u)
    BY <1>1, <1>2, <2>1
  <2> QED BY <1>1, <2>1, <2>2
<1>3. CASE i = Len(u) + 1
  <2>1. i + 1 = Len(u) + 2 /\ i + 2 = Len(u) + 3
    BY <1>1, <1>3
  <2> QED BY <1>1, <2>1
<1>4. i # Len(u) + 2 /\ i # Len(u) + 3
  BY <1>1
<1>5. i \in 1..Len(u) \/ i = Len(u) + 1
  BY <1>1, <1>4
<1> QED BY <1>2, <1>3, <1>5

\* No % ends a marked text, and none with a 2 after it.
LEMMA MarksAreWhole ==
  ASSUME NEW u \in Seq(Chars), Marked(u), Len(u) > 1
  PROVE  u[Len(u) - 1] # "%"
<1>1. Len(u) - 1 \in 1..Len(u) /\ ~(Len(u) - 1 + 2 <= Len(u))
  BY LenProperties
<1> QED BY <1>1 DEF Marked

LEMMA ThreeMore ==
  ASSUME NEW u \in Seq(Chars), NEW y \in Chars
  PROVE  u \o <<"%", "2", y>> = Append(Append(Append(u, "%"), "2"), y)
  OBVIOUS

Escaped(z) == <<"%", "2", z>>
IsConcat(t, v, w) == t = v \o w

LEMMA PlainStays ==
  ASSUME NEW u \in Seq(Chars), NEW w, NEW x \in Chars, NEW z \in Chars, NEW c \in Chars,
         IsLonger(w, u, x), ~(Len(u) > 1 /\ u[Len(u) - 1] = "%" /\ x = z)
  PROVE  w \in Seq(Chars) /\ IsLonger(Collapse(w, Escaped(z), c), Collapse(u, Escaped(z), c), x)
<1>1. w = Append(u, x)
  BY DEF IsLonger
<1>2. "%" \in Chars /\ "2" \in Chars
  BY Literals
<1>3. IsLonger(Collapse(Append(u, x), <<"%", "2", z>>, c), Collapse(u, <<"%", "2", z>>, c), x)
  BY <1>2, CollapseOneMore
<1>4. w \in Seq(Chars)
  BY <1>1, AppendProperties
<1> QED BY <1>1, <1>3, <1>4 DEF Escaped

\* An escape is kept when it is not the one that is replaced.
LEMMA OtherStays ==
  ASSUME NEW u \in Seq(Chars), NEW v \in Seq(Chars), NEW y \in Chars, NEW z \in Chars, NEW c \in Chars,
         y # z, z # "2", z # "%", Collapse(u, Escaped(z), c) = v
  PROVE  IsConcat(Collapse(u \o Escaped(y), Escaped(z), c), v, Escaped(y))
<1>1. PICK u1 : IsLonger(u1, u, "%")
  BY DEF IsLonger
<1>2. PICK u2 : IsLonger(u2, u1, "2")
  BY DEF IsLonger
<1>3. PICK u3 : IsLonger(u3, u2, y)
  BY DEF IsLonger
<1>4. u1 \in Seq(Chars) /\ IsLonger(Collapse(u1, Escaped(z), c), v, "%")
  BY <1>1, PlainStays, Literals
<1>5. u2 \in Seq(Chars) /\ IsLonger(Collapse(u2, Escaped(z), c), Collapse(u1, Escaped(z), c), "2")
  BY <1>2, <1>4, PlainStays, Literals
<1>6. IsLonger(Collapse(u3, Escaped(z), c), Collapse(u2, Escaped(z), c), y)
  BY <1>3, <1>5, PlainStays, Literals
<1>7. u3 = u \o Escaped(y)
  BY <1>1, <1>2, <1>3, ThreeMore DEF IsLonger, Escaped
<1> QED BY <1>4, <1>5, <1>6, <1>7, ThreeMore DEF IsLonger, IsConcat, Escaped

LEMMA EscapeGoes ==
  ASSUME NEW u \in Seq(Chars), NEW z \in {"5", "F"}, NEW c \in Chars
  PROVE  IsLonger(Collapse(u \o Escaped(z), Escaped(z), c), Collapse(u, Escaped(z), c), c)
<1>1. "%" \in Chars /\ "2" \in Chars /\ z \in Chars /\ "%" # "2" /\ "%" # z
  BY Literals
<1>2. Collapse(u \o <<"%", "2", z>>, <<"%", "2", z>>, c) = Append(Collapse(u, <<"%", "2", z>>, c), c)
  BY <1>1, CollapseMatch
<1> QED BY <1>2 DEF IsLonger, Escaped

LEMMA CollapseNothing ==
  ASSUME NEW z \in {"5", "F"}, NEW c
  PROVE  Collapse(<<>>, Escaped(z), c) = <<>>
<1> DEFINE sub == Escaped(z)
<1>1. Kept(<<>>, sub) = {}
  BY DEF Kept
<1>2. Cardinality({}) = 0
  BY FS_EmptySet
<1>3. At(Collapsed(<<>>, sub, c), {}) = <<>>
  BY <1>2 DEF At
<1> QED BY <1>1, <1>3, CollapseKeeps


Percents(s) == Escape(s, "%", Escaped("5"))

LEMMA EncodeIs == ASSUME NEW s PROVE Encode(s) = Escape(Percents(s), "/", Escaped("F"))
  BY Zenon DEF Encode, Percents, Escaped

\* Both escapes can be taken back, and the text between has no other marks.
Reads(s) == LET t == Percents(s) e == Encode(s) IN
  /\ t \in Seq(Chars) /\ Marked(t) /\ Collapse(t, Escaped("5"), "%") = s
  /\ e \in Seq(Chars) /\ Marked(e) /\ Collapse(e, Escaped("F"), "/") = t

LEMMA LongerIsConcat ==
  ASSUME NEW u \in Seq(Chars), NEW x \in Chars
  PROVE  IsLonger(u \o <<x>>, u, x)
  BY AppendIsConcat DEF IsLonger

LEMMA EscapeLonger ==
  ASSUME NEW u \in Seq(Chars), NEW w, NEW x \in Chars, IsLonger(w, u, x), NEW c, NEW z \in Chars
  PROVE  /\ Escape(u, c, Escaped(z)) \in Seq(Chars) /\ w \in Seq(Chars)
         /\ x # c => IsLonger(Escape(w, c, Escaped(z)), Escape(u, c, Escaped(z)), x)
         /\ x = c => Escape(w, c, Escaped(z)) = Escape(u, c, Escaped(z)) \o Escaped(z)
<1> DEFINE by == Escaped(z)
           e == Escape(u, c, by)
<1>1. by \in Seq(Chars)
  BY Literals DEF Escaped
<1>2. w = Append(u, x)
  BY DEF IsLonger
<1>3. w \in Seq(Chars)
  BY <1>2, AppendProperties
<1> HIDE DEF by
<1>4. e \in Seq(Chars) /\ Escape(w, c, by) = e \o (IF x = c THEN by ELSE <<x>>)
  BY <1>1, <1>2, EscapeOneMore
<1>5. x # c => IsLonger(Escape(w, c, by), e, x)
  <2> SUFFICES ASSUME x # c PROVE IsLonger(Escape(w, c, by), e, x)
    OBVIOUS
  <2>1. Escape(w, c, by) = e \o <<x>>
    BY <1>4
  <2> HIDE DEF e
  <2>2. IsLonger(e \o <<x>>, e, x)
    BY <1>4, LongerIsConcat
  <2> QED BY <2>1, <2>2
<1>6. x = c => Escape(w, c, by) = e \o by
  BY <1>4
<1> QED BY <1>3, <1>4, <1>5, <1>6 DEF by

LEMMA ReadsNothing == Reads(<<>>)
<1>1. Percents(<<>>) = <<>> /\ Encode(<<>>) = <<>>
  BY EscapeNothing, EncodeIs DEF Percents
<1>2. <<>> \in Seq(Chars) /\ Marked(<<>>)
  BY DEF Marked
<1>3. Collapse(<<>>, Escaped("5"), "%") = <<>> /\ Collapse(<<>>, Escaped("F"), "/") = <<>>
  BY CollapseNothing
<1> QED BY <1>1, <1>2, <1>3 DEF Reads

LEMMA ReadsPercent ==
  ASSUME NEW s \in Seq(Chars), NEW r, IsLonger(r, s, "%"), Reads(s)
  PROVE  Reads(r)
<1> DEFINE t == Percents(s)
           e == Encode(s)
<1>1. /\ t \in Seq(Chars) /\ Marked(t) /\ Collapse(t, Escaped("5"), "%") = s
      /\ e \in Seq(Chars) /\ Marked(e) /\ Collapse(e, Escaped("F"), "/") = t
  BY DEF Reads
<1>2. Percents(r) = t \o Escaped("5")
  BY EscapeLonger, Literals DEF Percents
<1>3. e = Escape(t, "/", Escaped("F")) /\ Encode(r) = Escape(Percents(r), "/", Escaped("F"))
  BY EncodeIs
<1> HIDE DEF t, e
<1>4. PICK t1 : IsLonger(t1, t, "%")
  BY DEF IsLonger
<1>5. PICK t2 : IsLonger(t2, t1, "2")
  BY DEF IsLonger
<1>6. PICK t3 : IsLonger(t3, t2, "5")
  BY DEF IsLonger
<1>7. t3 = t \o Escaped("5")
  BY <1>1, <1>4, <1>5, <1>6, ThreeMore, Literals DEF IsLonger, Escaped
<1> DEFINE Slashes(u) == Escape(u, "/", Escaped("F"))
<1>8. t1 \in Seq(Chars) /\ IsLonger(Slashes(t1), Slashes(t), "%")
  BY <1>1, <1>4, EscapeLonger, Literals
<1>9. t2 \in Seq(Chars) /\ IsLonger(Slashes(t2), Slashes(t1), "2")
  BY <1>5, <1>8, EscapeLonger, Literals
<1>10. t3 \in Seq(Chars) /\ IsLonger(Slashes(t3), Slashes(t2), "5")
  BY <1>6, <1>9, EscapeLonger, Literals
<1>11. Slashes(t3) = e \o Escaped("5")
  <2> HIDE DEF Slashes
  <2>1. Slashes(t) = e
    BY <1>3 DEF Slashes
  <2> QED BY <1>1, <1>8, <1>9, <1>10, <2>1, ThreeMore, Literals DEF IsLonger, Escaped
<1>12. Encode(r) = e \o Escaped("5") /\ Percents(r) = t3
  BY <1>2, <1>3, <1>7, <1>11
<1>13. Marked(t3) /\ Marked(e \o Escaped("5"))
  BY <1>1, <1>7, MarkedOneEscape DEF Escaped
<1>14. Collapse(t3, Escaped("5"), "%") = r
  <2>1. IsLonger(Collapse(t3, Escaped("5"), "%"), Collapse(t, Escaped("5"), "%"), "%")
    BY <1>1, <1>7, EscapeGoes, Literals
  <2> QED BY <1>1, <2>1 DEF IsLonger
<1>15. Collapse(e \o Escaped("5"), Escaped("F"), "/") = t3
  <2>1. "5" # "F" /\ "F" # "2" /\ "F" # "%" /\ "5" \in Chars /\ "F" \in Chars /\ "/" \in Chars
    BY Literals
  <2>2. IsConcat(Collapse(e \o Escaped("5"), Escaped("F"), "/"), t, Escaped("5"))
    BY <1>1, <2>1, OtherStays
  <2> QED BY <1>7, <2>2 DEF IsConcat
<1>16. e \o Escaped("5") \in Seq(Chars)
  <2>1. Escaped("5") \in Seq(Chars)
    BY Literals DEF Escaped
  <2> QED BY <1>1, <2>1, ConcatProperties
<1> QED BY <1>10, <1>12, <1>13, <1>14, <1>15, <1>16 DEF Reads

LEMMA ReadsSlash ==
  ASSUME NEW s \in Seq(Chars), NEW r, IsLonger(r, s, "/"), Reads(s)
  PROVE  Reads(r)
<1> DEFINE t == Percents(s)
           e == Encode(s)
           t1 == Percents(r)
<1>1. /\ t \in Seq(Chars) /\ Marked(t) /\ Collapse(t, Escaped("5"), "%") = s
      /\ e \in Seq(Chars) /\ Marked(e) /\ Collapse(e, Escaped("F"), "/") = t
  BY DEF Reads
<1>2. IsLonger(t1, t, "/")
  BY EscapeLonger, Literals DEF Percents
<1>3. e = Escape(t, "/", Escaped("F")) /\ Encode(r) = Escape(t1, "/", Escaped("F"))
  BY EncodeIs
<1> HIDE DEF t, e, t1
<1>4. t1 \in Seq(Chars) /\ Encode(r) = e \o Escaped("F")
  <2>1. /\ t1 \in Seq(Chars)
        /\ Escape(t1, "/", Escaped("F")) = Escape(t, "/", Escaped("F")) \o Escaped("F")
    BY <1>1, <1>2, EscapeLonger, Literals
  <2> QED BY <1>3, <2>1
<1>5. Marked(t1)
  BY <1>1, <1>2, MarkedOneMore, Literals DEF IsLonger
<1>6. Marked(e \o Escaped("F"))
  BY <1>1, MarkedOneEscape DEF Escaped
<1>7. Collapse(t1, Escaped("5"), "%") = r
  <2>1. IsLonger(Collapse(t1, Escaped("5"), "%"), Collapse(t, Escaped("5"), "%"), "/")
    BY <1>1, <1>2, PlainStays, Literals
  <2> QED BY <1>1, <2>1 DEF IsLonger
<1>8. Collapse(e \o Escaped("F"), Escaped("F"), "/") = t1
  <2>1. IsLonger(Collapse(e \o Escaped("F"), Escaped("F"), "/"), Collapse(e, Escaped("F"), "/"), "/")
    BY <1>1, EscapeGoes, Literals
  <2> QED BY <1>1, <1>2, <2>1 DEF IsLonger
<1>9. e \o Escaped("F") \in Seq(Chars)
  <2>1. Escaped("F") \in Seq(Chars)
    BY Literals DEF Escaped
  <2> QED BY <1>1, <2>1, ConcatProperties
<1> QED BY <1>4, <1>5, <1>6, <1>7, <1>8, <1>9 DEF Reads, t1

LEMMA ReadsPlain ==
  ASSUME NEW s \in Seq(Chars), NEW r, NEW x \in Chars, IsLonger(r, s, x), x # "%", x # "/", Reads(s)
  PROVE  Reads(r)
<1> DEFINE t == Percents(s)
           e == Encode(s)
           t1 == Percents(r)
           e1 == Encode(r)
<1>1. /\ t \in Seq(Chars) /\ Marked(t) /\ Collapse(t, Escaped("5"), "%") = s
      /\ e \in Seq(Chars) /\ Marked(e) /\ Collapse(e, Escaped("F"), "/") = t
  BY DEF Reads
<1>2. IsLonger(t1, t, x)
  BY EscapeLonger, Literals DEF Percents
<1>3. e = Escape(t, "/", Escaped("F")) /\ e1 = Escape(t1, "/", Escaped("F"))
  BY EncodeIs
<1> HIDE DEF t, e, t1, e1
<1>4. t1 \in Seq(Chars) /\ IsLonger(e1, e, x)
  BY <1>1, <1>2, <1>3, EscapeLonger, Literals
<1>5. Marked(t1) /\ Marked(e1)
  BY <1>1, <1>2, <1>4, MarkedOneMore DEF IsLonger
<1>6. ASSUME NEW u \in Seq(Chars), Marked(u), NEW w, IsLonger(w, u, x), NEW z \in Chars, NEW c \in Chars
      PROVE  w \in Seq(Chars) /\ IsLonger(Collapse(w, Escaped(z), c), Collapse(u, Escaped(z), c), x)
  BY <1>6, MarksAreWhole, PlainStays
<1>7. Collapse(t1, Escaped("5"), "%") = r
  <2>1. IsLonger(Collapse(t1, Escaped("5"), "%"), Collapse(t, Escaped("5"), "%"), x)
    BY <1>1, <1>2, <1>6, Literals
  <2> QED BY <1>1, <2>1 DEF IsLonger
<1>8. e1 \in Seq(Chars) /\ Collapse(e1, Escaped("F"), "/") = t1
  <2>1. e1 \in Seq(Chars) /\ IsLonger(Collapse(e1, Escaped("F"), "/"), Collapse(e, Escaped("F"), "/"), x)
    BY <1>1, <1>4, <1>6, Literals
  <2> QED BY <1>1, <1>2, <2>1 DEF IsLonger
<1> QED BY <1>4, <1>5, <1>7, <1>8 DEF Reads, t1, e1

\* Every text reads back as it was written: "decoding can never match one that
\* spans two" escapes.
LEMMA TextReadsBack ==
  ASSUME NEW s \in Seq(Chars)
  PROVE  Encode(s) \in Seq(Chars) /\ Decode(Encode(s)) = s
<1> DEFINE G == {n \in Nat : \A r \in Seq(Chars) : Len(r) = n => Reads(r)}
<1>1. G \in SUBSET Nat
  OBVIOUS
<1>2. 0 \in G
  <2>1. \A r \in Seq(Chars) : Len(r) = 0 => r = <<>>
    BY EmptySeq
  <2> QED BY <2>1, ReadsNothing
<1>3. ASSUME NEW n \in G PROVE n + 1 \in G
  <2> SUFFICES ASSUME NEW r \in Seq(Chars), Len(r) = n + 1 PROVE Reads(r)
    OBVIOUS
  <2>1. n \in Nat /\ r # <<>>
    BY EmptySeq
  <2>2. PICK p \in Seq(Chars), x \in Chars : r = Append(p, x)
    BY <2>1, SequenceEmptyOrAppend
  <2>3. Len(p) = n
    BY <2>1, <2>2, AppendProperties, LenProperties
  <2>4. Reads(p) /\ IsLonger(r, p, x)
    BY <2>2, <2>3 DEF IsLonger
  <2> QED BY <2>4, ReadsPercent, ReadsSlash, ReadsPlain
<1>4. \A n \in Nat : n \in G
  <2> HIDE DEF G
  <2> QED BY <1>1, <1>2, <1>3, NatSetInduction
<1>5. Reads(s)
  BY <1>4, LenProperties
<1>6. Decode(Encode(s)) = Collapse(Collapse(Encode(s), Escaped("F"), "/"), Escaped("5"), "%")
  BY Zenon DEF Decode, Escaped
<1> QED BY <1>5, <1>6 DEF Reads


-----------------------------------------------------------------------------
(* blacklist: the rules of a thread *)

LEMMA FieldsKeep == ASSUME NEW s PROVE \E kept \in SUBSET DOMAIN s : Fields(s) = At(s, kept)
<1> DEFINE kept == {i \in DOMAIN s : s[i] = " " => /\ i > 1 /\ s[i - 1] # " "
                                                  /\ \E j \in i..Len(s) : s[j] # " "}
<1>1. Fields(s) = At(s, kept)
  BY Zenon DEF Fields
<1>2. kept \in SUBSET DOMAIN s
  BY Zenon
<1> QED BY <1>1, <1>2, Zenon

LEMMA NormalIsText == ASSUME NEW s \in Seq(Chars) PROVE Normalize(s) \in Seq(Chars)
<1> DEFINE c == Compose(s)
           l == Lower(c)
           sub == <<"x", "acute">>
           new == Collapsed(s, sub, "x-acute")
           kept == Kept(s, sub)
<1>1. c = At(new, kept)
  BY CollapseKeeps, Zenon DEF Compose
<1>2. Len(s) \in Nat /\ DOMAIN s = 1..Len(s) /\ \A i \in 1..Len(s) : s[i] \in Chars
  BY LenProperties
<1>3. kept \in SUBSET (1..Len(s))
  BY <1>2 DEF Kept
<1>4. \A i \in 1..Len(s) : new[i] \in Chars
  BY <1>2, Literals DEF Collapsed
<1>5. c \in Seq(Chars)
  <2> HIDE DEF c, new, kept
  <2>1. \A i \in kept : new[i] \in Chars
    BY <1>3, <1>4
  <2>2. Len(s) \in Nat
    BY <1>2
  <2> QED BY <1>1, <1>3, <2>1, <2>2, KeptIsText
<1> HIDE DEF c
<1>6. l \in Seq(Chars)
  <2>1. Len(c) \in Nat /\ DOMAIN c = 1..Len(c) /\ \A i \in 1..Len(c) : c[i] \in Chars
    BY <1>5, LenProperties
  <2>2. \A v \in DOMAIN Lowered : Lowered[v] \in Chars
    BY Literals DEF Lowered
  <2>3. \A i \in 1..Len(c) : (IF c[i] \in DOMAIN Lowered THEN Lowered[c[i]] ELSE c[i]) \in Chars
    BY <2>1, <2>2
  <2> QED BY <2>1, <2>3 DEF Lower
<1> HIDE DEF l
<1>7. PICK fields \in SUBSET DOMAIN l : Fields(l) = At(l, fields)
  BY FieldsKeep
<1>8. Fields(l) \in Seq(Chars)
  <2>1. Len(l) \in Nat /\ DOMAIN l = 1..Len(l) /\ \A i \in 1..Len(l) : l[i] \in Chars
    BY <1>6, LenProperties
  <2>2. fields \in SUBSET (1..Len(l)) /\ \A i \in fields : l[i] \in Chars
    BY <2>1
  <2> QED BY <1>7, <2>1, <2>2, KeptIsText
<1> QED BY <1>8 DEF Normalize, c, l

LEMMA RulesAreTexts == /\ \A r \in Rules : r \in Seq(Chars)
                       /\ \A s \in TypedRules : Normalized[s] \in Rules
                       /\ Checked \subseteq Seq(Chars)
<1>1. Seq(STRING) \subseteq Seq(Chars)
  BY SeqMonotonic DEF Chars
<1>2. \A s \in TypedRules : Normalize(s) \in Seq(Chars)
  BY <1>1, NormalIsText, TextAssumption
<1>3. Normalized = [s \in TypedRules |-> Normalize(s)] /\ Rules = {Normalized[s] : s \in DOMAIN Normalized}
  BY DEF Normalized, Rules, Range
<1>4. DOMAIN Normalized = TypedRules /\ \A s \in TypedRules : Normalized[s] = Normalize(s)
  BY <1>3
<1> QED BY <1>1, <1>2, <1>3, <1>4, TextAssumption

\* No id has the character that ends it in a key.
IdsOf(t) == /\ t.chat \in Seq(Chars) /\ t.thread \in Seq(Chars)
            /\ \A i \in 1..Len(t.chat) : t.chat[i] # ":"
            /\ \A i \in 1..Len(t.thread) : t.thread[i] # ":"
            /\ t = [chat |-> t.chat, thread |-> t.thread]

LEMMA ThreadsHaveIds == \A t \in Threads : IdsOf(t)
<1> SUFFICES ASSUME NEW p \in Places PROVE IdsOf(ThreadOf(p))
  BY DEF Threads
<1>1. Seq(STRING) \subseteq Seq(Chars)
  BY SeqMonotonic DEF Chars
<1>2. /\ p.chat \in Seq(STRING) /\ p.thread \in Seq(STRING)
      /\ ":" \notin Range(p.chat) /\ ":" \notin Range(p.thread)
  BY TextAssumption
<1>3. /\ \A i \in 1..Len(p.chat) : p.chat[i] # ":"
      /\ \A i \in 1..Len(p.thread) : p.thread[i] # ":"
  BY <1>2, LenProperties DEF Range
<1>4. <<"0">> \in Seq(Chars) /\ \A i \in 1..Len(<<"0">>) : <<"0">>[i] # ":"
  BY Literals
<1>5. PICK thread \in {p.thread, <<"0">>} : ThreadOf(p) = [chat |-> p.chat, thread |-> thread]
  BY DEF ThreadOf
<1> DEFINE t == ThreadOf(p)
<1>6. t = [chat |-> p.chat, thread |-> thread] /\ t.chat = p.chat /\ t.thread = thread
  BY <1>5
<1> HIDE DEF t
<1>7. t = [chat |-> t.chat, thread |-> t.thread]
  BY <1>6
<1>8. thread \in Seq(Chars) /\ \A i \in 1..Len(thread) : thread[i] # ":"
  BY <1>1, <1>2, <1>3, <1>4
<1>9. p.chat \in Seq(Chars)
  BY <1>1, <1>2
<1>10. t.chat \in Seq(Chars) /\ \A i \in 1..Len(t.chat) : t.chat[i] # ":"
  BY <1>3, <1>6, <1>9
<1>11. t.thread \in Seq(Chars) /\ \A i \in 1..Len(t.thread) : t.thread[i] # ":"
  BY <1>6, <1>8
<1> QED BY <1>7, <1>10, <1>11 DEF IdsOf, t

LEMMA Joined ==
  ASSUME NEW u \in Seq(Chars), NEW v \in Seq(Chars), NEW w, IsConcat(w, u, v)
  PROVE  /\ w \in Seq(Chars) /\ Len(u) \in Nat /\ Len(v) \in Nat /\ Len(w) = Len(u) + Len(v)
         /\ \A i \in 1..Len(u) : w[i] = u[i]
         /\ \A i \in 1..Len(v) : w[Len(u) + i] = v[i]
<1>1. w = u \o v /\ Len(u) \in Nat /\ Len(v) \in Nat
  BY LenProperties DEF IsConcat
<1>2. /\ w \in Seq(Chars) /\ Len(w) = Len(u) + Len(v)
      /\ \A i \in 1..Len(u) + Len(v) : w[i] = IF i <= Len(u) THEN u[i] ELSE v[i - Len(u)]
  BY <1>1, ConcatProperties
<1>3. ASSUME NEW i \in 1..Len(v) PROVE w[Len(u) + i] = v[i]
  <2>1. Len(u) + i \in 1..Len(u) + Len(v) /\ ~(Len(u) + i <= Len(u)) /\ Len(u) + i - Len(u) = i
    BY <1>1
  <2> QED BY <1>2, <2>1
<1> QED BY <1>1, <1>2, <1>3

LEMMA ScopeIs ==
  ASSUME NEW t, IdsOf(t), NEW l \in Lists
  PROVE  LET p == ScopePrefix(t, l) c == t.chat th == t.thread IN
         /\ p \in Seq(Chars) /\ Len(p) = Len(c) + Len(th) + 4
         /\ \A i \in 1..Len(c) : p[i] = c[i]
         /\ p[Len(c) + 1] = ":"
         /\ \A i \in 1..Len(th) : p[Len(c) + 1 + i] = th[i]
         /\ p[Len(c) + Len(th) + 2] = ":" /\ p[Len(c) + Len(th) + 3] = l
<1> DEFINE c == t.chat
           th == t.thread
           colon == <<":">>
           end == <<":", l, ":">>
<1>1. c \in Seq(Chars) /\ th \in Seq(Chars) /\ Len(c) \in Nat /\ Len(th) \in Nat
  BY LenProperties DEF IdsOf
<1>2. l \in Chars
  BY Literals DEF Lists
<1>3. colon \in Seq(Chars) /\ Len(colon) = 1 /\ colon[1] = ":"
  BY Literals
<1>4. end \in Seq(Chars) /\ Len(end) = 3 /\ end[1] = ":" /\ end[2] = l
  BY <1>2, Literals
<1>5. ScopePrefix(t, l) = ((c \o colon) \o th) \o end
  BY DEF ScopePrefix
<1> HIDE DEF c, th, colon, end
<1> DEFINE q == c \o colon
           v == q \o th
           p == v \o end
<1>0. IsConcat(q, c, colon) /\ IsConcat(v, q, th) /\ IsConcat(p, v, end)
  BY DEF IsConcat
<1> HIDE DEF q, v, p
<1>6. q \in Seq(Chars) /\ Len(q) = Len(c) + 1 /\ q[Len(c) + 1] = ":" /\ \A i \in 1..Len(c) : q[i] = c[i]
  <2>1. /\ q \in Seq(Chars) /\ Len(q) = Len(c) + Len(colon) /\ \A i \in 1..Len(c) : q[i] = c[i]
        /\ \A i \in 1..Len(colon) : q[Len(c) + i] = colon[i]
    <3>1. c \in Seq(Chars) /\ colon \in Seq(Chars) /\ IsConcat(q, c, colon)
      BY <1>0, <1>1, <1>3
    <3> QED BY <3>1, Joined
  <2>2. 1 \in 1..Len(colon)
    BY <1>3
  <2> QED BY <1>3, <2>1, <2>2
<1>7. /\ v \in Seq(Chars) /\ Len(v) = Len(c) + 1 + Len(th)
      /\ \A i \in 1..Len(c) + 1 : v[i] = q[i]
      /\ \A i \in 1..Len(th) : v[Len(c) + 1 + i] = th[i]
  BY <1>0, <1>1, <1>6, Joined
<1>8. /\ p \in Seq(Chars) /\ Len(p) = Len(c) + 1 + Len(th) + 3
      /\ \A i \in 1..Len(c) + 1 + Len(th) : p[i] = v[i]
      /\ p[Len(c) + 1 + Len(th) + 1] = ":" /\ p[Len(c) + 1 + Len(th) + 2] = l
  <2>1. /\ p \in Seq(Chars) /\ Len(p) = Len(v) + Len(end) /\ \A i \in 1..Len(v) : p[i] = v[i]
        /\ \A i \in 1..Len(end) : p[Len(v) + i] = end[i]
    <3>1. v \in Seq(Chars) /\ end \in Seq(Chars) /\ IsConcat(p, v, end)
      BY <1>0, <1>4, <1>7
    <3> QED BY <3>1, Joined
  <2>2. 1 \in 1..Len(end) /\ 2 \in 1..Len(end)
    BY <1>4
  <2> QED BY <1>4, <1>7, <2>1, <2>2
<1>9. Len(p) = Len(c) + Len(th) + 4
  BY <1>1, <1>8
<1>10. \A i \in 1..Len(c) : p[i] = c[i]
  BY <1>1, <1>6, <1>7, <1>8
<1>11. p[Len(c) + 1] = ":"
  BY <1>1, <1>6, <1>7, <1>8
<1>12. ASSUME NEW i \in 1..Len(th) PROVE p[Len(c) + 1 + i] = th[i]
  <2>1. Len(c) + 1 + i \in 1..Len(c) + 1 + Len(th)
    BY <1>1
  <2> QED BY <1>7, <1>8, <2>1
<1>13. p[Len(c) + Len(th) + 2] = ":" /\ p[Len(c) + Len(th) + 3] = l
  <2>1. Len(c) + Len(th) + 2 = Len(c) + 1 + Len(th) + 1 /\ Len(c) + Len(th) + 3 = Len(c) + 1 + Len(th) + 2
    BY <1>1
  <2> QED BY <1>8, <2>1
<1>14. p = ScopePrefix(t, l)
  BY <1>5 DEF p, v, q
<1> QED BY <1>8, <1>9, <1>10, <1>11, <1>12, <1>13, <1>14 DEF c, th


LEMMA PrefixIs ==
  ASSUME NEW p \in Seq(Chars), NEW k \in Seq(Chars), Len(p) <= Len(k), \A i \in 1..Len(p) : p[i] = k[i]
  PROVE  IsPrefix(p, k)
<1>1. /\ Len(p) \in Nat /\ Len(k) \in Nat
      /\ \A i \in 1..Len(p) : p[i] \in Chars
      /\ \A i \in 1..Len(k) : k[i] \in Chars
  BY LenProperties
<1> DEFINE u == SubSeq(p, 1, Len(p))
           v == SubSeq(k, 1, Len(p))
<1>2. u \in Seq(Chars) /\ Len(u) = Len(p) /\ \A i \in 1..Len(p) : u[i] = p[i]
  BY <1>1, SubSeqFull
<1>3. /\ v \in Seq(Chars) /\ Len(v) = IF 1 <= Len(p) THEN Len(p) - 1 + 1 ELSE 0
      /\ \A i \in 1..Len(p) - 1 + 1 : v[i] = k[1 + i - 1]
  <2>1. 1 \in Int /\ Len(p) \in Int /\ \A i \in 1..Len(p) : k[i] \in Chars
    BY <1>1
  <2> QED BY <2>1, SubSeqProperties
<1> HIDE DEF u, v
<1>4. Len(v) = Len(p) /\ \A i \in 1..Len(p) : v[i] = k[i]
  BY <1>1, <1>3
<1>5. u = v
  BY <1>1, <1>2, <1>3, <1>4, SeqEqual
<1> QED BY <1>1, <1>5 DEF IsPrefix, u, v

LEMMA PrefixAgrees ==
  ASSUME NEW p \in Seq(Chars), NEW k \in Seq(Chars), IsPrefix(p, k)
  PROVE  Len(p) <= Len(k) /\ \A i \in 1..Len(p) : p[i] = k[i]
<1>1. Len(p) \in Nat /\ Len(k) \in Nat /\ Len(p) <= Len(k) /\ SubSeq(p, 1, Len(p)) = SubSeq(k, 1, Len(p))
  BY LenProperties DEF IsPrefix
<1>2. SubSeq(p, 1, Len(p)) = p
  BY SubSeqFull
<1>3. \A i \in 1..Len(p) - 1 + 1 : SubSeq(k, 1, Len(p))[i] = k[1 + i - 1]
  <2>1. 1 \in Int /\ Len(p) \in Int /\ \A i \in 1..Len(p) : k[i] \in Chars
    BY <1>1, LenProperties
  <2> QED BY <2>1, SubSeqProperties
<1>4. ASSUME NEW i \in 1..Len(p) PROVE p[i] = k[i]
  <2>1. i \in 1..Len(p) - 1 + 1 /\ 1 + i - 1 = i
    BY <1>1
  <2> QED BY <1>1, <1>2, <1>3, <2>1
<1> QED BY <1>1, <1>4

\* The key of a rule and what List finds of it.
LEMMA KeyIs ==
  ASSUME NEW t, IdsOf(t), NEW l \in Lists, NEW r \in Seq(Chars)
  PROVE  LET p == ScopePrefix(t, l) k == EntryKey(t, l, r) IN
         /\ k \in Seq(Chars) /\ p \in Seq(Chars) /\ IsPrefix(p, k)
         /\ \A i \in 1..Len(p) : k[i] = p[i]
         /\ Decode(SubSeq(k, Len(p) + 1, Len(k))) = r
<1> DEFINE p == ScopePrefix(t, l)
           k == EntryKey(t, l, r)
           e == Encode(r)
<1>1. p \in Seq(Chars)
  BY ScopeIs
<1>2. e \in Seq(Chars) /\ Decode(e) = r
  BY TextReadsBack
<1>3. IsConcat(k, p, e)
  BY DEF EntryKey, IsConcat
<1> HIDE DEF p, k, e
<1>4. /\ k \in Seq(Chars) /\ Len(p) \in Nat /\ Len(e) \in Nat /\ Len(k) = Len(p) + Len(e)
      /\ \A i \in 1..Len(p) : k[i] = p[i]
      /\ \A i \in 1..Len(e) : k[Len(p) + i] = e[i]
  BY <1>1, <1>2, <1>3, Joined
<1>5. IsPrefix(p, k)
  BY <1>1, <1>4, PrefixIs
<1>6. SubSeq(k, Len(p) + 1, Len(k)) = e
  <2> DEFINE m == Len(p) + 1
             n == Len(k)
             rest == SubSeq(k, m, n)
  <2>1. m \in Int /\ n \in Int /\ n - m + 1 = Len(e) /\ \A i \in m..n : k[i] \in Chars
    <3>1. \A i \in 1..Len(k) : k[i] \in Chars
      BY <1>4, LenProperties
    <3> QED BY <1>4, <3>1
  <2>2. /\ rest \in Seq(Chars) /\ Len(rest) = IF m <= n THEN n - m + 1 ELSE 0
        /\ \A i \in 1..n - m + 1 : rest[i] = k[m + i - 1]
    <3> HIDE DEF m, n
    <3> QED BY <2>1, SubSeqProperties
  <2> HIDE DEF rest
  <2>3. Len(rest) = Len(e)
    BY <1>4, <2>1, <2>2
  <2>4. ASSUME NEW i \in 1..Len(e) PROVE rest[i] = e[i]
    <3>1. m + i - 1 = Len(p) + i
      BY <1>4
    <3> QED BY <1>4, <2>1, <2>2, <3>1
  <2>5. rest = e
    BY <1>2, <2>2, <2>3, <2>4, SeqEqual
  <2> QED BY <2>5 DEF rest
<1> QED BY <1>1, <1>2, <1>4, <1>5, <1>6 DEF p, k

\* "The third ':' always ends the prefix": a key is found under one thread and list.
LEMMA OneScope ==
  ASSUME NEW t, IdsOf(t), NEW u, IdsOf(u), NEW l \in Lists, NEW m \in Lists, NEW r \in Seq(Chars),
         IsPrefix(ScopePrefix(u, m), EntryKey(t, l, r))
  PROVE  t = u /\ l = m
<1> DEFINE p == ScopePrefix(t, l)
           q == ScopePrefix(u, m)
           k == EntryKey(t, l, r)
           c == t.chat
           d == u.chat
           g == t.thread
           th == u.thread
<1>1. /\ Len(c) \in Nat /\ Len(d) \in Nat /\ Len(g) \in Nat /\ Len(th) \in Nat
      /\ c \in Seq(Chars) /\ d \in Seq(Chars) /\ g \in Seq(Chars) /\ th \in Seq(Chars)
      /\ \A i \in 1..Len(c) : c[i] # ":"
      /\ \A i \in 1..Len(d) : d[i] # ":"
      /\ \A i \in 1..Len(g) : g[i] # ":"
      /\ \A i \in 1..Len(th) : th[i] # ":"
  BY LenProperties DEF IdsOf
<1>2. /\ Len(p) = Len(c) + Len(g) + 4
      /\ \A i \in 1..Len(c) : p[i] = c[i]
      /\ p[Len(c) + 1] = ":"
      /\ \A i \in 1..Len(g) : p[Len(c) + 1 + i] = g[i]
      /\ p[Len(c) + Len(g) + 2] = ":" /\ p[Len(c) + Len(g) + 3] = l
  BY ScopeIs
<1>3. /\ Len(q) = Len(d) + Len(th) + 4
      /\ \A i \in 1..Len(d) : q[i] = d[i]
      /\ q[Len(d) + 1] = ":"
      /\ \A i \in 1..Len(th) : q[Len(d) + 1 + i] = th[i]
      /\ q[Len(d) + Len(th) + 2] = ":" /\ q[Len(d) + Len(th) + 3] = m
      /\ q \in Seq(Chars)
  BY ScopeIs
<1>4. k \in Seq(Chars) /\ \A i \in 1..Len(p) : k[i] = p[i]
  BY KeyIs
<1>5. \A i \in 1..Len(q) : q[i] = k[i]
  BY <1>3, <1>4, PrefixAgrees
<1> HIDE DEF p, q, k, c, d, g, th
<1>6. \A i : i \in 1..Len(p) /\ i \in 1..Len(q) => p[i] = q[i]
  BY <1>4, <1>5
<1>7. Len(c) = Len(d)
  <2>1. ASSUME Len(c) < Len(d) PROVE FALSE
    <3>1. Len(c) + 1 \in 1..Len(d) /\ Len(c) + 1 \in 1..Len(p) /\ Len(c) + 1 \in 1..Len(q)
      BY <1>1, <1>2, <1>3, <2>1
    <3>2. p[Len(c) + 1] = ":" /\ q[Len(c) + 1] = d[Len(c) + 1] /\ d[Len(c) + 1] # ":"
      BY <1>1, <1>2, <1>3, <3>1
    <3> QED BY <1>6, <3>1, <3>2
  <2>2. ASSUME Len(d) < Len(c) PROVE FALSE
    <3>1. Len(d) + 1 \in 1..Len(c) /\ Len(d) + 1 \in 1..Len(p) /\ Len(d) + 1 \in 1..Len(q)
      BY <1>1, <1>2, <1>3, <2>2
    <3>2. p[Len(d) + 1] = c[Len(d) + 1] /\ c[Len(d) + 1] # ":" /\ q[Len(d) + 1] = ":"
      BY <1>1, <1>2, <1>3, <3>1
    <3> QED BY <1>6, <3>1, <3>2
  <2> QED BY <1>1, <2>1, <2>2
<1>8. c = d
  <2>1. ASSUME NEW i \in 1..Len(c) PROVE c[i] = d[i]
    <3>1. i \in 1..Len(d) /\ i \in 1..Len(p) /\ i \in 1..Len(q)
      BY <1>1, <1>2, <1>3, <1>7
    <3> QED BY <1>2, <1>3, <1>6, <3>1
  <2> QED BY <1>1, <1>7, <2>1, SeqEqual
<1>9. Len(g) = Len(th)
  <2>1. ASSUME Len(g) < Len(th) PROVE FALSE
    <3>1. /\ Len(g) + 1 \in 1..Len(th) /\ Len(c) + 1 + (Len(g) + 1) = Len(c) + Len(g) + 2
          /\ Len(c) + Len(g) + 2 \in 1..Len(p) /\ Len(c) + Len(g) + 2 \in 1..Len(q)
      BY <1>1, <1>2, <1>3, <1>7, <2>1
    <3>2. q[Len(c) + 1 + (Len(g) + 1)] = th[Len(g) + 1]
      BY <1>3, <1>7, <3>1
    <3> QED BY <1>1, <1>2, <1>6, <3>1, <3>2
  <2>2. ASSUME Len(th) < Len(g) PROVE FALSE
    <3>1. /\ Len(th) + 1 \in 1..Len(g) /\ Len(c) + 1 + (Len(th) + 1) = Len(d) + Len(th) + 2
          /\ Len(d) + Len(th) + 2 \in 1..Len(p) /\ Len(d) + Len(th) + 2 \in 1..Len(q)
      BY <1>1, <1>2, <1>3, <1>7, <2>2
    <3>2. p[Len(c) + 1 + (Len(th) + 1)] = g[Len(th) + 1]
      BY <1>2, <3>1
    <3> QED BY <1>1, <1>3, <1>6, <3>1, <3>2
  <2> QED BY <1>1, <2>1, <2>2
<1>10. g = th
  <2>1. ASSUME NEW i \in 1..Len(g) PROVE g[i] = th[i]
    <3>1. i \in 1..Len(th) /\ Len(c) + 1 + i \in 1..Len(p) /\ Len(c) + 1 + i \in 1..Len(q)
      BY <1>1, <1>2, <1>3, <1>7, <1>9
    <3>2. p[Len(c) + 1 + i] = g[i] /\ q[Len(c) + 1 + i] = th[i]
      BY <1>2, <1>3, <1>7, <3>1
    <3> QED BY <1>6, <3>1, <3>2
  <2> QED BY <1>1, <1>9, <2>1, SeqEqual
<1>11. l = m
  <2>1. Len(c) + Len(g) + 3 \in 1..Len(p) /\ Len(c) + Len(g) + 3 \in 1..Len(q)
    BY <1>1, <1>2, <1>3, <1>7, <1>9
  <2> QED BY <1>2, <1>3, <1>6, <1>7, <1>9, <2>1
<1>12. t = u
  BY <1>8, <1>10 DEF IdsOf, c, d, g, th
<1> QED BY <1>11, <1>12


LEMMA RuleKeyIs ==
  /\ \A x \in Threads \X Lists, r \in Rules :
       RuleKey[<<x, r>>] = EntryKey(x[1], x[2], r) /\ RuleKey[<<x, r>>] \in Range(RuleKey)
  /\ \A k \in Range(RuleKey) : \E x \in Threads \X Lists, r \in Rules : k = RuleKey[<<x, r>>]
<1>1. DOMAIN RuleKey = (Threads \X Lists) \X Rules
  BY DEF RuleKey
<1>2. ASSUME NEW x \in Threads \X Lists, NEW r \in Rules
      PROVE  RuleKey[<<x, r>>] = EntryKey(x[1], x[2], r) /\ RuleKey[<<x, r>>] \in Range(RuleKey)
  <2>1. <<x, r>> \in DOMAIN RuleKey
    BY <1>1
  <2>2. RuleKey[<<x, r>>] = EntryKey(x[1], x[2], r)
    BY DEF RuleKey
  <2> QED BY <2>1, <2>2 DEF Range
<1>3. ASSUME NEW k \in Range(RuleKey)
      PROVE  \E x \in Threads \X Lists, r \in Rules : k = RuleKey[<<x, r>>]
  <2>1. PICK y \in (Threads \X Lists) \X Rules : k = RuleKey[y]
    BY <1>1 DEF Range
  <2>2. y = <<y[1], y[2]>> /\ y[1] \in Threads \X Lists /\ y[2] \in Rules
    OBVIOUS
  <2>3. k = RuleKey[y[1], y[2]]
    BY <2>1, <2>2
  <2> QED BY <2>2, <2>3
<1> QED BY <1>2, <1>3

\* What is stored of a thread's list is what List finds of it.
LEMMA EntriesAreRules ==
  ASSUME BlacklistTypeOK, NEW x \in Threads \X Lists
  PROVE  EntriesFor(x[1], x[2]) = {r \in Rules : RuleKey[<<x, r>>] \in keys}
<1> DEFINE t == x[1]
           l == x[2]
           p == ScopePrefix(t, l)
           TextOf(k) == Decode(SubSeq(k, Len(p) + 1, Len(k)))
<1>1. t \in Threads /\ l \in Lists /\ x = <<t, l>> /\ IdsOf(t)
  BY ThreadsHaveIds
<1>2. EntriesFor(t, l) = {TextOf(k) : k \in {j \in keys : IsPrefix(p, j)}}
  BY DEF EntriesFor
<1>3. ASSUME NEW r \in Rules
      PROVE  LET k == RuleKey[<<x, r>>] IN IsPrefix(p, k) /\ TextOf(k) = r
  <2>1. RuleKey[<<x, r>>] = EntryKey(t, l, r)
    BY RuleKeyIs
  <2>2. r \in Seq(Chars)
    BY RulesAreTexts
  <2>3. IsPrefix(p, EntryKey(t, l, r)) /\ TextOf(EntryKey(t, l, r)) = r
    BY <1>1, <2>2, KeyIs
  <2> HIDE DEF TextOf, p
  <2> QED BY <2>1, <2>3
<1>4. ASSUME NEW k \in keys, IsPrefix(p, k)
      PROVE  \E r \in Rules : k = RuleKey[<<x, r>>]
  <2>1. k \in Range(RuleKey)
    BY DEF BlacklistTypeOK
  <2>2. PICK y \in Threads \X Lists, r \in Rules : k = RuleKey[<<y, r>>]
    BY <2>1, RuleKeyIs
  <2>3. RuleKey[<<y, r>>] = EntryKey(y[1], y[2], r)
    BY RuleKeyIs
  <2>4. y[1] \in Threads /\ y[2] \in Lists /\ y = <<y[1], y[2]>> /\ IdsOf(y[1]) /\ r \in Seq(Chars)
    BY ThreadsHaveIds, RulesAreTexts
  <2>5. IsPrefix(ScopePrefix(t, l), EntryKey(y[1], y[2], r))
    BY <1>4, <2>2, <2>3
  <2>6. y[1] = t /\ y[2] = l
    BY <1>1, <2>4, <2>5, OneScope
  <2> QED BY <1>1, <2>2, <2>4, <2>6
<1> HIDE DEF TextOf, p, t, l
<1>5. ASSUME NEW r \in Rules, RuleKey[<<x, r>>] \in keys PROVE r \in EntriesFor(t, l)
  BY <1>2, <1>3, <1>5
<1>6. ASSUME NEW r \in EntriesFor(t, l) PROVE r \in Rules /\ RuleKey[<<x, r>>] \in keys
  <2>1. PICK k \in keys : IsPrefix(p, k) /\ r = TextOf(k)
    BY <1>2
  <2>2. PICK q \in Rules : k = RuleKey[<<x, q>>]
    BY <1>4, <2>1
  <2> QED BY <1>3, <2>1, <2>2
<1> QED BY <1>5, <1>6 DEF t, l

LEMMA KeysAreApart ==
  ASSUME NEW x \in Threads \X Lists, NEW y \in Threads \X Lists, NEW r \in Rules, NEW q \in Rules,
         RuleKey[<<x, r>>] = RuleKey[<<y, q>>]
  PROVE  x = y /\ r = q
<1>0. /\ x[1] \in Threads /\ x[2] \in Lists /\ x = <<x[1], x[2]>>
      /\ y[1] \in Threads /\ y[2] \in Lists /\ y = <<y[1], y[2]>>
  <2>1. x[1] \in Threads /\ x[2] \in Lists /\ x = <<x[1], x[2]>>
    OBVIOUS
  <2>2. y[1] \in Threads /\ y[2] \in Lists /\ y = <<y[1], y[2]>>
    OBVIOUS
  <2> QED BY <2>1, <2>2
<1>1. IdsOf(x[1]) /\ IdsOf(y[1]) /\ r \in Seq(Chars) /\ q \in Seq(Chars)
  BY <1>0, ThreadsHaveIds, RulesAreTexts
<1>2. EntryKey(x[1], x[2], r) = EntryKey(y[1], y[2], q)
  <2>1. RuleKey[<<x, r>>] = EntryKey(x[1], x[2], r)
    BY RuleKeyIs
  <2>2. RuleKey[<<y, q>>] = EntryKey(y[1], y[2], q)
    BY RuleKeyIs
  <2> QED BY <2>1, <2>2
<1>3. IsPrefix(ScopePrefix(x[1], x[2]), EntryKey(x[1], x[2], r))
  BY <1>0, <1>1, KeyIs
<1>4. y[1] = x[1] /\ y[2] = x[2]
  <2>1. IsPrefix(ScopePrefix(x[1], x[2]), EntryKey(y[1], y[2], q))
    BY <1>2, <1>3
  <2>2. x[2] \in Lists /\ y[2] \in Lists /\ IdsOf(x[1]) /\ IdsOf(y[1]) /\ q \in Seq(Chars)
    BY <1>0, <1>1
  <2> QED BY <2>1, <2>2, OneScope
<1> DEFINE p == ScopePrefix(x[1], x[2])
           k == EntryKey(x[1], x[2], r)
<1>5. Decode(SubSeq(k, Len(p) + 1, Len(k))) = r
  BY <1>0, <1>1, KeyIs
<1>6. Decode(SubSeq(k, Len(p) + 1, Len(k))) = q
  <2>1. k = EntryKey(x[1], x[2], q)
    BY <1>2, <1>4
  <2> HIDE DEF k
  <2> QED BY <1>0, <1>1, <2>1, KeyIs
<1> QED BY <1>0, <1>4, <1>5, <1>6

\* Where no write is in doubt, the keys are the rules the user was told of.
KeysAreBelieved == \A x \in Threads \X Lists, r \in Rules :
  <<x, r>> \notin unsure => (RuleKey[<<x, r>>] \in keys <=> r \in believed[x])

BlacklistInv == BlacklistTypeOK /\ KeysAreBelieved

LEMMA OutcomeKeepsInv ==
  ASSUME BlacklistInv, NEW x \in Threads \X Lists, NEW r \in Rules, NEW new, NEW said,
         \/ new = keys \cup {RuleKey[<<x, r>>]} /\ said = believed[x] \cup {r}
         \/ new = keys \ {RuleKey[<<x, r>>]} /\ said = believed[x] \ {r},
         Outcome(x, r, new, said)
  PROVE  BlacklistInv'
<1> USE DEF BlacklistInv, BlacklistTypeOK
<1>1. RuleKey[<<x, r>>] \in Range(RuleKey)
  BY RuleKeyIs
<1>2. new \subseteq Range(RuleKey) /\ said \subseteq Rules
  BY <1>1
<1>3. ASSUME NEW y \in Threads \X Lists, NEW q \in Rules, <<y, q>> # <<x, r>>
      PROVE  /\ RuleKey[<<y, q>>] \in new <=> RuleKey[<<y, q>>] \in keys
             /\ y = x => (q \in said <=> q \in believed[x])
  <2>1. RuleKey[<<y, q>>] # RuleKey[<<x, r>>]
    <3>1. ASSUME RuleKey[<<y, q>>] = RuleKey[<<x, r>>] PROVE FALSE
      <4>1. y = x /\ q = r
        BY <3>1, KeysAreApart
      <4> QED BY <1>3, <4>1
    <3> QED BY <3>1
  <2>2. y = x => q # r
    BY <1>3
  <2> QED BY <2>1, <2>2
<1>4. RuleKey[<<x, r>>] \in new <=> r \in said
  OBVIOUS
<1>5. CASE keys' = new /\ believed' = [believed EXCEPT ![x] = said] /\ unsure' = unsure \ {<<x, r>>}
  <2>1. BlacklistTypeOK'
    BY <1>2, <1>5
  <2>2. ASSUME NEW y \in Threads \X Lists, NEW q \in Rules, <<y, q>> \notin unsure'
        PROVE  RuleKey[<<y, q>>] \in keys' <=> q \in believed'[y]
    <3>1. CASE y = x /\ q = r
      BY <1>4, <1>5, <3>1
    <3>2. CASE ~(y = x /\ q = r)
      <4>1. <<y, q>> \notin unsure /\ <<y, q>> # <<x, r>>
        BY <1>5, <2>2, <3>2
      <4>2. RuleKey[<<y, q>>] \in keys <=> q \in believed[y]
        BY <4>1 DEF KeysAreBelieved
      <4>3. q \in believed'[y] <=> q \in believed[y]
        BY <1>3, <1>5, <4>1
      <4> QED BY <1>3, <1>5, <4>1, <4>2, <4>3
    <3> QED BY <3>1, <3>2
  <2> QED BY <2>1, <2>2 DEF KeysAreBelieved
<1>6. CASE keys' \in {keys, new} /\ unsure' = unsure \cup {<<x, r>>} /\ UNCHANGED believed
  <2>1. BlacklistTypeOK'
    <3>1. <<x, r>> \in (Threads \X Lists) \X Rules
      OBVIOUS
    <3> QED BY <1>2, <1>6, <3>1
  <2>2. ASSUME NEW y \in Threads \X Lists, NEW q \in Rules, <<y, q>> \notin unsure'
        PROVE  RuleKey[<<y, q>>] \in keys' <=> q \in believed'[y]
    <3>1. <<y, q>> \notin unsure /\ <<y, q>> # <<x, r>>
      BY <1>6, <2>2
    <3>2. RuleKey[<<y, q>>] \in keys <=> q \in believed[y]
      BY <3>1 DEF KeysAreBelieved
    <3> QED BY <1>3, <1>6, <3>1, <3>2
  <2> QED BY <2>1, <2>2 DEF KeysAreBelieved
<1> QED BY <1>5, <1>6 DEF Outcome

LEMMA BlacklistStep == BlacklistInv /\ [BlacklistNext]_ruleVars => BlacklistInv'
<1> SUFFICES ASSUME BlacklistInv, [BlacklistNext]_ruleVars PROVE BlacklistInv'
  OBVIOUS
<1>1. CASE UNCHANGED ruleVars
  BY <1>1 DEF ruleVars, BlacklistInv, BlacklistTypeOK, KeysAreBelieved
<1>2. ASSUME NEW p \in Places, NEW l \in Lists, NEW s \in TypedRules,
             RuleAdded(p, l, s) \/ RuleDeleted(p, l, s) \/ RuleAnswered(p, l, s)
      PROVE  BlacklistInv'
  <2> DEFINE x == <<ThreadOf(p), l>>
             r == Normalized[s]
  <2>1. x \in Threads \X Lists /\ r \in Rules
    BY RulesAreTexts DEF Threads
  <2>2. CASE RuleAdded(p, l, s)
    <3>1. Outcome(x, r, keys \cup {RuleKey[<<x, r>>]}, believed[x] \cup {r})
      BY <2>2 DEF RuleAdded
    <3> HIDE DEF x, r
    <3> QED BY <2>1, <3>1, OutcomeKeepsInv
  <2>3. CASE RuleDeleted(p, l, s)
    <3>1. Outcome(x, r, keys \ {RuleKey[<<x, r>>]}, believed[x] \ {r})
      BY <2>3 DEF RuleDeleted
    <3> HIDE DEF x, r
    <3> QED BY <2>1, <3>1, OutcomeKeepsInv
  <2>4. CASE RuleAnswered(p, l, s)
    <3>1. /\ unsure' = unsure \ {<<x, r>>} /\ UNCHANGED keys
          /\ believed' = [believed EXCEPT ![x] =
                            IF RuleKey[<<x, r>>] \in keys THEN believed[x] \cup {r} ELSE believed[x] \ {r}]
      BY <2>4 DEF RuleAnswered
    <3> HIDE DEF x, r
    <3> USE DEF BlacklistInv, BlacklistTypeOK
    <3>2. BlacklistTypeOK'
      BY <2>1, <3>1
    <3>3. ASSUME NEW y \in Threads \X Lists, NEW q \in Rules, <<y, q>> \notin unsure'
          PROVE  RuleKey[<<y, q>>] \in keys' <=> q \in believed'[y]
      <4>1. CASE y = x /\ q = r
        BY <2>1, <3>1, <4>1
      <4>2. CASE ~(y = x /\ q = r)
        <5>1. <<y, q>> \notin unsure
          BY <3>1, <3>3, <4>2
        <5>2. RuleKey[<<y, q>>] \in keys <=> q \in believed[y]
          BY <5>1 DEF KeysAreBelieved
        <5>3. q \in believed'[y] <=> q \in believed[y]
          BY <2>1, <3>1, <4>2
        <5> QED BY <3>1, <5>2, <5>3
      <4> QED BY <4>1, <4>2
    <3> QED BY <3>2, <3>3 DEF KeysAreBelieved
  <2> QED BY <1>2, <2>2, <2>3, <2>4
<1> QED BY <1>1, <1>2 DEF BlacklistNext

LEMMA BlacklistInitInv == BlacklistInit => BlacklistInv
  BY DEF BlacklistInit, BlacklistInv, BlacklistTypeOK, KeysAreBelieved

LEMMA RulesStay == BlacklistInv => RulesStayInThread
<1> SUFFICES ASSUME BlacklistInv, NEW x \in Threads \X Lists
             PROVE  EntriesFor(x[1], x[2]) \ Doubts(x) = believed[x] \ Doubts(x)
  BY DEF RulesStayInThread
<1>1. EntriesFor(x[1], x[2]) = {r \in Rules : RuleKey[<<x, r>>] \in keys}
  BY EntriesAreRules DEF BlacklistInv
<1>2. believed[x] \subseteq Rules
  BY DEF BlacklistInv, BlacklistTypeOK
<1>3. \A r \in Rules : r \notin Doubts(x) => <<x, r>> \notin unsure
  BY DEF Doubts
<1> QED BY <1>1, <1>2, <1>3 DEF BlacklistInv, KeysAreBelieved

\* The part of the rules is what BlacklistSpec says, the other parts leave it alone.
LEMMA BlacklistPart == CommandsSpec => []BlacklistInv
<1>1. CommandsInit => BlacklistInv
  BY BlacklistInitInv DEF CommandsInit
<1>2. BlacklistInv /\ [CommandsNext]_commandVars => BlacklistInv'
  <2>1. [CommandsNext]_commandVars => [BlacklistNext]_ruleVars
    BY DEF CommandsNext, commandVars
  <2> QED BY <2>1, BlacklistStep
<1> QED BY <1>1, <1>2, PTL DEF CommandsSpec

\* The rules of a thread's list are the texts it was told were added there and
\* not removed, however ids and texts look (scope.go: "the third ':' always ends
\* the prefix even though entry text may contain ':'").
THEOREM ThreadRulesAreKeptCorrect == CommandsSpec => []ThreadRulesAreKept
<1>1. BlacklistInv => ThreadRulesAreKept
  BY RulesStay DEF ThreadRulesAreKept
<1> QED BY <1>1, BlacklistPart, PTL

\* b is what text has at position i.
OccursAt(body, b, i) == /\ i + Len(b) <= Len(body) + 1
                        /\ \A n \in 1..Len(b) : b[n] = body[i + n - 1]

LEMMA PartIs ==
  ASSUME NEW body \in Seq(Chars), NEW m \in 1..Len(body), NEW n \in m..Len(body), NEW u,
         u = SubSeq(body, m, n)
  PROVE  u \in Seq(Chars) /\ Len(u) = n - m + 1 /\ \A i \in 1..n - m + 1 : u[i] = body[m + i - 1]
<1>1. m \in Int /\ n \in Int /\ m <= n /\ \A i \in m..n : body[i] \in Chars
  BY LenProperties
<1> QED BY <1>1, SubSeqProperties

LEMMA StartsAt ==
  ASSUME NEW body \in Seq(Chars), NEW b \in Seq(Chars), NEW i \in 1..Len(body)
  PROVE  IsPrefix(b, SubSeq(body, i, Len(body))) <=> OccursAt(body, b, i)
<1> DEFINE u == SubSeq(body, i, Len(body))
<1>1. Len(body) \in Nat /\ Len(b) \in Nat
  BY LenProperties
<1>2. /\ u \in Seq(Chars) /\ Len(u) = Len(body) - i + 1
      /\ \A n \in 1..Len(body) - i + 1 : u[n] = body[i + n - 1]
  <2>1. Len(body) \in i..Len(body)
    BY <1>1
  <2> QED BY <2>1, PartIs
<1> HIDE DEF u
<1>3. ASSUME IsPrefix(b, u) PROVE OccursAt(body, b, i)
  <2>1. Len(b) <= Len(u) /\ \A n \in 1..Len(b) : b[n] = u[n]
    BY <1>2, <1>3, PrefixAgrees
  <2> QED BY <1>1, <1>2, <2>1 DEF OccursAt
<1>4. ASSUME OccursAt(body, b, i) PROVE IsPrefix(b, u)
  <2>1. Len(b) <= Len(u) /\ \A n \in 1..Len(b) : b[n] = u[n]
    BY <1>1, <1>2, <1>4 DEF OccursAt
  <2> QED BY <1>2, <2>1, PrefixIs
<1> QED BY <1>3, <1>4 DEF u

LEMMA FoundAt ==
  ASSUME NEW body \in Seq(Chars), NEW b \in Seq(Chars), b # <<>>, NEW i \in 1..Len(body)
  PROVE  OccursAt(body, b, i) <=> i \in 1..Len(body) - Len(b) + 1 /\ SubSeq(body, i, i + Len(b) - 1) = b
<1> DEFINE u == SubSeq(body, i, i + Len(b) - 1)
<1>1. Len(body) \in Nat /\ Len(b) \in Nat /\ Len(b) > 0
  BY LenProperties, EmptySeq
<1>2. ASSUME i \in 1..Len(body) - Len(b) + 1
      PROVE  u \in Seq(Chars) /\ Len(u) = Len(b) /\ \A n \in 1..Len(b) : u[n] = body[i + n - 1]
  <2>1. i + Len(b) - 1 \in i..Len(body) /\ i + Len(b) - 1 - i + 1 = Len(b)
    BY <1>1, <1>2
  <2> DEFINE e == i + Len(b) - 1
  <2>2. u \in Seq(Chars) /\ Len(u) = e - i + 1 /\ \A n \in 1..e - i + 1 : u[n] = body[i + n - 1]
    <3>1. e \in i..Len(body) /\ u = SubSeq(body, i, e)
      BY <2>1
    <3> HIDE DEF e, u
    <3> QED BY <3>1, PartIs
  <2> QED BY <2>1, <2>2
<1> HIDE DEF u
<1>3. ASSUME OccursAt(body, b, i) PROVE i \in 1..Len(body) - Len(b) + 1 /\ u = b
  <2>1. i \in 1..Len(body) - Len(b) + 1 /\ \A n \in 1..Len(b) : b[n] = body[i + n - 1]
    BY <1>1, <1>3 DEF OccursAt
  <2> QED BY <1>2, <2>1, SeqEqual
<1>4. ASSUME i \in 1..Len(body) - Len(b) + 1, u = b PROVE OccursAt(body, b, i)
  BY <1>1, <1>2, <1>4 DEF OccursAt
<1> QED BY <1>3, <1>4 DEF u

SpanAt(b, i) == [start |-> i, end |-> i + Len(b)]

LEMMA OccurrencesAre ==
  ASSUME NEW body \in Seq(Chars), NEW b \in Seq(Chars)
  PROVE  /\ b = <<>> => Occurrences(body, b) = {}
         /\ b # <<>> => Occurrences(body, b) = {SpanAt(b, i) : i \in {j \in 1..Len(body) : OccursAt(body, b, j)}}
<1>1. CASE b = <<>>
  BY <1>1, Zenon DEF Occurrences
<1>2. CASE b # <<>>
  <2>1. Len(body) \in Nat /\ Len(b) \in Nat /\ Len(b) > 0
    BY <1>2, LenProperties, EmptySeq
  <2> DEFINE starts == {j \in 1..(Len(body) - Len(b) + 1) : SubSeq(body, j, j + Len(b) - 1) = b}
             here == {j \in 1..Len(body) : OccursAt(body, b, j)}
  <2>2. Occurrences(body, b) = {SpanAt(b, i) : i \in starts}
    BY <1>2, Zenon DEF Occurrences, SpanAt
  <2>3. starts = here
    <3>1. \A j \in 1..Len(body) - Len(b) + 1 : j \in 1..Len(body)
      BY <2>1
    <3>2. \A j \in 1..Len(body) :
            OccursAt(body, b, j) <=> j \in 1..Len(body) - Len(b) + 1 /\ SubSeq(body, j, j + Len(b) - 1) = b
      BY <1>2, FoundAt
    <3> QED BY <3>1, <3>2, Zenon
  <2> QED BY <1>2, <2>2, <2>3, Zenon
<1> QED BY <1>1, <1>2

\* An exception covers a forbidden text just when it is there and reaches as far.
LEMMA CoveredIs ==
  ASSUME NEW body \in Seq(Chars), NEW white \in SUBSET Seq(Chars), NEW b \in Seq(Chars), b # <<>>,
         NEW i \in 1..Len(body)
  PROVE  CoveredBy(SpanAt(b, i), UNION {Occurrences(body, w) : w \in white})
           <=> \E w \in white, j \in 1..i : /\ IsPrefix(w, SubSeq(body, j, Len(body)))
                                            /\ i + Len(b) <= j + Len(w)
<1> DEFINE allowed == UNION {Occurrences(body, w) : w \in white}
           Reaches(w, j) == OccursAt(body, w, j) /\ i + Len(b) <= j + Len(w)
<1>1. Len(b) \in Nat /\ Len(b) > 0 /\ Len(body) \in Nat
  BY LenProperties, EmptySeq
<1>2. SpanAt(b, i).start = i /\ SpanAt(b, i).end = i + Len(b)
  BY DEF SpanAt
<1>3. ASSUME NEW a \in allowed, a.start <= i, i + Len(b) <= a.end
      PROVE  \E w \in white, j \in 1..i : Reaches(w, j)
  <2>1. PICK w \in white : a \in Occurrences(body, w)
    BY <1>3
  <2>2. PICK j \in 1..Len(body) : OccursAt(body, w, j) /\ a = SpanAt(w, j)
    BY <2>1, OccurrencesAre
  <2>3. a.start = j /\ a.end = j + Len(w)
    BY <2>2 DEF SpanAt
  <2> QED BY <1>3, <2>2, <2>3
<1>4. ASSUME NEW w \in white, NEW j \in 1..i, Reaches(w, j)
      PROVE  \E a \in allowed : a.start <= i /\ i + Len(b) <= a.end
  <2>1. w # <<>>
    <3>1. ASSUME w = <<>> PROVE FALSE
      <4>1. Len(w) = 0
        BY <3>1
      <4> QED BY <1>1, <1>4, <4>1
    <3> QED BY <3>1
  <2>2. j \in 1..Len(body)
    BY <1>1
  <2>3. SpanAt(w, j) \in Occurrences(body, w)
    BY <1>4, <2>1, <2>2, OccurrencesAre
  <2>4. SpanAt(w, j).start = j /\ SpanAt(w, j).end = j + Len(w)
    BY DEF SpanAt
  <2> QED BY <1>4, <2>3, <2>4
<1>5. \A w \in white, j \in 1..i : IsPrefix(w, SubSeq(body, j, Len(body))) <=> OccursAt(body, w, j)
  <2> SUFFICES ASSUME NEW w \in white, NEW j \in 1..i
               PROVE  IsPrefix(w, SubSeq(body, j, Len(body))) <=> OccursAt(body, w, j)
    OBVIOUS
  <2>1. j \in 1..Len(body)
    BY <1>1
  <2> QED BY <2>1, StartsAt
<1>6. CoveredBy(SpanAt(b, i), allowed) <=> \E a \in allowed : a.start <= i /\ i + Len(b) <= a.end
  BY <1>2 DEF CoveredBy
<1> HIDE DEF allowed
<1>7. CoveredBy(SpanAt(b, i), allowed) <=> \E w \in white, j \in 1..i : Reaches(w, j)
  BY <1>3, <1>4, <1>6
<1> QED BY <1>5, <1>7 DEF allowed

LEMMA BlockedIsForbidden ==
  ASSUME NEW body \in Seq(Chars), NEW black \in SUBSET Seq(Chars), NEW white \in SUBSET Seq(Chars)
  PROVE  (\E s \in UNION {Occurrences(body, b) : b \in black} :
             ~CoveredBy(s, UNION {Occurrences(body, w) : w \in white}))
           <=> Forbidden(body, black, white)
<1> DEFINE found == UNION {Occurrences(body, b) : b \in black}
           allowed == UNION {Occurrences(body, w) : w \in white}
           Rescued(b, i) == \E w \in white, j \in 1..i : /\ IsPrefix(w, SubSeq(body, j, Len(body)))
                                                         /\ i + Len(b) <= j + Len(w)
           Starts(b, i) == IsPrefix(b, SubSeq(body, i, Len(body)))
<1>1. DOMAIN body = 1..Len(body)
  BY LenProperties
<1>2. \A b \in black : b # <<>> => \A i \in 1..Len(body) :
        /\ Starts(b, i) <=> OccursAt(body, b, i)
        /\ CoveredBy(SpanAt(b, i), allowed) <=> Rescued(b, i)
  BY StartsAt, CoveredIs
<1>3. Forbidden(body, black, white)
        <=> \E b \in black : b # <<>> /\ \E i \in 1..Len(body) : Starts(b, i) /\ ~Rescued(b, i)
  BY <1>1, Zenon DEF Forbidden
<1> HIDE DEF allowed, Rescued, Starts
<1>4. ASSUME NEW s \in found, ~CoveredBy(s, allowed) PROVE Forbidden(body, black, white)
  <2>1. PICK b \in black : s \in Occurrences(body, b)
    BY <1>4
  <2>2. b # <<>> /\ \E i \in 1..Len(body) : OccursAt(body, b, i) /\ s = SpanAt(b, i)
    BY <2>1, OccurrencesAre
  <2> QED BY <1>2, <1>3, <1>4, <2>2
<1>5. ASSUME Forbidden(body, black, white) PROVE \E s \in found : ~CoveredBy(s, allowed)
  <2>1. PICK b \in black, i \in 1..Len(body) : b # <<>> /\ Starts(b, i) /\ ~Rescued(b, i)
    BY <1>3, <1>5
  <2>2. SpanAt(b, i) \in Occurrences(body, b)
    BY <1>2, <2>1, OccurrencesAre
  <2> QED BY <1>2, <2>1, <2>2
<1> QED BY <1>4, <1>5 DEF allowed

LEMMA VerdictIs ==
  ASSUME NEW body \in Seq(Chars), NEW black \in SUBSET Seq(Chars), NEW white \in SUBSET Seq(Chars)
  PROVE  LET v == Verdict(body, black, white)
         IN  /\ (v = "blocked") = Forbidden(body, black, white)
             /\ (v = "clear") = ~Forbidden(body, black, {})
<1> DEFINE found == UNION {Occurrences(body, b) : b \in black}
           allowed == UNION {Occurrences(body, w) : w \in white}
           Bare == \E s \in found : ~CoveredBy(s, allowed)
           v == Verdict(body, black, white)
<1>1. Bare <=> Forbidden(body, black, white)
  BY BlockedIsForbidden
<1>2. found # {} <=> Forbidden(body, black, {})
  <2>1. (\E s \in found : ~CoveredBy(s, UNION {Occurrences(body, w) : w \in {}})) <=> Forbidden(body, black, {})
    <3>1. {} \in SUBSET Seq(Chars)
      OBVIOUS
    <3> QED BY <3>1, BlockedIsForbidden
  <2>2. \A s : ~CoveredBy(s, UNION {Occurrences(body, w) : w \in {}})
    BY DEF CoveredBy
  <2> QED BY <2>1, <2>2
<1>3. v = IF Bare THEN "blocked" ELSE IF found # {} THEN "rescued" ELSE "clear"
  BY Zenon DEF Verdict
<1>4. Bare => found # {}
  OBVIOUS
<1> HIDE DEF Bare, found, v
<1>5. (v = "blocked") <=> Forbidden(body, black, white)
  BY <1>1, <1>3
<1>6. (v = "clear") <=> ~Forbidden(body, black, {})
  BY <1>2, <1>3, <1>4
<1>7. Forbidden(body, black, white) \in BOOLEAN /\ Forbidden(body, black, {}) \in BOOLEAN
  BY DEF Forbidden
<1> QED BY <1>5, <1>6, <1>7 DEF v

LEMMA VerdictsAreRight == BlacklistInv => VerdictIsRight
<1> SUFFICES ASSUME BlacklistInv, NEW t \in Threads, Doubts(<<t, "b">>) \cup Doubts(<<t, "w">>) = {},
                    NEW body \in Checked
             PROVE  LET v == Verdict(body, RulesIn(t).black, RulesIn(t).white)
                    IN  /\ (v = "blocked") = Forbidden(body, believed[<<t, "b">>], believed[<<t, "w">>])
                        /\ (v = "clear") = ~Forbidden(body, believed[<<t, "b">>], {})
  BY DEF VerdictIsRight
<1>1. <<t, "b">> \in Threads \X Lists /\ <<t, "w">> \in Threads \X Lists
  BY DEF Lists
<1>2. \A x \in Threads \X Lists : EntriesFor(x[1], x[2]) \ Doubts(x) = believed[x] \ Doubts(x)
  BY RulesStay DEF RulesStayInThread
<1>3. EntriesFor(t, "b") = believed[<<t, "b">>]
  <2>1. EntriesFor(t, "b") \ Doubts(<<t, "b">>) = believed[<<t, "b">>] \ Doubts(<<t, "b">>)
    BY <1>1, <1>2
  <2>2. Doubts(<<t, "b">>) = {}
    OBVIOUS
  <2> QED BY <2>1, <2>2
<1>4. EntriesFor(t, "w") = believed[<<t, "w">>]
  <2>1. EntriesFor(t, "w") \ Doubts(<<t, "w">>) = believed[<<t, "w">>] \ Doubts(<<t, "w">>)
    BY <1>1, <1>2
  <2>2. Doubts(<<t, "w">>) = {}
    OBVIOUS
  <2> QED BY <2>1, <2>2
<1>5. believed[<<t, "b">>] \subseteq Seq(Chars) /\ believed[<<t, "w">>] \subseteq Seq(Chars)
  <2>1. believed[<<t, "b">>] \in SUBSET Rules /\ believed[<<t, "w">>] \in SUBSET Rules
    BY <1>1 DEF BlacklistInv, BlacklistTypeOK
  <2> QED BY <2>1, RulesAreTexts
<1>6. body \in Seq(Chars)
  BY RulesAreTexts
<1>7. RulesIn(t).black = believed[<<t, "b">>] /\ RulesIn(t).white = believed[<<t, "w">>]
  BY <1>3, <1>4 DEF RulesIn
<1> DEFINE black == believed[<<t, "b">>]
           white == believed[<<t, "w">>]
<1>8. black \in SUBSET Seq(Chars) /\ white \in SUBSET Seq(Chars)
  BY <1>5
<1> HIDE DEF black, white
<1>9. LET v == Verdict(body, black, white)
      IN  (v = "blocked") = Forbidden(body, black, white) /\ (v = "clear") = ~Forbidden(body, black, {})
  BY <1>6, <1>8, VerdictIs
<1> QED BY <1>7, <1>9 DEF black, white

\* A text is blocked just when a forbidden text occurs in it that no exception
\* at that place contains (match.go: "I met an assassin, dumbass"), whatever the
\* rules and the texts.
THEOREM ThreadVerdictIsRightCorrect == CommandsSpec => []ThreadVerdictIsRight
<1>1. BlacklistInv => ThreadVerdictIsRight
  BY VerdictsAreRight DEF ThreadVerdictIsRight
<1> QED BY <1>1, BlacklistPart, PTL

-----------------------------------------------------------------------------
(* /addsticker: the emoji it accepts *)

\* What Absorbed computes at j from what f says of the runes after it.
EndBody(f, s, j) == IF j > Len(s) THEN j
                    ELSE IF s[j] = "zwj" THEN IF Joins(s, j) THEN f[j + 2] ELSE j + 1
                    ELSE IF s[j] \in Binding THEN f[j + 1] ELSE j

EndsFrom(f, s, m) == f = [j \in m..(Len(s) + 2) |-> EndBody(f, s, j)]

LEMMA EndsExist ==
  ASSUME NEW s \in Seq(Runes)
  PROVE  \E f : EndsFrom(f, s, 1)
<1> DEFINE n == Len(s) + 2
           G == {k \in Nat : k < n => \E f : EndsFrom(f, s, n - k)}
<1>1. n \in Nat /\ n >= 2 /\ Len(s) \in Nat
  BY LenProperties
<1>2. 0 \in G
  <2> DEFINE f == [j \in n..n |-> n]
  <2>1. \A j \in n..n : EndBody(f, s, j) = n
    <3> SUFFICES ASSUME NEW j \in n..n PROVE EndBody(f, s, j) = n
      OBVIOUS
    <3>1. j \in 1..Len(s) + 2 /\ j = n /\ j > Len(s)
      BY <1>1
    <3> HIDE DEF f
    <3> QED BY <3>1 DEF EndBody
  <2>2. f = [j \in n..n |-> EndBody(f, s, j)]
    BY <2>1, Zenon
  <2>3. EndsFrom(f, s, n - 0)
    BY <1>1, <2>2 DEF EndsFrom
  <2> QED BY <2>3
<1>3. ASSUME NEW k \in G PROVE k + 1 \in G
  <2> SUFFICES ASSUME k + 1 < n PROVE \E f : EndsFrom(f, s, n - (k + 1))
    OBVIOUS
  <2> DEFINE m == n - k
             p == n - (k + 1)
  <2>1. k \in Nat /\ m \in 1..n /\ p \in 1..Len(s) + 1 /\ p + 1 = m
    BY <1>1
  <2>2. PICK f : EndsFrom(f, s, m)
    BY <1>1
  <2> DEFINE g == [j \in p..n |-> IF j = p THEN EndBody(f, s, p) ELSE f[j]]
  <2>3. \A j \in m..n : f[j] = EndBody(f, s, j)
    BY <2>2 DEF EndsFrom
  <2>4. \A j \in m..n : g[j] = f[j]
    BY <2>1
  <2>5. ASSUME NEW j \in p..n PROVE EndBody(g, s, j) = EndBody(f, s, j)
    <3>1. j \in 1..Len(s) + 2 /\ (j <= Len(s) => j + 1 \in m..n /\ j + 2 \in m..n)
      BY <1>1, <2>1
    <3>2. ~(j > Len(s)) => g[j + 1] = f[j + 1] /\ g[j + 2] = f[j + 2]
      BY <1>1, <2>4, <3>1
    <3> HIDE DEF g, m, n
    <3> QED BY <3>1, <3>2 DEF EndBody
  <2>6. ASSUME NEW j \in p..n PROVE (IF j = p THEN EndBody(f, s, p) ELSE f[j]) = EndBody(g, s, j)
    <3>1. j = p \/ j \in m..n
      BY <2>1
    <3> QED BY <2>3, <2>5, <3>1
  <2>7. g = [j \in p..n |-> EndBody(g, s, j)]
    <3> DEFINE V(j) == IF j = p THEN EndBody(f, s, p) ELSE f[j]
    <3>1. \A j \in p..n : V(j) = EndBody(g, s, j)
      BY <2>6
    <3>2. g = [j \in p..n |-> V(j)]
      OBVIOUS
    <3> HIDE DEF V, g
    <3> QED BY <3>1, <3>2
  <2> QED BY <2>7 DEF EndsFrom
<1>4. \A k \in Nat : k \in G
  <2>1. G \in SUBSET Nat
    OBVIOUS
  <2> HIDE DEF G
  <2> QED BY <1>2, <1>3, <2>1, NatSetInduction
<1>5. n - 1 \in G /\ n - (n - 1) = 1
  BY <1>1, <1>4
<1> QED BY <1>1, <1>5

LEMMA AbsorbedIs ==
  ASSUME NEW s \in Seq(Runes), NEW j \in 1..Len(s) + 2
  PROVE  Absorbed(s, j) = IF j > Len(s) THEN j
                          ELSE IF s[j] = "zwj" THEN IF Joins(s, j) THEN Absorbed(s, j + 2) ELSE j + 1
                          ELSE IF s[j] \in Binding THEN Absorbed(s, j + 1) ELSE j
<1> DEFINE f == CHOOSE end : end = [k \in 1..(Len(s) + 2) |->
                    IF k > Len(s) THEN k
                    ELSE IF s[k] = "zwj" THEN IF Joins(s, k) THEN end[k + 2] ELSE k + 1
                    ELSE IF s[k] \in Binding THEN end[k + 1] ELSE k]
<1>1. \A i : Absorbed(s, i) = f[i]
  BY Zenon DEF Absorbed
<1>2. EndsFrom(f, s, 1)
  <2>1. \E g : EndsFrom(g, s, 1)
    BY EndsExist
  <2>2. EndsFrom(CHOOSE g : EndsFrom(g, s, 1), s, 1)
    BY <2>1, Zenon
  <2>3. f = CHOOSE g : EndsFrom(g, s, 1)
    BY Zenon DEF EndsFrom, EndBody
  <2> HIDE DEF f
  <2> QED BY <2>2, <2>3, Zenon
<1> HIDE DEF f
<1>3. f[j] = EndBody(f, s, j)
  BY <1>2 DEF EndsFrom
<1> QED BY <1>1, <1>3 DEF EndBody

LEMMA DownwardInduction ==
  ASSUME NEW n \in Nat, NEW G \in SUBSET (1..n),
         \A j \in 1..n : (j + 1)..n \subseteq G => j \in G
  PROVE  \A j \in 1..n : j \in G
<1> DEFINE D == {k \in Nat : \A j \in 1..n : j + k >= n => j \in G}
<1>1. D \in SUBSET Nat
  OBVIOUS
<1>2. 0 \in D
  <2> SUFFICES ASSUME NEW j \in 1..n, j >= n PROVE j \in G
    OBVIOUS
  <2> QED OBVIOUS
<1>3. ASSUME NEW k \in D PROVE k + 1 \in D
  <2> SUFFICES ASSUME NEW j \in 1..n, j + (k + 1) >= n PROVE j \in G
    OBVIOUS
  <2>1. ASSUME NEW m \in (j + 1)..n PROVE m \in G
    <3>1. k \in Nat /\ m \in 1..n /\ m + k >= n
      OBVIOUS
    <3> QED BY <3>1
  <2> QED BY <2>1
<1>4. \A k \in Nat : k \in D
  <2> HIDE DEF D
  <2> QED BY <1>1, <1>2, <1>3, NatSetInduction
<1>5. \A j \in 1..n : j + n >= n
  OBVIOUS
<1> QED BY <1>4, <1>5

\* What the cluster takes after its first rune: no half of a flag, it does not
\* stop before a joiner that continues it, and one at its end continues nothing.
TakenRight(s, j, e) ==
  /\ e \in j..(Len(s) + 1)
  /\ \A k \in j..(e - 1) : s[k] # "ri"
  /\ e <= Len(s) /\ s[e] = "zwj" => e > j /\ s[e - 1] = "zwj"
  /\ e > j /\ s[e - 1] = "zwj" => ~Joins(s, e - 1)

LEMMA AbsorbedRight ==
  ASSUME NEW s \in Seq(Runes), NEW j \in 1..Len(s) + 1
  PROVE  TakenRight(s, j, Absorbed(s, j))
<1> DEFINE n == Len(s)
           G == {k \in 1..n + 1 : TakenRight(s, k, Absorbed(s, k))}
<1>1. n \in Nat
  BY LenProperties
<1>2. ASSUME NEW k \in 1..n + 1, (k + 1)..(n + 1) \subseteq G PROVE TakenRight(s, k, Absorbed(s, k))
  <2> DEFINE e == Absorbed(s, k)
  <2>0. k \in 1..Len(s) + 2
    BY <1>1
  <2>1. CASE k > n
    <3>1. e = k
      BY <1>1, <2>0, <2>1, AbsorbedIs
    <3> HIDE DEF e
    <3>9. TakenRight(s, k, e)
      BY <1>1, <2>1, <3>1 DEF TakenRight
    <3> QED BY <3>9 DEF e
  <2>2. CASE k <= n /\ s[k] = "zwj" /\ Joins(s, k)
    <3>1. e = Absorbed(s, k + 2)
      BY <1>1, <2>0, <2>2, AbsorbedIs
    <3>2. k + 1 <= n /\ s[k + 1] # "ri" /\ s[k + 1] # "zwj"
      BY <1>1, <2>2 DEF Joins, IsEmoji
    <3>3. TakenRight(s, k + 2, e)
      <4>1. k + 2 \in (k + 1)..(n + 1)
        BY <1>1, <3>2
      <4>2. k + 2 \in G
        BY <1>2, <4>1
      <4> QED BY <3>1, <4>2
    <3> HIDE DEF e
    <3>4. /\ e \in (k + 2)..(n + 1)
          /\ \A m \in (k + 2)..(e - 1) : s[m] # "ri"
          /\ e <= n /\ s[e] = "zwj" => e > k + 2 /\ s[e - 1] = "zwj"
          /\ e > k + 2 /\ s[e - 1] = "zwj" => ~Joins(s, e - 1)
      BY <3>3 DEF TakenRight
    <3>5. \A m \in k..(e - 1) : m = k \/ m = k + 1 \/ m \in (k + 2)..(e - 1)
      BY <1>1, <3>4
    <3>6. e > k + 2 \/ e - 1 = k + 1
      BY <1>1, <3>4
    <3>7. e \in k..(n + 1) /\ e > k
      BY <1>1, <3>4
    <3>8. \A m \in k..(e - 1) : s[m] # "ri"
      BY <2>2, <3>2, <3>4, <3>5
    <3>9. TakenRight(s, k, e)
      BY <3>2, <3>4, <3>6, <3>7, <3>8 DEF TakenRight
    <3> QED BY <3>9 DEF e
  <2>3. CASE k <= n /\ s[k] = "zwj" /\ ~Joins(s, k)
    <3>1. e = k + 1
      BY <1>1, <2>0, <2>3, AbsorbedIs
    <3>2. e - 1 = k /\ e \in k..(n + 1) /\ e > k /\ \A m \in k..(e - 1) : m = k
      BY <1>1, <2>3, <3>1
    <3> HIDE DEF e
    <3>9. TakenRight(s, k, e)
      BY <2>3, <3>2 DEF TakenRight
    <3> QED BY <3>9 DEF e
  <2>4. CASE k <= n /\ s[k] # "zwj" /\ s[k] \in Binding
    <3>1. e = Absorbed(s, k + 1)
      BY <1>1, <2>0, <2>4, AbsorbedIs
    <3>2. s[k] # "ri"
      BY <2>4 DEF Binding
    <3>3. TakenRight(s, k + 1, e)
      <4>1. k + 1 \in (k + 1)..(n + 1)
        BY <1>1, <2>4
      <4>2. k + 1 \in G
        BY <1>2, <4>1
      <4> QED BY <3>1, <4>2
    <3> HIDE DEF e
    <3>4. /\ e \in (k + 1)..(n + 1)
          /\ \A m \in (k + 1)..(e - 1) : s[m] # "ri"
          /\ e <= n /\ s[e] = "zwj" => e > k + 1 /\ s[e - 1] = "zwj"
          /\ e > k + 1 /\ s[e - 1] = "zwj" => ~Joins(s, e - 1)
      BY <3>3 DEF TakenRight
    <3>5. \A m \in k..(e - 1) : m = k \/ m \in (k + 1)..(e - 1)
      BY <1>1, <3>4
    <3>6. e > k + 1 \/ e - 1 = k
      BY <1>1, <3>4
    <3>7. e \in k..(n + 1) /\ e > k
      BY <1>1, <3>4
    <3>8. \A m \in k..(e - 1) : s[m] # "ri"
      BY <3>2, <3>4, <3>5
    <3>9. TakenRight(s, k, e)
      BY <2>4, <3>4, <3>6, <3>7, <3>8 DEF TakenRight
    <3> QED BY <3>9 DEF e
  <2>5. CASE k <= n /\ s[k] # "zwj" /\ s[k] \notin Binding
    <3>1. e = k
      BY <1>1, <2>0, <2>5, AbsorbedIs
    <3>2. e \in k..(n + 1) /\ ~(e > k) /\ \A m \in k..(e - 1) : FALSE
      BY <1>1, <3>1
    <3> HIDE DEF e
    <3>9. TakenRight(s, k, e)
      BY <2>5, <3>1, <3>2 DEF TakenRight
    <3> QED BY <3>9 DEF e
  <2>6. k > n \/ k <= n
    BY <1>1
  <2> QED BY <2>1, <2>2, <2>3, <2>4, <2>5, <2>6
<1>3. \A k \in 1..n + 1 : k \in G
  <2>1. G \in SUBSET (1..n + 1) /\ n + 1 \in Nat
    BY <1>1
  <2>2. \A k \in 1..n + 1 : (k + 1)..(n + 1) \subseteq G => k \in G
    BY <1>2
  <2> HIDE DEF G
  <2> QED BY <2>1, <2>2, DownwardInduction
<1> QED BY <1>3

\* A cluster is a flag of two halves, or holds no half after its first rune; a
\* joiner between two pictures is neither the first rune of a cluster nor the last.
IsFlag(s, i) == s[i] = "ri" /\ i < Len(s) /\ s[i + 1] = "ri"

LEMMA ClusterEndRight ==
  ASSUME NEW s \in Seq(Runes), NEW i \in 1..Len(s)
  PROVE  /\ ClusterEnd(s, i) \in (i + 1)..(Len(s) + 1)
         /\ IsFlag(s, i) => ClusterEnd(s, i) = i + 2
         /\ ~IsFlag(s, i) => \A k \in (i + 1)..(ClusterEnd(s, i) - 1) : s[k] # "ri"
         /\ ClusterEnd(s, i) <= Len(s) /\ s[ClusterEnd(s, i)] = "zwj" => s[ClusterEnd(s, i) - 1] # "emoji"
         /\ \A k \in (i + 1)..(ClusterEnd(s, i) - 1) : s[k] = "zwj" /\ Joins(s, k) => k < ClusterEnd(s, i) - 1
<1> DEFINE n == Len(s)
           e == ClusterEnd(s, i)
<1>1. n \in Nat
  BY LenProperties
<1>2. CASE IsFlag(s, i)
  <2>1. e = i + 2 /\ e \in (i + 1)..(n + 1) /\ e - 1 = i + 1 /\ s[e - 1] = "ri" /\ s[i] = "ri"
    BY <1>1, <1>2 DEF ClusterEnd, IsFlag
  <2>2. \A k \in (i + 1)..(e - 1) : s[k] = "ri"
    BY <1>1, <2>1
  <2> HIDE DEF e
  <2>3. /\ ClusterEnd(s, i) = e
    BY DEF e
  <2> QED BY <1>2, <2>1, <2>2, <2>3
<1>3. CASE ~IsFlag(s, i)
  <2>1. e = Absorbed(s, i + 1) /\ i + 1 \in 1..n + 1
    BY <1>1, <1>3 DEF ClusterEnd, IsFlag
  <2>2. TakenRight(s, i + 1, e)
    BY <2>1, AbsorbedRight
  <2> HIDE DEF e
  <2>3. /\ e \in (i + 1)..(n + 1)
        /\ \A k \in (i + 1)..(e - 1) : s[k] # "ri"
        /\ e <= n /\ s[e] = "zwj" => s[e - 1] # "emoji"
        /\ e > i + 1 /\ s[e - 1] = "zwj" => ~Joins(s, e - 1)
    BY <2>2 DEF TakenRight
  <2>4. ASSUME NEW k \in (i + 1)..(e - 1), s[k] = "zwj", Joins(s, k) PROVE k < e - 1
    <3>1. k = e - 1 \/ k < e - 1
      BY <1>1, <2>3
    <3>2. k = e - 1 => e > i + 1
      BY <1>1, <2>3
    <3> QED BY <2>3, <2>4, <3>1, <3>2
  <2>5. e = ClusterEnd(s, i)
    BY DEF e
  <2> QED BY <1>3, <2>3, <2>4, <2>5
<1> QED BY <1>2, <1>3

LEMMA LeastAndGreatest ==
  ASSUME NEW n \in Nat, NEW kept \in SUBSET (1..n), kept # {}
  PROVE  /\ \E a \in kept : \A k \in kept : a <= k
         /\ \E b \in kept : \A k \in kept : k <= b
<1>1. \E b \in kept : \A k \in kept : k <= b
  <2> SUFFICES ASSUME \A b \in kept : \E k \in kept : ~(k <= b) PROVE FALSE
    OBVIOUS
  <2> DEFINE G == (1..n) \ kept
  <2>1. ASSUME NEW j \in 1..n, (j + 1)..n \subseteq G PROVE j \in G
    <3>1. \A k \in kept : k <= j
      <4> SUFFICES ASSUME NEW k \in kept, ~(k <= j) PROVE FALSE
        OBVIOUS
      <4>1. k \in (j + 1)..n
        OBVIOUS
      <4> QED BY <2>1, <4>1
    <3> QED BY <3>1
  <2>2. \A j \in 1..n : j \in G
    <3>1. G \in SUBSET (1..n)
      OBVIOUS
    <3> HIDE DEF G
    <3> QED BY <2>1, <3>1, DownwardInduction
  <2> QED BY <2>2
<1>2. \E a \in kept : \A k \in kept : a <= k
  <2> SUFFICES ASSUME \A a \in kept : \E k \in kept : ~(a <= k) PROVE FALSE
    OBVIOUS
  <2> DEFINE G == {m \in Nat : \A k \in kept : k > m}
  <2>1. G \in SUBSET Nat /\ 0 \in G
    OBVIOUS
  <2>2. ASSUME NEW m \in G PROVE m + 1 \in G
    <3>1. m + 1 \notin kept
      <4> SUFFICES ASSUME m + 1 \in kept PROVE FALSE
        OBVIOUS
      <4>1. PICK k \in kept : ~(m + 1 <= k)
        OBVIOUS
      <4> QED BY <4>1
    <3> QED BY <3>1
  <2>3. n \in G
    <3> HIDE DEF G
    <3> QED BY <2>1, <2>2, NatSetInduction
  <2>4. PICK k \in kept : TRUE
    OBVIOUS
  <2> QED BY <2>3, <2>4
<1> QED BY <1>1, <1>2

\* What stays of the runes i..e-1 of s: nothing, or those from the first that is no
\* joiner to the last.
Trimmed(s, i, e, c) ==
  \/ c = <<>> /\ \A k \in i..(e - 1) : s[k] = "zwj"
  \/ \E a \in i..(e - 1) : \E b \in a..(e - 1) :
       /\ c = SubSeq(s, a, b) /\ s[a] # "zwj" /\ s[b] # "zwj"
       /\ \A k \in i..(e - 1) : s[k] # "zwj" => k \in a..b

LEMMA TrimIs ==
  ASSUME NEW t \in Seq(Runes)
  PROVE  Trimmed(t, 1, Len(t) + 1, TrimJoiners(t))
<1> DEFINE kept == {i \in DOMAIN t : t[i] # "zwj"}
           n == Len(t)
           first == CHOOSE i \in kept : \A j \in kept : i <= j
           last == CHOOSE i \in kept : \A j \in kept : j <= i
<1>1. n \in Nat /\ DOMAIN t = 1..n /\ n + 1 - 1 = n
  BY LenProperties
<1>2. CASE kept = {}
  <2>1. TrimJoiners(t) = <<>>
    BY <1>2, Zenon DEF TrimJoiners
  <2>2. \A k \in 1..n : t[k] = "zwj"
    BY <1>1, <1>2
  <2> QED BY <1>1, <2>1, <2>2 DEF Trimmed
<1>3. CASE kept # {}
  <2>1. TrimJoiners(t) = SubSeq(t, first, last)
    BY <1>3, Zenon DEF TrimJoiners
  <2>2. kept \in SUBSET (1..n)
    BY <1>1
  <2>3. /\ first \in kept /\ \A j \in kept : first <= j
        /\ last \in kept /\ \A j \in kept : j <= last
    <3> HIDE DEF kept, n
    <3> QED BY <1>1, <1>3, <2>2, LeastAndGreatest
  <2> HIDE DEF first, last
  <2>4. first \in 1..n /\ last \in first..n /\ t[first] # "zwj" /\ t[last] # "zwj"
    BY <1>1, <2>3
  <2>5. ASSUME NEW k \in 1..n, t[k] # "zwj" PROVE k \in first..last
    <3>1. k \in kept
      BY <1>1, <2>5
    <3>2. first <= k /\ k <= last
      BY <2>3, <3>1
    <3> QED BY <2>4, <3>2
  <2> HIDE DEF n, kept
  <2> QED BY <1>1, <2>1, <2>4, <2>5 DEF Trimmed
<1> QED BY <1>2, <1>3

LEMMA ClusterIs ==
  ASSUME NEW s \in Seq(Runes), NEW i \in 1..Len(s)
  PROVE  Trimmed(s, i, ClusterEnd(s, i), Cluster(s, i))
<1> DEFINE n == Len(s)
           e == ClusterEnd(s, i)
           t == SubSeq(s, i, e - 1)
<1>1. n \in Nat /\ e \in (i + 1)..(n + 1) /\ \A k \in 1..n : s[k] \in Runes
  BY ClusterEndRight, LenProperties
<1>2. Cluster(s, i) = TrimJoiners(t)
  BY DEF Cluster
<1> HIDE DEF e
<1>3. /\ t \in Seq(Runes) /\ Len(t) = e - i /\ \A k \in 1..(e - i) : t[k] = s[i + k - 1]
  <2>1. i \in Int /\ e - 1 \in Int /\ i <= (e - 1) + 1 /\ (\A j \in i..(e - 1) : s[j] \in Runes)
        /\ (e - 1) - i + 1 = e - i
    BY <1>1
  <2> QED BY <2>1, SubSeqProperties
<1> HIDE DEF t, n
<1> DEFINE Whole == \/ TrimJoiners(t) = <<>> /\ \A k \in 1..(e - i) : t[k] = "zwj"
                    \/ \E a \in 1..(e - i) : \E b \in a..(e - i) :
                         /\ TrimJoiners(t) = SubSeq(t, a, b) /\ t[a] # "zwj" /\ t[b] # "zwj"
                         /\ \A k \in 1..(e - i) : t[k] # "zwj" => k \in a..b
<1>4. Whole
  <2>1. Trimmed(t, 1, Len(t) + 1, TrimJoiners(t))
    BY <1>3, TrimIs
  <2>2. Len(t) + 1 - 1 = e - i
    BY <1>1, <1>3
  <2>3. \A d : d - 1 = e - i /\ Trimmed(t, 1, d, TrimJoiners(t)) => Whole
    BY Zenon DEF Trimmed
  <2> HIDE DEF Whole
  <2> QED BY <2>1, <2>2, <2>3
<1>5. \A k \in i..(e - 1) : k - i + 1 \in 1..(e - i) /\ t[k - i + 1] = s[k]
  <2> SUFFICES ASSUME NEW k \in i..(e - 1) PROVE k - i + 1 \in 1..(e - i) /\ t[k - i + 1] = s[k]
    OBVIOUS
  <2>1. k - i + 1 \in 1..(e - i) /\ i + (k - i + 1) - 1 = k
    BY <1>1
  <2>2. t[k - i + 1] = s[i + (k - i + 1) - 1]
    BY <1>3, <2>1
  <2> QED BY <2>1, <2>2
<1>6. CASE TrimJoiners(t) = <<>> /\ \A k \in 1..(e - i) : t[k] = "zwj"
  <2>1. \A k \in i..(e - 1) : s[k] = "zwj"
    BY <1>1, <1>3, <1>5, <1>6
  <2> QED BY <1>2, <1>6, <2>1 DEF Trimmed, e
<1>7. CASE \E a \in 1..(e - i) : \E b \in a..(e - i) :
             /\ TrimJoiners(t) = SubSeq(t, a, b) /\ t[a] # "zwj" /\ t[b] # "zwj"
             /\ \A k \in 1..(e - i) : t[k] # "zwj" => k \in a..b
  <2>1. PICK a \in 1..(e - i) : \E b \in a..(e - i) :
             /\ TrimJoiners(t) = SubSeq(t, a, b) /\ t[a] # "zwj" /\ t[b] # "zwj"
             /\ \A k \in 1..(e - i) : t[k] # "zwj" => k \in a..b
    BY <1>7
  <2>2. PICK b \in a..(e - i) :
             /\ TrimJoiners(t) = SubSeq(t, a, b) /\ t[a] # "zwj" /\ t[b] # "zwj"
             /\ \A k \in 1..(e - i) : t[k] # "zwj" => k \in a..b
    BY <2>1
  <2> DEFINE A == i + a - 1
             B == i + b - 1
  <2>3. A \in i..(e - 1) /\ B \in A..(e - 1) /\ A \in 1..n /\ B \in 1..n /\ b \in 1..(e - i)
        /\ a \in Int /\ b \in Int /\ A \in Int /\ B \in Int /\ B - A = b - a
    BY <1>1, <2>1, <2>2
  <2>4. s[A] # "zwj" /\ s[B] # "zwj"
    BY <1>3, <2>2, <2>3
  <2>5. SubSeq(t, a, b) = SubSeq(s, A, B)
    <3> DEFINE u == SubSeq(t, a, b)
               v == SubSeq(s, A, B)
    <3>1. u \in Seq(Runes) /\ Len(u) = b - a + 1 /\ \A k \in 1..(b - a + 1) : u[k] = t[a + k - 1]
      <4>1. \A j \in a..b : t[j] \in Runes
        BY <1>1, <1>3, <2>2, LenProperties
      <4>2. a <= b + 1
        BY <2>2, <2>3
      <4> QED BY <2>3, <4>1, <4>2, SubSeqProperties
    <3>2. v \in Seq(Runes) /\ Len(v) = B - A + 1 /\ \A k \in 1..(B - A + 1) : v[k] = s[A + k - 1]
      <4>1. \A j \in A..B : s[j] \in Runes
        BY <1>1, <2>3
      <4>2. A <= B + 1
        BY <2>3
      <4> HIDE DEF A, B
      <4> QED BY <2>3, <4>1, <4>2, SubSeqProperties
    <3> HIDE DEF u, v
    <3>3. ASSUME NEW k \in 1..Len(u) PROVE u[k] = v[k]
      <4>1. k \in 1..(b - a + 1) /\ k \in 1..(B - A + 1) /\ a + k - 1 \in 1..(e - i)
            /\ i + (a + k - 1) - 1 = A + k - 1
        BY <1>1, <2>2, <2>3, <3>1
      <4> QED BY <1>3, <3>1, <3>2, <4>1
    <3>4. u = v
      <4> HIDE DEF A, B
      <4> QED BY <2>3, <3>1, <3>2, <3>3, SeqEqual
    <3> QED BY <3>4 DEF u, v
  <2>6. ASSUME NEW k \in i..(e - 1), s[k] # "zwj" PROVE k \in A..B
    <3>1. k - i + 1 \in a..b
      BY <1>5, <2>2, <2>6
    <3> QED BY <2>3, <3>1
  <2>7. Cluster(s, i) = SubSeq(s, A, B)
    BY <1>2, <2>2, <2>5
  <2> HIDE DEF A, B
  <2>8. Trimmed(s, i, e, Cluster(s, i))
    BY <2>3, <2>4, <2>6, <2>7 DEF Trimmed
  <2> QED BY <2>8 DEF e
<1> QED BY <1>4, <1>6, <1>7

LEMMA FlattenFront ==
  ASSUME NEW S, NEW c \in Seq(S), NEW ss \in Seq(Seq(S))
  PROVE  FlattenSeq(<<c>> \o ss) = c \o FlattenSeq(ss)
<1>a. ASSUME NEW u \in Seq(S), NEW v \in Seq(S), NEW w \in Seq(S) PROVE (u \o v) \o w = u \o (v \o w)
  BY ConcatAssociative
<1> DEFINE Flat(t) == FlattenSeq(<<c>> \o t) = c \o FlattenSeq(t)
           G == {n \in Nat : \A t \in Seq(Seq(S)) : Len(t) = n => Flat(t)}
<1>0. <<c>> \in Seq(Seq(S)) /\ <<>> \in Seq(Seq(S)) /\ <<>> \in Seq(S) /\ Len(<<>>) = 0
  OBVIOUS
<1>1. 0 \in G
  <2> SUFFICES ASSUME NEW t \in Seq(Seq(S)), Len(t) = 0 PROVE Flat(t)
    OBVIOUS
  <2>1. t = <<>>
    BY EmptySeq
  <2>2. FlattenSeq(t) = <<>>
    BY <2>1 DEF FlattenSeq
  <2>3. <<c>> \o t = Append(<<>>, c)
    BY <1>0, <2>1, ConcatEmptySeq
  <2>4. FlattenSeq(Append(<<>>, c)) = FlattenSeq(<<>>) \o c
    BY <1>0, FlattenOneMore
  <2>5. <<>> \o c = c /\ c \o <<>> = c
    BY ConcatEmptySeq
  <2> QED BY <2>1, <2>2, <2>3, <2>4, <2>5
<1>2. ASSUME NEW n \in G PROVE n + 1 \in G
  <2> HIDE DEF Flat
  <2> SUFFICES ASSUME NEW t \in Seq(Seq(S)), Len(t) = n + 1 PROVE Flat(t)
    OBVIOUS
  <2> USE DEF Flat
  <2>1. n \in Nat /\ t # <<>>
    BY EmptySeq
  <2>2. PICK r \in Seq(Seq(S)), b \in Seq(S) : t = Append(r, b)
    BY <2>1, SequenceEmptyOrAppend
  <2>3. Len(r) = n
    BY <2>1, <2>2, AppendProperties, LenProperties
  <2>4. FlattenSeq(<<c>> \o r) = c \o FlattenSeq(r)
    BY <2>3
  <2> DEFINE q == <<c>> \o r
  <2>5. q \in Seq(Seq(S)) /\ <<c>> \o t = Append(q, b)
    <3>1. q \in Seq(Seq(S)) /\ Append(q, b) = q \o <<b>> /\ t = r \o <<b>> /\ <<b>> \in Seq(Seq(S))
      BY <1>0, <2>2, ConcatProperties, AppendIsConcat
    <3>2. <<c>> \o (r \o <<b>>) = (<<c>> \o r) \o <<b>>
      BY <1>0, <3>1, ConcatAssociative
    <3> QED BY <3>1, <3>2
  <2>6. FlattenSeq(Append(q, b)) = FlattenSeq(q) \o b /\ FlattenSeq(t) = FlattenSeq(r) \o b
        /\ FlattenSeq(r) \in Seq(S)
    BY <2>2, <2>5, FlattenOneMore
  <2>7. c \o (FlattenSeq(r) \o b) = (c \o FlattenSeq(r)) \o b
    BY <1>a, <2>2, <2>6
  <2> QED BY <2>4, <2>5, <2>6, <2>7
<1>3. \A n \in Nat : n \in G
  <2>1. G \in SUBSET Nat
    OBVIOUS
  <2> HIDE DEF G
  <2> QED BY <1>1, <1>2, <2>1, NatSetInduction
<1> QED BY <1>3, LenProperties

\* What SplitClusters computes at i from what f says of the runes after the cluster.
FromBody(f, s, i) == IF i > Len(s) THEN <<>>
                     ELSE (IF Cluster(s, i) = <<>> THEN <<>> ELSE <<Cluster(s, i)>>) \o f[ClusterEnd(s, i)]

SplitsFrom(f, s, m) == f = [i \in m..(Len(s) + 1) |-> FromBody(f, s, i)]

LEMMA SplitsExist ==
  ASSUME NEW s \in Seq(Runes)
  PROVE  \E f : SplitsFrom(f, s, 1)
<1> DEFINE n == Len(s)
           G == {m \in 1..n + 1 : \E f : SplitsFrom(f, s, m)}
<1>1. n \in Nat
  BY LenProperties
<1>2. ASSUME NEW m \in 1..n + 1, (m + 1)..(n + 1) \subseteq G PROVE \E f : SplitsFrom(f, s, m)
  <2>1. CASE m = n + 1
    <3> DEFINE f == [i \in m..(n + 1) |-> <<>>]
    <3>1. \A i \in m..(n + 1) : FromBody(f, s, i) = <<>>
      BY <1>1, <2>1 DEF FromBody
    <3>2. f = [i \in m..(n + 1) |-> FromBody(f, s, i)]
      BY <3>1, Zenon
    <3> QED BY <3>2 DEF SplitsFrom
  <2>2. CASE m # n + 1
    <3>1. m \in 1..n /\ m + 1 \in (m + 1)..(n + 1)
      BY <1>1, <2>2
    <3>2. PICK f : SplitsFrom(f, s, m + 1)
      BY <1>2, <3>1
    <3> DEFINE g == [i \in m..(n + 1) |-> IF i = m THEN FromBody(f, s, m) ELSE f[i]]
    <3>3. \A i \in (m + 1)..(n + 1) : f[i] = FromBody(f, s, i)
      BY <3>2 DEF SplitsFrom
    <3>4. \A i \in (m + 1)..(n + 1) : g[i] = f[i]
      BY <1>1
    <3>5. ASSUME NEW i \in m..(n + 1) PROVE FromBody(g, s, i) = FromBody(f, s, i)
      <4>1. ~(i > n) => i \in 1..n
        BY <1>1
      <4>2. ~(i > n) => ClusterEnd(s, i) \in (m + 1)..(n + 1)
        BY <1>1, <4>1, ClusterEndRight
      <4>3. ~(i > n) => g[ClusterEnd(s, i)] = f[ClusterEnd(s, i)]
        BY <3>4, <4>2
      <4> HIDE DEF g
      <4> QED BY <4>3 DEF FromBody
    <3>6. ASSUME NEW i \in m..(n + 1) PROVE (IF i = m THEN FromBody(f, s, m) ELSE f[i]) = FromBody(g, s, i)
      <4>1. i = m \/ i \in (m + 1)..(n + 1)
        BY <1>1
      <4> QED BY <3>3, <3>5, <4>1
    <3>7. g = [i \in m..(n + 1) |-> FromBody(g, s, i)]
      <4> DEFINE V(i) == IF i = m THEN FromBody(f, s, m) ELSE f[i]
      <4>1. \A i \in m..(n + 1) : V(i) = FromBody(g, s, i)
        BY <3>6
      <4>2. g = [i \in m..(n + 1) |-> V(i)]
        OBVIOUS
      <4> HIDE DEF V, g
      <4> QED BY <4>1, <4>2
    <3> QED BY <3>7 DEF SplitsFrom
  <2> QED BY <2>1, <2>2
<1>3. \A m \in 1..n + 1 : m \in G
  <2>1. G \in SUBSET (1..n + 1) /\ n + 1 \in Nat
    BY <1>1
  <2>2. \A m \in 1..n + 1 : (m + 1)..(n + 1) \subseteq G => m \in G
    BY <1>2
  <2> HIDE DEF G
  <2> QED BY <2>1, <2>2, DownwardInduction
<1>4. 1 \in 1..n + 1
  BY <1>1
<1> QED BY <1>3, <1>4

LEMMA SplitIs ==
  ASSUME NEW s \in Seq(Runes)
  PROVE  \E f : SplitsFrom(f, s, 1) /\ SplitClusters(s) = f[1]
<1> DEFINE f == CHOOSE from : from = [i \in 1..(Len(s) + 1) |->
                    IF i > Len(s) THEN <<>>
                    ELSE (IF Cluster(s, i) = <<>> THEN <<>> ELSE <<Cluster(s, i)>>) \o from[ClusterEnd(s, i)]]
<1>1. SplitClusters(s) = f[1]
  BY Zenon DEF SplitClusters
<1>2. SplitsFrom(f, s, 1)
  <2>1. \E g : SplitsFrom(g, s, 1)
    BY SplitsExist
  <2>2. SplitsFrom(CHOOSE g : SplitsFrom(g, s, 1), s, 1)
    BY <2>1, Zenon
  <2>3. f = CHOOSE g : SplitsFrom(g, s, 1)
    BY Zenon DEF SplitsFrom, FromBody
  <2> HIDE DEF f
  <2> QED BY <2>2, <2>3, Zenon
<1> HIDE DEF f
<1> QED BY <1>1, <1>2

\* A joiner between two pictures, and what must be spelt again.
Bridges(s) == {j \in 2..(Len(s) - 1) : s[j] = "zwj" /\ s[j - 1] = "emoji" /\ s[j + 1] = "emoji"}
Meant(s) == {j \in DOMAIN s : s[j] # "zwj"}
Needed(s) == Meant(s) \cup Bridges(s)

\* w spells the runes of s that pos points at, from i on, in their order.
Spells(s, i, pos, w) ==
  /\ pos \in [1..Len(w) -> i..Len(s)]
  /\ \A k, l \in 1..Len(w) : k < l => pos[k] < pos[l]
  /\ \A k \in 1..Len(w) : w[k] = s[pos[k]]

\* It leaves no needed rune out, but for a joiner at which the text is cut.
Cut(s, i, j) == j \in Needed(s) /\ (j = i => s[j] # "zwj")

SpellsAll(s, i, pos, w) ==
  /\ Spells(s, i, pos, w)
  /\ \A j \in i..Len(s) : Cut(s, i, j) => \E k \in 1..Len(w) : pos[k] = j

LEMMA ClusterSpells ==
  ASSUME NEW s \in Seq(Runes), NEW i \in 1..Len(s)
  PROVE  \/ Cluster(s, i) = <<>> /\ \A j \in i..(ClusterEnd(s, i) - 1) : ~Cut(s, i, j)
         \/ \E a \in i..(ClusterEnd(s, i) - 1) : \E b \in a..(ClusterEnd(s, i) - 1) :
              /\ Cluster(s, i) = SubSeq(s, a, b) /\ s[a] # "zwj" /\ s[b] # "zwj"
              /\ \A j \in i..(ClusterEnd(s, i) - 1) : Cut(s, i, j) => j \in a..b
<1> DEFINE n == Len(s)
           e == ClusterEnd(s, i)
<1>1. /\ n \in Nat /\ e \in (i + 1)..(n + 1) /\ DOMAIN s = 1..n
      /\ \A k \in (i + 1)..(e - 1) : s[k] = "zwj" /\ Joins(s, k) => k < e - 1
  BY ClusterEndRight, LenProperties
<1>2. Trimmed(s, i, e, Cluster(s, i))
  BY ClusterIs
<1> HIDE DEF e
<1>3. ASSUME NEW j \in i..(e - 1), Cut(s, i, j)
      PROVE  \E p \in i..j : \E q \in j..(e - 1) : s[p] # "zwj" /\ s[q] # "zwj"
  <2>1. CASE s[j] # "zwj"
    BY <1>1, <2>1
  <2>2. CASE s[j] = "zwj"
    <3>1. j \in 2..(n - 1) /\ s[j - 1] = "emoji" /\ s[j + 1] = "emoji" /\ j # i
      BY <1>3, <2>2 DEF Cut, Needed, Meant, Bridges
    <3>2. Joins(s, j) /\ j \in (i + 1)..(e - 1)
      BY <1>1, <3>1 DEF Joins, IsEmoji
    <3>3. j < e - 1
      BY <1>1, <2>2, <3>2
    <3>4. j - 1 \in i..j /\ j + 1 \in j..(e - 1)
      BY <1>1, <3>1, <3>2, <3>3
    <3> QED BY <3>1, <3>4
  <2> QED BY <2>1, <2>2
<1>4. CASE Cluster(s, i) = <<>> /\ \A k \in i..(e - 1) : s[k] = "zwj"
  <2>1. ASSUME NEW j \in i..(e - 1), Cut(s, i, j) PROVE FALSE
    <3>1. PICK p \in i..j : s[p] # "zwj"
      BY <1>3, <2>1
    <3>2. p \in i..(e - 1)
      BY <1>1
    <3> QED BY <1>4, <3>1, <3>2
  <2> QED BY <1>4, <2>1 DEF e
<1>5. CASE \E a \in i..(e - 1) : \E b \in a..(e - 1) :
             /\ Cluster(s, i) = SubSeq(s, a, b) /\ s[a] # "zwj" /\ s[b] # "zwj"
             /\ \A k \in i..(e - 1) : s[k] # "zwj" => k \in a..b
  <2>1. PICK a \in i..(e - 1) : \E b \in a..(e - 1) :
             /\ Cluster(s, i) = SubSeq(s, a, b) /\ s[a] # "zwj" /\ s[b] # "zwj"
             /\ \A k \in i..(e - 1) : s[k] # "zwj" => k \in a..b
    BY <1>5
  <2>2. PICK b \in a..(e - 1) :
             /\ Cluster(s, i) = SubSeq(s, a, b) /\ s[a] # "zwj" /\ s[b] # "zwj"
             /\ \A k \in i..(e - 1) : s[k] # "zwj" => k \in a..b
    BY <2>1
  <2>3. ASSUME NEW j \in i..(e - 1), Cut(s, i, j) PROVE j \in a..b
    <3>1. PICK p \in i..j : \E q \in j..(e - 1) : s[p] # "zwj" /\ s[q] # "zwj"
      BY <1>3, <2>3
    <3>2. PICK q \in j..(e - 1) : s[p] # "zwj" /\ s[q] # "zwj"
      BY <3>1
    <3>3. p \in i..(e - 1) /\ q \in i..(e - 1)
      BY <1>1
    <3>4. p \in a..b /\ q \in a..b
      BY <2>2, <3>2, <3>3
    <3> QED BY <1>1, <3>4
  <2> QED BY <2>2, <2>3 DEF e
<1> QED BY <1>2, <1>4, <1>5 DEF Trimmed

\* g spells v, which is the runes from a to b and then what pos spells as w.
Continues(s, i, g, v, a, b, pos, w) ==
  /\ Spells(s, i, g, v)
  /\ \A j \in a..b : \E k \in 1..Len(v) : g[k] = j
  /\ \A l \in 1..Len(w) : \E k \in 1..Len(v) : g[k] = pos[l]

LEMMA SpellsMore ==
  ASSUME NEW s \in Seq(Runes), NEW i \in 1..Len(s), NEW e \in (i + 1)..(Len(s) + 1),
         NEW a \in i..(e - 1), NEW b \in a..(e - 1),
         NEW pos, NEW w \in Seq(Runes), Spells(s, e, pos, w)
  PROVE  \E g : Continues(s, i, g, SubSeq(s, a, b) \o w, a, b, pos, w)
<1> DEFINE c == SubSeq(s, a, b)
           m == b - a + 1
           n == Len(s)
           g == [k \in 1..(m + Len(w)) |-> IF k <= m THEN a + k - 1 ELSE pos[k - m]]
           v == c \o w
<1>1. n \in Nat /\ Len(w) \in Nat /\ m \in Nat /\ m >= 1 /\ a \in 1..n /\ b \in 1..n
      /\ \A k \in 1..n : s[k] \in Runes
  BY LenProperties
<1>2. c \in Seq(Runes) /\ Len(c) = m /\ \A k \in 1..m : c[k] = s[a + k - 1]
  <2>1. a \in Int /\ b \in Int /\ a <= b /\ \A k \in a..b : s[k] \in Runes
    BY <1>1
  <2> QED BY <2>1, SubSeqProperties
<1> HIDE DEF c
<1>3. Len(v) = m + Len(w) /\ \A k \in 1..(m + Len(w)) : v[k] = IF k <= m THEN c[k] ELSE w[k - m]
  <2> HIDE DEF m, g
  <2>1. /\ Len(c \o w) = Len(c) + Len(w)
        /\ \A k \in 1..Len(c) + Len(w) : (c \o w)[k] = IF k <= Len(c) THEN c[k] ELSE w[k - Len(c)]
    BY <1>2, ConcatProperties
  <2> QED BY <1>2, <2>1
<1> HIDE DEF v
<1>4. /\ \A k \in 1..Len(w) : pos[k] \in e..n /\ w[k] = s[pos[k]]
      /\ \A k, l \in 1..Len(w) : k < l => pos[k] < pos[l]
  BY DEF Spells
<1>5. /\ \A k \in 1..m : g[k] = a + k - 1 /\ g[k] \in a..b
      /\ \A k \in 1..(m + Len(w)) : k > m => k - m \in 1..Len(w) /\ g[k] = pos[k - m]
  BY <1>1
<1>5a. \A k \in 1..(m + Len(w)) : k \in 1..m \/ k > m
  BY <1>1
<1>6. g \in [1..(m + Len(w)) -> i..n]
  <2>1. ASSUME NEW k \in 1..(m + Len(w)) PROVE g[k] \in i..n
    <3>1. CASE k \in 1..m
      <4>1. g[k] \in a..b
        BY <1>5, <3>1
      <4> HIDE DEF g, m
      <4> QED BY <1>1, <4>1
    <3>2. CASE k > m
      <4>1. g[k] \in e..n
        BY <1>4, <1>5, <3>2
      <4> HIDE DEF g, m
      <4> QED BY <1>1, <4>1
    <3> QED BY <1>5a, <3>1, <3>2
  <2>2. g = [k \in 1..(m + Len(w)) |-> g[k]]
    OBVIOUS
  <2> HIDE DEF g, m
  <2> QED BY <2>1, <2>2
<1>7. ASSUME NEW k \in 1..(m + Len(w)), NEW l \in 1..(m + Len(w)), k < l PROVE g[k] < g[l]
  <2>1. CASE l \in 1..m
    <3>1. k \in 1..m
      BY <1>1, <1>7, <2>1
    <3> HIDE DEF g
    <3> QED BY <1>1, <1>5, <1>7, <2>1, <3>1
  <2>2. CASE k \in 1..m /\ l > m
    <3>1. g[k] \in a..b /\ g[l] \in e..n
      BY <1>4, <1>5, <2>2
    <3> HIDE DEF g, m
    <3> QED BY <1>1, <3>1
  <2>3. CASE k > m /\ l > m
    <3>1. k - m \in 1..Len(w) /\ l - m \in 1..Len(w) /\ g[k] = pos[k - m] /\ g[l] = pos[l - m]
      BY <1>5, <2>3
    <3>2. k - m < l - m
      BY <1>1, <1>7
    <3> HIDE DEF g, m
    <3> QED BY <1>4, <3>1, <3>2
  <2> QED BY <1>5a, <2>1, <2>2, <2>3
<1>8. ASSUME NEW k \in 1..(m + Len(w)) PROVE v[k] = s[g[k]]
  <2>1. CASE k \in 1..m
    <3>1. k <= m
      BY <1>1, <2>1
    <3> HIDE DEF g, m
    <3> QED BY <1>2, <1>3, <1>5, <2>1, <3>1
  <2>2. CASE k > m
    <3>1. ~(k <= m)
      BY <1>1, <2>2
    <3> HIDE DEF g, m
    <3> QED BY <1>3, <1>4, <1>5, <2>2, <3>1
  <2> QED BY <1>5a, <2>1, <2>2
<1>9. ASSUME NEW j \in a..b PROVE \E k \in 1..Len(v) : g[k] = j
  <2>1. j - a + 1 \in 1..m /\ j - a + 1 \in 1..(m + Len(w)) /\ a + (j - a + 1) - 1 = j
    BY <1>1
  <2>2. g[j - a + 1] = j
    <3> HIDE DEF g, m
    <3> QED BY <1>5, <2>1
  <2> HIDE DEF g, m
  <2> QED BY <1>3, <2>1, <2>2
<1>10. ASSUME NEW l \in 1..Len(w) PROVE \E k \in 1..Len(v) : g[k] = pos[l]
  <2>1. l + m \in 1..(m + Len(w)) /\ l + m > m /\ (l + m) - m = l
    BY <1>1
  <2>2. g[l + m] = pos[l]
    <3> HIDE DEF g, m
    <3> QED BY <1>5, <2>1
  <2> HIDE DEF g, m
  <2> QED BY <1>3, <2>1, <2>2
<1>11. Spells(s, i, g, v)
  <2> HIDE DEF g, m
  <2> QED BY <1>3, <1>6, <1>7, <1>8 DEF Spells
<1>12. Continues(s, i, g, v, a, b, pos, w)
  BY <1>9, <1>10, <1>11 DEF Continues
<1> HIDE DEF g
<1> QED BY <1>12 DEF v, c

\* The clusters of the runes from i on: none is empty, each is one of the text, and
\* together they spell all that is needed.
RightFrom(s, i, r) ==
  /\ r \in Seq(Seq(Runes))
  /\ \A k \in 1..Len(r) : r[k] # <<>> /\ \E q \in 1..Len(s) : r[k] = Cluster(s, q)
  /\ \E pos : SpellsAll(s, i, pos, FlattenSeq(r))

LEMMA SplitRight ==
  ASSUME NEW s \in Seq(Runes), NEW f, SplitsFrom(f, s, 1), NEW i \in 1..Len(s) + 1
  PROVE  RightFrom(s, i, f[i])
<1> DEFINE n == Len(s)
           G == {m \in 1..n + 1 : RightFrom(s, m, f[m])}
<1>1. n \in Nat /\ DOMAIN s = 1..n
  BY LenProperties
<1>2. \A m \in 1..n + 1 : f[m] = FromBody(f, s, m)
  BY DEF SplitsFrom
<1>3. ASSUME NEW m \in 1..n + 1, (m + 1)..(n + 1) \subseteq G PROVE RightFrom(s, m, f[m])
  <2>1. CASE m > n
    <3>1. f[m] = <<>> /\ m = n + 1
      <4>1. FromBody(f, s, m) = <<>>
        BY <2>1, Zenon DEF FromBody
      <4>2. m = n + 1
        BY <1>1, <2>1
      <4> QED BY <1>2, <4>1, <4>2
    <3>2. FlattenSeq(f[m]) = <<>> /\ Len(<<>>) = 0 /\ <<>> \in Seq(Seq(Runes))
      BY <3>1 DEF FlattenSeq
    <3> DEFINE pos == [k \in 1..0 |-> m]
    <3>3. pos \in [1..0 -> m..n] /\ \A k \in 1..0 : FALSE
      OBVIOUS
    <3>4. \A j \in m..n : FALSE
      BY <1>1, <3>1
    <3> HIDE DEF pos
    <3>5. SpellsAll(s, m, pos, <<>>)
      BY <3>2, <3>3, <3>4 DEF SpellsAll, Spells
    <3> QED BY <3>1, <3>2, <3>3, <3>5 DEF RightFrom
  <2>2. CASE m \in 1..n
    <3> DEFINE e == ClusterEnd(s, m)
               r == f[e]
               c == Cluster(s, m)
               w == FlattenSeq(r)
    <3>1. /\ e \in (m + 1)..(n + 1) /\ e \in 1..n + 1
          /\ e <= n /\ s[e] = "zwj" => s[e - 1] # "emoji"
      <4>1. /\ ClusterEnd(s, m) \in (m + 1)..(Len(s) + 1)
            /\ ClusterEnd(s, m) <= Len(s) /\ s[ClusterEnd(s, m)] = "zwj" => s[ClusterEnd(s, m) - 1] # "emoji"
        BY <2>2, ClusterEndRight
      <4> HIDE DEF G
      <4> QED BY <1>1, <2>2, <4>1
    <3>2. f[m] = (IF c = <<>> THEN <<>> ELSE <<c>>) \o r
      <4>1. ~(m > Len(s))
        BY <1>1, <2>2
      <4>2. FromBody(f, s, m) = (IF c = <<>> THEN <<>> ELSE <<c>>) \o r
        BY <4>1, Zenon DEF FromBody
      <4> QED BY <1>2, <4>2
    <3>3. RightFrom(s, e, r)
      BY <1>3, <3>1
    <3>4. \/ c = <<>> /\ \A j \in m..(e - 1) : ~Cut(s, m, j)
          \/ \E a \in m..(e - 1) : \E b \in a..(e - 1) :
               c = SubSeq(s, a, b) /\ \A j \in m..(e - 1) : Cut(s, m, j) => j \in a..b
      BY <2>2, ClusterSpells
    <3>5. \A j \in m..n : Cut(s, m, j) => j \in Needed(s)
      BY DEF Cut
    <3> HIDE DEF e, c, w, r
    <3>6. /\ r \in Seq(Seq(Runes)) /\ Len(r) \in Nat
          /\ \A k \in 1..Len(r) : r[k] # <<>> /\ \E q \in 1..n : r[k] = Cluster(s, q)
      BY <3>3, LenProperties DEF RightFrom
    <3>7. PICK pos : SpellsAll(s, e, pos, w)
      BY <3>3 DEF RightFrom, w
    <3>8. /\ pos \in [1..Len(w) -> e..n] /\ Spells(s, e, pos, w)
          /\ \A k, l \in 1..Len(w) : k < l => pos[k] < pos[l]
          /\ \A k \in 1..Len(w) : w[k] = s[pos[k]]
          /\ \A j \in e..n : Cut(s, e, j) => \E k \in 1..Len(w) : pos[k] = j
      BY <3>7 DEF SpellsAll, Spells
    <3>9. w \in Seq(Runes)
      BY <3>6, FlattenOneMore DEF w
    <3>10. ASSUME NEW j \in e..n, j \in Needed(s) PROVE \E k \in 1..Len(w) : pos[k] = j
      <4>1. CASE j = e /\ s[j] = "zwj"
        <5>1. j \in Bridges(s)
          BY <3>10, <4>1 DEF Needed, Meant
        <5> QED BY <1>1, <3>1, <4>1, <5>1 DEF Bridges
      <4> QED BY <3>8, <3>10, <4>1 DEF Cut
    <3>11. CASE c = <<>> /\ \A j \in m..(e - 1) : ~Cut(s, m, j)
      <4>1. f[m] = r
        BY <3>2, <3>6, <3>11, ConcatEmptySeq
      <4>3. ASSUME NEW j \in m..n, Cut(s, m, j) PROVE \E k \in 1..Len(w) : pos[k] = j
        <5>1. j \in e..n \/ j \in m..(e - 1)
          BY <1>1, <3>1
        <5> QED BY <3>5, <3>10, <3>11, <4>3, <5>1
      <4>4. pos \in [1..Len(w) -> m..n]
        <5>1. e..n \subseteq m..n
          BY <1>1, <3>1
        <5> QED BY <3>8, <5>1
      <4>5. SpellsAll(s, m, pos, w)
        BY <3>8, <4>3, <4>4 DEF SpellsAll, Spells
      <4> QED BY <3>6, <4>1, <4>5 DEF RightFrom, w
    <3>12. CASE \E a \in m..(e - 1) : \E b \in a..(e - 1) :
                  c = SubSeq(s, a, b) /\ \A j \in m..(e - 1) : Cut(s, m, j) => j \in a..b
      <4>1. PICK a \in m..(e - 1) : \E b \in a..(e - 1) :
                  c = SubSeq(s, a, b) /\ \A j \in m..(e - 1) : Cut(s, m, j) => j \in a..b
        BY <3>12
      <4>2. PICK b \in a..(e - 1) :
                  c = SubSeq(s, a, b) /\ \A j \in m..(e - 1) : Cut(s, m, j) => j \in a..b
        BY <4>1
      <4>3. c \in Seq(Runes) /\ c # <<>>
        <5>1. a \in Int /\ b \in Int /\ a <= b /\ \A k \in a..b : s[k] \in Runes
          BY <1>1, <2>2, <3>1, LenProperties
        <5>2. c \in Seq(Runes) /\ Len(c) = b - a + 1
          BY <4>2, <5>1, SubSeqProperties
        <5>3. Len(c) # 0
          BY <5>1, <5>2
        <5> QED BY <5>2, <5>3, EmptySeq
      <4>4. f[m] = <<c>> \o r /\ <<c>> \in Seq(Seq(Runes)) /\ Len(<<c>>) = 1 /\ <<c>>[1] = c
        BY <3>2, <4>3
      <4>5. FlattenSeq(f[m]) = c \o w
        BY <3>6, <4>3, <4>4, FlattenFront DEF w
      <4>6. /\ f[m] \in Seq(Seq(Runes)) /\ Len(f[m]) = 1 + Len(r)
            /\ \A k \in 1..1 + Len(r) : f[m][k] = IF k <= 1 THEN c ELSE r[k - 1]
        <5>1. \A k \in 1..1 + Len(r) : k <= 1 => k = 1
          BY <3>6
        <5> QED BY <3>6, <4>4, <5>1, ConcatProperties
      <4>7. ASSUME NEW k \in 1..Len(f[m]) PROVE f[m][k] # <<>> /\ \E q \in 1..n : f[m][k] = Cluster(s, q)
        <5>1. CASE k <= 1
          BY <2>2, <4>3, <4>6, <5>1 DEF c
        <5>2. CASE ~(k <= 1)
          <6>1. k - 1 \in 1..Len(r)
            BY <3>6, <4>6, <5>2
          <6> QED BY <3>6, <4>6, <5>2, <6>1
        <5> QED BY <5>1, <5>2
      <4>7a. a \in m..(e - 1) /\ b \in a..(e - 1) /\ m \in 1..Len(s) /\ e \in (m + 1)..(Len(s) + 1) /\ w \in Seq(Runes)
             /\ Spells(s, e, pos, w)
        BY <2>2, <3>1, <3>8, <3>9, <4>1, <4>2
      <4>7b. PICK g : Continues(s, m, g, SubSeq(s, a, b) \o w, a, b, pos, w)
        <5> HIDE DEF n, G
        <5> QED BY <4>7a, SpellsMore
      <4>8. /\ Spells(s, m, g, c \o w)
            /\ \A j \in a..b : \E k \in 1..Len(c \o w) : g[k] = j
            /\ \A l \in 1..Len(w) : \E k \in 1..Len(c \o w) : g[k] = pos[l]
        BY <4>2, <4>7b DEF Continues
      <4>9. ASSUME NEW j \in m..n, Cut(s, m, j) PROVE \E k \in 1..Len(c \o w) : g[k] = j
        <5>1. j \in e..n \/ j \in m..(e - 1)
          BY <1>1, <3>1
        <5>2. CASE j \in e..n
          <6>1. PICK l \in 1..Len(w) : pos[l] = j
            BY <3>5, <3>10, <4>9, <5>2
          <6> QED BY <4>8, <6>1
        <5>3. CASE j \in m..(e - 1)
          BY <4>2, <4>8, <4>9, <5>3
        <5> QED BY <5>1, <5>2, <5>3
      <4>10. SpellsAll(s, m, g, c \o w)
        BY <4>8, <4>9 DEF SpellsAll
      <4> QED BY <4>5, <4>6, <4>7, <4>10 DEF RightFrom
    <3> QED BY <3>4, <3>11, <3>12
  <2> QED BY <1>1, <2>1, <2>2
<1>4. \A m \in 1..n + 1 : m \in G
  <2>1. G \in SUBSET (1..n + 1) /\ n + 1 \in Nat
    BY <1>1
  <2>2. \A m \in 1..n + 1 : (m + 1)..(n + 1) \subseteq G => m \in G
    BY <1>3
  <2> HIDE DEF G
  <2> QED BY <2>1, <2>2, DownwardInduction
<1> QED BY <1>4

\* As many positions on either side, and in the same order.
Rises(pos, m, n) == pos \in [1..m -> 1..n] /\ \A k, l \in 1..m : k < l => pos[k] < pos[l]

LEMMA SameCount ==
  ASSUME NEW m \in Nat, NEW n \in Nat, NEW pos, Rises(pos, m, n), NEW K \in SUBSET (1..m)
  PROVE  Cardinality({pos[k] : k \in K}) = Cardinality(K)
<1> DEFINE Images == {pos[k] : k \in K}
           g == [k \in K |-> pos[k]]
<1>1. IsFiniteSet(K) /\ pos \in [1..m -> 1..n] /\ \A k, l \in 1..m : k < l => pos[k] < pos[l]
  BY KeptIsFinite DEF Rises
<1>2. ASSUME NEW k \in K, NEW l \in K, pos[k] = pos[l] PROVE k = l
  <2>1. k \in 1..m /\ l \in 1..m /\ k \in Int /\ l \in Int /\ pos[k] \in Int /\ pos[l] \in Int
    BY <1>1
  <2>2. ~(k < l) /\ ~(l < k)
    BY <1>1, <1>2, <2>1
  <2> QED BY <2>1, <2>2
<1>3. g \in Bijection(K, Images)
  <2>1. g \in [K -> Images]
    OBVIOUS
  <2>2. \A k, l \in K : g[k] = g[l] => k = l
    BY <1>2
  <2>3. \A t \in Images : \E k \in K : g[k] = t
    OBVIOUS
  <2> HIDE DEF g, Images
  <2> QED BY <2>1, <2>2, <2>3 DEF Bijection, Injection, Surjection, IsInjective
<1>4. ExistsBijection(K, Images)
  <2> HIDE DEF g, Images
  <2> QED BY <1>3 DEF ExistsBijection
<1> HIDE DEF Images
<1> QED BY <1>1, <1>4, FS_Bijection DEF Images

LEMMA WithoutIs ==
  ASSUME NEW s \in Seq(Runes)
  PROVE  /\ Without(s, "zwj") = At(s, Meant(s))
         /\ Len(s) \in Nat /\ Meant(s) \in SUBSET (1..Len(s)) /\ Bridges(s) \in SUBSET (1..Len(s))
         /\ Meant(s) \cap Bridges(s) = {}
         /\ Len(Without(s, "zwj")) = Cardinality(Meant(s))
<1>1. Len(s) \in Nat /\ DOMAIN s = 1..Len(s) /\ \A k \in 1..Len(s) : s[k] \in Runes
  BY LenProperties
<1>2. Without(s, "zwj") = At(s, Meant(s))
  BY Zenon DEF Without, Meant
<1>3. Meant(s) \in SUBSET (1..Len(s)) /\ Bridges(s) \in SUBSET (1..Len(s)) /\ Meant(s) \cap Bridges(s) = {}
  BY <1>1 DEF Meant, Bridges
<1>4. \A k \in Meant(s) : s[k] \in Runes
  BY <1>1, <1>3
<1> QED BY <1>1, <1>2, <1>3, <1>4, KeptIsText

LEMMA SpeltKeeps ==
  ASSUME NEW s \in Seq(Runes), NEW w \in Seq(Runes), NEW pos, SpellsAll(s, 1, pos, w)
  PROVE  /\ Without(w, "zwj") = Without(s, "zwj")
         /\ TimesIn(w, "zwj") >= Cardinality(Bridges(s))
<1> DEFINE m == Len(w)
           n == Len(s)
<1>1. m \in Nat /\ n \in Nat /\ DOMAIN s = 1..n /\ DOMAIN w = 1..m
  BY LenProperties
<1>2. /\ pos \in [1..m -> 1..n]
      /\ \A k, l \in 1..m : k < l => pos[k] < pos[l]
      /\ \A k \in 1..m : w[k] = s[pos[k]]
  BY DEF SpellsAll, Spells
<1>3. ASSUME NEW j \in Needed(s) PROVE \E k \in 1..m : pos[k] = j
  <2>1. j \in 1..n /\ Cut(s, 1, j)
    BY <1>1, <1>3 DEF Needed, Meant, Bridges, Cut
  <2> QED BY <2>1 DEF SpellsAll
<1>4. /\ Without(s, "zwj") = At(s, Meant(s)) /\ Without(w, "zwj") = At(w, Meant(w))
      /\ Meant(s) \in SUBSET (1..n) /\ Meant(w) \in SUBSET (1..m) /\ Bridges(s) \in SUBSET (1..n)
      /\ Meant(s) \cap Bridges(s) = {}
      /\ Len(Without(s, "zwj")) = Cardinality(Meant(s))
      /\ Len(Without(w, "zwj")) = Cardinality(Meant(w))
  BY WithoutIs
<1>4a. Rises(pos, m, n)
  BY <1>2 DEF Rises
<1> HIDE DEF m, n
<1>5. ASSUME NEW k \in Meant(w) PROVE k \in 1..m /\ pos[k] \in Meant(s) /\ pos[k] \in 1..n
  BY <1>1, <1>2, <1>4, <1>5 DEF Meant
<1>6. ASSUME NEW j \in Meant(s) PROVE \E k \in Meant(w) : pos[k] = j
  <2>1. j \in Needed(s) /\ s[j] # "zwj"
    BY <1>6 DEF Needed, Meant
  <2>2. PICK k \in 1..m : pos[k] = j
    BY <1>3, <2>1
  <2>3. k \in Meant(w)
    BY <1>1, <1>2, <2>1, <2>2 DEF Meant
  <2> QED BY <2>2, <2>3
<1>7. Cardinality(Meant(s)) = Cardinality(Meant(w))
  <2>1. {pos[k] : k \in Meant(w)} = Meant(s)
    BY <1>5, <1>6
  <2> QED BY <1>1, <1>4, <1>4a, <2>1, SameCount
<1>8. ASSUME NEW k \in Meant(w) PROVE Place(Meant(s), pos[k]) = Place(Meant(w), k)
  <2> DEFINE K == {l \in Meant(w) : l <= k}
  <2>1. K \in SUBSET (1..m)
    BY <1>4
  <2>2. {pos[l] : l \in K} = {j \in Meant(s) : j <= pos[k]}
    <3>1. ASSUME NEW l \in K PROVE pos[l] \in Meant(s) /\ pos[l] <= pos[k]
      <4>1. l \in 1..m /\ k \in 1..m /\ pos[l] \in 1..n /\ pos[k] \in 1..n /\ pos[l] \in Meant(s) /\ l <= k
        BY <1>5
      <4>2. l = k \/ l < k
        BY <4>1
      <4>3. l < k => pos[l] < pos[k]
        BY <1>2, <4>1
      <4> QED BY <1>1, <4>1, <4>2, <4>3
    <3>2. ASSUME NEW j \in Meant(s), j <= pos[k] PROVE \E l \in K : pos[l] = j
      <4>1. PICK l \in Meant(w) : pos[l] = j
        BY <1>6
      <4>2. l \in 1..m /\ k \in 1..m /\ pos[l] \in 1..n /\ pos[k] \in 1..n
        BY <1>5
      <4>3. k < l => pos[k] < pos[l]
        BY <1>2, <4>2
      <4>4. l <= k
        BY <1>1, <3>2, <4>1, <4>2, <4>3
      <4> QED BY <4>1, <4>4
    <3> QED BY <3>1, <3>2
  <2>3. Cardinality({pos[l] : l \in K}) = Cardinality(K)
    <3> HIDE DEF K
    <3> QED BY <1>1, <1>4a, <2>1, SameCount
  <2> QED BY <2>2, <2>3 DEF Place
<1>8a. ASSUME NEW p \in 1..Cardinality(Meant(w)) PROVE At(w, Meant(w))[p] = At(s, Meant(s))[p]
  <2>0. Meant(w) \in SUBSET (1..m) /\ Meant(s) \in SUBSET (1..n) /\ m \in Nat /\ n \in Nat
    BY <1>1, <1>4
  <2>1. PICK k \in Meant(w) : Place(Meant(w), k) = p
    BY <2>0, EveryPlaceIsTaken
  <2>2. At(w, Meant(w))[p] = w[k]
    BY <2>0, <2>1, CharacterAtPlace
  <2>3. pos[k] \in Meant(s) /\ Place(Meant(s), pos[k]) = p /\ w[k] = s[pos[k]]
    BY <1>2, <1>5, <1>8, <2>1
  <2>4. At(s, Meant(s))[Place(Meant(s), pos[k])] = s[pos[k]]
    BY <2>0, <2>3, CharacterAtPlace
  <2> QED BY <2>2, <2>3, <2>4
<1>9. Without(w, "zwj") = Without(s, "zwj")
  <2> DEFINE A == At(w, Meant(w))
             B == At(s, Meant(s))
             c == Cardinality(Meant(w))
  <2>1. A = [p \in 1..c |-> A[p]] /\ B = [p \in 1..c |-> B[p]]
    BY <1>7 DEF At
  <2>2. \A p \in 1..c : A[p] = B[p]
    BY <1>8a
  <2> HIDE DEF A, B, c
  <2>3. A = B
    BY <2>1, <2>2
  <2> QED BY <1>4, <2>3 DEF A, B
<1>10. m >= Cardinality(Meant(s)) + Cardinality(Bridges(s))
  <2> DEFINE R == {pos[k] : k \in 1..m}
  <2>1. Cardinality(R) = m
    <3>1. Cardinality(R) = Cardinality(1..m)
      <4>1. 1..m \in SUBSET (1..m)
        OBVIOUS
      <4> QED BY <1>1, <1>4a, <4>1, SameCount
    <3>2. Cardinality(1..m) = m
      BY <1>1, FS_Interval
    <3> QED BY <3>1, <3>2
  <2>2. R \in SUBSET (1..n) /\ Needed(s) \in SUBSET R
    BY <1>2, <1>3
  <2> HIDE DEF R
  <2>3. IsFiniteSet(R)
    BY <1>1, <2>2, KeptIsFinite
  <2>4. Cardinality(Needed(s)) <= m
    BY <2>1, <2>2, <2>3, FS_Subset
  <2>5. IsFiniteSet(Meant(s)) /\ IsFiniteSet(Bridges(s))
    BY <1>1, <1>4, KeptIsFinite
  <2>6. Cardinality(Needed(s)) = Cardinality(Meant(s)) + Cardinality(Bridges(s)) - Cardinality({})
    BY <1>4, <2>5, FS_Union DEF Needed
  <2>7. Cardinality({}) = 0 /\ Cardinality(Meant(s)) \in Nat /\ Cardinality(Bridges(s)) \in Nat
    BY <2>5, FS_EmptySet, FS_CardinalityType
  <2> QED BY <1>1, <2>4, <2>6, <2>7
<1>11. TimesIn(w, "zwj") = m - Cardinality(Meant(s))
  BY <1>4, <1>7 DEF TimesIn, m
<1>12. Cardinality(Meant(s)) \in Nat /\ Cardinality(Bridges(s)) \in Nat
  BY <1>1, <1>4, KeptIsFinite
<1> QED BY <1>1, <1>9, <1>10, <1>11, <1>12

LEMMA EmojiClusterIsValid ==
  ASSUME NEW s \in Seq(Runes), NEW i \in 1..Len(s), Cluster(s, i) # <<>>, IsEmojiCluster(Cluster(s, i))
  PROVE  LET c == Cluster(s, i)
         IN  /\ c[1] # "zwj" /\ Last(c) # "zwj"
             /\ ~Contains(c, "keycap") => /\ c[1] \in IsEmoji
                                          /\ Contains(c, "ri") => c = <<"ri", "ri">>
<1> DEFINE c == Cluster(s, i)
           e == ClusterEnd(s, i)
<1>1. /\ Len(s) \in Nat /\ e \in (i + 1)..(Len(s) + 1)
      /\ IsFlag(s, i) => e = i + 2
      /\ ~IsFlag(s, i) => \A k \in (i + 1)..(e - 1) : s[k] # "ri"
      /\ \A k \in 1..Len(s) : s[k] \in Runes
  BY ClusterEndRight, LenProperties
<1>2. Trimmed(s, i, e, c)
  BY ClusterIs
<1>3. c # <<>> /\ IsEmojiCluster(c)
  OBVIOUS
<1> HIDE DEF c, e
<1>4. PICK a \in i..(e - 1) : \E b \in a..(e - 1) : c = SubSeq(s, a, b) /\ s[a] # "zwj" /\ s[b] # "zwj"
  BY <1>2, <1>3 DEF Trimmed
<1>5. PICK b \in a..(e - 1) : c = SubSeq(s, a, b) /\ s[a] # "zwj" /\ s[b] # "zwj"
  BY <1>4
<1>6. c \in Seq(Runes) /\ Len(c) = b - a + 1 /\ \A k \in 1..(b - a + 1) : c[k] = s[a + k - 1]
  <2>1. a \in Int /\ b \in Int /\ a <= b /\ \A k \in a..b : s[k] \in Runes
    BY <1>1
  <2> QED BY <1>5, <2>1, SubSeqProperties
<1>7. c[1] = s[a] /\ Last(c) = s[b]
  <2>1. /\ 1 \in 1..(b - a + 1) /\ b - a + 1 \in 1..(b - a + 1)
        /\ a + 1 - 1 = a /\ a + (b - a + 1) - 1 = b
    BY <1>1
  <2> QED BY <1>6, <2>1 DEF Last
<1>8. ASSUME ~Contains(c, "keycap") PROVE c[1] \in IsEmoji
  BY <1>3, <1>8 DEF IsEmojiCluster, IsEmoji
<1>9. ASSUME ~Contains(c, "keycap"), Contains(c, "ri") PROVE c = <<"ri", "ri">>
  <2>1. CASE c[1] = "ri" /\ Len(c) = 2 /\ c[2] = "ri"
    <3> DEFINE flag == <<"ri", "ri">>
    <3>1. flag \in Seq(Runes) /\ Len(flag) = 2 /\ flag[1] = "ri" /\ flag[2] = "ri"
      BY DEF Runes
    <3> HIDE DEF flag
    <3>2. \A k \in 1..Len(c) : c[k] = flag[k]
      BY <2>1, <3>1
    <3>3. c = flag
      BY <1>6, <2>1, <3>1, <3>2, SeqEqual
    <3> QED BY <3>3 DEF flag
  <2>2. CASE c[1] # "ri"
    <3>1. PICK k \in 1..Len(c) : c[k] = "ri"
      BY <1>9 DEF Contains
    <3>2. k # 1 /\ a + k - 1 \in (i + 1)..(e - 1) /\ s[a + k - 1] = "ri"
      BY <1>1, <1>6, <2>2, <3>1
    <3>3. IsFlag(s, i)
      BY <1>1, <3>2
    <3>4. a = i \/ a = i + 1
      BY <1>1, <3>3
    <3>5. s[a] = "ri"
      BY <3>3, <3>4 DEF IsFlag
    <3> QED BY <1>7, <2>2, <3>5
  <2> QED BY <1>3, <1>9, <2>1, <2>2 DEF IsEmojiCluster, IsEmoji
<1> QED BY <1>5, <1>7, <1>8, <1>9 DEF c

LEMMA EmojiValid ==
  ASSUME text \in Seq(Runes)
  PROVE  EmojiAreValid
<1> DEFINE P == ParseEmoji(text)
           w == FlattenSeq(P)
<1> SUFFICES ASSUME P # NotEmoji
             PROVE  /\ \A i \in DOMAIN P :
                         /\ P[i][1] # "zwj" /\ Last(P[i]) # "zwj"
                         /\ ~Contains(P[i], "keycap") => /\ P[i][1] \in IsEmoji
                                                         /\ Contains(P[i], "ri") => P[i] = <<"ri", "ri">>
                    /\ Without(w, "zwj") = Without(text, "zwj")
                    /\ TimesIn(w, "zwj") >= Cardinality(Bridges(text))
  BY Zenon DEF EmojiAreValid, Bridges
<1>1. P = SplitClusters(text) /\ \A i \in DOMAIN P : IsEmojiCluster(P[i])
  BY Zenon DEF ParseEmoji
<1>2. PICK f : SplitsFrom(f, text, 1) /\ SplitClusters(text) = f[1]
  BY SplitIs
<1>3. RightFrom(text, 1, P)
  <2>1. 1 \in 1..Len(text) + 1
    BY LenProperties
  <2>2. RightFrom(text, 1, f[1])
    BY <1>2, <2>1, SplitRight
  <2> HIDE DEF P
  <2> QED BY <1>1, <1>2, <2>2
<1> HIDE DEF P
<1>4. /\ P \in Seq(Seq(Runes)) /\ DOMAIN P = 1..Len(P)
      /\ \A k \in 1..Len(P) : P[k] # <<>> /\ \E q \in 1..Len(text) : P[k] = Cluster(text, q)
  BY <1>3, LenProperties DEF RightFrom
<1>5. PICK pos : SpellsAll(text, 1, pos, w)
  BY <1>3 DEF RightFrom
<1>6. w \in Seq(Runes)
  BY <1>4, FlattenOneMore
<1> HIDE DEF w
<1>7. Without(w, "zwj") = Without(text, "zwj") /\ TimesIn(w, "zwj") >= Cardinality(Bridges(text))
  BY <1>5, <1>6, SpeltKeeps
<1>8. ASSUME NEW i \in DOMAIN P
      PROVE  /\ P[i][1] # "zwj" /\ Last(P[i]) # "zwj"
             /\ ~Contains(P[i], "keycap") => /\ P[i][1] \in IsEmoji
                                             /\ Contains(P[i], "ri") => P[i] = <<"ri", "ri">>
  <2>1. PICK q \in 1..Len(text) : P[i] = Cluster(text, q)
    BY <1>4
  <2>2. Cluster(text, q) # <<>> /\ IsEmojiCluster(Cluster(text, q))
    BY <1>1, <1>4, <2>1
  <2> QED BY <2>1, <2>2, EmojiClusterIsValid
<1> QED BY <1>7, <1>8

TextTyped == text \in Seq(Runes)

\* For every text typed as the arguments of /addsticker, what parseEmoji accepts
\* Telegram can take: no cluster begins or ends with a joiner, a flag is two halves
\* alone, and no rune is lost but joiners that join nothing (sticker_emoji.go).
THEOREM StickerEmojiAreValidCorrect == CommandsSpec => []StickerEmojiAreValid
<1>0. <<>> \in Seq(Runes)
  OBVIOUS
<1>1. CommandsInit => TextTyped
  <2>1. StickerInit => text = <<>>
    BY DEF StickerInit, EmojiInit
  <2>2. CommandsInit => StickerInit
    BY Zenon DEF CommandsInit, StickerRest
  <2> QED BY <1>0, <2>1, <2>2 DEF TextTyped
<1>2. TextTyped /\ [CommandsNext]_commandVars => TextTyped'
  <2> SUFFICES ASSUME text \in Seq(Runes), [CommandsNext]_commandVars PROVE text' \in Seq(Runes)
    BY DEF TextTyped
  <2>1. CASE TypeRune
    BY <2>1, AppendProperties DEF TypeRune
  <2>2. CASE text' = <<>> \/ text' = text
    BY <1>0, <2>2
  <2>3. StickerNext => TypeRune \/ text' = <<>> \/ text' = text
    BY DEF StickerNext, AddSticker, ResolveUsername, Media, Add, Create, Reply, DeletePack, Reconfigure
  <2>4. TypeRune \/ StickerNext \/ text' = text
    BY DEF CommandsNext, commandVars, stickerVars
  <2> QED BY <2>1, <2>2, <2>3, <2>4
<1>3. TextTyped => StickerEmojiAreValid
  BY EmojiValid DEF StickerEmojiAreValid, TextTyped
<1> QED BY <1>1, <1>2, <1>3, PTL DEF CommandsSpec
=============================================================================
