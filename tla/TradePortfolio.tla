--------------------------- MODULE TradePortfolio ---------------------------
(***************************************************************************)
(* The paper-trading account of one user of gold or of coin.  A handler    *)
(* gets a price, takes the user's lock, and updates the portfolio with a   *)
(* versioned write, again on a conflict.  Amounts are in units finer than  *)
(* the dust tolerance Eps (goldDustEpsilon, coinDustEpsilon).  The share   *)
(* of the cost basis that a coin sale removes is left out: it fails only   *)
(* where a little more is sold than is held, and that is kept.             *)
(***************************************************************************)
EXTENDS Integers

CONSTANTS Handlers, Processes,
          Placements,    \* the process of each handler: one, or two during a redeploy
          Eps,
          Amounts,       \* money and quantities of a trade
          MaxAttempts,   \* portfolioUpdateAttempts
          MaxTrades      \* bound: trades started

ASSUME TradeAssumption == /\ Placements \subseteq [Handlers -> Processes] /\ Eps \in Nat \ {0} /\ Amounts \subseteq Nat \ {0}
                          /\ MaxAttempts \in Nat \ {0} /\ MaxTrades \in Nat

VARIABLES kind,      \* "gold" or "coin"
          proc,      \* the placement
          doc,       \* the stored portfolio
          lock,      \* keylock of each process: its holder, or "free"
          h,         \* what each handler does
          booked,    \* history: exact sums of the trades that were written
          trades     \* history: how many were started, and written

vars == <<kind, proc, doc, lock, h, booked, trades>>

Assets == [cash : Int, held : Int]
NoTrade == [op |-> "none", money |-> 0, qty |-> 0]
Trades  == [op : {"topup", "buy", "sell"}, money : Amounts \cup {0}, qty : Amounts \cup {0}]
Rest    == [at |-> "idle", trade |-> NoTrade, version |-> 0, read |-> [cash |-> 0, held |-> 0],
            attempt |-> 0, written |-> 0]

TypeOK ==
  /\ kind \in {"gold", "coin"} /\ proc \in [Handlers -> Processes]
  /\ doc \in [version : Nat, cash : Int, held : Int]
  /\ lock \in [Processes -> Handlers \cup {"free"}]
  /\ h \in [Handlers -> [at : {"idle", "price", "lock", "load", "save", "done", "refused", "failed"},
                         trade : Trades \cup {NoTrade}, version : Nat, read : Assets,
                         attempt : 0..MaxAttempts, written : 0..1]]
  /\ booked \in Assets
  /\ trades \in [begun : 0..MaxTrades, written : Nat]

Init == /\ kind \in {"gold", "coin"} /\ proc \in Placements
        /\ doc = [version |-> 0, cash |-> 0, held |-> 0]
        /\ lock = [p \in Processes |-> "free"] /\ h = [x \in Handlers |-> Rest]
        /\ booked = [cash |-> 0, held |-> 0] /\ trades = [begun |-> 0, written |-> 0]
-----------------------------------------------------------------------------
Normal(n) == IF n \in (1 - Eps)..(Eps - 1) THEN 0 ELSE n

Covers(balance, amount) == balance + Eps >= amount

\* What a trade adds to the money and to the asset.
Money(t) == IF t.op = "buy" THEN -t.money ELSE t.money
Asset(t) == IF t.op = "buy" THEN t.qty ELSE IF t.op = "sell" THEN -t.qty ELSE 0

\* Mutant: the check of the balance forgets that selling needs the asset.
MutAccepts(p, t) == t.op = "buy" => Covers(p.cash, t.money)

Accepts(p, t) == CASE t.op = "topup" -> TRUE
                   [] t.op = "buy"   -> Covers(p.cash, t.money)
                   [] t.op = "sell"  -> Covers(p.held, t.qty)

\* Coins are not normalised when they are bought.
Traded(p, t) == [cash |-> Normal(p.cash + Money(t)),
                 held |-> IF kind = "coin" /\ t.op # "sell" THEN p.held + Asset(t)
                          ELSE Normal(p.held + Asset(t))]

\* Portfolio.Validate, and the cost basis that remains after a sale.
Valid(p) == kind = "coin" => p.cash >= 0 /\ p.held >= 0
-----------------------------------------------------------------------------
To(x, at) == h' = [h EXCEPT ![x].at = at]

Start(x) == /\ h[x].at = "idle" /\ trades.begun < MaxTrades
            /\ trades' = [trades EXCEPT !.begun = @ + 1]
            /\ \/ \E m \in Amounts : h' = [h EXCEPT ![x] = [Rest EXCEPT
                    !.at = "lock", !.trade = [op |-> "topup", money |-> m, qty |-> 0]]]
               \/ \E op \in {"buy", "sell"} :
                    h' = [h EXCEPT ![x] = [Rest EXCEPT !.at = "price", !.trade = [NoTrade EXCEPT !.op = op]]]
            /\ UNCHANGED <<kind, proc, doc, lock, booked>>

\* The price, asked for without the lock, turns the quantity into money (gold)
\* or the money into a quantity (coin, refused when it is dust).
Price(x) == /\ h[x].at = "price"
            /\ \/ \E m, q \in Amounts :
                    /\ kind = "coin" => q >= Eps
                    /\ h' = [h EXCEPT ![x].at = "lock", ![x].trade = [op |-> @.op, money |-> m, qty |-> q]]
               \/ To(x, "refused")
            /\ UNCHANGED <<kind, proc, doc, lock, booked, trades>>

Lock(x) == /\ h[x].at = "lock" /\ lock[proc[x]] = "free"
           /\ lock' = [lock EXCEPT ![proc[x]] = x] /\ To(x, "load")
           /\ UNCHANGED <<kind, proc, doc, booked, trades>>

\* loadPortfolioForUpdate; version 0 is a portfolio that is not there yet.
Load(x) == /\ h[x].at = "load"
           /\ h' = [h EXCEPT ![x].at = "save", ![x].version = doc.version,
                             ![x].read = [cash |-> Normal(doc.cash), held |-> doc.held]]
           /\ UNCHANGED <<kind, proc, doc, lock, booked, trades>>

\* The mutation refuses, or its result is not valid.
Refuse(x) == /\ h[x].at = "save"
             /\ ~Accepts(h[x].read, h[x].trade) \/ ~Valid(Traded(h[x].read, h[x].trade))
             /\ To(x, "refused")
             /\ UNCHANGED <<kind, proc, doc, lock, booked, trades>>

Writable(x) == /\ h[x].at = "save" /\ Accepts(h[x].read, h[x].trade)
               /\ Valid(Traded(h[x].read, h[x].trade))

Store(x, at) ==
  LET t == h[x].trade
      p == Traded(h[x].read, t)
  IN  /\ Writable(x) /\ h[x].version = doc.version
      /\ doc' = [version |-> doc.version + 1, cash |-> p.cash, held |-> p.held]
      /\ h' = [h EXCEPT ![x].at = at, ![x].written = @ + 1]
      /\ booked' = [cash |-> booked.cash + Money(t), held |-> booked.held + Asset(t)]
      /\ trades' = [trades EXCEPT !.written = @ + 1]
      /\ UNCHANGED <<kind, proc, lock>>

Save(x) == Store(x, "done")

SaveUnacknowledged(x) == Store(x, "failed")

\* Mutant: a conflict writes the portfolio that was computed.
MutConflict(x) ==
  LET t == h[x].trade
      p == Traded(h[x].read, t)
  IN  /\ Writable(x) /\ h[x].version # doc.version
      /\ doc' = [version |-> doc.version + 1, cash |-> p.cash, held |-> p.held]
      /\ h' = [h EXCEPT ![x].at = "done", ![x].written = @ + 1]
      /\ booked' = [cash |-> booked.cash + Money(t), held |-> booked.held + Asset(t)]
      /\ trades' = [trades EXCEPT !.written = @ + 1]
      /\ UNCHANGED <<kind, proc, lock>>

\* Another container has written since: load again, so many times.
Conflict(x) ==
  /\ Writable(x) /\ h[x].version # doc.version
  /\ IF h[x].attempt + 1 < MaxAttempts
     THEN h' = [h EXCEPT ![x].at = "load", ![x].attempt = @ + 1]
     ELSE To(x, "failed")
  /\ UNCHANGED <<kind, proc, doc, lock, booked, trades>>

\* The store fails, and nothing is read or written.
StoreFails(x) == /\ h[x].at = "load" \/ Writable(x)
                 /\ To(x, "failed")
                 /\ UNCHANGED <<kind, proc, doc, lock, booked, trades>>

\* Mutant: the lock is released only after a trade that was written.
MutRelease(x) == /\ h[x].at \in {"done", "refused", "failed"}
                 /\ h' = [h EXCEPT ![x] = Rest]
                 /\ lock' = [p \in Processes |-> IF lock[p] = x /\ h[x].at = "done" THEN "free" ELSE lock[p]]
                 /\ UNCHANGED <<kind, proc, doc, booked, trades>>

\* The handler has replied; its deferred call releases the lock it holds.
Release(x) == /\ h[x].at \in {"done", "refused", "failed"}
              /\ h' = [h EXCEPT ![x] = Rest]
              /\ lock' = [p \in Processes |-> IF lock[p] = x THEN "free" ELSE lock[p]]
              /\ UNCHANGED <<kind, proc, doc, booked, trades>>

Step(x) == \/ Price(x) \/ Lock(x) \/ Load(x) \/ Refuse(x) \/ Save(x) \/ SaveUnacknowledged(x)
           \/ Conflict(x) \/ StoreFails(x) \/ Release(x)

Next == \E x \in Handlers : Start(x) \/ Step(x)

Spec == Init /\ [][Next]_vars /\ \A x \in Handlers : WF_vars(Step(x))
-----------------------------------------------------------------------------
Within(n, bound) == -bound <= n /\ n <= bound

\* A trade reported as done was written once, one reported as refused not at all,
\* and one reported as failed at most once (gold/handlers.go:101-120).
TradeOutcome == \A x \in Handlers : /\ h[x].at = "done" => h[x].written = 1
                                    /\ h[x].at = "refused" => h[x].written = 0
                                    /\ h[x].written <= 1

\* What users are told is true, and the portfolio is the sum of the trades that
\* were written, none overwritten by a trade of another container, up to less
\* than a dust for each trade (gold/portfolio.go:65-83, 133-147).
BooksBalance == /\ TradeOutcome
                /\ Within(doc.cash - booked.cash, (Eps - 1) * trades.written)
                /\ Within(doc.held - booked.held, (Eps - 1) * trades.written)

\* However trades at the boundary of the tolerance follow each other, money and
\* gold never fall below zero by more than one dust; those of coin, which are
\* validated, not at all (gold/portfolio.go:106-131, coin/portfolio.go:119-133).
NoOverdraft == /\ doc.cash >= -Eps /\ doc.held >= -Eps
               /\ kind = "coin" => doc.cash >= 0 /\ doc.held >= 0

\* Every command returns, whatever fails, and with it the lock.
TradesReturn == \A x \in Handlers : h[x].at # "idle" ~> h[x].at = "idle"
=============================================================================
