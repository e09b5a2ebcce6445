--------------------------- MODULE ServicesProofs ---------------------------
(***************************************************************************)
(* The services beside the commands.  Request slots of a crawl are a delay *)
(* apart, for any number of callers, any delay and any number of retries,  *)
(* through exports, restarts and clients that follow each other.  A book   *)
(* that is rendered is complete, for any novel, pages of any age, and a    *)
(* cache that other commands and torn writes disturb.  The renderer runs   *)
(* no more renders than its semaphore allows.                              *)
(***************************************************************************)
EXTENDS NovelExport, Renderer, FiniteSetTheorems, WellFoundedInduction, TLAPS

-----------------------------------------------------------------------------
(* The slots of a client *)

\* What the argument needs to know of types; the length of a backoff, a power
\* of two, does not matter to it.
ClientShape == /\ gap \in Nat /\ since \in 0..Delay /\ spacing \in Nat
         /\ call = [c \in Callers |-> [at |-> call[c].at, left |-> call[c].left,
                                       attempt |-> call[c].attempt]]
         /\ \A c \in Callers : call[c].at = "wait" => call[c].left \in Nat

ClientInv == ClientShape /\ SlotsApart /\ RequestsSpaced

\* A step that neither makes a caller wait nor touches the clock.
LEMMA NobodyNewWaits ==
  ASSUME ClientInv, UNCHANGED <<gap, since, spacing>>, NEW c \in Callers,
         NEW r, r.at # "wait",
         r = [at |-> r.at, left |-> r.left, attempt |-> r.attempt],
         call' = [call EXCEPT ![c] = r]
  PROVE  ClientInv'
<1> USE DEF ClientInv, ClientShape, SlotsApart, Waiting, RequestsSpaced
<1>1. \A d \in Callers : call'[d] = IF d = c THEN r ELSE call[d]
  OBVIOUS
<1>2. ClientShape'
  BY <1>1
<1>3. \A d \in Callers : Waiting(d)' => Waiting(d) /\ call'[d] = call[d]
  BY <1>1
<1>4. SlotsApart'
  BY <1>3
<1> QED
  BY <1>2, <1>4

\* A slot that is reserved is a delay after the last one given out.
LEMMA ReserveKeepsSlots ==
  ASSUME ClientInv, NEW c \in Callers, NEW n, Reserve(c, n), ~Waiting(c)
  PROVE  ClientInv'
<1> USE ClientAssumption
<1> DEFINE r == [at |-> "wait", left |-> gap, attempt |-> n]
<1>1. \A d \in Callers : call'[d] = IF d = c THEN r ELSE call[d]
  BY DEF Reserve, ClientInv, ClientShape
<1>2. call' = [d \in Callers |-> [at |-> call'[d].at, left |-> call'[d].left, attempt |-> call'[d].attempt]]
  BY DEF Reserve, ClientInv, ClientShape
<1>3. gap' = gap + Delay
  BY DEF Reserve
<1>4. CASE gap = 0
  <2>1. since = Delay
    BY <1>4 DEF ClientInv, ClientShape, SlotsApart
  <2>2. Cardinality({c}) = 1
    BY FS_Singleton
  <2>3. since' = 0 /\ spacing' = Delay
    BY <1>4, <2>1, <2>2 DEF Reserve, ComeDue
  <2>4. \A d \in Callers : ~Waiting(d)
    BY <1>4 DEF ClientInv, ClientShape, SlotsApart, Waiting
  <2>5. \A d \in Callers : ~Waiting(d)'
    BY <1>1, <1>4, <2>4 DEF Waiting
  <2>6. ClientShape'
    BY <1>1, <1>2, <1>3, <1>4, <2>3 DEF ClientInv, ClientShape
  <2> QED
    BY <1>3, <1>4, <2>3, <2>5, <2>6 DEF ClientInv, ClientShape, SlotsApart, RequestsSpaced
<1>5. CASE gap # 0
  <2>1. since' = since /\ spacing' = spacing
    BY <1>5 DEF Reserve, ComeDue, ClientInv, ClientShape
  <2>2. ClientShape'
    BY <1>1, <1>2, <1>3, <2>1 DEF ClientInv, ClientShape
  <2>3. \A d \in Callers : d # c /\ Waiting(d)' =>
          /\ Waiting(d) /\ call'[d] = call[d]
          /\ call[d].left \in Nat /\ gap >= call[d].left + Delay
          /\ call[d].left >= Delay - since
    BY <1>1 DEF Waiting, ClientInv, ClientShape, SlotsApart
  <2>4. call'[c].left = gap /\ gap >= Delay - since
    BY <1>1 DEF ClientInv, SlotsApart
  <2>5. ASSUME NEW d \in Callers, NEW e \in Callers, d # e, Waiting(d)', Waiting(e)'
        PROVE  \/ call'[d].left >= call'[e].left + Delay
               \/ call'[e].left >= call'[d].left + Delay
    <3>1. CASE d = c
      BY <2>3, <2>4, <2>5, <3>1
    <3>2. CASE e = c
      BY <2>3, <2>4, <2>5, <3>2
    <3>3. CASE d # c /\ e # c
      BY <2>3, <2>5, <3>3 DEF ClientInv, SlotsApart
    <3> QED
      BY <3>1, <3>2, <3>3
  <2>6. ASSUME NEW d \in Callers, Waiting(d)'
        PROVE  call'[d].left >= Delay - since' /\ gap' >= call'[d].left + Delay
    BY <1>3, <2>1, <2>3, <2>4, <2>6 DEF ClientInv, ClientShape
  <2>7. gap' >= Delay - since'
    BY <1>3, <2>1 DEF ClientInv, ClientShape
  <2>8. SlotsApart'
    BY <2>5, <2>6, <2>7 DEF SlotsApart
  <2> QED
    BY <2>1, <2>2, <2>8 DEF ClientInv, RequestsSpaced
<1> QED
  BY <1>4, <1>5

\* When a slot comes due it is the only one, a delay after the one before.
LEMMA ClockTickKeepsSlots ==
  ASSUME ClientInv, ClockTick
  PROVE  ClientInv'
<1> USE ClientAssumption
<1> DEFINE due == {c \in Timers : call[c].at = "wait" /\ call[c].left = 1}
<1>1. \A c \in Callers : /\ Waiting(c) => call[c].left \in Nat \ {0} /\ c \in Timers
                         /\ call'[c].at = call[c].at
                         /\ Waiting(c) => call'[c].left = call[c].left - 1
  BY DEF ClientInv, ClientShape, Waiting, ClockTick, Timers
<1>2. \A c \in Callers : call[c].at = "wait" => call'[c].left \in Nat
  BY DEF ClientInv, ClientShape, ClockTick, Timers
<1>3. call' = [c \in Callers |-> [at |-> call'[c].at, left |-> call'[c].left, attempt |-> call'[c].attempt]]
  BY DEF ClientInv, ClientShape, ClockTick
<1>4. gap' \in Nat /\ gap' >= gap - 1
  BY DEF ClientInv, ClientShape, ClockTick
<1>5. \A c \in Callers : Waiting(c)' => Waiting(c) /\ call[c].left = call'[c].left + 1
  <2> SUFFICES ASSUME NEW c \in Callers, Waiting(c)' PROVE Waiting(c)
    BY <1>1 DEF ClientInv, ClientShape, Waiting
  <2>1. call[c].at = "wait" /\ call[c].left \in Nat
    BY <1>1 DEF ClientInv, ClientShape, Waiting
  <2>2. call[c].left # 0
    BY <1>1, <2>1 DEF Waiting, ClockTick, Timers
  <2> QED
    BY <2>1, <2>2 DEF Waiting
<1>6. CASE due = {}
  <2>1. spacing' = spacing /\ since' = (IF since + 1 < Delay THEN since + 1 ELSE Delay)
    BY <1>6 DEF ClockTick, ComeDue
  <2>2. ClientShape'
    BY <1>1, <1>2, <1>3, <1>4, <2>1 DEF ClientInv, ClientShape
  <2>3. gap' >= Delay - since'
    BY <1>4, <2>1 DEF ClientInv, ClientShape, SlotsApart
  <2>4. \A c \in Callers : Waiting(c)' => call'[c].left >= Delay - since' /\ gap' >= call'[c].left + Delay
    BY <1>1, <1>4, <1>5, <2>1 DEF ClientInv, ClientShape, SlotsApart
  <2>5. \A c, d \in Callers : c # d /\ Waiting(c)' /\ Waiting(d)' =>
          call'[c].left >= call'[d].left + Delay \/ call'[d].left >= call'[c].left + Delay
    BY <1>1, <1>5 DEF ClientInv, SlotsApart
  <2> QED
    BY <2>1, <2>2, <2>3, <2>4, <2>5 DEF ClientInv, SlotsApart, RequestsSpaced
<1>7. CASE due # {}
  <2>1. PICK c \in Callers : call[c].at = "wait" /\ call[c].left = 1
    BY <1>7 DEF Timers
  <2>2. Waiting(c) /\ since + 1 >= Delay /\ gap >= 1 + Delay
    BY <2>1 DEF Waiting, ClientInv, SlotsApart, ClientShape
  <2>3. \A d \in Callers : d # c /\ Waiting(d) => call[d].left >= 1 + Delay
    BY <1>1, <2>1, <2>2 DEF ClientInv, SlotsApart
  <2>4. due = {c}
    BY <2>1, <2>2, <2>3, <1>1 DEF Waiting, Timers
  <2>5. Cardinality(due) = 1
    BY <2>4, FS_Singleton
  <2>6. since' = 0 /\ spacing' = Delay
    <3>1. ComeDue(due, 1)
      BY DEF ClockTick
    <3>2. (IF since + 1 < Delay THEN since + 1 ELSE Delay) = Delay
      BY <2>2 DEF ClientInv, ClientShape
    <3> HIDE DEF due
    <3> QED
      BY <1>7, <2>5, <3>1, <3>2 DEF ComeDue
  <2>7. ClientShape'
    <3>1. since' \in 0..Delay /\ spacing' \in Nat
      BY <2>6
    <3>2. \A d \in Callers : call'[d].at = "wait" => call'[d].left \in Nat
      BY <1>1, <1>2
    <3> HIDE DEF due
    <3> QED
      BY <1>3, <1>4, <3>1, <3>2 DEF ClientShape
  <2>8. gap' >= Delay - since'
    BY <1>4, <2>2, <2>6 DEF ClientInv, ClientShape
  <2>9. \A d \in Callers : Waiting(d)' => d # c
    BY <1>1, <2>1, <2>2 DEF Waiting
  <2>10. \A d \in Callers : Waiting(d)' => call'[d].left >= Delay - since' /\ gap' >= call'[d].left + Delay
    BY <1>1, <1>4, <1>5, <2>3, <2>6, <2>9 DEF ClientInv, ClientShape, SlotsApart
  <2>11. \A d, e \in Callers : d # e /\ Waiting(d)' /\ Waiting(e)' =>
           call'[d].left >= call'[e].left + Delay \/ call'[e].left >= call'[d].left + Delay
    BY <1>1, <1>5 DEF ClientInv, SlotsApart
  <2> QED
    BY <2>6, <2>7, <2>8, <2>10, <2>11 DEF ClientInv, SlotsApart, RequestsSpaced
<1> QED
  BY <1>6, <1>7

\* Every step of the clients keeps the slots apart.
LEMMA ClientKeepsSlots == ClientInv /\ [ClientNext]_clientVars => ClientInv'
<1> SUFFICES ASSUME ClientInv, [ClientNext]_clientVars PROVE ClientInv'
  OBVIOUS
<1>1. ASSUME NEW c \in Callers, NEW to \in {"done", "failed"}, Leave(c, to) PROVE ClientInv'
  <2> DEFINE r == [NoGet EXCEPT !.at = to]
  <2>1. r.at # "wait" /\ r = [at |-> r.at, left |-> r.left, attempt |-> r.attempt]
    BY DEF NoGet
  <2>2. call' = [call EXCEPT ![c] = r] /\ UNCHANGED <<gap, since, spacing>>
    BY <1>1 DEF Leave
  <2> HIDE DEF r
  <2> QED
    BY <2>1, <2>2, NobodyNewWaits
<1>2. CASE ClockTick
  BY <1>2, ClockTickKeepsSlots
<1>3. ASSUME NEW c \in Callers, Get(c) PROVE ClientInv'
  <2>1. ~Waiting(c)
    BY <1>3 DEF Get, Waiting
  <2> QED
    BY <1>3, <2>1, ReserveKeepsSlots DEF Get
<1>4. ASSUME NEW c \in Callers, Wake(c) PROVE ClientInv'
  <2>1. CASE call[c].at = "wait" /\ call' = [call EXCEPT ![c].at = "fetch"] /\ UNCHANGED <<gap, since, spacing>>
    <3> DEFINE r == [call[c] EXCEPT !.at = "fetch"]
    <3>1. r.at # "wait" /\ r = [at |-> r.at, left |-> r.left, attempt |-> r.attempt]
      BY DEF ClientInv, ClientShape
    <3>2. call' = [call EXCEPT ![c] = r]
      BY <2>1
    <3> HIDE DEF r
    <3> QED
      BY <2>1, <3>1, <3>2, NobodyNewWaits
  <2>2. CASE call[c].at = "backoff" /\ Reserve(c, call[c].attempt)
    <3>1. ~Waiting(c)
      BY <2>2 DEF Waiting
    <3> QED
      BY <2>2, <3>1, ReserveKeepsSlots
  <2> QED
    BY <1>4, <2>1, <2>2 DEF Wake
<1>5. ASSUME NEW c \in Callers, Fail(c) PROVE ClientInv'
  <2>1. CASE Leave(c, "failed")
    BY <1>1, <2>1
  <2>2. CASE /\ UNCHANGED <<gap, since, spacing>>
             /\ call' = [call EXCEPT ![c] = [at |-> "backoff", left |-> Second * 2^call[c].attempt,
                                             attempt |-> call[c].attempt + 1]]
    <3> DEFINE r == [at |-> "backoff", left |-> Second * 2^call[c].attempt, attempt |-> call[c].attempt + 1]
    <3>1. r.at # "wait" /\ r = [at |-> r.at, left |-> r.left, attempt |-> r.attempt]
      OBVIOUS
    <3>2. call' = [call EXCEPT ![c] = r]
      BY <2>2
    <3> HIDE DEF r
    <3> QED
      BY <2>2, <3>1, <3>2, NobodyNewWaits
  <2> QED
    BY <1>5, <2>1, <2>2 DEF Fail
<1>6. ASSUME NEW c \in Callers, Answer(c) \/ Refuse(c) \/ Abort(c) PROVE ClientInv'
  BY <1>1, <1>6 DEF Answer, Refuse, Abort
<1>7. CASE UNCHANGED clientVars
  BY <1>7 DEF clientVars, ClientInv, ClientShape, SlotsApart, Waiting, RequestsSpaced
<1> QED
  BY <1>2, <1>3, <1>4, <1>5, <1>6, <1>7 DEF ClientNext, ClientStep

\* A client starts with no slot given out.
LEMMA ClientStarts == ClientInit => ClientInv
BY ClientAssumption DEF ClientInit, NoGet, ClientInv, ClientShape, SlotsApart, Waiting, RequestsSpaced

\* However many workers call Get, and however often they retry or give up, two
\* request slots are never closer than the delay (crawler/client.go:31-34).
THEOREM RequestsSpacedCorrect == ClientSpec => []RequestsSpaced
<1>1. ClientInit => ClientInv
  BY ClientStarts
<1>2. ClientInv /\ [ClientNext]_clientVars => ClientInv'
  BY ClientKeepsSlots
<1>3. ClientInv => RequestsSpaced
  BY DEF ClientInv
<1> QED
  BY <1>1, <1>2, <1>3, PTL DEF ClientSpec

-----------------------------------------------------------------------------
(* The book *)

Seen == [is : {"part", "whole"}, of : 1..Last]

\* A page that was read shows some chapters, and one that was fetched is whole.
PagesAreKnown ==
  /\ site \in 1..Last /\ listed \subseteq Chapters
  /\ file \in [Pages -> Seen \cup {NoPage}] /\ got \in [Pages -> Seen \cup {NoPage}]
  /\ io \in [Pages -> {"idle", "get", "write", "writing", "seen", "failed"}]
  /\ \A p \in Pages : /\ io[p] \in {"write", "writing"} => got[p] \in Seen /\ got[p].is = "whole"
                      /\ io[p] = "seen" => got[p] \in Seen
  /\ tags.at \in {"write", "writing"} => tags.page \in Seen

\* A chapter is fetched only where the cache has none of it, and a part of a
\* chapter comes from the cache.
PartsAreCached == \A c \in Chapters :
  /\ io[c] \in {"get", "write", "writing"} => file[c] = NoPage
  /\ io[c] = "seen" /\ got[c].is = "part" => file[c] = got[c]

\* The landing page that was parsed is kept, and the list is at first its own.
LandingIsKept ==
  /\ at \in {"first", "crawl", "render", "upload"} =>
       got[Landing] \in Seen /\ io[Landing] \in {"idle", "seen"}
  /\ at = "first" => listed \in ListedOn(got[Landing]) /\ listed # {}

\* What the two pages know of is in the list, when the page of the first chapter was whole.
ListIsReconciled == at \in {"crawl", "render", "upload"} /\ first.is # "part" =>
  OldAndHalf \/ (1..got[Landing].of) \cup (1..first.of) \subseteq listed

ChaptersAreSeen == at \in {"render", "upload"} => \A c \in listed : io[c] = "seen"

BookInv == PagesAreKnown /\ PartsAreCached /\ LandingIsKept /\ ListIsReconciled /\ ChaptersAreSeen

LEMMA OldestIsIn ==
  ASSUME NEW cs, cs \subseteq Chapters, cs # {}
  PROVE  Oldest(cs) \in cs /\ \A d \in cs : Oldest(cs) <= d
<1>1. PICK c \in cs : \A d \in cs : <<d, c>> \notin OpToRel(<, Nat)
  <2>1. cs \subseteq Nat
    BY DEF Chapters
  <2> QED BY <2>1, WFMin, NatLessThanWellFounded
<1>2. ASSUME NEW d \in cs PROVE c <= d
  <2>1. c \in Nat /\ d \in Nat
    BY DEF Chapters
  <2>2. ~(d < c)
    <3> SUFFICES ASSUME d < c PROVE <<d, c>> \in OpToRel(<, Nat)
      BY <1>1
    <3>1. <<d, c>> \in Nat \X Nat /\ <<d, c>>[1] = d /\ <<d, c>>[2] = c
      BY <2>1
    <3> QED BY <3>1 DEF OpToRel
  <2> QED BY <2>1, <2>2
<1> QED BY <1>2 DEF Oldest

LEMMA KindsOfPages ==
  /\ \A f \in Seen : f # NoPage /\ f.of \in 1..Last /\ f.is \in {"part", "whole"}
                     /\ [f EXCEPT !.is = "part"] \in Seen
  /\ \A n \in 1..Last, s \in {"part", "whole"} : [is |-> s, of |-> n] \in Seen
  /\ NoPage.is = "none" /\ Landing \in Pages /\ Landing \notin Chapters
  /\ Chapters \subseteq Pages
BY DEF Seen, NoPage, Landing, Pages, Chapters

\* What a page lists are chapters; a part of a page shows the newest ones.
LEMMA ListsAreOfThePage ==
  ASSUME NEW page \in Seen, NEW l \in ListedOn(page), l # {}
  PROVE  /\ l \subseteq Chapters /\ l \subseteq 1..page.of /\ page.of \in l
         /\ page.is = "whole" => l = 1..page.of
<1> USE ExportAssumption
<1>1. page.of \in 1..Last
  BY DEF Seen
<1>2. CASE page.is = "whole"
  BY <1>1, <1>2 DEF ListedOn, Chapters
<1>3. CASE page.is # "whole"
  <2>1. PICK k \in 0..page.of : l = Newest(page.of, k)
    BY <1>3 DEF ListedOn
  <2> QED BY <1>1, <1>3, <2>1 DEF Newest, Chapters
<1> QED BY <1>2, <1>3

\* A read takes what the cache has, which for a chapter nobody writes is the file.
LEMMA FoundIsKnown ==
  ASSUME PagesAreKnown, NEW p \in Pages, NEW f \in Found(p)
  PROVE  /\ f \in Seen \cup {NoPage}
         /\ p # Landing /\ io[p] = "idle" => f = file[p]
<1> USE KindsOfPages
<1>1. CASE Writing(p)
  <2>1. f = NoPage \/ \E s \in {"part", "whole"}, n \in 1..site : f = [is |-> s, of |-> n]
    BY <1>1 DEF Found
  <2>2. 1..site \subseteq 1..Last
    BY ExportAssumption DEF PagesAreKnown
  <2>3. f \in Seen \cup {NoPage}
    BY <2>1, <2>2
  <2> QED BY <1>1, <2>3 DEF Writing
<1>2. CASE ~Writing(p)
  BY <1>2 DEF Found, PagesAreKnown
<1> QED BY <1>1, <1>2

\* Of what the list was made, and where the job is, a step of a page moves nothing.
LEMMA PageKeepsBook ==
  ASSUME BookInv, UNCHANGED <<listed, at, first, site>>, PagesAreKnown', PartsAreCached',
         at \in {"landing", "first", "crawl"},
         at # "landing" => got'[Landing] = got[Landing] /\ io'[Landing] \in {"idle", "seen"}
  PROVE  BookInv'
<1>1. LandingIsKept'
  BY DEF BookInv, LandingIsKept, ListedOn, Newest
<1>3. ListIsReconciled'
  BY DEF BookInv, ListIsReconciled, OldAndHalf
<1>4. ChaptersAreSeen'
  BY DEF ChaptersAreSeen
<1> QED BY <1>1, <1>3, <1>4 DEF BookInv

LEMMA ReadKeepsBook ==
  ASSUME BookInv, NEW p \in Pages, ReadPage(p), at \in {"landing", "first", "crawl"},
         at # "landing" => p # Landing, UNCHANGED at
  PROVE  BookInv'
<1> USE KindsOfPages
<1>1. PICK f \in Found(p) :
        IF f = NoPage THEN io' = [io EXCEPT ![p] = "get"] /\ UNCHANGED got
        ELSE io' = [io EXCEPT ![p] = "seen"] /\ got' = [got EXCEPT ![p] = f]
  BY DEF ReadPage
<1>2. /\ f \in Seen \cup {NoPage} /\ io[p] = "idle"
      /\ p # Landing => f = file[p]
      /\ UNCHANGED <<site, tags, listed, first, file>>
  BY FoundIsKnown DEF BookInv, ReadPage, jobVars
<1>3. CASE f = NoPage
  <2>1. io' = [io EXCEPT ![p] = "get"] /\ got' = got
    BY <1>1, <1>3
  <2>2. PagesAreKnown'
    BY <1>2, <2>1 DEF BookInv, PagesAreKnown
  <2>3. PartsAreCached'
    BY <1>2, <1>3, <2>1 DEF BookInv, PartsAreCached, PagesAreKnown
  <2>4. at # "landing" => got'[Landing] = got[Landing] /\ io'[Landing] \in {"idle", "seen"}
    BY <2>1 DEF BookInv, LandingIsKept, PagesAreKnown
  <2> QED BY <1>2, <2>2, <2>3, <2>4, PageKeepsBook
<1>4. CASE f # NoPage
  <2>1. io' = [io EXCEPT ![p] = "seen"] /\ got' = [got EXCEPT ![p] = f]
    BY <1>1, <1>4
  <2>2. PagesAreKnown'
    BY <1>2, <1>4, <2>1 DEF BookInv, PagesAreKnown
  <2>3. PartsAreCached'
    BY <1>2, <1>4, <2>1 DEF BookInv, PartsAreCached, PagesAreKnown
  <2>4. at # "landing" => got'[Landing] = got[Landing] /\ io'[Landing] \in {"idle", "seen"}
    BY <2>1 DEF BookInv, LandingIsKept, PagesAreKnown
  <2> QED BY <1>2, <2>2, <2>3, <2>4, PageKeepsBook
<1> QED BY <1>3, <1>4

\* What a worker or /monkeyd_tags may write to a file.
LEMMA PartlyIsKnown ==
  ASSUME PagesAreKnown, NEW p \in Pages, NEW page \in Seen, NEW f \in {page, file[p], Partly(p, page)}
  PROVE  f \in Seen \cup {NoPage}
BY KindsOfPages DEF Partly, PagesAreKnown

LEMMA PageStepKeepsBook ==
  ASSUME BookInv, NEW p \in Pages, PageStep(p)
  PROVE  BookInv'
<1> USE KindsOfPages
<1>1. at \in {"landing", "first", "crawl"}
  BY DEF PageStep
<1>2. io[p] \in {"get", "write", "writing"} /\ at # "landing" => p # Landing
  BY <1>1 DEF BookInv, LandingIsKept
<1>3. CASE PageAnswers(p)
  <2> DEFINE page == [is |-> "whole", of |-> site]
  <2>1. /\ io[p] = "get" /\ io' = [io EXCEPT ![p] = "write"] /\ got' = [got EXCEPT ![p] = page]
        /\ UNCHANGED <<site, tags, at, listed, first, file>>
    BY <1>3 DEF PageAnswers, jobVars
  <2>2. page \in Seen /\ page.is = "whole"
    BY DEF BookInv, PagesAreKnown
  <2> HIDE DEF page
  <2>3. PagesAreKnown'
    BY <2>1, <2>2 DEF BookInv, PagesAreKnown
  <2>4. PartsAreCached'
    BY <2>1, <2>2 DEF BookInv, PartsAreCached, PagesAreKnown
  <2>5. at # "landing" => got'[Landing] = got[Landing] /\ io'[Landing] \in {"idle", "seen"}
    BY <1>1, <1>2, <2>1 DEF BookInv, LandingIsKept, PagesAreKnown
  <2> QED BY <1>1, <2>1, <2>3, <2>4, <2>5, PageKeepsBook
<1>4. CASE PageWaits(p)
  <2>1. UNCHANGED <<site, tags, at, listed, first, file, got, io>>
    BY <1>4 DEF PageWaits, jobVars, pageVars
  <2>2. PagesAreKnown' /\ PartsAreCached'
    BY <2>1 DEF BookInv, PagesAreKnown, PartsAreCached
  <2>3. at # "landing" => got'[Landing] = got[Landing] /\ io'[Landing] \in {"idle", "seen"}
    BY <1>1, <2>1 DEF BookInv, LandingIsKept
  <2> QED BY <1>1, <2>1, <2>2, <2>3, PageKeepsBook
<1>5. CASE PageFails(p)
  <2>1. /\ io[p] = "get" /\ io' = [io EXCEPT ![p] = "failed"]
        /\ UNCHANGED <<site, tags, at, listed, first, file, got>>
    BY <1>5 DEF PageFails
  <2>2. PagesAreKnown'
    BY <2>1 DEF BookInv, PagesAreKnown
  <2>3. PartsAreCached'
    BY <2>1 DEF BookInv, PartsAreCached, PagesAreKnown
  <2>4. at # "landing" => got'[Landing] = got[Landing] /\ io'[Landing] \in {"idle", "seen"}
    BY <1>1, <1>2, <2>1 DEF BookInv, LandingIsKept, PagesAreKnown
  <2> QED BY <1>1, <2>1, <2>2, <2>3, <2>4, PageKeepsBook
<1>6. CASE PageTruncates(p)
  <2>1. /\ io[p] = "write" /\ got' = got
        /\ UNCHANGED <<site, tags, at, listed, first>>
        /\ \/ file' = [file EXCEPT ![p] = NoPage] /\ io' = [io EXCEPT ![p] = "writing"]
           \/ io' = [io EXCEPT ![p] = "seen"] /\ file' = file
    BY <1>6 DEF PageTruncates, jobVars
  <2>2. PagesAreKnown'
    BY <2>1 DEF BookInv, PagesAreKnown
  <2>3. PartsAreCached'
    BY <2>1 DEF BookInv, PartsAreCached, PagesAreKnown
  <2>5. at # "landing" => got'[Landing] = got[Landing] /\ io'[Landing] \in {"idle", "seen"}
    BY <1>1, <1>2, <2>1 DEF BookInv, LandingIsKept, PagesAreKnown
  <2> QED BY <1>1, <2>1, <2>2, <2>3, <2>5, PageKeepsBook
<1>7. CASE PageWrites(p)
  <2>1. PICK f \in {got[p], file[p], Partly(p, got[p])} : file' = [file EXCEPT ![p] = f]
    BY <1>7 DEF PageWrites
  <2>2. /\ io[p] = "writing" /\ io' = [io EXCEPT ![p] = "seen"] /\ got' = got
        /\ UNCHANGED <<site, tags, at, listed, first>>
    BY <1>7 DEF PageWrites, jobVars
  <2>3. got[p] \in Seen /\ got[p].is = "whole"
    BY <2>2 DEF BookInv, PagesAreKnown
  <2>4. f \in Seen \cup {NoPage}
    BY <2>3, PartlyIsKnown DEF BookInv
  <2>5. PagesAreKnown'
    BY <2>1, <2>2, <2>3, <2>4 DEF BookInv, PagesAreKnown
  <2>6. PartsAreCached'
    BY <2>1, <2>2, <2>3 DEF BookInv, PartsAreCached, PagesAreKnown
  <2>8. at # "landing" => got'[Landing] = got[Landing] /\ io'[Landing] \in {"idle", "seen"}
    BY <1>1, <1>2, <2>2 DEF BookInv, LandingIsKept, PagesAreKnown
  <2> QED BY <1>1, <2>2, <2>5, <2>6, <2>8, PageKeepsBook
<1> QED BY <1>3, <1>4, <1>5, <1>6, <1>7 DEF PageStep

\* The job goes on, or is over, with the pages it has.
LEMMA MoveKeepsBook ==
  ASSUME BookInv, UNCHANGED <<site, tags, listed, first, got, io, file>>,
         at' = "first" => at = "first",
         at' \in {"crawl", "render", "upload"} => at \in {"crawl", "render", "upload"},
         at' \in {"render", "upload"} => \A c \in listed : io[c] = "seen"
  PROVE  BookInv'
<1>1. PagesAreKnown' /\ PartsAreCached'
  BY DEF BookInv, PagesAreKnown, PartsAreCached
<1>2. LandingIsKept'
  BY DEF BookInv, LandingIsKept, ListedOn, Newest
<1>3. ListIsReconciled'
  BY DEF BookInv, ListIsReconciled, OldAndHalf
<1>4. ChaptersAreSeen'
  BY DEF ChaptersAreSeen
<1> QED BY <1>1, <1>2, <1>3, <1>4 DEF BookInv

\* The job has not begun to read, or is over.
LEMMA RestKeepsBook ==
  ASSUME PagesAreKnown', PartsAreCached', at' \in {"none", "landing", "report"}
  PROVE  BookInv'
BY DEF BookInv, LandingIsKept, ListIsReconciled, ChaptersAreSeen

LEMMA NobodyReadsKnown ==
  ASSUME site' \in 1..Last, listed' \subseteq Chapters, io' = Idle,
         file' \in [Pages -> Seen \cup {NoPage}], got' \in [Pages -> Seen \cup {NoPage}],
         tags'.at \in {"write", "writing"} => tags'.page \in Seen
  PROVE  PagesAreKnown' /\ PartsAreCached'
BY KindsOfPages DEF Idle, PagesAreKnown, PartsAreCached

\* The page that is read is the landing page, or a chapter of the list.
LEMMA ReadsAPage ==
  ASSUME BookInv, ReadLanding \/ ReadFirst \/ ReadChapter
  PROVE  /\ at \in {"landing", "first", "crawl"}
         /\ \E p \in Pages : ReadPage(p) /\ (at # "landing" => p # Landing)
<1> USE KindsOfPages
<1>1. CASE ReadLanding
  BY <1>1 DEF ReadLanding
<1>2. CASE ReadFirst
  <2>1. listed \subseteq Chapters /\ listed # {} /\ at = "first" /\ ReadPage(Oldest(listed))
    BY <1>2 DEF ReadFirst, BookInv, LandingIsKept, PagesAreKnown
  <2>2. Oldest(listed) \in Chapters
    BY <2>1, OldestIsIn
  <2> QED BY <2>1, <2>2
<1>3. CASE ReadChapter
  <2> DEFINE left1 == {c \in listed : io[c] = "idle"}
  <2>1. left1 # {} /\ ReadPage(Oldest(left1)) /\ at = "crawl"
    BY <1>3 DEF ReadChapter
  <2>2. left1 \subseteq Chapters
    BY DEF BookInv, PagesAreKnown
  <2> HIDE DEF left1
  <2>3. Oldest(left1) \in Chapters
    BY <2>1, <2>2, OldestIsIn
  <2> QED BY <2>1, <2>3
<1> QED BY <1>1, <1>2, <1>3

LEMMA JobKeepsBook ==
  ASSUME BookInv, [JobStep \/ Begin \/ Panic \/ TimeOut]_exportVars
  PROVE  BookInv'
<1> USE KindsOfPages
<1>1. CASE StartCrawl
  <2>1. io' = Idle /\ at' = "landing" /\ UNCHANGED <<site, tags, listed, got, file>>
    BY <1>1 DEF StartCrawl, Move
  <2> QED BY <2>1, NobodyReadsKnown, RestKeepsBook DEF BookInv, PagesAreKnown
<1>2. CASE End
  <2>1. /\ io' = Idle /\ at' = "none" /\ listed' = {} /\ UNCHANGED <<site, tags, file>>
        /\ got' = [p \in Pages |-> NoPage]
    BY <1>2 DEF End, Move
  <2>2. got' \in [Pages -> Seen \cup {NoPage}]
    BY <2>1
  <2> QED BY <2>1, <2>2, NobodyReadsKnown, RestKeepsBook DEF BookInv, PagesAreKnown
<1>3. CASE ReadLanding \/ ReadFirst \/ ReadChapter
  BY <1>3, ReadsAPage, ReadKeepsBook DEF ReadPage, jobVars
<1>4. CASE ParseLanding
  <2>1. PICK l \in ListedOn(got[Landing]) :
          IF l = {} THEN Move("landing", "report") /\ UNCHANGED listed
          ELSE Move("landing", "first") /\ listed' = l
    BY <1>4 DEF ParseLanding
  <2>2. io[Landing] = "seen" /\ got[Landing] \in Seen /\ UNCHANGED <<site, tags, first, got, io, file>>
    BY <1>4 DEF ParseLanding, pageVars, BookInv, PagesAreKnown
  <2>3. CASE l = {}
    <3>1. at' = "report" /\ listed' = listed
      BY <2>1, <2>3 DEF Move
    <3> QED BY <2>2, <3>1, MoveKeepsBook
  <2>4. CASE l # {}
    <3>1. at' = "first" /\ listed' = l
      BY <2>1, <2>4 DEF Move
    <3>2. l \subseteq Chapters
      BY <2>2, <2>4, ListsAreOfThePage
    <3>3. PagesAreKnown' /\ PartsAreCached'
      BY <2>2, <3>1, <3>2 DEF BookInv, PagesAreKnown, PartsAreCached
    <3>4. LandingIsKept'
      BY <2>2, <2>4, <3>1 DEF LandingIsKept, ListedOn, Newest
    <3> QED BY <3>1, <3>3, <3>4 DEF BookInv, ListIsReconciled, ChaptersAreSeen
  <2> QED BY <2>3, <2>4
<1>5. CASE ParseFirst
  <2> DEFINE c == Oldest(listed)
  <2>1. /\ at = "first" /\ at' = "crawl" /\ io[c] = "seen" /\ io' = Idle /\ first' = got[c]
        /\ UNCHANGED <<site, tags, got, file>>
    BY <1>5 DEF ParseFirst, Move
  <2>2. PICK l \in ListedOn(got[c]) : listed' = Reconcile(listed, l)
    BY <1>5 DEF ParseFirst
  <2>3. listed \in ListedOn(got[Landing]) /\ listed # {} /\ got[Landing] \in Seen
    BY <2>1 DEF BookInv, LandingIsKept
  <2>4. /\ listed \subseteq Chapters /\ listed \subseteq 1..got[Landing].of /\ got[Landing].of \in listed
        /\ got[Landing].is = "whole" => listed = 1..got[Landing].of
    BY <2>3, ListsAreOfThePage
  <2>5. c \in Chapters
    BY <2>3, <2>4, OldestIsIn
  <2> HIDE DEF c
  <2>6. got[c] \in Seen
    BY <2>1, <2>5 DEF BookInv, PagesAreKnown
  <2>7. listed' \in {listed, l}
    BY <2>2 DEF Reconcile
  <2>8. listed' \subseteq Chapters
    BY <2>4, <2>6, <2>7, ListsAreOfThePage
  <2>9. PagesAreKnown' /\ PartsAreCached'
    BY <2>1, <2>8, NobodyReadsKnown DEF BookInv, PagesAreKnown
  <2>10. LandingIsKept'
    BY <2>1, <2>3 DEF LandingIsKept, Idle
  <2>11. ListIsReconciled'
    <3>1. SUFFICES ASSUME got[c].is # "part"
                   PROVE  OldAndHalf' \/ (1..got[Landing].of) \cup (1..got[c].of) \subseteq listed'
      BY <2>1 DEF ListIsReconciled
    <3>2. got[c].is = "whole"
      BY <2>6, <3>1
    <3>3. l = 1..got[c].of
      BY <2>2, <3>2 DEF ListedOn
    <3>4. got[c].of \in 1..Last /\ got[Landing].of \in 1..Last
      BY <2>3, <2>6
    <3>5. CASE listed \subseteq l
      <4>1. listed' = l
        BY <2>2, <3>5 DEF Reconcile
      <4>2. got[Landing].of <= got[c].of
        BY <2>4, <3>3, <3>4, <3>5
      <4> QED BY <3>3, <3>4, <4>1, <4>2
    <3>6. CASE ~(listed \subseteq l)
      <4>1. listed' = listed
        BY <2>2, <3>6 DEF Reconcile
      <4>2. got[c].of < got[Landing].of
        BY <2>4, <3>3, <3>4, <3>6
      <4>3. CASE got[Landing].is = "whole"
        BY <2>4, <3>4, <4>1, <4>2, <4>3
      <4>4. CASE got[Landing].is # "whole"
        BY <2>1, <2>3, <4>2, <4>4 DEF OldAndHalf
      <4> QED BY <4>3, <4>4
    <3> QED BY <3>5, <3>6
  <2> QED BY <2>1, <2>9, <2>10, <2>11 DEF BookInv, ChaptersAreSeen
<1>6. CASE ParseFails
  <2>1. PICK c \in listed : io[c] = "seen" /\ io' = [io EXCEPT ![c] = "failed"]
    BY <1>6 DEF ParseFails
  <2>2. at = "crawl" /\ UNCHANGED <<site, tags, at, listed, first, got, file>> /\ c \in Chapters
    BY <1>6 DEF ParseFails, BookInv, PagesAreKnown
  <2>3. PagesAreKnown'
    BY <2>1, <2>2 DEF BookInv, PagesAreKnown
  <2>4. PartsAreCached'
    BY <2>1, <2>2 DEF BookInv, PartsAreCached, PagesAreKnown
  <2>5. got'[Landing] = got[Landing] /\ io'[Landing] \in {"idle", "seen"}
    BY <2>1, <2>2 DEF BookInv, LandingIsKept, PagesAreKnown
  <2> QED BY <2>2, <2>3, <2>4, <2>5, PageKeepsBook
<1>7. CASE \E p \in Pages : PageStep(p)
  BY <1>7, PageStepKeepsBook
<1>8. CASE Crawled \/ Render
  <2>1. /\ UNCHANGED <<site, tags, listed, first, got, io, file>> /\ at \in {"crawl", "render"}
        /\ at' # "first" /\ at' # "crawl" /\ \A c \in listed : io[c] = "seen"
    BY <1>8 DEF Crawled, Render, Move, pageVars, BookInv, ChaptersAreSeen
  <2> QED BY <2>1, MoveKeepsBook
<1>9. CASE ReplySent \/ ReplyFails \/ CrawlFails \/ UploadFails \/ Begin \/ Panic
  <2>1. /\ UNCHANGED <<site, tags, listed, first, got, io, file>>
        /\ at' \notin {"first", "crawl", "render", "upload"}
    BY <1>9 DEF ReplySent, ReplyFails, CrawlFails, UploadFails, Begin, Panic, Move, pageVars
  <2> QED BY <2>1, MoveKeepsBook
<1>10. CASE TimeOut \/ Time \/ UNCHANGED exportVars
  <2>1. UNCHANGED <<site, tags, listed, first, got, io, file, at>>
    BY <1>10 DEF TimeOut, Time, exportVars, jobVars, pageVars
  <2> QED BY <2>1, MoveKeepsBook DEF BookInv, ChaptersAreSeen
<1> QED BY <1>1, <1>2, <1>3, <1>4, <1>5, <1>6, <1>7, <1>8, <1>9, <1>10 DEF JobStep

\* Other commands and the site leave the job's pages alone.
LEMMA OthersKeepBook ==
  ASSUME BookInv, UNCHANGED <<jobVars, io, got>>, \A c \in Chapters : file'[c] = file[c],
         PagesAreKnown'
  PROVE  BookInv'
<1> USE DEF jobVars
<1>1. PartsAreCached'
  BY DEF BookInv, PartsAreCached
<1>2. LandingIsKept'
  BY DEF BookInv, LandingIsKept, ListedOn, Newest
<1>3. ListIsReconciled'
  BY DEF BookInv, ListIsReconciled, OldAndHalf
<1>4. ChaptersAreSeen'
  BY DEF BookInv, ChaptersAreSeen
<1> QED BY <1>1, <1>2, <1>3, <1>4 DEF BookInv

LEMMA TagsKeepBook ==
  ASSUME BookInv, TagsRead \/ TagsAnswers \/ TagsTruncates \/ TagsWrites
  PROVE  BookInv'
<1> USE KindsOfPages
<1>1. UNCHANGED <<site, jobVars, io, got>>
  BY DEF TagsRead, TagsAnswers, TagsTruncates, TagsWrites, TagsMove
<1>2. CASE TagsRead \/ TagsAnswers
  <2>1. file' = file
    BY <1>2 DEF TagsRead, TagsAnswers
  <2>2. tags' \in {[at |-> "get", page |-> NoPage], [at |-> "idle", page |-> NoPage],
                   [at |-> "write", page |-> [is |-> "whole", of |-> site]]}
    BY <1>2 DEF TagsRead, TagsAnswers, TagsMove
  <2>3. tags'.at \in {"write", "writing"} => tags'.page \in Seen
    <3>1. [is |-> "whole", of |-> site] \in Seen
      BY DEF BookInv, PagesAreKnown
    <3> QED BY <2>2, <3>1
  <2>4. PagesAreKnown'
    BY <1>1, <2>1, <2>3 DEF BookInv, PagesAreKnown, jobVars
  <2> QED BY <1>1, <2>1, <2>4, OthersKeepBook
<1>3. CASE TagsTruncates
  <2>1. /\ file' = [file EXCEPT ![Landing] = NoPage]
        /\ tags.at = "write" /\ tags' = [at |-> "writing", page |-> tags.page]
    BY <1>3 DEF TagsTruncates, TagsMove
  <2>2. PagesAreKnown'
    BY <1>1, <2>1 DEF BookInv, PagesAreKnown, jobVars
  <2>3. \A c \in Chapters : file'[c] = file[c]
    BY <2>1 DEF BookInv, PagesAreKnown
  <2> QED BY <1>1, <2>2, <2>3, OthersKeepBook
<1>4. CASE TagsWrites
  <2>1. PICK f \in {tags.page, file[Landing], Partly(Landing, tags.page)} :
          file' = [file EXCEPT ![Landing] = f]
    BY <1>4 DEF TagsWrites
  <2>2. tags.at = "writing" /\ tags' = [at |-> "idle", page |-> NoPage]
    BY <1>4 DEF TagsWrites, TagsMove
  <2>3. tags.page \in Seen
    BY <2>2 DEF BookInv, PagesAreKnown
  <2>4. f \in Seen \cup {NoPage}
    BY <2>3, PartlyIsKnown DEF BookInv
  <2>5. PagesAreKnown'
    BY <1>1, <2>1, <2>2, <2>4 DEF BookInv, PagesAreKnown, jobVars
  <2>6. \A c \in Chapters : file'[c] = file[c]
    BY <2>1 DEF BookInv, PagesAreKnown
  <2> QED BY <1>1, <2>5, <2>6, OthersKeepBook
<1> QED BY <1>2, <1>3, <1>4

\* A restart finds files that are known, whatever was being written.
LEMMA RestartKeepsBook == ASSUME BookInv, Restart PROVE BookInv'
<1> USE KindsOfPages
<1>1. /\ at' = "none" /\ listed' = {} /\ io' = Idle /\ got' = [p \in Pages |-> NoPage]
      /\ tags' = NoTags /\ site' = site
  BY DEF Restart
<1>2. ASSUME NEW p \in Pages, NEW f \in Left(p) PROVE f \in Seen \cup {NoPage}
  <2>1. CASE io[p] = "writing"
    <3>1. got[p] \in Seen /\ f \in {file[p], Partly(p, got[p])}
      BY <1>2, <2>1 DEF BookInv, PagesAreKnown, Left
    <3> QED BY <3>1, PartlyIsKnown DEF BookInv
  <2>2. CASE io[p] # "writing" /\ p = Landing /\ tags.at = "writing"
    <3>1. tags.page \in Seen /\ f \in {file[p], Partly(p, tags.page)}
      BY <1>2, <2>2 DEF BookInv, PagesAreKnown, Left
    <3> QED BY <3>1, PartlyIsKnown DEF BookInv
  <2>3. CASE io[p] # "writing" /\ ~(p = Landing /\ tags.at = "writing")
    BY <1>2, <2>3 DEF BookInv, PagesAreKnown, Left
  <2> QED BY <2>1, <2>2, <2>3
<1>3. file' \in [Pages -> Seen \cup {NoPage}]
  <2>1. CASE file' = [p \in Pages |-> NoPage]
    BY <2>1
  <2>2. CASE \E f \in [Pages -> UNION {Left(p) : p \in Pages}] :
               (\A p \in Pages : f[p] \in Left(p)) /\ file' = f
    <3>1. PICK f \in [Pages -> UNION {Left(p) : p \in Pages}] :
                 (\A p \in Pages : f[p] \in Left(p)) /\ file' = f
      BY <2>2
    <3>2. \A p \in Pages : f[p] \in Seen \cup {NoPage}
      BY <1>2, <3>1
    <3> QED BY <3>1, <3>2
  <2> QED BY <2>1, <2>2 DEF Restart
<1>4. got' \in [Pages -> Seen \cup {NoPage}]
  BY <1>1
<1>5. tags'.at \notin {"write", "writing"}
  BY <1>1 DEF NoTags
<1> QED BY <1>1, <1>3, <1>4, <1>5, NobodyReadsKnown, RestKeepsBook DEF BookInv, PagesAreKnown

LEMMA PublishKeepsBook == ASSUME BookInv, Publish PROVE BookInv'
<1>1. site' \in 1..Last /\ UNCHANGED <<tags, jobVars, io, got, file>>
  BY ExportAssumption DEF Publish, pageVars, BookInv, PagesAreKnown
<1>2. PagesAreKnown'
  BY <1>1 DEF BookInv, PagesAreKnown, jobVars
<1> QED BY <1>1, <1>2, OthersKeepBook

LEMMA BookStarts == ExportInit => BookInv
<1> SUFFICES ASSUME ExportInit PROVE BookInv
  OBVIOUS
<1>1. /\ site = 1 /\ at = "none" /\ listed = {} /\ io = Idle /\ tags = NoTags
      /\ got = [p \in Pages |-> NoPage] /\ file = [p \in Pages |-> NoPage]
  BY DEF ExportInit
<1>2. PagesAreKnown /\ PartsAreCached
  BY <1>1, ExportAssumption, KindsOfPages DEF PagesAreKnown, PartsAreCached, Idle, NoTags
<1> QED BY <1>1, <1>2 DEF BookInv, LandingIsKept, ListIsReconciled, ChaptersAreSeen

LEMMA ExportKeepsBook == BookInv /\ [ExportNext]_exportVars => BookInv'
BY JobKeepsBook, TagsKeepBook, RestartKeepsBook, PublishKeepsBook DEF ExportNext

\* For any novel, workers, retries, delays and stops: a chapter in a rendered book is whole
\* unless the cache already held a part of it, and the book has every chapter the landing
\* page and the page of its first chapter know of, except where that page was a part, or
\* older than a landing page of which there was a part (crawler/crawl.go:41-43, 95-97, 145).
THEOREM BookIsCompleteCorrect == ExportSpec => []BookIsComplete
<1>1. ExportInit => BookInv
  BY BookStarts
<1>2. BookInv /\ [ExportNext]_exportVars => BookInv'
  BY ExportKeepsBook
<1>3. BookInv => BookIsComplete
  <2> SUFFICES ASSUME BookInv, at \in {"render", "upload"}
               PROVE  /\ \A c \in listed : got[c].is = "part" => file[c] = got[c]
                      /\ \/ OldAndHalf \/ first.is = "part"
                         \/ (1..got[Landing].of) \cup (1..first.of) \subseteq listed
    BY DEF BookIsComplete
  <2>1. ASSUME NEW c \in listed PROVE got[c].is = "part" => file[c] = got[c]
    BY DEF BookInv, ChaptersAreSeen, PagesAreKnown, PartsAreCached
  <2>2. first.is # "part" => OldAndHalf \/ (1..got[Landing].of) \cup (1..first.of) \subseteq listed
    BY DEF BookInv, ListIsReconciled
  <2> QED BY <2>1, <2>2
<1> QED BY <1>1, <1>2, <1>3, PTL DEF ExportSpec

\* The steps of an export are steps of its client, or start a new one.
LEMMA ExportKeepsSlots ==
  ASSUME BookInv, ClientInv, [ExportNext]_exportVars
  PROVE  ClientInv'
<1>1. ASSUME NEW p \in Pages, ReadPage(p) PROVE [ClientNext]_clientVars
  <2>1. Get(p) \/ UNCHANGED clientVars
    BY <1>1 DEF ReadPage
  <2> QED BY <2>1, ExportAssumption DEF ClientNext
<1>2. ASSUME NEW p \in Pages, PageStep(p) PROVE [ClientNext]_clientVars
  <2>1. CASE PageAnswers(p) \/ PageWaits(p)
    <3>1. Answer(p) \/ Wake(p) \/ Abort(p) \/ Refuse(p) \/ Fail(p)
      BY <2>1 DEF PageAnswers, PageWaits
    <3> QED BY <3>1, ExportAssumption DEF ClientNext, ClientStep
  <2>2. CASE PageFails(p) \/ PageTruncates(p) \/ PageWrites(p)
    BY <2>2 DEF PageFails, PageTruncates, PageWrites
  <2> QED BY <1>2, <2>1, <2>2 DEF PageStep
<1>3. CASE ReadLanding \/ ReadFirst \/ ReadChapter
  BY <1>1, <1>3, ReadsAPage, ClientKeepsSlots
<1>4. CASE \E p \in Pages : PageStep(p)
  BY <1>2, <1>4, ClientKeepsSlots
<1>5. CASE StartCrawl \/ End \/ Restart
  <2>1. gap' = 0 /\ call' = [c \in Callers |-> NoGet] /\ since' = Delay /\ spacing' = Delay
    BY <1>5 DEF StartCrawl, End, Restart
  <2> QED BY <2>1, ClientAssumption
          DEF NoGet, ClientInv, ClientShape, SlotsApart, Waiting, RequestsSpaced
<1>6. CASE Time
  BY <1>6, ClientKeepsSlots DEF Time, ClientNext
<1>7. CASE \/ ReplySent \/ ReplyFails \/ ParseLanding \/ ParseFirst \/ ParseFails \/ Crawled \/ CrawlFails
           \/ Render \/ UploadFails \/ Begin \/ Panic \/ TimeOut \/ Publish
           \/ TagsRead \/ TagsAnswers \/ TagsTruncates \/ TagsWrites \/ UNCHANGED exportVars
  <2>1. UNCHANGED clientVars
    BY <1>7 DEF ReplySent, ReplyFails, ParseLanding, ParseFirst, ParseFails, Crawled, CrawlFails, Render,
                UploadFails, Begin, Panic, TimeOut, Publish, TagsRead, TagsAnswers, TagsTruncates,
                TagsWrites, TagsMove, exportVars
  <2> QED BY <2>1, ClientKeepsSlots
<1> QED BY <1>3, <1>4, <1>5, <1>6, <1>7 DEF ExportNext, JobStep

\* So they are in every crawl, however many exports and restarts come before it.
THEOREM CrawlRequestsSpaced == ExportSpec => []RequestsSpaced
<1>1. ExportInit => BookInv /\ ClientInv
  BY BookStarts, ClientStarts DEF ExportInit
<1>2. BookInv /\ ClientInv /\ [ExportNext]_exportVars => (BookInv /\ ClientInv)'
  BY ExportKeepsBook, ExportKeepsSlots
<1>3. ClientInv => RequestsSpaced
  BY DEF ClientInv
<1> QED BY <1>1, <1>2, <1>3, PTL DEF ExportSpec

-----------------------------------------------------------------------------
(* The renderer *)

Running == {c \in Commands : Rendering(c)}

\* The semaphore counts the renders that run; a command that has not asked has none.
RenderInv == /\ RendererTypeOK /\ IsFiniteSet(Running) /\ active = Cardinality(Running)
             /\ \A c \in Commands : cmd[c] = "hold" => req[c].at = "none"

Steps  == {"dir", "media", "browser", "target", "frames", "encode", "close", "clean"}
Renders == [at : {"none", "asked", "done"} \cup Steps, style : {"gif", "gacha"},
            late : BOOLEAN, cut : BOOLEAN, out : {"none", "clip", "error"}]


\* One request changes.
LEMMA OneChanges ==
  ASSUME RendererTypeOK, NEW c \in Commands, NEW r \in Renders, req' = [req EXCEPT ![c] = r]
  PROVE  /\ req' \in [Commands -> Renders]
         /\ \A d \in Commands : req'[d] = IF d = c THEN r ELSE req[d]
BY DEF RendererTypeOK, Renders, Steps

LEMMA RequestsAreRenders ==
  /\ RendererTypeOK => \A c \in Commands : req[c] \in Renders
  /\ (req \in [Commands -> Renders])' =>
       (req \in [Commands -> [at : {"none", "asked", "dir", "media", "browser", "target", "frames",
                                    "encode", "close", "clean", "done"},
                              style : {"gif", "gacha"}, late : BOOLEAN, cut : BOOLEAN,
                              out : {"none", "clip", "error"}]])'
BY DEF RendererTypeOK, Renders, Steps

\* A step that neither begins nor ends a render.
LEMMA SameRenders ==
  ASSUME RenderInv, active' = active, RendererTypeOK',
         \A c \in Commands : (cmd[c] = "hold" => req[c].at = "none")',
         \A c \in Commands : Rendering(c)' <=> Rendering(c)
  PROVE  RenderInv'
<1>1. Running' = Running
  BY DEF Running
<1> QED BY <1>1 DEF RenderInv

\* One render goes on, whatever its outcome.
LEMMA OneGoesOn ==
  ASSUME RenderInv, NEW c \in Commands, NEW r \in Renders, r.at \in Steps, req[c].at \in Steps,
         req' = [req EXCEPT ![c] = r], UNCHANGED <<active, botVars>>,
         chrome' \in {"none", "launching", "up", "hung"}
  PROVE  RenderInv'
<1> USE DEF RenderInv, RendererTypeOK
<1>1. RendererTypeOK'
  BY DEF botVars, Renders, Steps
<1>2. \A d \in Commands : req'[d] = IF d = c THEN r ELSE req[d]
  OBVIOUS
<1>3. \A d \in Commands : Rendering(d)' <=> Rendering(d)
  BY <1>2 DEF Rendering, Steps
<1>4. \A d \in Commands : (cmd[d] = "hold" => req[d].at = "none")'
  BY <1>2 DEF botVars, Steps
<1> QED BY <1>1, <1>3, <1>4, SameRenders

\* The bot's side makes requests and waits; it runs no render.
LEMMA BotKeepsRenders ==
  ASSUME RenderInv, NEW c \in Commands, Command(c) \/ BotStep(c)
  PROVE  RenderInv'
<1> USE DEF RenderInv, RendererTypeOK
<1>1. CASE Command(c)
  <2>1. /\ req[c].at \in {"none", "done"} /\ req' = [req EXCEPT ![c] = NoRender]
        /\ UNCHANGED <<active, chrome>>
        /\ cmd' \in [Commands -> {"idle", "hold", "render", "send", "delete", "edit", "reply", "done", "error"}]
        /\ \A d \in Commands : d # c => cmd'[d] = cmd[d]
        /\ holding' \in [Commands -> BOOLEAN] /\ shown' \in [Commands -> BOOLEAN]
    BY <1>1 DEF Command
  <2>2. RendererTypeOK'
    BY <2>1 DEF NoRender
  <2>3. \A d \in Commands : req'[d] = IF d = c THEN NoRender ELSE req[d]
    BY <2>1
  <2> QED BY <2>1, <2>2, <2>3, SameRenders DEF NoRender, Rendering
<1>2. CASE Ask(c)
  <2>1. PICK s \in {"gif", "gacha"} : req' = [req EXCEPT ![c] = [req[c] EXCEPT !.at = "asked", !.style = s]]
    BY <1>2 DEF Ask
  <2> DEFINE r == [req[c] EXCEPT !.at = "asked", !.style = s]
  <2>2. /\ cmd[c] = "hold" /\ cmd' = [cmd EXCEPT ![c] = "render"] /\ UNCHANGED <<shown, active, chrome>>
        /\ holding' \in [Commands -> BOOLEAN]
    BY <1>2 DEF Ask, Turn
  <2>3. r \in Renders /\ r.at = "asked"
    BY RequestsAreRenders DEF Renders
  <2> HIDE DEF r
  <2>4. /\ req' \in [Commands -> Renders]
        /\ \A d \in Commands : req'[d] = IF d = c THEN r ELSE req[d]
    BY <2>1, <2>3, OneChanges DEF r
  <2>5. RendererTypeOK'
    BY <2>2, <2>4, RequestsAreRenders
  <2>6. cmd'[c] = "render" /\ \A d \in Commands : d # c => cmd'[d] = cmd[d]
    BY <2>2
  <2>7. req[c].at = "none"
    BY <2>2
  <2>8. \A d \in Commands : Rendering(d)' <=> Rendering(d)
    BY <2>3, <2>4, <2>7 DEF Rendering
  <2> QED BY <2>2, <2>3, <2>4, <2>5, <2>6, <2>8, SameRenders
<1>3. CASE TakeAnswer(c) \/ GiveUp(c) \/ Send(c) \/ DeletePlaceholder(c)
  <2>1. PICK to \in {"send", "edit", "reply", "delete", "done", "error"} : cmd' = [cmd EXCEPT ![c] = to]
    BY <1>3 DEF TakeAnswer, GiveUp, Send, DeletePlaceholder, Show, Fails, Replace, Turn
  <2>2. UNCHANGED serverVars /\ holding' = holding /\ shown' \in [Commands -> BOOLEAN]
    BY <1>3 DEF TakeAnswer, GiveUp, Send, DeletePlaceholder, Show
  <2>3. RendererTypeOK'
    BY <2>1, <2>2 DEF serverVars
  <2> QED BY <2>1, <2>2, <2>3, SameRenders DEF serverVars, Rendering
<1> QED BY <1>1, <1>2, <1>3 DEF BotStep

\* A render takes a free slot when it is accepted and gives it back when it ends.
LEMMA ServerKeepsRenders ==
  ASSUME RenderInv, NEW c \in Commands, ServerStep(c)
  PROVE  RenderInv'
<1> USE DEF RenderInv, RendererTypeOK
<1>1. req[c] \in Renders
  BY DEF Renders, Steps
<1>2. ASSUME NEW from \in Steps, NEW to \in Steps, At(c, from, to), UNCHANGED <<active, botVars>>,
             chrome' \in {"none", "launching", "up", "hung"}
      PROVE  RenderInv'
  <2>1. req[c].at \in Steps /\ req' = [req EXCEPT ![c] = [req[c] EXCEPT !.at = to]]
    BY <1>2 DEF At
  <2>2. [req[c] EXCEPT !.at = to] \in Renders /\ [req[c] EXCEPT !.at = to].at \in Steps
    BY <1>1 DEF Renders
  <2> QED BY <1>2, <2>1, <2>2, OneGoesOn
<1>3. ASSUME NEW from \in Steps, NEW to \in Steps, NEW out \in {"none", "clip", "error"},
             Outcome(c, from, to, out), UNCHANGED <<active, chrome, botVars>>
      PROVE  RenderInv'
  <2>1. req[c].at \in Steps /\ req' = [req EXCEPT ![c] = [req[c] EXCEPT !.at = to, !.out = out]]
    BY <1>3 DEF Outcome
  <2>2. [req[c] EXCEPT !.at = to, !.out = out] \in Renders /\ [req[c] EXCEPT !.at = to, !.out = out].at \in Steps
    BY <1>1 DEF Renders
  <2> QED BY <1>3, <2>1, <2>2, OneGoesOn
<1>4. CASE Reject(c)
  <2> DEFINE r == [req[c] EXCEPT !.at = "done", !.out = "error"]
  <2>1. /\ req[c].at = "asked" /\ UNCHANGED <<active, chrome, botVars>>
        /\ req' = [req EXCEPT ![c] = r]
    BY <1>4 DEF Reject, Outcome
  <2>2. r \in Renders /\ r.at = "done"
    BY <1>1 DEF Renders
  <2> HIDE DEF r
  <2>3. /\ req' \in [Commands -> Renders]
        /\ \A d \in Commands : req'[d] = IF d = c THEN r ELSE req[d]
    BY <2>1, <2>2, OneChanges
  <2>4. RendererTypeOK'
    BY <2>1, <2>3, RequestsAreRenders DEF botVars
  <2> QED BY <2>1, <2>2, <2>3, <2>4, SameRenders DEF botVars, Rendering
<1>5. CASE Accept(c)
  <2>1. /\ req[c].at = "asked" /\ active < MaxRenders /\ active' = active + 1
        /\ UNCHANGED <<chrome, botVars>> /\ req' = [req EXCEPT ![c].at = "dir"]
    BY <1>5 DEF Accept, At
  <2>2. \A d \in Commands : req'[d] = IF d = c THEN [req[c] EXCEPT !.at = "dir"] ELSE req[d]
    BY <2>1
  <2>3. Running' = Running \cup {c} /\ c \notin Running
    BY <2>1, <2>2 DEF Running, Rendering
  <2>4. IsFiniteSet(Running') /\ Cardinality(Running') = active + 1
    BY <2>3, FS_AddElement
  <2>5. RendererTypeOK'
    BY <2>1, RendererAssumption DEF botVars
  <2> QED BY <2>1, <2>2, <2>4, <2>5 DEF botVars
<1>6. CASE Finish(c)
  <2>1. /\ req[c].at = "clean" /\ active' = (IF active = 0 THEN 0 ELSE active - 1)
        /\ UNCHANGED <<chrome, botVars>>
        /\ \E out \in {req[c].out, "error"} : req' = [req EXCEPT ![c] = [req[c] EXCEPT !.at = "done", !.out = out]]
    BY <1>6 DEF Finish, At, Outcome
  <2>2. PICK out \in {req[c].out, "error"} : req' = [req EXCEPT ![c] = [req[c] EXCEPT !.at = "done", !.out = out]]
    BY <2>1
  <2> DEFINE r == [req[c] EXCEPT !.at = "done", !.out = out]
  <2>3. r \in Renders /\ r.at = "done"
    BY <1>1 DEF Renders
  <2> HIDE DEF r
  <2>4. /\ req' \in [Commands -> Renders]
        /\ \A d \in Commands : req'[d] = IF d = c THEN r ELSE req[d]
    BY <2>2, <2>3, OneChanges DEF r
  <2>5. Running' = Running \ {c} /\ c \in Running
    BY <2>1, <2>3, <2>4 DEF Running, Rendering
  <2>6. IsFiniteSet(Running') /\ Cardinality(Running') = active - 1 /\ active \in Nat
    BY <2>5, FS_RemoveElement
  <2>7. active # 0
    BY <2>5, FS_EmptySet
  <2>8. active' \in 0..MaxRenders /\ active' = active - 1
    BY <2>1, <2>7, RendererAssumption
  <2>9. RendererTypeOK'
    BY <2>1, <2>4, <2>8, RequestsAreRenders DEF botVars
  <2> QED BY <2>1, <2>3, <2>4, <2>6, <2>8, <2>9 DEF botVars
<1>7. CASE MakeDir(c)
  <2>1. CASE Outcome(c, "dir", "clean", "error") /\ UNCHANGED <<active, chrome, botVars>>
    BY <1>3, <2>1 DEF Steps
  <2>2. CASE At(c, "dir", "media") /\ UNCHANGED <<active, chrome, botVars>>
    BY <1>2, <2>2 DEF Steps
  <2>3. CASE /\ At(c, "dir", IF chrome \in {"up", "hung"} THEN "target" ELSE "browser")
             /\ chrome' = (IF chrome = "none" THEN "launching" ELSE chrome)
             /\ UNCHANGED <<active, botVars>>
    BY <1>2, <2>3 DEF Steps
  <2> QED BY <1>7, <2>1, <2>2, <2>3 DEF MakeDir
<1>8. CASE Answers(c)
  BY <1>2, <1>3, <1>8 DEF Answers, Steps
<1>9. CASE Encoded(c)
  BY <1>3, <1>9 DEF Encoded, Steps
<1>10. CASE CallFails(c)
  BY <1>3, <1>10 DEF CallFails, Steps
<1>11. CASE RenderTimeOut(c)
  <2> DEFINE to == IF req[c].at \in {"browser", "target"} THEN "clean"
                   ELSE IF req[c].at = "frames" THEN "close" ELSE req[c].at
             out == IF req[c].at \in {"browser", "target", "frames"} THEN "error" ELSE req[c].out
             r == [req[c] EXCEPT !.late = TRUE, !.at = to, !.out = out]
  <2>1. /\ req[c].at \in {"media", "browser", "target", "frames", "encode"}
        /\ req' = [req EXCEPT ![c] = r] /\ UNCHANGED <<active, chrome, botVars>>
    BY <1>11 DEF RenderTimeOut
  <2>2. to \in Steps /\ out \in {"none", "clip", "error"} /\ req[c].at \in Steps
    BY <1>1, <2>1 DEF Steps, Renders
  <2> HIDE DEF to, out
  <2>3. r \in Renders /\ r.at \in Steps
    BY <1>1, <2>2 DEF Renders
  <2> HIDE DEF r
  <2> QED BY <2>1, <2>2, <2>3, OneGoesOn
<1> QED BY <1>4, <1>5, <1>6, <1>7, <1>8, <1>9, <1>10, <1>11 DEF ServerStep

\* Chrome comes up, hangs and goes; every render that runs goes on running.
LEMMA ChromeKeepsRenders ==
  ASSUME RenderInv, Launched \/ LaunchFails \/ Hang \/ Exit
  PROVE  RenderInv'
<1> USE DEF RenderInv, RendererTypeOK
<1>1. CASE Launched \/ LaunchFails
  <2>1. PICK to \in {"target", "clean"} : req' = [c \in Commands |->
          IF req[c].at = "browser" THEN [req[c] EXCEPT !.at = to, !.out = IF to = "clean" THEN "error" ELSE "none"]
          ELSE req[c]]
    BY <1>1 DEF Launched, LaunchFails, Waiters
  <2>2. UNCHANGED <<active, botVars>> /\ chrome' \in {"up", "none"}
    BY <1>1 DEF Launched, LaunchFails, Waiters
  <2>3. RendererTypeOK'
    BY <2>1, <2>2 DEF botVars
  <2>4. \A c \in Commands : req[c].at # "browser" => req'[c] = req[c]
    BY <2>1
  <2>5. \A c \in Commands : req[c].at = "browser" => req'[c].at = to
    BY <2>1
  <2> QED BY <2>2, <2>3, <2>4, <2>5, SameRenders DEF botVars, Rendering
<1>2. CASE Hang
  BY <1>2, SameRenders DEF Hang, botVars, Rendering
<1>3. CASE Exit
  <2>1. req' = [c \in Commands |-> CutOff(req[c])] /\ chrome' = "none" /\ UNCHANGED <<active, botVars>>
    BY <1>3 DEF Exit
  <2>2. \A c \in Commands : /\ CutOff(req[c]) \in Renders
                            /\ req[c].at \in Steps <=> CutOff(req[c]).at \in Steps
                            /\ req[c].at = "none" => CutOff(req[c]).at = "none"
    BY DEF CutOff, Renders, Steps
  <2>3. RendererTypeOK'
    BY <2>1, <2>2 DEF botVars, Renders, Steps
  <2>4. \A c \in Commands : Rendering(c)' <=> Rendering(c)
    BY <2>1, <2>2, <2>3 DEF Rendering, Steps, Renders
  <2> QED BY <2>1, <2>2, <2>3, <2>4, SameRenders DEF botVars
<1> QED BY <1>1, <1>2, <1>3

LEMMA RestartKeepsRenders == ASSUME RenderInv, RendererRestart PROVE RenderInv'
<1> USE DEF RenderInv, RendererTypeOK
<1> DEFINE Ended(r) == IF r.at \in {"none", "done"} THEN r
                       ELSE [r EXCEPT !.at = "done", !.out = "error", !.cut = FALSE]
<1>1. /\ active' = 0 /\ chrome' = "up" /\ UNCHANGED botVars
      /\ req' = [c \in Commands |-> Ended(req[c])]
  BY DEF RendererRestart
<1>2. \A r \in Renders : Ended(r) \in Renders /\ Ended(r).at \in {"none", "done"}
                         /\ (r.at = "none" => Ended(r).at = "none")
  BY DEF Renders
<1> HIDE DEF Ended
<1>3. \A c \in Commands : req'[c] \in Renders /\ req'[c].at \in {"none", "done"}
                          /\ (req[c].at = "none" => req'[c].at = "none")
  BY <1>1, <1>2, RequestsAreRenders
<1>4. RendererTypeOK'
  <2>1. req' \in [Commands -> Renders]
    BY <1>1, <1>3
  <2>2. active' \in 0..MaxRenders
    BY <1>1, RendererAssumption
  <2> QED BY <1>1, <2>1, <2>2, RequestsAreRenders DEF botVars
<1>5. Running' = {}
  BY <1>3 DEF Running, Rendering
<1> QED BY <1>1, <1>3, <1>4, <1>5, FS_EmptySet DEF botVars

\* However many commands render at once, whatever is refused, fails, is abandoned or cut off
\* from Chrome, no more renders run than the semaphore allows (server.js:49-50).
THEOREM RendersBoundedCorrect == RendererSpec => []RendersBounded
<1>1. RendererInit => RenderInv
  <2> SUFFICES ASSUME RendererInit PROVE RenderInv
    OBVIOUS
  <2>1. RendererTypeOK
    BY RendererAssumption DEF RendererInit, RendererTypeOK, NoRender
  <2>2. Running = {}
    BY DEF RendererInit, NoRender, Running, Rendering
  <2> QED BY <2>1, <2>2, FS_EmptySet DEF RenderInv, RendererInit
<1>2. RenderInv /\ [RendererNext]_rendererVars => RenderInv'
  <2> SUFFICES ASSUME RenderInv, [RendererNext]_rendererVars PROVE RenderInv'
    OBVIOUS
  <2>1. CASE UNCHANGED rendererVars
    BY <2>1 DEF rendererVars, RenderInv, RendererTypeOK, Running, Rendering
  <2> QED BY <2>1, BotKeepsRenders, ServerKeepsRenders, ChromeKeepsRenders, RestartKeepsRenders DEF RendererNext
<1>3. RenderInv => RendersBounded
  BY DEF RenderInv, RendererTypeOK, RendersBounded, Running
<1> QED BY <1>1, <1>2, <1>3, PTL DEF RendererSpec
====
