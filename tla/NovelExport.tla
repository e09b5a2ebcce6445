----------------------------- MODULE NovelExport -----------------------------
(***************************************************************************)
(* The export of one novel (internal/modules/monkeyd) and the page cache   *)
(* that it shares with /monkeyd_tags.  A goroutine fetches each page; its  *)
(* requests go through the client of PacedClient, a new one for every      *)
(* export.  A page is what it was when it was fetched: of chapters were    *)
(* out, and it is whole or, after a stop or an error within the write of   *)
(* its cache file, a part.  The bytes of a file go out in one call.        *)
(***************************************************************************)
EXTENDS PacedClient

CONSTANTS Last,       \* chapters of the finished novel
          Workers

Landing  == 0
Chapters == 1..Last
Pages    == {Landing} \cup Chapters

ASSUME ExportAssumption == Last \in Nat \ {0} /\ Workers \in Nat \ {0} /\ Callers = Pages

VARIABLES site,       \* chapters published so far
          running,    \* runner.running
          at,         \* where the job is
          listed,     \* its chapters
          io,         \* what the goroutine of each page does
          got,        \* the page it has
          file,       \* the cache
          tags,       \* the /monkeyd_tags under way
          over,       \* the context of the crawl has ended
          first       \* history: the page the dropdown was read from

pageVars == <<io, got, file>>
jobVars  == <<running, at, listed, over, first>>
exportVars == <<clientVars, site, tags, jobVars, pageVars>>

NoPage == [is |-> "none", of |-> 0]
Page   == [is : {"none", "part", "whole"}, of : 0..Last]
Idle   == [p \in Pages |-> "idle"]
NoTags == [at |-> "idle", page |-> NoPage]

ExportTypeOK ==
  /\ ClientTypeOK /\ site \in 1..Last /\ running \in BOOLEAN /\ over \in BOOLEAN
  /\ at \in {"none", "reply", "start", "landing", "first", "crawl", "render", "upload", "report"}
  /\ listed \subseteq Chapters /\ first \in Page /\ got \in [Pages -> Page] /\ file \in [Pages -> Page]
  /\ io \in [Pages -> {"idle", "get", "write", "writing", "seen", "failed"}]
  /\ tags \in [at : {"idle", "get", "write", "writing"}, page : Page]

ExportInit == /\ ClientInit /\ site = 1 /\ running = FALSE /\ at = "none" /\ over = FALSE
              /\ listed = {} /\ io = Idle /\ first = NoPage
              /\ got = [p \in Pages |-> NoPage] /\ file = [p \in Pages |-> NoPage] /\ tags = NoTags
-----------------------------------------------------------------------------
Writing(p) == io[p] = "writing" \/ (p = Landing /\ tags.at = "writing")

\* What a read of the cache may find: anything, while the file is written.
Found(p) == IF Writing(p) THEN {NoPage} \cup {[is |-> s, of |-> n] : s \in {"part", "whole"}, n \in 1..site}
            ELSE {file[p]}

\* The goroutine of a page looks into the cache, or asks the site.
ReadPage(p) ==
  /\ io[p] = "idle"
  /\ \E f \in Found(p) :
       IF f = NoPage
       THEN Get(p) /\ io' = [io EXCEPT ![p] = "get"] /\ UNCHANGED got
       ELSE /\ io' = [io EXCEPT ![p] = "seen"] /\ got' = [got EXCEPT ![p] = f]
            /\ UNCHANGED clientVars
  /\ UNCHANGED <<site, tags, jobVars, file>>

PageAnswers(p) ==
  /\ io[p] = "get" /\ Answer(p)
  /\ io' = [io EXCEPT ![p] = "write"] /\ got' = [got EXCEPT ![p] = [is |-> "whole", of |-> site]]
  /\ UNCHANGED <<site, tags, jobVars, file>>

\* Within Get: waits, retries, a context that ends.
PageWaits(p) == /\ io[p] = "get"
                /\ Wake(p) \/ (over /\ (Abort(p) \/ Refuse(p))) \/ (~over /\ (Refuse(p) \/ Fail(p)))
                /\ UNCHANGED <<site, tags, jobVars, pageVars>>

\* The error of one worker cancels the others.
PageFails(p) == /\ io[p] = "get" /\ call[p].at = "failed"
                /\ io' = [io EXCEPT ![p] = "failed"] /\ over' = TRUE
                /\ UNCHANGED <<clientVars, site, tags, running, at, listed, first, got, file>>

\* os.WriteFile truncates, then writes; its error is ignored.
PageTruncates(p) == /\ io[p] = "write"
                    /\ \/ file' = [file EXCEPT ![p] = NoPage] /\ io' = [io EXCEPT ![p] = "writing"]
                       \/ io' = [io EXCEPT ![p] = "seen"] /\ UNCHANGED file
                    /\ UNCHANGED <<clientVars, site, tags, jobVars, got>>

Partly(p, page) == IF file[p] = NoPage THEN [page EXCEPT !.is = "part"] ELSE file[p]

PageWrites(p) == /\ io[p] = "writing" /\ io' = [io EXCEPT ![p] = "seen"]
                 /\ \E f \in {got[p], file[p], Partly(p, got[p])} : file' = [file EXCEPT ![p] = f]
                 /\ UNCHANGED <<clientVars, site, tags, jobVars, got>>

PageStep(p) == /\ at \in {"landing", "first", "crawl"}
               /\ PageAnswers(p) \/ PageWaits(p) \/ PageFails(p) \/ PageTruncates(p) \/ PageWrites(p)
-----------------------------------------------------------------------------
\* The site lists newest first: a part of a page has the newest chapters.
Newest(n, k) == {c \in 1..n : c > n - k}

ListedOn(page) == IF page.is = "whole" THEN {1..page.of}
                  ELSE {Newest(page.of, k) : k \in 0..page.of}

Oldest(cs) == CHOOSE c \in cs : \A d \in cs : c <= d

\* Mutant: whatever the landing page lists is good enough.
MutReconcile(fromList, fromSelect) == IF fromList = {} THEN fromSelect ELSE fromList

\* The list to crawl, from the landing page and the dropdown of a chapter.
Reconcile(fromList, fromSelect) == IF fromList \subseteq fromSelect THEN fromSelect ELSE fromList

Move(from, to) == at = from /\ at' = to

\* The command takes the slot and replies; without a chat to reply to, it gives
\* the slot back.  Handlers run one at a time.
Begin == /\ ~running /\ tags.at = "idle" /\ running' = TRUE /\ Move("none", "reply")
         /\ UNCHANGED <<clientVars, site, tags, listed, over, first, pageVars>>

ReplySent == /\ Move("reply", "start")
             /\ UNCHANGED <<clientVars, site, tags, running, listed, over, first, pageVars>>

\* Mutant: the failed reply is returned with the slot still taken.
MutReplyFails == /\ Move("reply", "none")
                 /\ UNCHANGED <<clientVars, site, tags, running, listed, over, first, pageVars>>

ReplyFails == /\ Move("reply", "none") /\ running' = FALSE
              /\ UNCHANGED <<clientVars, site, tags, listed, over, first, pageVars>>

\* A directory for the PDF and a client for the crawl.
StartCrawl == /\ Move("start", "landing") /\ over' = FALSE
              /\ gap' = 0 /\ since' = Delay /\ spacing' = Delay
              /\ call' = [c \in Callers |-> NoGet] /\ io' = Idle
              /\ UNCHANGED <<site, tags, running, listed, first, got, file>>

ReadLanding == /\ at = "landing" /\ ReadPage(Landing)

ParseLanding == /\ io[Landing] = "seen"
                /\ \E l \in ListedOn(got[Landing]) :
                     IF l = {} THEN Move("landing", "report") /\ UNCHANGED listed
                     ELSE Move("landing", "first") /\ listed' = l
                /\ UNCHANGED <<clientVars, site, tags, running, over, first, pageVars>>

ReadFirst == at = "first" /\ ReadPage(Oldest(listed))

ParseFirst == /\ Move("first", "crawl") /\ io[Oldest(listed)] = "seen"
              /\ \E l \in ListedOn(got[Oldest(listed)]) : listed' = Reconcile(listed, l)
              /\ io' = Idle /\ first' = got[Oldest(listed)]
              /\ UNCHANGED <<clientVars, site, tags, running, over, got, file>>

\* One goroutine per chapter, in reading order, so many at a time.
Busy == {c \in listed : io[c] \in {"get", "write", "writing"}}

ReadChapter == /\ at = "crawl" /\ Cardinality(Busy) < Workers
               /\ LET left == {c \in listed : io[c] = "idle"}
                  IN  left # {} /\ ReadPage(Oldest(left))

\* A part of a chapter may have no text; otherwise it passes for the chapter.
ParseFails == /\ at = "crawl"
              /\ \E c \in listed : /\ io[c] = "seen" /\ got[c].is = "part"
                                   /\ io' = [io EXCEPT ![c] = "failed"]
              /\ over' = TRUE
              /\ UNCHANGED <<clientVars, site, tags, running, at, listed, first, got, file>>

Crawled == /\ Move("crawl", "render") /\ \A c \in listed : io[c] = "seen"
           /\ UNCHANGED <<clientVars, site, tags, running, listed, over, first, pageVars>>

CrawlFails == /\ \/ Move("start", "report")
                 \/ Move("landing", "report") /\ io[Landing] = "failed"
                 \/ Move("first", "report") /\ io[Oldest(listed)] = "failed"
                 \/ /\ Move("crawl", "report")
                    /\ \A c \in listed : io[c] \in {"seen", "failed"}
                    /\ \E c \in listed : io[c] = "failed"
              /\ UNCHANGED <<clientVars, site, tags, running, listed, over, first, pageVars>>

Render == /\ Move("render", "upload") \/ Move("render", "report")
          /\ UNCHANGED <<clientVars, site, tags, running, listed, over, first, pageVars>>

\* The job returns: sent, or reported as failed.
End == /\ Move("upload", "none") \/ Move("report", "none")
       /\ running' = FALSE /\ listed' = {} /\ io' = Idle
       /\ got' = [p \in Pages |-> NoPage] /\ call' = [c \in Callers |-> NoGet]
       /\ gap' = 0 /\ since' = Delay /\ spacing' = Delay /\ over' = FALSE /\ first' = NoPage
       /\ UNCHANGED <<site, tags, file>>

UploadFails == /\ Move("upload", "report")
               /\ UNCHANGED <<clientVars, site, tags, running, listed, over, first, pageVars>>

\* A panic on the job's own goroutine is recovered and reported.
Panic == /\ at \in {"landing", "first", "render", "upload"} /\ at' = "report"
         /\ UNCHANGED <<clientVars, site, tags, running, listed, over, first, pageVars>>

TimeOut == /\ at \in {"landing", "first", "crawl"} /\ ~over /\ over' = TRUE
           /\ UNCHANGED <<clientVars, site, tags, running, at, listed, first, pageVars>>
-----------------------------------------------------------------------------
\* /monkeyd_tags reads the landing page with a client of its own.
TagsMove(from, to, page) == /\ tags.at = from /\ tags' = [at |-> to, page |-> page]
                            /\ UNCHANGED <<clientVars, site, jobVars, io, got>>

TagsRead == /\ at # "reply" /\ NoPage \in Found(Landing) /\ UNCHANGED file
            /\ TagsMove("idle", "get", NoPage)

TagsAnswers == /\ UNCHANGED file
               /\ \/ TagsMove("get", "write", [is |-> "whole", of |-> site])
                  \/ TagsMove("get", "idle", NoPage)

TagsTruncates == /\ file' = [file EXCEPT ![Landing] = NoPage]
                 /\ TagsMove("write", "writing", tags.page)

TagsWrites == /\ \E f \in {tags.page, file[Landing], Partly(Landing, tags.page)} :
                   file' = [file EXCEPT ![Landing] = f]
              /\ TagsMove("writing", "idle", NoPage)
-----------------------------------------------------------------------------
Publish == /\ site < Last /\ site' = site + 1
           /\ UNCHANGED <<clientVars, tags, jobVars, pageVars>>

\* The process ends, also by a panic of a worker; the container starts it again
\* on the same disk, or a new container starts on an empty one.
Left(p) == IF io[p] = "writing" THEN {file[p], Partly(p, got[p])}
           ELSE IF p = Landing /\ tags.at = "writing" THEN {file[p], Partly(p, tags.page)}
           ELSE {file[p]}

Restart ==
  /\ \/ file' = [p \in Pages |-> NoPage]
     \/ \E f \in [Pages -> UNION {Left(p) : p \in Pages}] :
          (\A p \in Pages : f[p] \in Left(p)) /\ file' = f
  /\ gap' = 0 /\ call' = [c \in Callers |-> NoGet] /\ since' = Delay /\ spacing' = Delay
  /\ running' = FALSE /\ at' = "none" /\ over' = FALSE /\ listed' = {} /\ io' = Idle /\ first' = NoPage
  /\ got' = [p \in Pages |-> NoPage] /\ tags' = NoTags /\ UNCHANGED site

Time == ClockTick /\ UNCHANGED <<site, tags, jobVars, pageVars>>

JobStep == \/ Time \/ ReplySent \/ ReplyFails \/ StartCrawl \/ ReadLanding \/ ParseLanding
           \/ ReadFirst \/ ParseFirst \/ ReadChapter \/ ParseFails \/ Crawled \/ CrawlFails
           \/ Render \/ UploadFails \/ End \/ \E p \in Pages : PageStep(p)

ExportNext == \/ JobStep \/ Begin \/ Panic \/ TimeOut \/ Publish \/ Restart
              \/ TagsRead \/ TagsAnswers \/ TagsTruncates \/ TagsWrites

ExportSpec == ExportInit /\ [][ExportNext]_exportVars /\ WF_exportVars(JobStep)
-----------------------------------------------------------------------------
\* A chapter in a rendered book is whole, unless the cache already held a part of it: a
\* stop, a failed write or a concurrent command never tears the page that an export
\* has fetched itself.  And the book has every chapter that the landing page or the page
\* of its first chapter knows of: a half-written landing page, a concurrent
\* /monkeyd_tags or pages of different age do not shorten it (crawler/crawl.go:41-43,
\* 95-97).  Two cases are left out, in which the code makes a shorter book: a half
\* landing page beside an older first page, and a first page of which the cache had a
\* part.  Pages are not checked when they are read back (crawler/crawl.go:145).
OldAndHalf == got[Landing].is = "part" /\ first.of < got[Landing].of

BookIsComplete ==
  at \in {"render", "upload"} =>
    /\ \A c \in listed : got[c].is = "part" => file[c] = got[c]
    /\ \/ OldAndHalf \/ first.is = "part"
       \/ (1..got[Landing].of) \cup (1..first.of) \subseteq listed

\* However an export goes, the single slot comes back (monkeyd.go:134-145,
\* export_job.go:48).
SlotComesBack == running ~> ~running
=============================================================================
