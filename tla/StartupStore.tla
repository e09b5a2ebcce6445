---------------------------- MODULE StartupStore ----------------------------
(***************************************************************************)
(* The storage tasks of a start (InitStore of stock, stats and sticker):   *)
(* the documents of a retired schema are rewritten, marked deleted or      *)
(* deleted one after the other, and a marker in the system collection      *)
(* records that this was done.  main ends the process when one fails; the  *)
(* container starts it again.  A process that still runs, of this build or *)
(* of the one before, writes the same documents.                           *)
(***************************************************************************)
EXTENDS Integers, FiniteSets

CONSTANTS Docs,             \* the keys a task lists
          ConflictRetries,  \* dividendHistoryMigrationRetries, deletedCommandMigrationRetries
          MaxFaults,        \* bound: faults, crashes and restarts of the starting process
          MaxWrites         \* bound: writes of the other process

ASSUME StartupAssumption == /\ IsFiniteSet(Docs) /\ ConflictRetries \in Nat \ {0}
                            /\ MaxFaults \in Nat /\ MaxWrites \in Nat

VARIABLES task,    \* whose InitStore; stats' rows are swept by UpdateMany in
                   \* MongoDB, by reads and writes in the memory backend
          doc,     \* the documents
          marker,  \* the record in the system collection
          start,   \* the process that starts
          other,   \* the write the other process has under way
          faults,
          written, \* history: acknowledged writes of the other process
          late     \* history: documents it gave the old form since the last listing

startupVars == <<task, doc, marker, start, other, faults, written, late>>

\* valid: what Portfolio.Validate says of it.
StoredDoc == [exists : BOOLEAN, old : BOOLEAN, valid : BOOLEAN, version : Nat, writes : 0..MaxWrites]
Gone == [exists |-> FALSE, old |-> FALSE, valid |-> TRUE, version |-> 0, writes |-> 0]
NoKey == "none"
StartDown == [at |-> "down", left |-> {}, key |-> NoKey, held |-> Gone, tries |-> 0, n |-> 0]
Silent == [key |-> NoKey, held |-> Gone, old |-> FALSE]

StartupTypeOK ==
  /\ task \in {"stock", "stats", "stats mongo", "sticker"}
  /\ doc \in [Docs -> StoredDoc]
  /\ marker \in [completed : BOOLEAN, count : Nat]
  /\ start \in [at : {"down", "marker", "list", "next", "read", "write", "up"}, left : SUBSET Docs,
                key : Docs \cup {NoKey}, held : StoredDoc, tries : 0..ConflictRetries, n : Nat]
  /\ other \in [key : Docs \cup {NoKey}, held : StoredDoc, old : BOOLEAN]
  /\ faults \in 0..MaxFaults /\ written \in [Docs -> 0..MaxWrites] /\ late \subseteq Docs

\* All are from before the task, or (stock) rewritten by this build already;
\* only portfolios are validated.
StartupInit ==
  /\ task \in {"stock", "stats", "stats mongo", "sticker"}
  /\ doc \in [Docs -> {Gone} \cup [exists : {TRUE}, old : BOOLEAN, valid : BOOLEAN, version : {1}, writes : {0}]]
  /\ task # "stock" => \A d \in Docs : doc[d].exists => doc[d].old /\ doc[d].valid
  /\ marker = [completed |-> FALSE, count |-> 0]
  /\ start = StartDown /\ other = Silent /\ faults = 0
  /\ written = [d \in Docs |-> 0] /\ late = {}

outside == <<task, other, faults, written>>
-----------------------------------------------------------------------------
StartProcess == /\ start.at = "down" /\ start' = [StartDown EXCEPT !.at = "marker"]
                /\ UNCHANGED <<outside, doc, marker, late>>

\* Mutant: the marker is written before the documents.
MutReadMarker == /\ start.at = "marker"
                 /\ start' = [start EXCEPT !.at = IF marker.completed /\ task \in {"stock", "sticker"}
                                                  THEN "up" ELSE "list"]
                 /\ marker' = [marker EXCEPT !.completed = TRUE]
                 /\ UNCHANGED <<outside, doc, late>>

\* Stock and sticker do their task once, stats at every start.
ReadMarker == /\ start.at = "marker"
              /\ start' = [start EXCEPT !.at = IF marker.completed /\ task \in {"stock", "sticker"}
                                               THEN "up" ELSE "list"]
              /\ UNCHANGED <<outside, doc, marker, late>>

ListDocs == /\ start.at = "list"
            /\ start' = [start EXCEPT !.at = "next", !.left = {d \in Docs : doc[d].exists}]
            /\ late' = {}
            /\ UNCHANGED <<outside, doc, marker>>

Visit(d) == /\ start.at = "next" /\ task \in {"stock", "stats"} /\ d \in start.left
            /\ start' = [start EXCEPT !.at = "read", !.key = d, !.tries = 0]
            /\ UNCHANGED <<outside, doc, marker, late>>

DocHandled(n) == start' = [start EXCEPT !.at = "next", !.left = @ \ {start.key}, !.key = NoKey,
                                     !.held = Gone, !.tries = 0, !.n = @ + n]

\* Mutant: a document that needs nothing any more is taken for a failure.
MutReadDoc == /\ start.at = "read"
              /\ LET now == doc[start.key]
                 IN  IF now.old THEN start' = [start EXCEPT !.at = "write", !.held = now]
                     ELSE start' = StartDown
              /\ UNCHANGED <<outside, doc, marker, late>>

\* One that is already in the new form is counted by stats only; one of the old
\* form that does not validate ends the start, and every start after it.
ReadDoc == /\ start.at = "read"
           /\ LET now == doc[start.key]
              IN  \/ ~now.old /\ DocHandled(IF task = "stats" THEN 1 ELSE 0)
                  \/ now.old /\ now.valid /\ start' = [start EXCEPT !.at = "write", !.held = now]
                  \/ now.old /\ ~now.valid /\ start' = StartDown
           /\ UNCHANGED <<outside, doc, marker, late>>

Renewed(row) == [row EXCEPT !.old = FALSE, !.version = @ + 1]

\* Mutant: the write is unconditional.
MutWriteDoc == /\ start.at = "write"
               /\ doc' = [doc EXCEPT ![start.key] = Renewed(start.held)] /\ DocHandled(1)
               /\ UNCHANGED <<outside, marker, late>>

\* PutVersioned; after ConflictRetries conflicts the start fails.
WriteDoc == /\ start.at = "write"
            /\ IF doc[start.key].version = start.held.version
               THEN doc' = [doc EXCEPT ![start.key] = Renewed(start.held)] /\ DocHandled(1)
               ELSE /\ start' = IF start.tries + 1 = ConflictRetries THEN StartDown
                                ELSE [start EXCEPT !.at = "read", !.tries = @ + 1]
                    /\ UNCHANGED doc
            /\ UNCHANGED <<outside, marker, late>>

\* UpdateMany writes each row that is not marked atomically; sticker deletes all.
Sweep(d) == /\ start.at = "next" /\ task \in {"stats mongo", "sticker"} /\ d \in start.left
            /\ doc' = [doc EXCEPT ![d] = IF task = "sticker" THEN Gone ELSE IF @.old THEN Renewed(@) ELSE @]
            /\ start' = [start EXCEPT !.left = @ \ {d}, !.n = @ + 1]
            /\ UNCHANGED <<outside, marker, late>>

\* The marker is written last; CountDocuments counts the rows of that moment.
Completed == [completed |-> TRUE,
              count |-> CASE task = "stats" -> start.n
                          [] task = "stats mongo" -> Cardinality({d \in Docs : doc[d].exists})
                          [] OTHER -> marker.count + start.n]

FinishTask == /\ start.at = "next" /\ start.left = {}
              /\ marker' = Completed /\ start' = [StartDown EXCEPT !.at = "up"]
              /\ UNCHANGED <<outside, doc, late>>
-----------------------------------------------------------------------------
\* A storage call fails, the process is stopped, or it is replaced later on.
StartFails == /\ faults < MaxFaults /\ start.at # "down"
              /\ faults' = faults + 1 /\ start' = StartDown
              /\ UNCHANGED <<task, doc, marker, other, written, late>>

\* The same, after a write that took effect.
StartReplyLost == /\ faults < MaxFaults /\ faults' = faults + 1 /\ start' = StartDown
                  /\ \/ /\ start.at = "write" /\ doc[start.key].version = start.held.version
                        /\ doc' = [doc EXCEPT ![start.key] = Renewed(start.held)] /\ UNCHANGED marker
                     \/ /\ start.at = "next" /\ start.left = {}
                        /\ marker' = Completed /\ UNCHANGED doc
                  /\ UNCHANGED <<task, other, written, late>>

\* The other process loads a document, unless it does not validate, and stores
\* what it made of it in the form of its build, whatever is stored by then: stock's
\* SavePortfolio is a Put.  This build never writes stats' retired rows nor
\* anything of sticker.
OtherReads(d, old) == /\ other = Silent /\ doc[d].valid /\ written[d] < MaxWrites
                      /\ task # "stock" => old
                      /\ other' = [key |-> d, held |-> doc[d], old |-> old]
                      /\ UNCHANGED <<task, doc, marker, start, faults, written, late>>

OtherWrites ==
  LET d == other.key
  IN  /\ other # Silent /\ other' = Silent
      /\ doc' = [doc EXCEPT ![d] = [exists |-> TRUE, old |-> other.old, valid |-> TRUE,
                                    version |-> @.version + 1, writes |-> other.held.writes + 1]]
      /\ written' = [written EXCEPT ![d] = @ + 1]
      /\ late' = IF other.old THEN late \cup {d} ELSE late
      /\ UNCHANGED <<task, marker, start, faults>>

StartStep == \/ StartProcess \/ ReadMarker \/ ListDocs \/ ReadDoc \/ WriteDoc \/ FinishTask
             \/ \E d \in Docs : Visit(d) \/ Sweep(d)

StartupNext == \/ StartStep \/ StartFails \/ StartReplyLost \/ OtherWrites
               \/ \E d \in Docs, old \in BOOLEAN : OtherReads(d, old)

\* A start runs on, and the container starts a process that ended.
StartupSpec == StartupInit /\ [][StartupNext]_startupVars /\ WF_startupVars(StartStep)
-----------------------------------------------------------------------------
\* A task loses no write that the other process was told is done: a document
\* that changed since it was read is read again (stock startup.go: the migration
\* "must never discard history already written by the new runtime").  Sticker
\* deletes what no code reads any more.
HistoryKept == task # "sticker" => \A d \in Docs : doc[d].writes = written[d]

\* Once a start is through, or the marker says so, no document has the old form
\* but one that the build before wrote since, however many starts were
\* interrupted, wherever.  (Stats' marker is about the start that wrote it.)
MarkerIsTrue ==
  start.at = "up" \/ (marker.completed /\ task \in {"stock", "sticker"})
    => \A d \in Docs : doc[d].old => d \in late

\* A start that was interrupted is resumed by a later one, and the process runs
\* in the end, whatever a fault left behind, if every portfolio of the old form
\* validates.  With one that does not no start gets through (stock
\* startup.go:103, startup_test.go:146): it keeps its old form, see MarkerIsTrue.
StartsResume == (\A d \in Docs : doc[d].old => doc[d].valid) => <>[](start.at = "up")
=============================================================================
