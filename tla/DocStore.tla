------------------------------ MODULE DocStore ------------------------------
(***************************************************************************)
(* One key of a storage.DocStore, used by concurrent clients (handlers,    *)
(* crons, a second container during a redeploy).  Each MongoDB operation   *)
(* is atomic; Put is a loop of them.  A reply can be lost, so that a       *)
(* write that took effect is reported as an error.                         *)
(***************************************************************************)
EXTENDS Integers

CONSTANTS Clients,      \* callers of the store
          Values,       \* payloads
          Absent,       \* no document
          PutAttempts,  \* mongoPutAttempts
          MaxVersion    \* bound: no write starts at this version

ASSUME DocAssumption == /\ Absent \notin Values
                        /\ PutAttempts \in Nat \ {0}
                        /\ MaxVersion \in Nat

VARIABLES backend,  \* "mongo" | "memory": chosen when the program starts
          row,      \* the document: payload and version; version 0 is "absent
                    \* or never versioned", the state expectedVersion 0 matches
          pc,       \* where each client is in its call
          arg,      \* the value it is writing
          seen,     \* the version its last read returned
          tries,    \* conflicts met by the running Put
          result,   \* how its last write call ended
          applied,  \* history: how often that call took effect
          fresh,    \* history: clients whose last read is still the document
          deleted,  \* history: clients since whose last read it was deleted
          last      \* history: kind and client of the last effective write

vars == <<backend, row, pc, arg, seen, tries, result, applied, fresh, deleted, last>>

NoVersion == -1
Row == [val : Values \cup {Absent}, ver : Nat]
Places == {"idle", "putRead", "putSwap", "swap"}
Results == {"none", "ok", "conflict", "error"}

TypeOK == /\ backend \in {"mongo", "memory"}
          /\ row \in Row
          /\ pc \in [Clients -> Places]
          /\ arg \in [Clients -> Values \cup {Absent}]
          /\ seen \in [Clients -> Nat \cup {NoVersion}]
          /\ tries \in [Clients -> Nat]
          /\ result \in [Clients -> Results]
          /\ applied \in [Clients -> Nat]
          /\ fresh \subseteq Clients
          /\ deleted \subseteq Clients
          /\ last \in {"none", "put", "swap", "delete"} \X (Clients \cup {Absent})

\* In MongoDB, a document left by the pre-versioning code has a value and version 0.
Init == /\ backend \in {"mongo", "memory"}
        /\ row \in [val : Values \cup {Absent}, ver : {0}]
        /\ backend = "memory" => row.val = Absent
        /\ pc = [c \in Clients |-> "idle"]
        /\ arg = [c \in Clients |-> Absent]
        /\ seen = [c \in Clients |-> NoVersion]
        /\ tries = [c \in Clients |-> 0]
        /\ result = [c \in Clients |-> "none"]
        /\ applied = [c \in Clients |-> 0]
        /\ fresh = {}
        /\ deleted = {}
        /\ last = <<"none", Absent>>

-----------------------------------------------------------------------------
MutReplacementSameVersion(v) == [val |-> v, ver |-> row.ver]

\* The filter of a versioned write; the row that replaces the one it matches.
Matches(expectedVersion) == row.ver = expectedVersion
Replacement(v) == [val |-> v, ver |-> row.ver + 1]

Read(c) == /\ seen' = [seen EXCEPT ![c] = row.ver]
           /\ fresh' = fresh \cup {c}
           /\ deleted' = deleted \ {c}

Begin(c, v, place) ==
  /\ pc[c] = "idle"
  /\ row.ver < MaxVersion
  /\ pc' = [pc EXCEPT ![c] = place]
  /\ arg' = [arg EXCEPT ![c] = v]
  /\ tries' = [tries EXCEPT ![c] = 0]
  /\ result' = [result EXCEPT ![c] = "none"]
  /\ applied' = [applied EXCEPT ![c] = 0]
  /\ UNCHANGED <<backend, row, seen, fresh, last, deleted>>

Return(c, r) == /\ pc' = [pc EXCEPT ![c] = "idle"]
                /\ result' = [result EXCEPT ![c] = r]

Apply(c, kind) == /\ row' = Replacement(arg[c])
                  /\ applied' = [applied EXCEPT ![c] = @ + 1]
                  /\ fresh' = {}
                  /\ last' = <<kind, c>>

-----------------------------------------------------------------------------
Get(c) == /\ pc[c] = "idle"
          /\ Read(c)
          /\ UNCHANGED <<backend, row, pc, arg, tries, result, applied, last>>

\* A caller passes PutVersioned the version its own Get returned.
StartPutVersioned(c, v) == seen[c] # NoVersion /\ Begin(c, v, "swap")

StartPut(c, v) ==
  Begin(c, v, IF backend = "mongo" THEN "putRead" ELSE "putSwap")

PutRead(c) == /\ pc[c] = "putRead"
              /\ Read(c)
              /\ pc' = [pc EXCEPT ![c] = "putSwap"]
              /\ UNCHANGED <<backend, row, arg, tries, result, applied, last>>

\* Kind of the write a client is about to make.
Kind(c) == IF pc[c] = "swap" THEN "swap" ELSE "put"

\* The conditional replacement goes through.  An in-memory Put writes under the
\* collection's lock whatever the version is.
Replace(c) ==
  /\ pc[c] \in {"putSwap", "swap"}
  /\ Matches(seen[c]) \/ (backend = "memory" /\ pc[c] = "putSwap")
  /\ Apply(c, Kind(c))
  /\ Return(c, "ok")
  /\ UNCHANGED <<backend, arg, seen, tries, deleted>>

\* Mutant: Put retries after any error, not only after a conflict.
MutRetryAfterError(c) ==
  /\ backend = "mongo"
  /\ pc[c] \in {"putSwap", "swap"}
  /\ Matches(seen[c])
  /\ Apply(c, Kind(c))
  /\ IF pc[c] = "putSwap"
       THEN pc' = [pc EXCEPT ![c] = "putRead"] /\ UNCHANGED result
       ELSE Return(c, "error")
  /\ UNCHANGED <<backend, arg, seen, tries, deleted>>

\* The replacement goes through and its reply is lost.
ReplaceUnacknowledged(c) ==
  /\ backend = "mongo"
  /\ pc[c] \in {"putSwap", "swap"}
  /\ Matches(seen[c])
  /\ Apply(c, Kind(c))
  /\ Return(c, "error")
  /\ UNCHANGED <<backend, arg, seen, tries, deleted>>

PutVersionedConflict(c) ==
  /\ pc[c] = "swap"
  /\ ~Matches(seen[c])
  /\ Return(c, "conflict")
  /\ UNCHANGED <<backend, row, arg, seen, tries, applied, fresh, last, deleted>>

\* Only a conflict is retried, and only PutAttempts times in all.
PutConflict(c) ==
  /\ backend = "mongo"
  /\ pc[c] = "putSwap"
  /\ ~Matches(seen[c])
  /\ tries' = [tries EXCEPT ![c] = @ + 1]
  /\ IF tries[c] + 1 < PutAttempts
       THEN pc' = [pc EXCEPT ![c] = "putRead"] /\ UNCHANGED result
       ELSE Return(c, "conflict")
  /\ UNCHANGED <<backend, row, arg, seen, applied, fresh, last, deleted>>

\* A Get or a write inside the call fails without effect.
CallFails(c) ==
  /\ backend = "mongo"
  /\ pc[c] # "idle"
  /\ Return(c, "error")
  /\ UNCHANGED <<backend, row, arg, seen, tries, applied, fresh, last, deleted>>

\* Deleting takes the version away with the document.
Delete(c) == /\ pc[c] = "idle"
             /\ row' = [val |-> Absent, ver |-> 0]
             /\ fresh' = {}
             /\ deleted' = Clients
             /\ last' = <<"delete", c>>
             /\ UNCHANGED <<backend, pc, arg, seen, tries, result, applied>>

Next == \E c \in Clients :
          \/ Get(c)
          \/ \E v \in Values : StartPut(c, v) \/ StartPutVersioned(c, v)
          \/ PutRead(c)
          \/ Replace(c)
          \/ ReplaceUnacknowledged(c)
          \/ PutVersionedConflict(c)
          \/ PutConflict(c)
          \/ CallFails(c)
          \/ Delete(c)

Spec == Init /\ [][Next]_vars

\* A client's call runs on; clients are not obliged to make calls.
Steps(c) == PutRead(c) \/ Replace(c) \/ PutConflict(c) \/ PutVersionedConflict(c)
FairSpec == Spec /\ \A c \in Clients : WF_vars(Steps(c))

-----------------------------------------------------------------------------
(* Inductive invariants *)

\* A call that is running has its value, no effect and no result yet.
RunningHasNoEffect ==
  \A c \in Clients : pc[c] # "idle" => /\ arg[c] \in Values
                                      /\ applied[c] = 0
                                      /\ result[c] = "none"

\* Until the document is deleted its version only grows: a version a client holds is
\* never ahead of the stored one, and equal to it only if the read is current.
VersionIdentifiesRead ==
  \A c \in Clients \ deleted : /\ seen[c] <= row.ver
                               /\ seen[c] = row.ver => c \in fresh

-----------------------------------------------------------------------------
(* Properties *)

\* A write call takes effect at most once, and its result says which: "ok" means
\* once, "conflict" means not at all; after an error the caller cannot know.  The
\* retry loop of Put must not turn one call into two overwrites.
WriteOutcome ==
  \A c \in Clients :
    /\ applied[c] <= 1
    /\ result[c] = "ok" => applied[c] = 1
    /\ result[c] = "conflict" => applied[c] = 0

\* The store implements VersionedDoc: comparing version numbers is as good as
\* comparing documents (of one lifetime), and Put's loop is one overwrite.
Promise == INSTANCE VersionedDoc WITH doc <- row.val
VersionedDocSpec == Promise!Spec

\* A writer swaps only if the document it read is unchanged (the DocStore comment's
\* promise): no update of another client is overwritten unseen.  Only a deletion may
\* have come in between, since it takes the version away with the document.
SwapOnlyIfUnchanged ==
  [][\A c \in Clients :
       (pc[c] = "swap" /\ applied'[c] = applied[c] + 1)
         => c \in fresh \cup deleted]_vars

\* A Put call ends, whatever the other writers do: the loop is bounded.
CallsReturn == \A c \in Clients : pc[c] # "idle" ~> pc[c] = "idle"
=============================================================================
