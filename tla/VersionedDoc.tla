---------------------------- MODULE VersionedDoc ----------------------------
(***************************************************************************)
(* What the DocStore interface promises about one key, with neither a      *)
(* version number nor a retry loop: a document that changes in one step,   *)
(* and for every client whether the document it last read is still the     *)
(* stored one.  A versioned write succeeds only for such a client, or for  *)
(* one whose document has been deleted since.                              *)
(***************************************************************************)
CONSTANTS Clients, Values, Absent

VARIABLES doc,     \* the stored value, or Absent
          fresh,   \* the clients whose last read is still the stored document
          deleted, \* the clients since whose last read it was deleted
          last     \* kind and client of the last write that took effect

vars == <<doc, fresh, deleted, last>>

Init == /\ doc \in Values \cup {Absent}
        /\ fresh = {}
        /\ deleted = {}
        /\ last = <<"none", Absent>>

Get(c) == /\ fresh' = fresh \cup {c}
          /\ deleted' = deleted \ {c}
          /\ UNCHANGED <<doc, last>>

Write(c, v) == /\ doc' = v
               /\ fresh' = {}

Put(c, v) == /\ Write(c, v)
             /\ last' = <<"put", c>>
             /\ UNCHANGED deleted

PutVersioned(c, v) == /\ c \in fresh \cup deleted
                      /\ Write(c, v)
                      /\ last' = <<"swap", c>>
                      /\ UNCHANGED deleted

Delete(c) == /\ Write(c, Absent)
             /\ deleted' = Clients
             /\ last' = <<"delete", c>>

Next == \E c \in Clients :
          \/ Get(c)
          \/ Delete(c)
          \/ \E v \in Values : Put(c, v) \/ PutVersioned(c, v)

Spec == Init /\ [][Next]_vars
=============================================================================
