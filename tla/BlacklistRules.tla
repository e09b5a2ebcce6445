--------------------------- MODULE BlacklistRules ---------------------------
(***************************************************************************)
(* The blacklist module: each thread has a list of forbidden texts and one *)
(* of exceptions.  A rule is a key of the store: the thread, the list and  *)
(* the normalised text, escaped; the verdict on a text is taken from the   *)
(* keys.  A text is a sequence of characters.  The worker handles one      *)
(* update at a time.                                                       *)
(***************************************************************************)
EXTENDS Texts

CONSTANTS Places,    \* where messages are sent: [chat, thread, topic]
          TypedRules,     \* texts typed as rules
          Checked,   \* normalised texts that are judged
          MaxEntry,  \* maxEntryBytes, in characters
          MaxRules,  \* bound: rules stored at once
          MaxDoubts  \* bound: failed writes the user has not looked into

ASSUME BlacklistAssumption == MaxEntry \in Nat /\ MaxRules \in Nat /\ MaxDoubts \in Nat

\* The ids of chats and threads are decimal numbers.
ASSUME TextAssumption ==
  /\ TypedRules \subseteq Seq(STRING) /\ Checked \subseteq Seq(STRING)
  /\ \A p \in Places : /\ p.chat \in Seq(STRING) /\ p.thread \in Seq(STRING)
                       /\ p.topic \in BOOLEAN
                       /\ ":" \notin Range(p.chat) \cup Range(p.thread)

VARIABLES keys,      \* the keys of the collection
          believed,  \* history: thread and list -> texts said to be added, not removed
          unsure     \* history: thread, list and text of a write that failed

ruleVars == <<keys, believed, unsure>>

Lists == {"b", "w"}
-----------------------------------------------------------------------------
\* Normalize: compose (a letter and a combining accent), fold the case, and
\* join the fields with one space.
Lowered == [A |-> "a", X |-> "x"]
Lower(s) == [i \in DOMAIN s |-> IF s[i] \in DOMAIN Lowered THEN Lowered[s[i]] ELSE s[i]]

Compose(s) == Collapse(s, <<"x", "acute">>, "x-acute")

Fields(s) == At(s, {i \in DOMAIN s : s[i] = " " => /\ i > 1 /\ s[i - 1] # " "
                                                  /\ \E j \in i..Len(s) : s[j] # " "})

Normalize(s) == Fields(Lower(Compose(s)))

\* Mutant: the escape character is escaped last.
MutEncode(s) == Escape(Escape(s, "/", <<"%", "2", "F">>), "%", <<"%", "2", "5">>)

Encode(s) == Escape(Escape(s, "%", <<"%", "2", "5">>), "/", <<"%", "2", "F">>)
Decode(s) == Collapse(Collapse(s, <<"%", "2", "F">>, "/"), <<"%", "2", "5">>, "%")

\* A reply in a plain group carries a thread id, too; only a topic is a thread.
ThreadOf(p) == [chat |-> p.chat, thread |-> IF p.topic THEN p.thread ELSE <<"0">>]

ScopePrefix(t, list) == t.chat \o <<":">> \o t.thread \o <<":", list, ":">>
EntryKey(t, list, text) == ScopePrefix(t, list) \o Encode(text)

\* List(prefix), and what is left of the keys.
EntriesFor(t, list) == LET p == ScopePrefix(t, list)
                       IN  {Decode(SubSeq(k, Len(p) + 1, Len(k))) : k \in {l \in keys : IsPrefix(p, l)}}

\* What is read of a thread to judge a text.
RulesIn(t) == [black |-> EntriesFor(t, "b"), white |-> EntriesFor(t, "w")]
-----------------------------------------------------------------------------
\* Check.  A span is the range of positions a text takes.
Occurrences(s, sub) ==
  IF sub = <<>> THEN {}
  ELSE {[start |-> i, end |-> i + Len(sub)] :
          i \in {j \in 1..(Len(s) - Len(sub) + 1) : SubSeq(s, j, j + Len(sub) - 1) = sub}}

\* Mutant: an exception anywhere in the text rescues all of it.
MutCoveredBy(span, allowed) == allowed # {}

CoveredBy(span, allowed) == \E a \in allowed : a.start <= span.start /\ span.end <= a.end

Verdict(text, black, white) ==
  LET allowed == UNION {Occurrences(text, w) : w \in white}
      found == UNION {Occurrences(text, b) : b \in black}
  IN  IF \E s \in found : ~CoveredBy(s, allowed) THEN "blocked"
      ELSE IF found # {} THEN "rescued"
      ELSE "clear"
-----------------------------------------------------------------------------
Threads == {ThreadOf(p) : p \in Places}

\* The rules as they are stored, and their keys.
Normalized == [s \in TypedRules |-> Normalize(s)]
Rules  == Range(Normalized)
RuleKey == [y \in (Threads \X Lists) \X Rules |-> EntryKey(y[1][1], y[1][2], y[2])]

BlacklistTypeOK == /\ keys \subseteq Range(RuleKey)
                   /\ believed \in [Threads \X Lists -> SUBSET Rules]
                   /\ unsure \subseteq (Threads \X Lists) \X Rules

BlacklistInit == /\ keys = {} /\ believed = [x \in Threads \X Lists |-> {}] /\ unsure = {}

\* resolveText: some text is left, and it is short both as typed and as stored.
Resolves(s) == /\ Normalized[s] # <<>> /\ Len(s) <= MaxEntry /\ Len(Normalized[s]) <= MaxEntry

\* The store took the write, refused it, or took it and the reply was lost.
Outcome(x, text, new, said) ==
  \/ keys' = new /\ believed' = [believed EXCEPT ![x] = said] /\ unsure' = unsure \ {<<x, text>>}
  \/ /\ Cardinality(unsure) < MaxDoubts /\ keys' \in {keys, new}
     /\ unsure' = unsure \cup {<<x, text>>} /\ UNCHANGED believed

\* The rule is read first, to word the reply; one that is there is not written.
RuleAdded(p, list, s) ==
  LET text == Normalized[s] x == <<ThreadOf(p), list>> k == RuleKey[<<x, text>>]
  IN  /\ Resolves(s) /\ k \notin keys /\ Cardinality(keys) < MaxRules
      /\ Outcome(x, text, keys \cup {k}, believed[x] \cup {text})

RuleDeleted(p, list, s) ==
  LET text == Normalized[s] x == <<ThreadOf(p), list>> k == RuleKey[<<x, text>>]
  IN  /\ Resolves(s) /\ k \in keys
      /\ Outcome(x, text, keys \ {k}, believed[x] \ {text})

\* "Already there" and "not there" are answers, too: the user is sure again.
RuleAnswered(p, list, s) ==
  LET text == Normalized[s] x == <<ThreadOf(p), list>> there == RuleKey[<<x, text>>] \in keys
  IN  /\ Resolves(s) /\ <<x, text>> \in unsure
      /\ unsure' = unsure \ {<<x, text>>}
      /\ believed' = [believed EXCEPT ![x] = IF there THEN @ \cup {text} ELSE @ \ {text}]
      /\ UNCHANGED keys

BlacklistNext == \E p \in Places, l \in Lists, s \in TypedRules :
  RuleAdded(p, l, s) \/ RuleDeleted(p, l, s) \/ RuleAnswered(p, l, s)

BlacklistSpec == BlacklistInit /\ [][BlacklistNext]_ruleVars
-----------------------------------------------------------------------------
Doubts(x) == {u[2] : u \in {v \in unsure : v[1] = x}}

\* The rules of a thread's list are the texts it was told were added there and
\* not removed: none shows up in another thread, topic or list (scope.go: the
\* "third ':' always ends the prefix even though entry text may contain ':'"),
\* and each reads back as it was written ("decoding can never match one that
\* spans two" escapes).
RulesStayInThread ==
  \A x \in Threads \X Lists : EntriesFor(x[1], x[2]) \ Doubts(x) = believed[x] \ Doubts(x)

\* By position: every character of the forbidden text lies within one exception.
Forbidden(text, black, white) ==
  \E b \in black : b # <<>> /\ \E i \in DOMAIN text :
    /\ IsPrefix(b, SubSeq(text, i, Len(text)))
    /\ ~\E w \in white, j \in 1..i : IsPrefix(w, SubSeq(text, j, Len(text))) /\ i + Len(b) <= j + Len(w)

\* A text is blocked just when a forbidden text occurs in it that no exception
\* at that place contains (match.go: "I met an assassin, dumbass").
VerdictIsRight ==
  \A t \in Threads : Doubts(<<t, "b">>) \cup Doubts(<<t, "w">>) = {} =>
    LET stored == RulesIn(t)
        black == believed[<<t, "b">>] white == believed[<<t, "w">>]
    IN  \A text \in Checked :
          LET v == Verdict(text, stored.black, stored.white)
          IN  /\ (v = "blocked") = Forbidden(text, black, white)
              /\ (v = "clear") = ~Forbidden(text, black, {})
=============================================================================
