------------------------------- MODULE Aliases -------------------------------
(***************************************************************************)
(* The alias module behind the dispatcher: /alias saves the message it     *)
(* replies to under a name, /insert, an unregistered /name and inline mode *)
(* send it again, /unalias deletes it.  The names are one space for all    *)
(* chats, kept across deploys; a deploy may add a command of the same name.*)
(***************************************************************************)
EXTENDS Dispatcher

CONSTANTS Contents,    \* what a message can be: [kind, fields]; fields are those
                       \* Telegram fills, kind is what the sender meant
          MaxResults   \* maxInlineResults

\* capture: the first field of this order that the message has.
Order == <<"sticker", "animation", "video_note", "video", "voice", "audio", "photo", "document", "text">>
Captures(c) == c.fields \cap Range(Order) # {}
Capture(c) == [kind |-> Order[CHOOSE i \in DOMAIN Order :
                                 Order[i] \in c.fields /\ \A j \in 1..(i - 1) : Order[j] \notin c.fields],
               content |-> c]

\* A message has the field of its kind; a GIF is a document, too.
ASSUME AliasesAssumption ==
  /\ MaxResults \in Nat \ {0}
  /\ \A c \in Contents : /\ c.kind \in Range(Order)
                         /\ c.fields = {c.kind} \cup (IF c.kind = "animation" THEN {"document"} ELSE {})
  /\ \A u \in Updates : u.kind = "message" /\ Captures(u.reply) => u.reply \in Contents

VARIABLES saved,  \* the collection: key -> [kind, content], or Nothing
          told,   \* history: what the bot last said is saved under a name, unless
                  \* an attempt to change it failed since
          sent    \* history: the answer to the last request for a name

aliasVars == <<dispatchVars, saved, told, sent>>

\* parseName: no word, two words or other characters make no name; the case is folded.
Unnamed == "NoName"
Parses(t) == t.name # Unnamed

\* Mutant: the name is looked up as it was typed.
MutKey(t) == t

Key(t) == [name |-> t.name, caps |-> FALSE]

Typed == UNION {Range(u.typed) \cup {u.arg} : u \in {v \in Updates : v.kind = "message"}}
Keys == {t \in Typed \cup {Key(s) : s \in Typed} : Parses(t)}
Nothing == [kind |-> "nothing", content |-> [kind |-> "nothing", fields |-> {}]]
Entry == [kind : Range(Order), content : Contents]
NameSet == {t.name : t \in Keys}

\* Names have 32 characters at most.
ASSUME NamesAssumption == IsFiniteSet(NameSet)

\* told: a content, "nothing" for a name said to be free, or "unsure".
Free == Nothing.content
Unsure == [kind |-> "unsure", fields |-> {}]
NotAsked == [how |-> "none", name |-> Unnamed, got |-> {}]

AliasTypeOK ==
  /\ DispatchTypeOK
  /\ saved \in [Keys -> Entry \cup {Nothing}]
  /\ told \in [NameSet -> Contents \cup {Free, Unsure}]
  /\ sent.how \in {"none", "insert", "inline", "failed"} /\ sent.got \subseteq Entry

AliasInit ==
  /\ deploy \in Deploys /\ process = (IF Builds(deploy) THEN "up" ELSE "refused")
  /\ worker = Idle /\ hooks = 0 /\ traces = {}
  /\ saved = [k \in Keys |-> Nothing] /\ told = [n \in NameSet |-> Free] /\ sent = NotAsked
-----------------------------------------------------------------------------
\* The handler of an alias command of this deploy is running.
Handling(command) == /\ Running("command") /\ worker.by.name = command
                     /\ \E c \in Commands(deploy) : c.owner = "alias" /\ c.name = command
aliasUpdate == worker.update
Replies == traces' = traces \cup {"reply"} /\ worker' = Idle
replied == <<deploy, hooks, process>>

\* The order of handleAlias: a name, a message, no command of that name, content.
Refused(u) == \/ ~Parses(u.arg) \/ u.reply = Free
              \/ \E c \in Commands(deploy) : c.name = Key(u.arg).name
              \/ ~Captures(u.reply)

RefuseAlias == /\ Handling("alias") /\ Refused(aliasUpdate) /\ Replies
               /\ UNCHANGED <<replied, saved, told, sent>>

\* The name is read and written; a write may be reported to fail though it took
\* effect; that it is saved is said only when the reply gets through.
SaveAlias == /\ Handling("alias") /\ ~Refused(aliasUpdate)
             /\ LET u == aliasUpdate n == u.arg.name
                    written == [saved EXCEPT ![Key(u.arg)] = Capture(u.reply)]
                IN  \/ UNCHANGED <<saved, told>> /\ Replies
                    \/ saved' = written /\ told' = [told EXCEPT ![n] = u.reply] /\ Replies
                    \/ /\ saved' \in {saved, written} /\ told' = [told EXCEPT ![n] = Unsure]
                       /\ Replies
             /\ UNCHANGED <<replied, sent>>

\* The name may be read in vain; one that is not saved is not deleted.
Unalias == /\ Handling("unalias") /\ Replies
           /\ LET t == aliasUpdate.arg
                  deleted == [saved EXCEPT ![Key(t)] = Nothing]
              IN  \/ UNCHANGED <<saved, told>>
                  \/ /\ Parses(t) /\ saved[Key(t)] # Nothing
                     /\ \/ saved' = deleted /\ told' = [told EXCEPT ![t.name] = Free]
                        \/ /\ saved' \in {saved, deleted} /\ told' = [told EXCEPT ![t.name] = Unsure]
           /\ UNCHANGED <<replied, sent>>

\* What is saved is sent by the method of its kind; the read or the send may
\* fail, and a saved message may be gone from Telegram.
SendSaved(t) == \/ sent' = [how |-> "failed", name |-> t.name, got |-> {}]
                \/ sent' = [how |-> "insert", name |-> t.name, got |-> {saved[Key(t)]} \ {Nothing}]

Insert == /\ Handling("insert")
          /\ IF Parses(aliasUpdate.arg) THEN SendSaved(aliasUpdate.arg) ELSE UNCHANGED sent
          /\ Replies /\ UNCHANGED <<replied, saved, told>>

\* The dispatcher hands over the name folded; a name nobody saved is met with silence.
Fallback == /\ Running("fallback") /\ "alias" \in Range(deploy)
            /\ LET t == [name |-> worker.by.name, caps |-> FALSE]
               IN  IF t \in Keys THEN SendSaved(t) ELSE UNCHANGED sent
            /\ traces' = (IF sent'.got # {} THEN traces \cup {"reply"} ELSE traces)
            /\ worker' = Idle /\ UNCHANGED <<replied, saved, told>>

\* The picker: the saved names that match, in order, up to Telegram's limit; a
\* video note has no inline form, and a failed scan answers with nothing.
Matching(q) == {k \in Keys : /\ saved[k] # Nothing /\ saved[k].kind # "video_note"
                             /\ q \in {Unnamed, k.name}}

Inline == /\ Running("inline") /\ "alias" \in Range(deploy)
          /\ LET q == aliasUpdate.query m == Matching(q)
             IN  \/ sent' = [how |-> "failed", name |-> q, got |-> {}]
                 \/ \E shown \in SUBSET m :
                      /\ Cardinality(shown) = IF Cardinality(m) < MaxResults THEN Cardinality(m) ELSE MaxResults
                      /\ sent' = [how |-> "inline", name |-> q, got |-> {saved[k] : k \in shown}]
          /\ traces' = traces \cup {"answer"} /\ worker' = Idle
          /\ UNCHANGED <<replied, saved, told>>

\* A new build starts with other modules; the hooks of the old one are gone.
Redeploy == /\ worker = Idle /\ \E d \in Deploys : deploy' = d
            /\ process' = (IF Builds(deploy') THEN "up" ELSE "refused")
            /\ hooks' = 0 /\ traces' = {} /\ UNCHANGED <<worker, saved, told, sent>>

OfAlias == \/ Handling("alias") \/ Handling("insert") \/ Handling("unalias")
           \/ (worker.by.kind \in {"fallback", "inline"} /\ "alias" \in Range(deploy))

AliasNext == \/ /\ \E u \in Updates : Take(u)
                /\ sent' = NotAsked /\ UNCHANGED <<saved, told>>
             \/ /\ \/ Deny \/ Admit \/ Panics \/ HooksEnd
                   \/ ~OfAlias /\ Return
                /\ UNCHANGED <<saved, told, sent>>
             \/ RefuseAlias \/ SaveAlias \/ Unalias \/ Insert \/ Fallback \/ Inline \/ Redeploy

AliasSpec == AliasInit /\ [][AliasNext]_aliasVars
-----------------------------------------------------------------------------
Sends(n) == IF told[n] = Free THEN {} ELSE {[kind |-> told[n].kind, content |-> told[n]]}
Settled == {n \in NameSet : told[n] # Unsure}

\* What the bot said is saved under a name, and nobody tried to change since, is
\* what the name sends, however it is typed, through /insert or as a command of
\* its own, and what the picker shows; and as what it was: a GIF, which is a
\* file, too, comes back as a GIF.  A name said to be free sends nothing.
AliasIsLastSaved ==
  /\ sent.how = "insert" /\ sent.name \in Settled => sent.got = Sends(sent.name)
  /\ sent.how = "inline" =>
       /\ Cardinality(NameSet) <= MaxResults =>
            \A n \in Settled : sent.name \in {Unnamed, n} =>
              {e \in Sends(n) : e.kind # "video_note"} \subseteq sent.got
       /\ Settled = NameSet => sent.got \subseteq UNION {Sends(n) : n \in NameSet}
=============================================================================
