---------------------------- MODULE StickerPack ----------------------------
(***************************************************************************)
(* /addsticker adds the replied sticker, photo or video to the one shared  *)
(* pack, and creates the pack when Telegram says there is none.  The calls *)
(* share the handler's time: downloading, converting and uploading must    *)
(* leave some of it for the reply.  Telegram may apply a call and its      *)
(* answer be lost.  The pack may be deleted by its owner, and a restart    *)
(* may change the configuration.  Time is counted in seconds; converting a *)
(* photo takes less than one.                                              *)
(***************************************************************************)
EXTENDS StickerEmoji

CONSTANTS Owners,   \* accounts OWNER_ID may name
          NoOwner,  \* it is not set
          Still,    \* stickerHandlerTimeout
          Moving,   \* stickerVideoHandlerTimeout
          Reserve,  \* replyReserve
          MaxPack,  \* maxStickersPerPack
          MaxSent   \* bound: runes typed with a command that is sent

ASSUME PackAssumption == {Still, Moving, MaxSent} \subseteq Nat /\ {Reserve, MaxPack} \subseteq Nat \ {0}

VARIABLES owner,    \* the configured owner
          manages,  \* the configured name ends in the bot's username
          known,    \* the resolver has cached the username
          pack,     \* Telegram's set of that name: its owner and its size, 0 for no set
          at, source, left, began, \* the handler: its step, what was replied to, its time left,
                                   \* and what was left when the media leg began
          answer,   \* what its reply says
          put       \* history: how often this command's sticker came into the pack

configVars  == <<owner, manages>>
handlerVars == <<at, source, left, began, answer, put>>
stickerVars == <<text, configVars, known, pack, handlerVars>>

Sources == {"none", "unfit", "sticker", "photo", "video"}
Answers == {"silent", "added", "created", "full", "taken", "misconfigured", "refused", "failed", "nomedia"}

StickerTypeOK ==
  /\ text \in Seq(Runes) /\ owner \in Owners \cup {NoOwner} /\ manages \in BOOLEAN /\ known \in BOOLEAN
  /\ pack \in [owner : Owners, size : 0..MaxPack] /\ source \in Sources /\ answer \in Answers
  /\ at \in {"idle", "username", "media", "add", "create", "reply"}
  /\ left \in 0..(Still + Moving) /\ began \in 0..(Still + Moving) /\ put \in 0..2
-----------------------------------------------------------------------------
Goes(to)    == at' = to /\ UNCHANGED answer
Say(what)   == at' = "reply" /\ answer' = what
Spend(most) == \E d \in 0..most : left' = left - d

\* A call that ran to its deadline has failed, whatever Telegram made of it.
InTime == left' > 0

AddSticker(src) ==
  /\ at = "idle" /\ source' = src /\ left' = (IF src = "video" THEN Moving ELSE Still)
  /\ put' = 0 /\ began' = 0
  /\ IF owner = NoOwner THEN Say("failed") ELSE Goes("username")
  /\ UNCHANGED <<text, configVars, known, pack>>

\* The bot's username: asked for once, and again while the answer fails.
Resolve == IF known THEN UNCHANGED <<known, left>>
           ELSE Spend(left) /\ known' \in {FALSE, InTime}

\* parseEmoji, and what can be said of the source by looking.
Unfit == ParseEmoji(text) = NotEmoji \/ source \in {"none", "unfit"}

ResolveUsername ==
  /\ at = "username" /\ Resolve
  /\ \/ ~known' /\ Say("failed")
     \/ known' /\ ~manages /\ Say("misconfigured")
     \/ known' /\ manages /\ Unfit /\ Say("refused")
     \/ known' /\ manages /\ ~Unfit /\ Goes(IF source = "sticker" THEN "add" ELSE "media")
  /\ UNCHANGED <<text, configVars, pack, source, began, put>>

\* FetchContext, and its floor of a second.
MediaTime(l) == IF l - Reserve < 1 THEN 1 ELSE l - Reserve

\* The file is refused, or some step of the leg fails or runs out of time.
MediaFails == Say("nomedia")

\* Download, convert, upload.
Media ==
  LET most == IF MediaTime(left) < left THEN MediaTime(left) ELSE left
  IN  /\ at = "media" /\ began' = left /\ Spend(most)
      /\ \/ left' > left - most /\ Goes("add")
         \/ MediaFails
      /\ UNCHANGED <<text, configVars, known, pack, source, put>>

\* Mutant: a call with no answer is taken for a missing set.
MutMissing(a) == a \in {"missing", "lost"}

Missing(a) == a = "missing"

\* Whether the call took effect: with the answer lost, perhaps, if it could have.
Effects(a, answers) == IF a = "lost" /\ "ok" \in answers THEN BOOLEAN ELSE {a = "ok"}

\* What Telegram answers to an add by the configured owner.
AddAnswers == IF pack.size = 0 \/ pack.owner # owner THEN {"missing", "lost"}
              ELSE IF pack.size = MaxPack THEN {"full", "lost"}
              ELSE {"ok", "refused", "lost"}

Add == /\ at = "add" /\ Spend(left)
       /\ \E a \in AddAnswers :
            /\ a # "lost" => InTime
            /\ \E applied \in Effects(a, AddAnswers) :
                 IF applied THEN pack' = [pack EXCEPT !.size = @ + 1] /\ put' = put + 1
                 ELSE UNCHANGED <<pack, put>>
            /\ \/ a = "ok" /\ Say("added")
               \/ Missing(a) /\ Goes("create")
               \/ a \in {"full", "refused"} /\ Say(a)
               \/ a = "lost" /\ ~Missing(a) /\ Say("failed")
       /\ UNCHANGED <<text, configVars, known, source, began>>

CreateAnswers == IF pack.size = 0 THEN {"ok", "refused", "lost"} ELSE {"occupied", "lost"}

Create == /\ at = "create" /\ Spend(left)
          /\ \E a \in CreateAnswers :
               /\ a # "lost" => InTime
               /\ \E applied \in Effects(a, CreateAnswers) :
                    IF applied THEN pack' = [owner |-> owner, size |-> 1] /\ put' = put + 1
                    ELSE UNCHANGED <<pack, put>>
               /\ \/ a = "ok" /\ Say("created")
                  \/ a = "occupied" /\ Say("taken")
                  \/ a = "refused" /\ Say("refused")
                  \/ a = "lost" /\ Say("failed")
          /\ UNCHANGED <<text, configVars, known, source, began>>

\* The reply is sent on what is left of the time; no outcome of it is handled.
Reply == /\ at = "reply" /\ at' = "idle" /\ answer' = "silent" /\ text' = <<>> /\ left' = 0
         /\ source' = "none" /\ began' = 0 /\ put' = 0 /\ UNCHANGED <<configVars, known, pack>>

DeletePack == /\ pack.size > 0 /\ pack' = [pack EXCEPT !.size = 0]
              /\ UNCHANGED <<text, configVars, known, handlerVars>>

\* A new process, perhaps with another configuration; a handler is given up.
Reconfigure(o, m) == /\ owner' = o /\ manages' = m /\ known' = FALSE /\ at' = "idle" /\ answer' = "silent"
                     /\ text' = <<>> /\ left' = 0 /\ source' = "none" /\ began' = 0 /\ put' = 0
                     /\ UNCHANGED pack

StickerInit == /\ EmojiInit /\ owner \in Owners /\ manages = TRUE /\ known = FALSE
               /\ pack = [owner |-> owner, size |-> 0] /\ at = "idle" /\ source = "none"
               /\ left = 0 /\ began = 0 /\ answer = "silent" /\ put = 0

StickerNext == \/ at = "idle" /\ Len(text) < MaxSent /\ TypeRune /\ UNCHANGED <<configVars, known, pack, handlerVars>>
               \/ \E s \in Sources : AddSticker(s)
               \/ ResolveUsername \/ Media \/ Add \/ Create \/ Reply \/ DeletePack
               \/ \E o \in Owners \cup {NoOwner}, m \in BOOLEAN : Reconfigure(o, m)

StickerSpec == StickerInit /\ [][StickerNext]_stickerVars
-----------------------------------------------------------------------------
\* What the user is told has happened has happened, once: a command whose answer
\* was lost is not turned into a second pack or a second sticker, and a name is
\* called taken only while another account has it (sticker_pack.go: "A network
\* blip ... must never be read as 'the pack is gone'").  And when the media leg
\* fails there is time left to say so, unless the username took all but a second
\* (mediaContext: "the user saw nothing at all").
StickerAnswerIsTrue ==
  /\ put <= 1
  /\ answer \in {"added", "created"} => put = 1
  /\ answer \in {"full", "taken", "misconfigured", "refused", "nomedia"} => put = 0
  /\ answer = "taken" => pack.size = 0 \/ pack.owner # owner
  /\ answer = "nomedia" /\ began > 1 => left > 0
=============================================================================
