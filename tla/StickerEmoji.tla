---------------------------- MODULE StickerEmoji ----------------------------
(***************************************************************************)
(* The arguments of /addsticker are emoji, written with or without spaces. *)
(* parseEmoji cuts the joined text into clusters and refuses it when one   *)
(* of them is no emoji.  A rune is represented by its class.               *)
(***************************************************************************)
EXTENDS Texts

CONSTANTS MaxEmoji,  \* maxEmojiPerSticker
          MaxText    \* bound: runes typed

ASSUME EmojiAssumption == MaxEmoji \in Nat /\ MaxText \in Nat

VARIABLE text  \* the runes of the arguments

\* A picture, a letter of a flag, a skin tone, the joiner, a variation selector
\* (or a tag, or a mark), the keycap, and a character of plain text.
Runes   == {"emoji", "ri", "skin", "zwj", "vs", "keycap", "a"}
IsEmoji == {"emoji", "ri", "skin"}
Binding == {"skin", "vs", "keycap"}

\* Trim(s, joiner): without the joiners at both ends.
TrimJoiners(s) ==
  LET kept == {i \in DOMAIN s : s[i] # "zwj"}
  IN  IF kept = {} THEN <<>>
      ELSE SubSeq(s, CHOOSE i \in kept : \A j \in kept : i <= j, CHOOSE i \in kept : \A j \in kept : j <= i)

\* Mutant: the joiner takes whatever rune follows.
MutJoins(s, j) == j < Len(s)

\* The joiner at j continues the cluster with the rune after it.
Joins(s, j) == j < Len(s) /\ s[j + 1] \in IsEmoji \ {"ri"}

\* The index after the runes that bind to the cluster, from i on.
Absorbed(s, i) ==
  LET end[j \in 1..(Len(s) + 2)] ==
        IF j > Len(s) THEN j
        ELSE IF s[j] = "zwj" THEN IF Joins(s, j) THEN end[j + 2] ELSE j + 1
        ELSE IF s[j] \in Binding THEN end[j + 1] ELSE j
  IN  end[i]

ClusterEnd(s, i) == IF s[i] = "ri" /\ i < Len(s) /\ s[i + 1] = "ri" THEN i + 2 ELSE Absorbed(s, i + 1)

Cluster(s, i) == TrimJoiners(SubSeq(s, i, ClusterEnd(s, i) - 1))

SplitClusters(s) ==
  LET from[i \in 1..(Len(s) + 1)] ==
        IF i > Len(s) THEN <<>>
        ELSE (IF Cluster(s, i) = <<>> THEN <<>> ELSE <<Cluster(s, i)>>) \o from[ClusterEnd(s, i)]
  IN  from[1]

IsEmojiCluster(c) == \/ Contains(c, "keycap")
                     \/ c[1] = "ri" /\ Len(c) = 2 /\ c[2] = "ri"
                     \/ c[1] \in IsEmoji \ {"ri"}

NotEmoji == <<"refused">>

ParseEmoji(s) == LET clusters == SplitClusters(s)
                 IN  IF /\ Len(clusters) <= MaxEmoji
                        /\ \A i \in DOMAIN clusters : IsEmojiCluster(clusters[i])
                     THEN clusters ELSE NotEmoji

EmojiInit == text = <<>>
TypeRune  == Len(text) < MaxText /\ \E r \in Runes : text' = Append(text, r)
-----------------------------------------------------------------------------
TimesIn(s, r) == Len(s) - Len(Without(s, r))

\* What parseEmoji accepts, Telegram can take: no cluster begins or ends with a
\* joiner ("it used to pass validation"), a flag is two halves and holds nothing
\* else ("an odd count leaves a lone one"), and no rune but a joiner is dropped or
\* moved; a joiner between two pictures stays.
EmojiAreValid ==
  LET P == ParseEmoji(text)
      spelt == FlattenSeq(P)
  IN  P # NotEmoji =>
        /\ \A i \in DOMAIN P :
             /\ P[i][1] # "zwj" /\ Last(P[i]) # "zwj"
             /\ ~Contains(P[i], "keycap") => /\ P[i][1] \in IsEmoji
                                             /\ Contains(P[i], "ri") => P[i] = <<"ri", "ri">>
        /\ Without(spelt, "zwj") = Without(text, "zwj")
        /\ TimesIn(spelt, "zwj") >= Cardinality({j \in 2..(Len(text) - 1) :
             text[j] = "zwj" /\ text[j - 1] = "emoji" /\ text[j + 1] = "emoji"})
=============================================================================
