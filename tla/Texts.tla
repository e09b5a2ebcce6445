------------------------------- MODULE Texts -------------------------------
(***************************************************************************)
(* A text is a sequence of characters: what is left when some of them are  *)
(* dropped, and strings.ReplaceAll.                                        *)
(***************************************************************************)
EXTENDS Integers, Sequences, FiniteSets, SequencesExt

\* The elements of s at the kept positions.
At(s, kept) == [n \in 1..Cardinality(kept) |->
                  s[CHOOSE i \in kept : Cardinality({j \in kept : j <= i}) = n]]

Without(s, c) == At(s, {i \in DOMAIN s : s[i] # c})

\* strings.ReplaceAll, of one character, and of a text that does not overlap itself.
Escape(s, c, by) == FlattenSeq([i \in DOMAIN s |-> IF s[i] = c THEN by ELSE <<s[i]>>])
Collapse(s, sub, c) ==
  LET found == {i \in 1..(Len(s) - Len(sub) + 1) : SubSeq(s, i, i + Len(sub) - 1) = sub}
  IN  At([i \in DOMAIN s |-> IF i \in found THEN c ELSE s[i]],
         {i \in DOMAIN s : ~\E m \in found : m < i /\ i < m + Len(sub)})
=============================================================================
