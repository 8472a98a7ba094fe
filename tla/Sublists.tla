------------------------------ MODULE Sublists ------------------------------
(***************************************************************************)
(* Part of a list, in its order: what remains when a list is walked and    *)
(* some of its members are unlinked.                                       *)
(***************************************************************************)
EXTENDS Naturals, Sequences

\* The members of the list that are in S.
Sublist(list, S) ==
  LET kept[i \in 0 .. Len(list)] ==
        IF i = 0 THEN << >>
        ELSE IF list[i] \in S THEN Append(kept[i - 1], list[i])
        ELSE kept[i - 1]
  IN  kept[Len(list)]
=============================================================================
