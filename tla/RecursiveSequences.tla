------------------------- MODULE RecursiveSequences -------------------------
(***************************************************************************)
(* Operators on sequences that are defined along their elements, written   *)
(* as recursive functions: SequenceLemmas has the induction for those.     *)
(***************************************************************************)
EXTENDS Naturals, Sequences

\* The elements of s that are in T, in their order.
Keep(s, T) ==
  LET kept[n \in 0..Len(s)] ==
        IF n = 0 THEN <<>>
        ELSE IF s[n] \in T THEN Append(kept[n - 1], s[n]) ELSE kept[n - 1]
  IN kept[Len(s)]
=============================================================================
