---------------------------- MODULE Subsequences -----------------------------
(***************************************************************************)
(* Filtering of sequences: JavaScript's filter, with the elements to keep  *)
(* given as a set.  Written as a recursive function so that what it        *)
(* computes can be proved by induction, see SubsequenceLemmas.             *)
(***************************************************************************)
EXTENDS Naturals, Sequences

\* The elements of s that are in S, in their order.
Within(s, S) ==
  LET kept[n \in 0 .. Len(s)] ==
        IF n = 0 THEN <<>>
        ELSE IF s[n] \in S THEN Append(kept[n - 1], s[n]) ELSE kept[n - 1]
  IN kept[Len(s)]
=============================================================================
