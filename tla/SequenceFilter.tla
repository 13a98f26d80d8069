--------------------------- MODULE SequenceFilter ---------------------------
(***************************************************************************)
(* The elements of a sequence that are in a set, in their order: SelectSeq *)
(* for a set, written as a recursive function so that it can be proved     *)
(* about.                                                                  *)
(***************************************************************************)
EXTENDS Integers, Sequences

KeptUpTo(s, K) ==
  LET kept[n \in 0..Len(s)] ==
        IF n = 0 THEN <<>>
        ELSE IF s[n] \in K THEN Append(kept[n - 1], s[n]) ELSE kept[n - 1]
  IN  kept

Kept(s, K) == KeptUpTo(s, K)[Len(s)]
=============================================================================
