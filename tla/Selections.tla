------------------------------ MODULE Selections ------------------------------
(***************************************************************************)
(* The elements of a sequence that belong to a set, in their order.  They  *)
(* are computed by a recursive function of the length of a prefix, which   *)
(* proofs can reason about; SelectSeq of the standard module they cannot   *)
(* expand.                                                                 *)
(***************************************************************************)
EXTENDS Integers, Sequences

ChosenUpTo(s, S) ==
  LET chosen[n \in 0 .. Len(s)] ==
        IF n = 0 THEN <<>>
        ELSE IF s[n] \in S THEN Append(chosen[n - 1], s[n]) ELSE chosen[n - 1]
  IN  chosen

Chosen(s, S) == ChosenUpTo(s, S)[Len(s)]
================================================================================
