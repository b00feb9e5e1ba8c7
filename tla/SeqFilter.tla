----------------------------- MODULE SeqFilter ------------------------------
(***************************************************************************)
(* Vec::retain and Iterator::filter_map, as the code uses them: what is    *)
(* left of a sequence, in its order, when only the members of a set stay.  *)
(* It is SelectSeq of Sequences with a set in place of the test, written   *)
(* as a recursive function, so that it can be reasoned about.              *)
(***************************************************************************)
EXTENDS Naturals, Sequences

Filter(s, T) ==
    LET F[n \in 0..Len(s)] ==
          IF n = 0 THEN << >>
          ELSE IF s[n] \in T THEN Append(F[n - 1], s[n]) ELSE F[n - 1]
    IN  F[Len(s)]

=============================================================================
