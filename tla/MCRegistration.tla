--------------------------- MODULE MCRegistration ---------------------------
(* Four calls; two of the three names differ only in case.                 *)
EXTENDS Registration, TLC

CONSTANTS q1, q2, q3, q4, pw1, pw2

MCNames == {"ann", "bob", "BOB"}
MCKey(n) == IF n = "BOB" THEN "bob" ELSE n
Symmetry == Permutations({q1, q2, q3, q4}) \cup Permutations({pw1, pw2})
=============================================================================
