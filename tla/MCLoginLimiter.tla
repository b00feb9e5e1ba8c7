--------------------------- MODULE MCLoginLimiter ---------------------------
(* Two addresses, two attempts in a window of three ticks.                 *)
EXTENDS LoginLimiter, TLC

CONSTANTS a, b

Symmetry == Permutations({a, b})
=============================================================================
