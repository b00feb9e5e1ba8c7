----------------------------- MODULE MCExecutor -----------------------------
(* Executor with two routes, on a short chain.                             *)
EXTENDS Executor

CONSTANTS r1, r2
=============================================================================
