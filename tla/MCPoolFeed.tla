----------------------------- MODULE MCPoolFeed -----------------------------
(* PoolFeed with two pools, a channel of two and three attempts.           *)
EXTENDS PoolFeed

CONSTANTS p1, p2, x, y
=============================================================================
