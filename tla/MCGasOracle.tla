---------------------------- MODULE MCGasOracle -----------------------------
(* Every sequence of samples an oracle can be fed, up to a length.         *)
EXTENDS OracleFeed

CONSTANT MaxSamples    \* bound: samples fed

MCNext == FeedNext /\ Len(fed') <= MaxSamples

MCSpec == FeedInit /\ [][MCNext]_feed

=============================================================================
