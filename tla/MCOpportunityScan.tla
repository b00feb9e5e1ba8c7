-------------------------- MODULE MCOpportunityScan --------------------------
(* OpportunityScan with three pools that can be traded against each other   *)
(* and one that cannot, tokens in the order of their addresses.             *)
EXTENDS OpportunityScan

CONSTANTS u1, u2, u3, d1

PoolList == <<u1, d1, u2, u3>>
First == [p \in Pools |-> IF p = d1 THEN DAI ELSE USDC]
Second == [p \in Pools |-> WETH]

\* Even, a quarter dearer, a quarter cheaper, dearer still, and emptied.
LevelSet == {<<1000, 1000>>, <<1250, 1000>>, <<1000, 1250>>, <<1300, 1000>>,
             <<0, 0>>}

\* The scale is large enough for these prices.
ASSUME ScaleAssumption == FinePrices
=============================================================================
