---------------------------- MODULE MCArbContract ----------------------------
(* ArbContract with the two WETH/USDC pairs of the contract's tests, and DAI *)
(* for a pair that does not hold what the parameters say.                   *)
EXTENDS ArbContract

CONSTANTS weth, usdc, dai, uni, sushi

UsdcFirst == [q \in Pairs |-> usdc]
WethSecond == [q \in Pairs |-> weth]

\* Equal prices, WETH at twice the price, no liquidity.
MarketSet == {<<100, 100>>, <<200, 100>>, <<0, 0>>}
=============================================================================
