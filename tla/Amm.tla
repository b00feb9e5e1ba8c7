-------------------------------- MODULE Amm --------------------------------
(***************************************************************************)
(* The constant-product arithmetic of zelvex-core/src/amm.rs, on naturals. *)
(* The reserves of a pair are below 2^112, and so are the amounts, so that *)
(* no product reaches 2^256 and U256 arithmetic is exact (proved as        *)
(* ScanFitsItsWords in OpportunityScanProofs).                             *)
(*                                                                         *)
(* Option<U256> is a natural in which 0 stands for None too: every caller  *)
(* treats None and Some(0) alike.                                          *)
(***************************************************************************)
EXTENDS Integers

GetAmountOut(amountIn, reserveIn, reserveOut) ==
    IF reserveIn = 0 \/ reserveOut = 0 THEN 0
    ELSE (amountIn * 997 * reserveOut)
             \div (reserveIn * 1000 + amountIn * 997)

\* Scale is 10^18 in the code.
GetSpotPrice(scale, reserveIn, reserveOut) ==
    IF reserveIn = 0 THEN 0 ELSE (reserveOut * scale) \div reserveIn

\* Mutant: the second swap is quoted on the reserves the wrong way round.
CalculateProfit_Swapped(amountIn, aIn, aOut, bIn, bOut) ==
    LET finalOut == GetAmountOut(GetAmountOut(amountIn, aIn, aOut),
                                 bOut, bIn)
    IN  IF finalOut > amountIn THEN finalOut - amountIn ELSE 0

\* Mutant: a loss is subtracted all the same.
CalculateProfit_Unguarded(amountIn, aIn, aOut, bIn, bOut) ==
    GetAmountOut(GetAmountOut(amountIn, aIn, aOut), bIn, bOut) - amountIn

\* What is left of amountIn after a swap on pool a and the way back on b.
CalculateProfit(amountIn, aIn, aOut, bIn, bOut) ==
    LET finalOut == GetAmountOut(GetAmountOut(amountIn, aIn, aOut),
                                 bIn, bOut)
    IN  IF finalOut > amountIn THEN finalOut - amountIn ELSE 0

=============================================================================
