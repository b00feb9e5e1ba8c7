--------------------------- MODULE OpportunityScan ---------------------------
(***************************************************************************)
(* What run_scanner does with the pools (zelvex-core/src/scanner.rs):      *)
(* scan_pairs builds an opportunity for each pair of pools, evaluate       *)
(* (zelvex-sim/src/lib.rs) decides on each and the decision is recorded;   *)
(* run_backtest (zelvex-sim/src/backtest.rs) decides again on what was     *)
(* recorded.  How a trade is carried out is the subject of Executor.       *)
(*                                                                         *)
(* Amounts are naturals, and so are the prices: an f64 of the code stands  *)
(* for the exact product.  Gas is the cost of 200 000 units in the unit of *)
(* the amounts.                                                            *)
(***************************************************************************)
EXTENDS Amm, FiniteSets, SeqFilter

CONSTANTS PoolSeq,          \* the configured pools, each once, in order
          Token0, Token1,   \* of a pool, as read from the chain
          WETH, USDC, DAI, ZERO,
          Levels,           \* reserves <<reserve0, reserve1>> of Sync logs
          AmountIn,         \* 1 WETH in the code
          Scale,            \* of a spot price, 10^18 in the code
          Prices,           \* answers of the ETH/USD feed
          GasCosts,         \* gas estimates
          Thresholds,       \* values of min_profit_usd
          MaxRows,          \* bound: opportunities ever recorded
          NoOpportunity

Pools == {PoolSeq[i] : i \in 1..Len(PoolSeq)}

Opportunities == [poolA : Pools, poolB : Pools, profit : Nat,
                  spread : Nat, usd : Nat]

\* A pair keeps its tokens in the order of their addresses.
ASSUME ScanAssumption ==
    /\ PoolSeq \in Seq(Pools)
    /\ \A i, j \in 1..Len(PoolSeq) : PoolSeq[i] = PoolSeq[j] => i = j
    /\ \A a, b \in Pools : {Token0[a], Token1[a]} = {Token0[b], Token1[b]}
                            => Token0[a] = Token0[b]
    /\ WETH \notin {USDC, DAI, ZERO} /\ ZERO \notin {USDC, DAI}
    /\ Levels \subseteq Nat \X Nat
    /\ AmountIn \in Nat /\ Scale \in Nat
    /\ Prices \subseteq Int /\ GasCosts \subseteq Nat
    /\ Thresholds \subseteq Int
    /\ MaxRows \in Nat
    /\ NoOpportunity \notin Opportunities

VARIABLES store,      \* PoolStore: reserves of each pool
          price,      \* eth_price_usd
          gas,        \* the estimate taken before the scan
          opps,       \* opportunities of this scan not decided yet
          threshold,  \* min_profit_usd of this run of the bot
          rows        \* the table opportunities, with the threshold in force

vars == <<store, price, gas, opps, threshold, rows>>

\* The double loop of main, as pairs of indices: those a pair comes after,
\* itself included, tell where it stands.
IndexPairs == {p \in (1..Len(PoolSeq)) \X (1..Len(PoolSeq)) : p[1] < p[2]}
UpTo(p) == {q \in IndexPairs : q[1] < p[1] \/ (q[1] = p[1] /\ q[2] <= p[2])}
PairAt(k) == CHOOSE p \in IndexPairs : Cardinality(UpTo(p)) = k

PoolPairs == [k \in 1..Cardinality(IndexPairs) |->
                <<PoolSeq[PairAt(k)[1]], PoolSeq[PairAt(k)[2]]>>]

TypeOK ==
    /\ store \in [Pools -> Levels \cup {<<0, 0>>}]
    /\ price \in Prices \cup {0}
    /\ gas \in GasCosts \cup {0}
    /\ opps \in Seq(Opportunities)
    /\ Len(opps) <= Len(PoolPairs)
    /\ threshold \in Thresholds
    /\ rows \in Seq([usd : Nat, gasUsd : Nat, decision : {"go", "no-go"},
                     threshold : Thresholds])

\* Reserves are zero until the first Sync log of a pool.
Init ==
    /\ store = [p \in Pools |-> <<0, 0>>]
    /\ price = 0
    /\ gas = 0
    /\ opps = << >>
    /\ threshold \in Thresholds
    /\ rows = << >>

-----------------------------------------------------------------------------
(* scan_pairs.                                                             *)

\* The stablecoin that two pools trade against WETH; ZERO stands for None.
StableTokenOut(a, b) ==
    LET tokens == {Token0[a], Token1[a]} IN
    IF \/ <<Token0[a], Token1[a]>> # <<Token0[b], Token1[b]>>
       \/ ZERO \in tokens
       \/ WETH \notin tokens
    THEN ZERO
    ELSE IF USDC \in tokens THEN USDC
    ELSE IF DAI \in tokens THEN DAI
    ELSE ZERO

\* <<reserve of tokenIn, reserve of tokenOut>>; zeros stand for None.
ReservesForSwap(pool, tokenIn, tokenOut) ==
    IF Token0[pool] = tokenIn /\ Token1[pool] = tokenOut
    THEN store[pool]
    ELSE IF Token1[pool] = tokenIn /\ Token0[pool] = tokenOut
    THEN <<store[pool][2], store[pool][1]>>
    ELSE <<0, 0>>

\* The i64 of the code records its largest value for a wider spread.
SpreadBps(priceA, priceB) ==
    LET max == IF priceA > priceB THEN priceA ELSE priceB
        min == IF priceA < priceB THEN priceA ELSE priceB
    IN  IF min = 0 THEN 0 ELSE ((max - min) * 10000) \div min

\* Mutant: the second price is quoted the other way round.
BuildOpportunity_Inverted(a, b, tokenOut, ethPrice) ==
    LET ra == ReservesForSwap(a, WETH, tokenOut)
        rb == ReservesForSwap(b, tokenOut, WETH)
        profit == CalculateProfit(AmountIn, ra[1], ra[2], rb[1], rb[2])
    IN  IF 0 \in {ra[1], ra[2], rb[1], rb[2], profit} \/ ethPrice <= 0
        THEN NoOpportunity
        ELSE [poolA |-> a, poolB |-> b, profit |-> profit,
              spread |-> SpreadBps(GetSpotPrice(Scale, ra[1], ra[2]),
                                   GetSpotPrice(Scale, rb[1], rb[2])),
              usd |-> profit * ethPrice]

BuildOpportunity(a, b, tokenOut, ethPrice) ==
    LET ra == ReservesForSwap(a, WETH, tokenOut)
        rb == ReservesForSwap(b, tokenOut, WETH)
        profit == CalculateProfit(AmountIn, ra[1], ra[2], rb[1], rb[2])
    IN  IF 0 \in {ra[1], ra[2], rb[1], rb[2], profit} \/ ethPrice <= 0
        THEN NoOpportunity
        ELSE [poolA |-> a, poolB |-> b, profit |-> profit,
              spread |-> SpreadBps(GetSpotPrice(Scale, ra[1], ra[2]),
                                   GetSpotPrice(Scale, rb[2], rb[1])),
              usd |-> profit * ethPrice]

\* Mutant: the way back is not tried.
BestOf_OneWay(a, b, ethPrice) ==
    LET tokenOut == StableTokenOut(a, b)
    IN  IF tokenOut = ZERO THEN NoOpportunity
        ELSE BuildOpportunity(a, b, tokenOut, ethPrice)

\* The better of the two directions of a pair.
BestOf(a, b, ethPrice) ==
    LET tokenOut == StableTokenOut(a, b)
        ab == BuildOpportunity(a, b, tokenOut, ethPrice)
        ba == BuildOpportunity(b, a, tokenOut, ethPrice)
    IN  IF tokenOut = ZERO THEN NoOpportunity
        ELSE IF ab = NoOpportunity THEN ba
        ELSE IF ba = NoOpportunity \/ ab.usd >= ba.usd THEN ab
        ELSE ba

ScanPairs(ethPrice) ==
    LET best == [k \in 1..Len(PoolPairs) |->
                   BestOf(PoolPairs[k][1], PoolPairs[k][2], ethPrice)]
    IN  Filter(best, {best[k] : k \in 1..Len(best)} \ {NoOpportunity})

-----------------------------------------------------------------------------
(* evaluate and run_backtest.                                              *)

\* The decision, in the USD of ethPrice.
Evaluate(opp, gasCost, ethPrice, minProfit) ==
    IF opp.usd - gasCost * ethPrice > minProfit THEN "go" ELSE "no-go"

\* run_backtest's decision on a row.
Recompute(row, minProfit) ==
    IF row.usd - row.gasUsd > minProfit THEN "go" ELSE "no-go"

\* The rows that run_backtest reports as mismatches.
Mismatches(minProfit) ==
    {i \in 1..Len(rows) : rows[i].decision # Recompute(rows[i], minProfit)}

-----------------------------------------------------------------------------
(* Actions.                                                                *)

\* apply_sync, also while the opportunities of a scan are being decided.
ApplySync(p, r) ==
    /\ store' = [store EXCEPT ![p] = r]
    /\ UNCHANGED <<price, gas, opps, threshold, rows>>

\* The price is fetched, or kept if one was fetched lately; the gas estimate is
\* taken, and the pairs are scanned under the lock of the store.
Scan ==
    /\ opps = << >>
    /\ Len(rows) < MaxRows
    /\ price' \in Prices \cup ({price} \ {0})
    /\ gas' \in GasCosts
    /\ opps' = ScanPairs(price')
    /\ UNCHANGED <<store, threshold, rows>>

\* Mutant: the row is written without the gas estimate.
Decide_NoGas ==
    /\ opps # << >>
    /\ Len(rows) < MaxRows
    /\ rows' = Append(rows, [usd |-> Head(opps).usd, gasUsd |-> 0,
                             decision |-> Evaluate(Head(opps), gas, price,
                                                   threshold),
                             threshold |-> threshold])
    /\ opps' = Tail(opps)
    /\ UNCHANGED <<store, price, gas, threshold>>

\* One pass of the loop over the opportunities.
Decide ==
    /\ opps # << >>
    /\ Len(rows) < MaxRows
    /\ rows' = Append(rows, [usd |-> Head(opps).usd, gasUsd |-> gas * price,
                             decision |-> Evaluate(Head(opps), gas, price,
                                                   threshold),
                             threshold |-> threshold])
    /\ opps' = Tail(opps)
    /\ UNCHANGED <<store, price, gas, threshold>>

\* The bot is started again, with the same database and perhaps another
\* min_profit_usd.
Restart ==
    /\ store' = [p \in Pools |-> <<0, 0>>]
    /\ price' = 0
    /\ gas' = 0
    /\ opps' = << >>
    /\ threshold' \in Thresholds
    /\ UNCHANGED rows

Next ==
    \/ \E p \in Pools, r \in Levels : ApplySync(p, r)
    \/ Scan
    \/ Decide
    \/ Restart

Spec == Init /\ [][Next]_vars

-----------------------------------------------------------------------------
(* Properties.                                                             *)

\* The most that a Uniswap V2 pair with these reserves gives for x: the
\* largest output its own check accepts.  A definition by search, which does
\* not mention the formula of get_amount_out.
Accepts(x, reserveIn, reserveOut, o) ==
    ((reserveIn + x) * 1000 - x * 3) * (reserveOut - o)
        >= reserveIn * reserveOut * 1000

MostAccepted(x, reserveIn, reserveOut) ==
    IF reserveIn = 0 \/ reserveOut = 0 THEN 0
    ELSE CHOOSE o \in 0..reserveOut :
           /\ Accepts(x, reserveIn, reserveOut, o)
           /\ ~ Accepts(x, reserveIn, reserveOut, o + 1)

\* Pools that trade WETH against one of the stablecoins.
Comparable(a, b) ==
    /\ a # b
    /\ {Token0[a], Token1[a]} = {Token0[b], Token1[b]}
    /\ {Token0[a], Token1[a]} \in {{WETH, USDC}, {WETH, DAI}}

\* What comes back of AmountIn by way of a and b.
RoundTrip(a, b) ==
    LET stable == CHOOSE t \in {Token0[a], Token1[a]} : t # WETH
        ra == ReservesForSwap(a, WETH, stable)
        rb == ReservesForSwap(b, stable, WETH)
    IN  MostAccepted(MostAccepted(AmountIn, ra[1], ra[2]), rb[1], rb[2])

\* The round trips WETH -> stablecoin -> WETH that pay, with what they pay.
Paying(a, b) == Comparable(a, b) /\ RoundTrip(a, b) > AmountIn
PayingRoutes ==
    {<<r[1], r[2], RoundTrip(r[1], r[2]) - AmountIn>> :
       r \in {p \in Pools \X Pools : Paying(p[1], p[2])}}

\* scan_pairs reports every round trip that pays, once, with the most it can
\* pay, and nothing else, although it keeps one direction of a pair only: no
\* two directions pay at once.  With no price for ETH it reports nothing.
ScanFindsAllRoutes ==
    [][Scan =>
         /\ {<<opps'[i].poolA, opps'[i].poolB, opps'[i].profit>> :
               i \in 1..Len(opps')}
               = IF price' > 0 THEN PayingRoutes ELSE {}
         /\ \A i, j \in 1..Len(opps') :
              {opps'[i].poolA, opps'[i].poolB}
                  = {opps'[j].poolA, opps'[j].poolB} => i = j
      ]_vars

\* The smallest price at which cutting off cannot hide the fees, and that
\* the pools' prices are no smaller.  The fees are 60.27 basis points, and at
\* this price one unit is 0.27 of one; in the code it is 0.04 USDC a WETH.
Finest == 36853
FinePrices ==
    \A r \in Levels : r[1] > 0 /\ r[2] > 0 =>
        /\ GetSpotPrice(Scale, r[1], r[2]) >= Finest
        /\ GetSpotPrice(Scale, r[2], r[1]) >= Finest

\* The spread recorded with an opportunity pays for the fees of both swaps,
\* 60 basis points: a smaller one cannot make a profit.
SpreadCoversFees ==
    \A i \in 1..Len(opps) : opps[i].spread >= 60

\* The backtest's formula is the one the bot used: at the threshold in force
\* when a row was written it decides the same, and a higher threshold only
\* ever turns "go" into "no-go".
BacktestAgrees ==
    \A m \in Thresholds : \A i \in 1..Len(rows) :
        /\ m = rows[i].threshold => i \notin Mismatches(m)
        /\ m > rows[i].threshold /\ i \in Mismatches(m)
             => rows[i].decision = "go"

=============================================================================
