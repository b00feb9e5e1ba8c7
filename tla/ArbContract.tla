----------------------------- MODULE ArbContract -----------------------------
(***************************************************************************)
(* The contract that trades (contracts/ZelvexArb.sol): executeArb borrows  *)
(* from Aave, Aave calls executeOperation back, two Uniswap V2 pairs are   *)
(* swapped on, the profit floor is checked and Aave pulls its repayment.   *)
(*                                                                         *)
(* A transaction is one run of `pc` from "idle" to "idle"; no other        *)
(* transaction interleaves with it.  A require that fails rolls the        *)
(* transaction back to the state it started in.  Calls that fail before    *)
(* they change anything (a sender that is not the owner, a direct call of  *)
(* executeOperation) leave no trace and are not actions.                   *)
(*                                                                         *)
(* Aave, the pairs and the tokens are external: plain ERC-20 balances, a   *)
(* pair whose balances are its reserves, a premium that Aave chooses.      *)
(***************************************************************************)
EXTENDS Amm

CONSTANTS Tokens, Eth,      \* ERC-20 tokens; Ether the contract may hold
          Pairs,            \* Uniswap V2 pairs
          Token0, Token1,   \* [Pairs -> Tokens]
          Amounts,          \* loans asked for
          Floors,           \* values of minProfit, 0 included
          Premiums,         \* Aave's fee on a loan
          Markets,          \* reserves <<r0, r1>> that trading leaves behind
          Deposits,         \* what may be sent to the contract
          MaxHeld,          \* bound: no deposit takes a balance above it
          MaxTxs,           \* bound: flash loans ever asked for
          NoTx

Assets == Tokens \cup {Eth}

ArbParams == [tokenIn : Tokens, tokenOut : Tokens, poolA : Pairs,
              poolB : Pairs, amountIn : Amounts, minProfit : Floors]

Loans == [asset : Tokens, amount : Amounts, premium : Premiums]

Reserves == [Pairs -> Nat \X Nat]
Balances == [Assets -> Nat]
Approvals == [Tokens -> Nat]

\* The local state of a transaction: who asked Aave for the loan; params, as
\* given to executeArb, encoded for Aave and decoded in executeOperation; the
\* loan, what the two swaps brought, and the state it started in.
Txs == [initiator : {"self", "other"}, params : ArbParams, loan : Loans,
        received : Nat, returned : Nat,
        reserves : Reserves, held : Balances, allowance : Approvals]

ASSUME ContractAssumption ==
    /\ Eth \notin Tokens
    /\ Token0 \in [Pairs -> Tokens]
    /\ Token1 \in [Pairs -> Tokens]
    /\ \A q \in Pairs : Token0[q] # Token1[q]
    /\ Amounts \subseteq Nat /\ Floors \subseteq Nat /\ Premiums \subseteq Nat
    /\ Markets \subseteq Nat \X Nat
    /\ Deposits \subseteq Nat
    /\ MaxHeld \in Nat /\ MaxTxs \in Nat
    /\ NoTx \notin Txs

VARIABLES reserves,   \* [Pairs -> <<reserve0, reserve1>>]
          held,       \* the contract's balances
          allowance,  \* what Aave may pull from the contract
          pc,         \* where the transaction is
          tx,         \* its local state
          txs         \* flash loans asked for (bounds the model)

vars == <<reserves, held, allowance, pc, tx, txs>>

Locations == {"idle", "loan", "callback", "swapA", "swapB", "profit", "repay"}

TypeOK ==
    /\ reserves \in Reserves
    /\ held \in Balances
    /\ allowance \in Approvals
    /\ pc \in Locations
    /\ tx \in Txs \cup {NoTx}
    /\ pc = "idle" <=> tx = NoTx
    /\ txs \in 0..MaxTxs

Init ==
    /\ reserves \in [Pairs -> Markets]
    /\ held = [a \in Assets |-> 0]
    /\ allowance = [t \in Tokens |-> 0]
    /\ pc = "idle"
    /\ tx = NoTx
    /\ txs = 0

Ends ==
    /\ pc' = "idle"
    /\ tx' = NoTx
    /\ UNCHANGED txs

Rollback ==
    /\ Ends
    /\ reserves' = tx.reserves
    /\ held' = tx.held
    /\ allowance' = tx.allowance

Begins(initiator, l, p) ==
    /\ txs < MaxTxs
    /\ txs' = txs + 1
    /\ tx' = [initiator |-> initiator, params |-> p, loan |-> l,
              received |-> 0, returned |-> 0, reserves |-> reserves,
              held |-> held, allowance |-> allowance]

-----------------------------------------------------------------------------
(* Transactions that do not trade, and everybody else's.                   *)

\* Other traders leave a pair with other reserves.
MarketMoves(q, r) ==
    /\ pc = "idle"
    /\ reserves' = [reserves EXCEPT ![q] = r]
    /\ UNCHANGED <<held, allowance, pc, tx, txs>>

\* Tokens or Ether are sent to the contract.
Deposit(a, amount) ==
    /\ pc = "idle"
    /\ held[a] + amount <= MaxHeld
    /\ held' = [held EXCEPT ![a] = @ + amount]
    /\ UNCHANGED <<reserves, allowance, pc, tx, txs>>

Withdraw(t) ==
    /\ pc = "idle"
    /\ held[t] > 0
    /\ held' = [held EXCEPT ![t] = 0]
    /\ UNCHANGED <<reserves, allowance, pc, tx, txs>>

RescueEth ==
    /\ pc = "idle"
    /\ held' = [held EXCEPT ![Eth] = 0]
    /\ UNCHANGED <<reserves, allowance, pc, tx, txs>>

-----------------------------------------------------------------------------
(* The trade.                                                              *)

\* The bytes of abi.encode(params) come back unchanged as tx.params.  Aave's
\* premium is chosen here, and first used in the callback.
ExecuteArb(p) ==
    /\ pc = "idle"
    /\ p.minProfit > 0
    /\ p.poolA # p.poolB
    /\ p.tokenIn # p.tokenOut
    /\ pc' = "loan"
    /\ \E premium \in Premiums :
         Begins("self", [asset |-> p.tokenIn, amount |-> p.amountIn,
                         premium |-> premium], p)
    /\ UNCHANGED <<reserves, held, allowance>>

\* Aave hands the loan out and calls back, or cannot lend that much.
FlashLoanSimple ==
    /\ pc = "loan"
    /\ \/ /\ held' = [held EXCEPT ![tx.loan.asset] = @ + tx.loan.amount]
          /\ pc' = "callback"
          /\ UNCHANGED <<reserves, allowance, tx, txs>>
       \/ Rollback

\* Somebody else borrows and names the contract as the receiver, with any
\* parameters for the callback.
ForeignLoan(l, p) ==
    /\ pc = "idle"
    /\ pc' = "callback"
    /\ Begins("other", l, p)
    /\ held' = [held EXCEPT ![l.asset] = @ + l.amount]
    /\ UNCHANGED <<reserves, allowance>>

ValidatePool(q, tokenA, tokenB) ==
    \/ tokenA = Token0[q] /\ tokenB = Token1[q]
    \/ tokenA = Token1[q] /\ tokenB = Token0[q]

ValidPools(p) ==
    /\ ValidatePool(p.poolA, p.tokenIn, p.tokenOut)
    /\ ValidatePool(p.poolB, p.tokenOut, p.tokenIn)

\* Mutant: the initiator is not checked.
ExecuteOperation_AnyInitiator ==
    /\ pc = "callback"
    /\ IF /\ tx.loan.asset = tx.params.tokenIn
          /\ tx.loan.amount = tx.params.amountIn
          /\ ValidPools(tx.params)
       THEN /\ pc' = "swapA"
            /\ UNCHANGED <<reserves, held, allowance, tx, txs>>
       ELSE Rollback

ExecuteOperation ==
    /\ pc = "callback"
    /\ IF /\ tx.initiator = "self"
          /\ tx.loan.asset = tx.params.tokenIn
          /\ tx.loan.amount = tx.params.amountIn
          /\ ValidPools(tx.params)
       THEN /\ pc' = "swapA"
            /\ UNCHANGED <<reserves, held, allowance, tx, txs>>
       ELSE Rollback

\* The reserves of pair q as <<those of tokenIn, those of tokenOut>>.
Oriented(rs, q, tokenIn) ==
    IF tokenIn = Token0[q] THEN rs[q] ELSE <<rs[q][2], rs[q][1]>>

\* Mutant: the quote is rounded up.
QuoteOf_RoundedUp(amountIn, reserveIn, reserveOut) ==
    (amountIn * 997 * reserveOut)
        \div (reserveIn * 1000 + amountIn * 997) + 1

\* _getAmountOut, for reserves that are not zero.
QuoteOf(amountIn, reserveIn, reserveOut) ==
    (amountIn * 997 * reserveOut)
        \div (reserveIn * 1000 + amountIn * 997)

\* The check of UniswapV2Pair.swap, with both sides divided by 1000: the
\* product of the balances, the fee of 3/1000 taken off what came in, has
\* not shrunk; and the pair keeps some of what goes out.
PairAccepts(amountIn, amountOut, reserveIn, reserveOut) ==
    /\ amountOut < reserveOut
    /\ ((reserveIn + amountIn) * 1000 - amountIn * 3)
           * (reserveOut - amountOut) >= reserveIn * reserveOut * 1000

\* What _swap computes, 0 where a zero reserve makes it fail.
AmountOut(q, tokenIn, amountIn) ==
    LET r == Oriented(reserves, q, tokenIn)
    IN  IF r[1] > 0 /\ r[2] > 0 THEN QuoteOf(amountIn, r[1], r[2]) ELSE 0

SwapGoesThrough(q, tokenIn, amountIn) ==
    LET r == Oriented(reserves, q, tokenIn)
        out == AmountOut(q, tokenIn, amountIn)
    IN  /\ out > 0
        /\ held[tokenIn] >= amountIn
        /\ PairAccepts(amountIn, out, r[1], r[2])

Swap(q, tokenIn, tokenOut, amountIn) ==
    LET out == AmountOut(q, tokenIn, amountIn) IN
    /\ held' = [held EXCEPT ![tokenIn] = @ - amountIn, ![tokenOut] = @ + out]
    /\ reserves' = [reserves EXCEPT ![q] =
                      IF tokenIn = Token0[q]
                      THEN <<@[1] + amountIn, @[2] - out>>
                      ELSE <<@[1] - out, @[2] + amountIn>>]

SwapA ==
    LET p == tx.params IN
    /\ pc = "swapA"
    /\ IF SwapGoesThrough(p.poolA, p.tokenIn, tx.loan.amount)
       THEN /\ Swap(p.poolA, p.tokenIn, p.tokenOut, tx.loan.amount)
            /\ tx' = [tx EXCEPT !.received =
                        AmountOut(p.poolA, p.tokenIn, tx.loan.amount)]
            /\ pc' = "swapB"
            /\ UNCHANGED <<allowance, txs>>
       ELSE Rollback

SwapB ==
    LET p == tx.params IN
    /\ pc = "swapB"
    /\ IF SwapGoesThrough(p.poolB, p.tokenOut, tx.received)
       THEN /\ Swap(p.poolB, p.tokenOut, p.tokenIn, tx.received)
            /\ tx' = [tx EXCEPT !.returned =
                        AmountOut(p.poolB, p.tokenOut, tx.received)]
            /\ pc' = "profit"
            /\ UNCHANGED <<allowance, txs>>
       ELSE Rollback

repayAmount == tx.loan.amount + tx.loan.premium

\* Mutant: Aave is approved for more than it is owed.
CheckProfit_LaxApproval ==
    /\ pc = "profit"
    /\ IF tx.returned >= repayAmount + tx.params.minProfit
       THEN /\ allowance' = [allowance EXCEPT ![tx.loan.asset] = tx.returned]
            /\ pc' = "repay"
            /\ UNCHANGED <<reserves, held, tx, txs>>
       ELSE Rollback

\* Mutant: the floor is not checked.
CheckProfit_NoFloor ==
    /\ pc = "profit"
    /\ allowance' = [allowance EXCEPT ![tx.loan.asset] = repayAmount]
    /\ pc' = "repay"
    /\ UNCHANGED <<reserves, held, tx, txs>>

\* The floor, the approval, and the return to Aave.
CheckProfit ==
    /\ pc = "profit"
    /\ IF tx.returned >= repayAmount + tx.params.minProfit
       THEN /\ allowance' = [allowance EXCEPT ![tx.loan.asset] = repayAmount]
            /\ pc' = "repay"
            /\ UNCHANGED <<reserves, held, tx, txs>>
       ELSE Rollback

\* Aave pulls what it is owed with transferFrom.
Repay ==
    LET asset == tx.loan.asset IN
    /\ pc = "repay"
    /\ IF allowance[asset] >= repayAmount /\ held[asset] >= repayAmount
       THEN /\ held' = [held EXCEPT ![asset] = @ - repayAmount]
            /\ allowance' = [allowance EXCEPT ![asset] = @ - repayAmount]
            /\ Ends
            /\ UNCHANGED reserves
       ELSE Rollback

-----------------------------------------------------------------------------
Outside ==
    \/ \E q \in Pairs, r \in Markets : MarketMoves(q, r)
    \/ \E a \in Assets, d \in Deposits : Deposit(a, d)
    \/ \E l \in Loans, p \in ArbParams : ForeignLoan(l, p)

OwnerCalls ==
    \/ \E p \in ArbParams : ExecuteArb(p)
    \/ \E t \in Tokens : Withdraw(t)
    \/ RescueEth

Trade ==
    \/ FlashLoanSimple \/ ExecuteOperation \/ SwapA \/ SwapB
    \/ CheckProfit \/ Repay

Next == Outside \/ OwnerCalls \/ Trade

Spec == Init /\ [][Next]_vars

-----------------------------------------------------------------------------
(* Properties.                                                             *)

\* A trade that gets as far as the repayment commits, and leaves the contract
\* with more tokenIn than before by at least minProfit, which is not zero,
\* and with exactly as much of everything else: what it held before the trade
\* is never part of the stake, although executeOperation compares the outputs
\* of the swaps and never looks at its balances.
TradeEarns ==
    [][pc = "repay" /\ pc' = "idle" =>
         /\ held'[tx.params.tokenIn] > tx.held[tx.params.tokenIn]
         /\ held'[tx.params.tokenIn] >=
                tx.held[tx.params.tokenIn] + tx.params.minProfit
         /\ \A a \in Assets \ {tx.params.tokenIn} : held'[a] = tx.held[a]
      ]_vars

\* Between transactions the contract behaves as AtomicArb says: a trade, once
\* begun, is visible as a whole or not at all, whichever call fails and
\* whoever asked for the loan.
Atomic == INSTANCE AtomicArb
            WITH held <- IF pc = "idle" THEN held ELSE tx.held,
                 reserves <- IF pc = "idle" THEN reserves ELSE tx.reserves
TradesAreAtomic == Atomic!Spec

\* No approval outlives the trade it was given for: Aave pulls exactly the
\* amount approved.
NoStandingApproval ==
    \A t \in Tokens : allowance[t] > 0 => pc = "repay" /\ t = tx.loan.asset

\* A swap that brings anything at all never fails: the contract holds what it
\* pays, and the pair's own check accepts the output that _getAmountOut
\* computed, however it was rounded.
SwapsGoThrough ==
    LET p == tx.params IN
    /\ pc = "swapA" /\ AmountOut(p.poolA, p.tokenIn, tx.loan.amount) > 0
         => SwapGoesThrough(p.poolA, p.tokenIn, tx.loan.amount)
    /\ pc = "swapB" /\ AmountOut(p.poolB, p.tokenOut, tx.received) > 0
         => SwapGoesThrough(p.poolB, p.tokenOut, tx.received)

\* The bot's own estimate of the trade, from the reserves it started on.
Estimate ==
    LET a == Oriented(tx.reserves, tx.params.poolA, tx.params.tokenIn)
        b == Oriented(tx.reserves, tx.params.poolB, tx.params.tokenOut)
    IN  CalculateProfit(tx.params.amountIn, a[1], a[2], b[1], b[2])

\* On reserves that have not moved, the contract does what calculate_profit of
\* the scanner predicts: it earns the estimate less Aave's premium, and rolls
\* back when that is below minProfit.  The two are written separately, in
\* Rust and in Solidity.
AgreesWithEstimate ==
    [][pc \notin {"idle", "loan"} /\ pc' = "idle"
         /\ tx.initiator = "self" /\ ValidPools(tx.params) =>
         held'[tx.params.tokenIn] =
            tx.held[tx.params.tokenIn] +
              (IF Estimate >= tx.loan.premium + tx.params.minProfit
               THEN Estimate - tx.loan.premium ELSE 0)
      ]_vars

=============================================================================
