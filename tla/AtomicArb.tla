------------------------------ MODULE AtomicArb ------------------------------
(***************************************************************************)
(* The contract as its owner and the market see it between transactions:   *)
(* a trade is one step that leaves more of one asset and touches two       *)
(* pools, and a trade that fails is no step at all.  ArbContract, with its *)
(* loan, callback, swaps and repayment, is shown to implement this.        *)
(***************************************************************************)
EXTENDS Naturals

CONSTANTS Assets,  \* what the contract can hold
          Pairs    \* pools it trades on

VARIABLES held,      \* [Assets -> Nat], the contract's balances
          reserves   \* [Pairs -> Nat \X Nat]

atomicVars == <<held, reserves>>

Init == held = [a \in Assets |-> 0]

OnlyAsset(a) == \A b \in Assets \ {a} : held'[b] = held[b]

\* The product of a pool's reserves never shrinks in a trade: the pools are
\* paid for what they give, as Aave is for its loan.
Trade(a, poolA, poolB) ==
    /\ poolA # poolB
    /\ held'[a] > held[a]
    /\ OnlyAsset(a)
    /\ \A q \in Pairs \ {poolA, poolB} : reserves'[q] = reserves[q]
    /\ \A q \in {poolA, poolB} :
         reserves'[q][1] * reserves'[q][2] >= reserves[q][1] * reserves[q][2]

MarketMoves == UNCHANGED held

Receive(a) == held'[a] > held[a] /\ OnlyAsset(a) /\ UNCHANGED reserves

TakeOut(a) == held'[a] = 0 /\ OnlyAsset(a) /\ UNCHANGED reserves

Next ==
    \/ \E a \in Assets :
         \/ Receive(a) \/ TakeOut(a)
         \/ \E poolA, poolB \in Pairs : Trade(a, poolA, poolB)
    \/ MarketMoves

Spec == Init /\ [][Next]_atomicVars
=============================================================================
