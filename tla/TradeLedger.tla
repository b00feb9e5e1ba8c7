---------------------------- MODULE TradeLedger ----------------------------
(***************************************************************************)
(* What the tables trades and opportunities promise together: both only    *)
(* grow, a transaction has one trade, and a trade is credited to the       *)
(* opportunity it was made for, or, when the process ends in between, to   *)
(* none.  Executor is shown to implement this.                             *)
(***************************************************************************)
EXTENDS Naturals, Sequences

CONSTANTS Trades,        \* rows of trades: [tx : [route, ...], ...]
          Opportunities  \* rows of opportunities: [route, decision, trade]

VARIABLES trades,        \* table trades, row ids 1, 2, ...
          opportunities, \* table opportunities
          open           \* the trade recorded and not yet credited, or 0

ledgerVars == <<trades, opportunities, open>>

Init == trades = << >> /\ opportunities = << >> /\ open = 0

\* t is s with one more row.
Grown(s, t) == Len(t) = Len(s) + 1 /\ SubSeq(t, 1, Len(s)) = s

RecordTrade ==
    /\ open = 0
    /\ Grown(trades, trades')
    /\ open' = Len(trades')
    /\ trades'[open'] \in Trades
    /\ \A i \in DOMAIN trades : trades[i].tx # trades'[open'].tx
    /\ UNCHANGED opportunities

LogOpportunity ==
    /\ Grown(opportunities, opportunities')
    /\ LET o == opportunities'[Len(opportunities')] IN
         /\ o \in Opportunities
         /\ o.trade = open
         /\ open # 0 => o.decision = "go" /\ trades[open].tx.route = o.route
    /\ open' = 0
    /\ UNCHANGED trades

LoseCredit ==
    /\ open # 0
    /\ open' = 0
    /\ UNCHANGED <<trades, opportunities>>

Next == RecordTrade \/ LogOpportunity \/ LoseCredit

Spec == Init /\ [][Next]_ledgerVars

\* The log of opportunities names existing trades of its own route, and no
\* trade is credited to two opportunities.
TradesAreLinkedOnce ==
    /\ \A i \in DOMAIN opportunities :
         LET o == opportunities[i] IN
           o.trade # 0 => /\ o.decision = "go"
                          /\ o.trade \in DOMAIN trades
                          /\ trades[o.trade].tx.route = o.route
    /\ \A i, j \in DOMAIN opportunities :
         i # j /\ opportunities[i].trade # 0
           => opportunities[i].trade # opportunities[j].trade
=============================================================================
