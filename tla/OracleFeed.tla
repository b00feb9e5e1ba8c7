----------------------------- MODULE OracleFeed -----------------------------
(***************************************************************************)
(* The GasOracle shared by the sampler, which feeds it, and the scanner,   *)
(* which reads its recommendation: one value behind a mutex, beside the    *)
(* history of what it was fed since the process started.                   *)
(***************************************************************************)
EXTENDS GasOracle

CONSTANTS BaseFees, PriorityFees    \* fees that occur
ASSUME FeesAssumption == BaseFees \subseteq Nat /\ PriorityFees \subseteq Nat

VARIABLES oracle,   \* GasOracle, in memory
          fed       \* priority fees it was fed, oldest first (history)

feed == <<oracle, fed>>

FeedInit == oracle = EmptyOracle /\ fed = << >>

Push(base, priority) ==
    /\ oracle' = PushSample(oracle, base, priority)
    /\ fed' = Append(fed, priority)

\* The process ends and is started again.
Renew == oracle' = EmptyOracle /\ fed' = << >>

FeedNext ==
    \/ \E base \in BaseFees, priority \in PriorityFees : Push(base, priority)
    \/ Renew

FeedSpec == FeedInit /\ [][FeedNext]_feed

-----------------------------------------------------------------------------
(* What the scanner reads.                                                 *)

Min2(m, n) == IF m < n THEN m ELSE n

\* The newest k samples fed.
Newest(k) == SubSeq(fed, Len(fed) - Min2(k, Len(fed)) + 1, Len(fed))

\* get_recommended_priority_fee is the 90th percentile of the Recent newest
\* samples ever pushed, however often the ring has turned over: one of them
\* (or the largest u64), with a tenth of the others, rounded, at most
\* strictly above it and at least not below it.
RecommendedIsP90 ==
    fed # << >> =>
      LET s == Newest(Recent)
          n == Len(s)
          fee == RecommendedPriorityFee(oracle)
          above == Cardinality({i \in 1..n : Saturate(s[i]) > fee})
          below == Cardinality({i \in 1..n : Saturate(s[i]) < fee})
      IN /\ \E i \in 1..n : Saturate(s[i]) = fee
         /\ 10 * above <= n + 3
         /\ 10 * (n - below) >= n + 4

=============================================================================
