----------------------------- MODULE GasOracle ------------------------------
(***************************************************************************)
(* GasOracle (zelvex-gas/src/lib.rs) as a value with operations: the rings *)
(* of the latest fees and the priority fee recommended from them.          *)
(***************************************************************************)
EXTENDS Integers, Sequences, FiniteSets

CONSTANTS RingSize,    \* samples kept, 100
          Recent,      \* samples the recommendation looks at, 20
          MaxU64       \* largest u64

ASSUME OracleAssumption ==
    /\ RingSize \in Nat \ {0}
    /\ Recent \in 1..RingSize
    /\ MaxU64 \in Nat

Saturate(v) == IF v > MaxU64 THEN MaxU64 ELSE v

EmptyOracle == [base |-> << >>, priority |-> << >>, lastBase |-> 0,
                lastPriority |-> 0]

\* pop_front when full, then push_back.
PushBack(ring, v) ==
    Append(IF Len(ring) = RingSize THEN Tail(ring) ELSE ring, v)

PushSample(o, base, priority) ==
    [base |-> PushBack(o.base, base),
     priority |-> PushBack(o.priority, priority),
     lastBase |-> base,
     lastPriority |-> priority]

\* The samples looked at: the newest ones of the ring.
RecentSamples(o) ==
    LET n == Len(o.priority) IN
      SubSeq(o.priority, IF n > Recent THEN n - Recent + 1 ELSE 1, n)

\* Mutant: the index is cut off instead of rounded.
P90Index_Floor(n) == (9 * (n - 1)) \div 10

\* round(0.90 * (n - 1)), counted from 0; a half is rounded up.
P90Index(n) == (9 * (n - 1) + 5) \div 10

\* The positions of s that come no later than i in the sorted order; equal
\* samples keep theirs.
UpTo(s, i) == {j \in DOMAIN s : s[j] < s[i] \/ (s[j] = s[i] /\ j <= i)}

\* sort_unstable: the k-th sample is the one with k samples up to it.
Sorted(s) ==
    [k \in DOMAIN s |->
       s[CHOOSE i \in DOMAIN s : Cardinality(UpTo(s, i)) = k]]

RecommendedPriorityFee(o) ==
    LET sorted == Sorted(RecentSamples(o)) IN
      Saturate(IF sorted = << >> THEN o.lastPriority
               ELSE sorted[P90Index(Len(sorted)) + 1])

=============================================================================
