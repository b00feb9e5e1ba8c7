-------------------------- MODULE GasSamplerProofs --------------------------
(***************************************************************************)
(* Proofs about GasSampler, for every size of the rings, every number of   *)
(* attempts and every set of fees: the three places a sample is written to *)
(* never contradict each other, wherever the task fails between the writes *)
(* or the process ends.                                                    *)
(***************************************************************************)
EXTENDS GasSampler, SeqFilterProofs, SequenceTheorems, TLAPS

-----------------------------------------------------------------------------
(* The percentile.                                                         *)

\* Every place of the sorted order is taken by exactly one position.
LEMMA SortedPlaces ==
    ASSUME NEW s \in Seq(Nat), NEW k \in 1..Len(s)
    PROVE  \E i \in 1..Len(s) : /\ Sorted(s)[k] = s[i]
                                /\ Cardinality(UpTo(s, i)) = k
<1> DEFINE D == 1..Len(s)
           U == [i \in D |-> UpTo(s, i)]
<1>1. Len(s) \in Nat /\ DOMAIN s = D /\ \A i \in D : s[i] \in Nat
  OBVIOUS
<1>2. IsFiniteSet(D) /\ Cardinality(D) = Len(s)
  BY <1>1, FirstNumbers
<1>3. U \in [D -> SUBSET D] /\ \A i \in D : i \in U[i]
  BY <1>1 DEF UpTo
<1>4. ASSUME NEW i \in D, NEW j \in D, i # j
      PROVE  \/ U[i] \subseteq U[j] /\ j \notin U[i]
             \/ U[j] \subseteq U[i] /\ i \notin U[j]
  <2>1. CASE s[i] < s[j] \/ (s[i] = s[j] /\ i < j)
    BY <1>1, <1>4, <2>1 DEF UpTo
  <2>2. CASE s[j] < s[i] \/ (s[i] = s[j] /\ j < i)
    BY <1>1, <1>4, <2>2 DEF UpTo
  <2> QED
    BY <1>1, <1>4, <2>1, <2>2
<1> HIDE DEF U
<1>5. \A m \in 1..Cardinality(D) : \E i \in D : Cardinality(U[i]) = m
  <2> HIDE DEF D
  <2> QED
    BY <1>2, <1>3, <1>4, RanksFill
<1>6. \E i \in D : Cardinality(UpTo(s, i)) = k
  BY <1>2, <1>5 DEF U
<1> DEFINE i0 == CHOOSE i \in D : Cardinality(UpTo(s, i)) = k
<1>7. i0 \in D /\ Cardinality(UpTo(s, i0)) = k
  BY <1>6
<1>8. Sorted(s)[k] = s[i0]
  BY <1>1 DEF Sorted
<1> HIDE DEF i0
<1> QED
  BY <1>7, <1>8

\* Cutting fees off at the largest u64 keeps their order.
LEMMA SaturateKeepsOrder ==
    ASSUME NEW v \in Nat, NEW w \in Nat
    PROVE  /\ Saturate(v) \in Nat
           /\ Saturate(v) < Saturate(w) => v < w
  BY OracleAssumption DEF Saturate

\* With the k-th sample of the sorted order as fee, k - 1 samples at most
\* are below it and as many as follow it at most above.
LEMMA PlacesCount ==
    ASSUME NEW s \in Seq(Nat), NEW i \in 1..Len(s), NEW k \in 1..Len(s),
           Cardinality(UpTo(s, i)) = k
    PROVE  LET n == Len(s)
               above == {j \in 1..n : Saturate(s[j]) > Saturate(s[i])}
               below == {j \in 1..n : Saturate(s[j]) < Saturate(s[i])}
           IN  /\ Cardinality(above) \in Nat /\ Cardinality(below) \in Nat
               /\ Cardinality(above) <= n - k
               /\ Cardinality(below) <= k - 1
<1> DEFINE n == Len(s)
           D == 1..n
           U == UpTo(s, i)
           above == {j \in D : Saturate(s[j]) > Saturate(s[i])}
           below == {j \in D : Saturate(s[j]) < Saturate(s[i])}
<1>1. n \in Nat /\ DOMAIN s = D /\ \A j \in D : s[j] \in Nat
  OBVIOUS
<1>2. IsFiniteSet(D) /\ Cardinality(D) = n
  BY <1>1, FirstNumbers
<1>3. U \in SUBSET D /\ i \in U
  BY <1>1 DEF UpTo
<1>4. IsFiniteSet(U)
  BY <1>2, <1>3, FS_Subset
<1>5. Cardinality(D \ U) = n - k /\ IsFiniteSet(D \ U)
  <2> HIDE DEF D, U
  <2>1. D \cap U = U
    BY <1>3
  <2>2. /\ IsFiniteSet(D \ U)
        /\ Cardinality(D \ U) = Cardinality(D) - Cardinality(D \cap U)
    BY <1>2, FS_Difference
  <2> QED
    BY <1>2, <2>1, <2>2 DEF U
<1>6. Cardinality(U \ {i}) = k - 1 /\ IsFiniteSet(U \ {i})
  BY <1>3, <1>4, FS_RemoveElement
<1>7. \A j \in D : /\ Saturate(s[j]) < Saturate(s[i]) => s[j] < s[i]
                   /\ Saturate(s[i]) < Saturate(s[j]) => s[i] < s[j]
  BY <1>1, SaturateKeepsOrder
<1>8. \A j \in D : Saturate(s[j]) \in Nat
  BY <1>1, SaturateKeepsOrder
<1>9. above \in SUBSET (D \ U)
  BY <1>1, <1>7, <1>8 DEF UpTo
<1>10. below \in SUBSET (U \ {i})
  BY <1>1, <1>7, <1>8 DEF UpTo
<1>11. /\ IsFiniteSet(above) /\ IsFiniteSet(below)
       /\ Cardinality(above) <= n - k /\ Cardinality(below) <= k - 1
  BY <1>5, <1>6, <1>9, <1>10, FS_Subset
<1>12. Cardinality(above) \in Nat /\ Cardinality(below) \in Nat
  BY <1>11, FS_CardinalityType
<1> QED
  BY <1>11, <1>12

\* The rounded index is a place of the order, with a tenth behind it.
LEMMA IndexIsNinth ==
    ASSUME NEW n \in Nat, n > 0
    PROVE  LET k == P90Index(n) + 1
           IN  k \in 1..n /\ 10 * (n - k) <= n + 3 /\ 10 * (n - k + 1) >= n + 4
  BY DEF P90Index

-----------------------------------------------------------------------------
(* The ring.                                                               *)

\* The ring of priority fees is the end of what the oracle was fed.
RingIsNewest ==
    LET ring == oracle.priority IN
      /\ Len(ring) = Min2(RingSize, Len(fed))
      /\ \A i \in 1..Len(ring) : ring[i] = fed[Len(fed) - Len(ring) + i]

FeedInv ==
    /\ fed \in Seq(PriorityFees) /\ oracle.priority \in Seq(PriorityFees)
    /\ RingIsNewest

\* FeedInv holds at the start.
LEMMA FeedStarts == FeedInit => FeedInv
<1> SUFFICES ASSUME FeedInit PROVE FeedInv
  OBVIOUS
<1>1. oracle.priority = << >> /\ fed = << >>
  BY DEF FeedInit, EmptyOracle
<1>2. << >> \in Seq(PriorityFees) /\ Len(<< >>) = 0
  OBVIOUS
<1> QED
  BY <1>1, <1>2, OracleAssumption DEF FeedInv, RingIsNewest, Min2

\* A push drops the oldest sample of a full ring and no other.
LEMMA PushKeepsNewest ==
    ASSUME FeedInv, NEW b \in BaseFees, NEW p \in PriorityFees, Push(b, p)
    PROVE  FeedInv'
<1> DEFINE ring == oracle.priority
           new == oracle'.priority
           n == Len(fed)
<1>1. /\ RingSize \in Nat \ {0} /\ n \in Nat /\ Len(ring) \in Nat
      /\ ring \in Seq(PriorityFees) /\ fed \in Seq(PriorityFees)
      /\ Len(ring) = Min2(RingSize, n)
      /\ \A i \in 1..Len(ring) : ring[i] = fed[n - Len(ring) + i]
  <2>1. ring \in Seq(PriorityFees) /\ fed \in Seq(PriorityFees)
    BY DEF FeedInv
  <2>2. n \in Nat /\ Len(ring) \in Nat
    BY <2>1
  <2>3. /\ Len(ring) = Min2(RingSize, n)
        /\ \A i \in 1..Len(ring) : ring[i] = fed[n - Len(ring) + i]
    BY DEF FeedInv, RingIsNewest
  <2> QED
    BY <2>1, <2>2, <2>3, OracleAssumption
<1>2. /\ fed' = Append(fed, p)
      /\ new = Append(IF Len(ring) = RingSize THEN Tail(ring) ELSE ring, p)
  BY DEF Push, PushSample, PushBack
<1>3. /\ fed' \in Seq(PriorityFees) /\ Len(fed') = n + 1
      /\ fed'[n + 1] = p /\ \A i \in 1..n : fed'[i] = fed[i]
  BY <1>1, <1>2
<1>4. CASE Len(ring) = RingSize
  <2>1. /\ Tail(ring) \in Seq(PriorityFees)
        /\ Len(Tail(ring)) = RingSize - 1
        /\ \A i \in 1..(RingSize - 1) : Tail(ring)[i] = ring[i + 1]
    BY <1>1, <1>4
  <2>2. /\ new \in Seq(PriorityFees) /\ Len(new) = RingSize
        /\ new[RingSize] = p
        /\ \A i \in 1..(RingSize - 1) : new[i] = ring[i + 1]
    BY <1>1, <1>2, <1>4, <2>1
  <2>3. n >= RingSize
    BY <1>1, <1>4 DEF Min2
  <2>4. ASSUME NEW i \in 1..RingSize
        PROVE  new[i] = fed'[n + 1 - RingSize + i]
    <3>1. CASE i = RingSize
      BY <1>1, <1>3, <2>2, <3>1
    <3>2. CASE i # RingSize
      <4>1. i \in 1..(RingSize - 1) /\ i + 1 \in 1..RingSize
        BY <1>1, <3>2
      <4>2. new[i] = fed[n - RingSize + (i + 1)]
        BY <1>1, <1>4, <2>2, <4>1
      <4>3. n - RingSize + (i + 1) \in 1..n
        BY <1>1, <2>3, <4>1
      <4>4. n - RingSize + (i + 1) = n + 1 - RingSize + i
        BY <1>1
      <4> QED
        BY <1>3, <4>2, <4>3, <4>4
    <3> QED
      BY <3>1, <3>2
  <2>5. Len(new) = Min2(RingSize, Len(fed'))
    BY <1>1, <1>3, <2>2, <2>3 DEF Min2
  <2> QED
    BY <1>3, <2>2, <2>4, <2>5 DEF FeedInv, RingIsNewest, Min2
<1>5. CASE Len(ring) # RingSize
  <2>1. Len(ring) = n /\ n < RingSize
    BY <1>1, <1>5 DEF Min2
  <2>2. /\ new \in Seq(PriorityFees) /\ Len(new) = n + 1
        /\ new[n + 1] = p /\ \A i \in 1..n : new[i] = ring[i]
    BY <1>1, <1>2, <1>5, <2>1
  <2>3. \A i \in 1..n : ring[i] = fed[i]
    BY <1>1, <2>1
  <2>4. ASSUME NEW i \in 1..(n + 1)
        PROVE  new[i] = fed'[n + 1 - (n + 1) + i]
    <3>1. n + 1 - (n + 1) + i = i
      BY <1>1
    <3>2. i = n + 1 \/ i \in 1..n
      BY <1>1
    <3> QED
      BY <1>3, <2>2, <2>3, <3>1, <3>2
  <2>5. Len(new) = Min2(RingSize, Len(fed'))
    BY <1>1, <1>3, <2>1, <2>2 DEF Min2
  <2> QED
    BY <1>3, <2>2, <2>4, <2>5 DEF FeedInv, RingIsNewest, Min2
<1> QED
  BY <1>4, <1>5

\* Every step of the feed keeps FeedInv.
LEMMA FeedStep == FeedInv /\ [FeedNext]_feed => FeedInv'
<1> SUFFICES ASSUME FeedInv, [FeedNext]_feed PROVE FeedInv'
  OBVIOUS
<1>1. ASSUME NEW b \in BaseFees, NEW p \in PriorityFees, Push(b, p)
      PROVE  FeedInv'
  BY <1>1, PushKeepsNewest
<1>2. CASE Renew
  <2>1. oracle'.priority = << >> /\ fed' = << >>
    BY <1>2 DEF Renew, EmptyOracle
  <2>2. << >> \in Seq(PriorityFees) /\ Len(<< >>) = 0
    OBVIOUS
  <2> QED
    BY <2>1, <2>2, OracleAssumption DEF FeedInv, RingIsNewest, Min2
<1>3. CASE UNCHANGED feed
  BY <1>3 DEF feed, FeedInv, RingIsNewest, Min2
<1> QED
  BY <1>1, <1>2, <1>3 DEF FeedNext

\* The last m of a sequence.
LEMMA LastOnes ==
    ASSUME NEW S, NEW s \in Seq(S), NEW m \in 1..Len(s)
    PROVE  LET n == Len(s)
               t == SubSeq(s, n - m + 1, n)
           IN  /\ t \in Seq(S) /\ Len(t) = m
               /\ \A i \in 1..m : t[i] = s[n - m + i]
<1> DEFINE n == Len(s)
           a == n - m + 1
           t == SubSeq(s, a, n)
<1>1. n \in Nat /\ a \in 1..n /\ n - a + 1 = m
  OBVIOUS
<1>2. \A i \in a..n : s[i] \in S
  BY <1>1
<1> HIDE DEF a, n
<1>3. /\ t \in Seq(S) /\ Len(t) = IF a <= n THEN n - a + 1 ELSE 0
      /\ \A i \in 1..(n - a + 1) : t[i] = s[a + i - 1]
  BY <1>1, <1>2, SubSeqProperties
<1>4. \A i \in 1..m : a + i - 1 = n - m + i
  BY <1>1 DEF a
<1> QED
  BY <1>1, <1>3, <1>4 DEF a, n

\* The samples the recommendation looks at are the newest ever fed.
LEMMA RecentIsNewest ==
    ASSUME FeedInv, fed # << >>
    PROVE  /\ RecentSamples(oracle) = Newest(Recent)
           /\ Newest(Recent) \in Seq(Nat)
           /\ Len(Newest(Recent)) > 0
<1> DEFINE ring == oracle.priority
           n == Len(fed)
           r == Len(ring)
           m == Min2(Recent, n)
           a == RecentSamples(oracle)
           b == Newest(Recent)
<1>1. /\ RingSize \in Nat \ {0} /\ Recent \in 1..RingSize
      /\ ring \in Seq(Nat) /\ fed \in Seq(Nat)
  BY OracleAssumption, FeesAssumption, SeqMonotonic DEF FeedInv
<1>2. n \in Nat /\ r \in Nat /\ n > 0
  BY <1>1
<1>3. r = Min2(RingSize, n) /\ \A i \in 1..r : ring[i] = fed[n - r + i]
  BY DEF FeedInv, RingIsNewest
<1>4. m \in 1..n /\ m \in 1..r /\ r <= n /\ m = Min2(Recent, r)
  BY <1>1, <1>2, <1>3 DEF Min2
<1>5. a = SubSeq(ring, IF r > Recent THEN r - Recent + 1 ELSE 1, r)
  BY DEF RecentSamples
<1>6. r - m + 1 = IF r > Recent THEN r - Recent + 1 ELSE 1
  <2>1. m = IF Recent < r THEN Recent ELSE r
    BY <1>4 DEF Min2
  <2> HIDE DEF m, r
  <2> QED
    BY <1>1, <1>2, <1>4, <2>1
<1>7. a = SubSeq(ring, r - m + 1, r) /\ b = SubSeq(fed, n - m + 1, n)
  BY <1>5, <1>6 DEF Newest
<1> HIDE DEF ring, m, a, b
<1>8. /\ a \in Seq(Nat) /\ Len(a) = m
      /\ \A i \in 1..m : a[i] = ring[r - m + i]
  BY <1>1, <1>4, <1>7, LastOnes
<1>9. /\ b \in Seq(Nat) /\ Len(b) = m
      /\ \A i \in 1..m : b[i] = fed[n - m + i]
  BY <1>1, <1>4, <1>7, LastOnes
<1>10. ASSUME NEW i \in 1..m PROVE a[i] = b[i]
  <2>1. r - m + i \in 1..r /\ n - r + (r - m + i) = n - m + i
    BY <1>2, <1>4
  <2> QED
    BY <1>3, <1>8, <1>9, <2>1
<1>11. a = b
  BY <1>8, <1>9, <1>10, SeqEqual
<1> QED
  BY <1>4, <1>9, <1>11 DEF a, b

\* So the recommendation is their 90th percentile.
LEMMA FeedIsP90 == FeedInv => RecommendedIsP90
<1> SUFFICES ASSUME FeedInv, fed # << >> PROVE RecommendedIsP90
  BY DEF RecommendedIsP90
<1> DEFINE s == Newest(Recent)
           n == Len(s)
           k == P90Index(n) + 1
           fee == RecommendedPriorityFee(oracle)
<1>1. RecentSamples(oracle) = s /\ s \in Seq(Nat) /\ n \in Nat /\ n > 0
  BY RecentIsNewest
<1>2. k \in 1..n /\ 10 * (n - k) <= n + 3 /\ 10 * (n - k + 1) >= n + 4
  BY <1>1, IndexIsNinth
<1>3. PICK i \in 1..n : Sorted(s)[k] = s[i] /\ Cardinality(UpTo(s, i)) = k
  BY <1>1, <1>2, SortedPlaces
<1>4. Len(Sorted(s)) = n /\ Sorted(s) # << >>
  <2>1. DOMAIN Sorted(s) = 1..n
    BY <1>1 DEF Sorted
  <2>2. Sorted(s) = [j \in 1..n |-> Sorted(s)[j]]
    BY <1>1 DEF Sorted
  <2> QED
    BY <1>1, <2>1, <2>2
<1>5. fee = Saturate(s[i])
  BY <1>1, <1>3, <1>4 DEF RecommendedPriorityFee
<1> DEFINE above == Cardinality({j \in 1..n : Saturate(s[j]) > fee})
           below == Cardinality({j \in 1..n : Saturate(s[j]) < fee})
<1>6. above \in Nat /\ below \in Nat /\ above <= n - k /\ below <= k - 1
  BY <1>1, <1>2, <1>3, <1>5, PlacesCount
<1> HIDE DEF s, k, fee, above, below
<1>7. 10 * above <= n + 3 /\ 10 * (n - below) >= n + 4
  BY <1>1, <1>2, <1>6
<1> QED
  BY <1>3, <1>5, <1>7 DEF RecommendedIsP90, s, fee, above, below

\* Whatever the oracle is fed, and however often its rings turn over: the
\* fee the scanner pays is the 90th percentile of the newest samples.
THEOREM FeedRecommends == FeedSpec => []RecommendedIsP90
  BY FeedStarts, FeedStep, FeedIsP90, PTL DEF FeedSpec

-----------------------------------------------------------------------------
(* The sampler.                                                            *)

\* The two rings of the oracle hold fees, and are filled together.
RingsOK ==
    oracle.base \in Seq(BaseFees) /\ oracle.priority \in Seq(PriorityFees)

\* What a turn of the loop has done so far: a head in hand from NextHead on,
\* its fee in the oracle from SampleFee on, its row from InsertGasSample on.
TurnSoFar ==
    /\ sampler \in {"fee", "insert", "save"} => block \in Heads
    /\ sampler \in {"insert", "save"} => oracle.lastBase = block.base
    /\ sampler = "save" => /\ block.number \in DOMAIN gasHistory
                           /\ gasHistory[block.number] = RowInHand

\* A task without a connection has forgotten its last complete turn.
TurnForgotten ==
    sampler \in {"connecting", "backoff", "dead"} => sampled = NoHead

\* The task has failed less often than it may, unless it is dead.
AttemptsLeft == sampler # "dead" => attempts < MaxAttempts

\* After a complete turn the row of last_block is the oracle's newest sample,
\* whether or not it is the row the API shows.
TurnComplete ==
    sampler = "next" /\ sampled # NoHead =>
        /\ lastBlock = sampled.number
        /\ oracle.lastBase = sampled.base
        /\ gasHistory[lastBlock] = NewestSample

SamplerInv ==
    /\ TypeOK /\ RingsOK /\ TurnSoFar /\ TurnForgotten /\ AttemptsLeft
    /\ LastBlockIsSampled /\ TurnComplete

\* A ring holds no more than RingSize samples, and two rings of the same
\* length stay so.
LEMMA PushBackType ==
    ASSUME NEW Fees, NEW r \in Seq(Fees), NEW v \in Fees, Len(r) <= RingSize
    PROVE  /\ PushBack(r, v) \in Seq(Fees)
           /\ Len(PushBack(r, v)) = IF Len(r) = RingSize THEN RingSize
                                    ELSE Len(r) + 1
           /\ Len(PushBack(r, v)) <= RingSize
<1>1. RingSize \in Nat \ {0} /\ Len(r) \in Nat
  BY OracleAssumption
<1>2. CASE Len(r) = RingSize
  <2>1. Tail(r) \in Seq(Fees) /\ Len(Tail(r)) = RingSize - 1
    BY <1>1, <1>2
  <2>2. PushBack(r, v) = Append(Tail(r), v)
    BY <1>2 DEF PushBack
  <2> QED
    BY <1>1, <1>2, <2>1, <2>2
<1>3. CASE Len(r) # RingSize
  <2>1. PushBack(r, v) = Append(r, v)
    BY <1>3 DEF PushBack
  <2> QED
    BY <1>1, <1>3, <2>1
<1> QED
  BY <1>2, <1>3

\* SamplerInv holds at the start, with an empty table.
LEMMA SamplerStarts == Init => SamplerInv
<1> SUFFICES ASSUME Init PROVE SamplerInv
  OBVIOUS
<1>1. oracle.base = << >> /\ oracle.priority = << >>
  BY DEF Init, FeedInit, EmptyOracle
<1>2. /\ << >> \in Seq(BaseFees) /\ << >> \in Seq(PriorityFees)
      /\ << >> \in Seq(Heads) /\ Len(<< >>) = 0 /\ DOMAIN << >> = {}
  OBVIOUS
<1>3. TypeOK
  BY <1>1, <1>2, SamplerAssumption, OracleAssumption DEF Init, TypeOK
<1> QED
  BY <1>1, <1>2, <1>3, SamplerAssumption DEF Init, SamplerInv, RingsOK,
     TurnSoFar, TurnForgotten, AttemptsLeft, LastBlockIsSampled, TurnComplete

\* Every step keeps SamplerInv.
LEMMA SamplerStep == SamplerInv /\ [Next]_vars => SamplerInv'
<1> SUFFICES ASSUME SamplerInv, [Next]_vars PROVE SamplerInv'
  OBVIOUS
<1> USE DEF SamplerInv, feed
<1>1. /\ MaxAttempts \in Nat \ {0} /\ MaxHeads \in Nat /\ MaxBlock \in Nat
      /\ RingSize \in Nat \ {0}
  BY SamplerAssumption, OracleAssumption
<1>2. ASSUME NEW h \in Heads, AnnounceHead(h)
      PROVE  SamplerInv'
  <2>1. stream' \in Seq(Heads)
    BY <1>2 DEF AnnounceHead, TypeOK
  <2>2. TypeOK'
    BY <1>1, <1>2, <2>1 DEF AnnounceHead, TypeOK
  <2> QED
    BY <1>2, <2>2 DEF AnnounceHead, RingsOK, TurnSoFar, TurnForgotten,
       AttemptsLeft, LastBlockIsSampled, TurnComplete, RowInHand, NewestSample
<1>3. CASE LinkBreaks
  BY <1>3 DEF LinkBreaks, TypeOK, RingsOK, TurnSoFar, TurnForgotten,
     AttemptsLeft, LastBlockIsSampled, TurnComplete, RowInHand, NewestSample
<1>4. CASE Connect
  BY <1>4 DEF Connect, TypeOK, RingsOK, TurnSoFar, TurnForgotten,
     AttemptsLeft, LastBlockIsSampled, TurnComplete, RowInHand, NewestSample
<1>5. CASE NextHead
  <2>1. Head(stream) \in Heads /\ Tail(stream) \in Seq(Heads)
    BY <1>5 DEF NextHead, TypeOK
  <2> QED
    BY <1>5, <2>1 DEF NextHead, TypeOK, RingsOK, TurnSoFar, TurnForgotten,
       AttemptsLeft, LastBlockIsSampled, TurnComplete
<1>6. ASSUME NEW p \in PriorityFees, SampleFee(p)
      PROVE  SamplerInv'
  <2>1. block \in Heads /\ block.base \in BaseFees
    BY <1>6 DEF SampleFee, TurnSoFar, Heads
  <2>2. /\ oracle'.base = PushBack(oracle.base, block.base)
        /\ oracle'.priority = PushBack(oracle.priority, p)
        /\ oracle'.lastBase = block.base
    BY <1>6 DEF SampleFee, Push, PushSample
  <2>3. /\ oracle'.base \in Seq(BaseFees)
        /\ oracle'.priority \in Seq(PriorityFees)
        /\ Len(oracle'.base) = Len(oracle'.priority)
        /\ Len(oracle'.base) <= RingSize
    <3>1. /\ oracle.base \in Seq(BaseFees)
          /\ oracle.priority \in Seq(PriorityFees)
          /\ Len(oracle.base) = Len(oracle.priority)
          /\ Len(oracle.base) <= RingSize /\ Len(oracle.priority) <= RingSize
      BY DEF RingsOK, TypeOK
    <3>2. /\ PushBack(oracle.base, block.base) \in Seq(BaseFees)
          /\ Len(PushBack(oracle.base, block.base)) =
               IF Len(oracle.base) = RingSize THEN RingSize
               ELSE Len(oracle.base) + 1
          /\ Len(PushBack(oracle.base, block.base)) <= RingSize
      BY <2>1, <3>1, PushBackType
    <3>3. /\ PushBack(oracle.priority, p) \in Seq(PriorityFees)
          /\ Len(PushBack(oracle.priority, p)) =
               IF Len(oracle.priority) = RingSize THEN RingSize
               ELSE Len(oracle.priority) + 1
      BY <3>1, PushBackType
    <3> QED
      BY <2>2, <3>1, <3>2, <3>3
  <2>4. TypeOK'
    BY <1>6, <2>3 DEF SampleFee, TypeOK
  <2> QED
    BY <1>6, <2>1, <2>2, <2>3, <2>4 DEF SampleFee, RingsOK, TurnSoFar,
       TurnForgotten, AttemptsLeft, LastBlockIsSampled, TurnComplete
<1>7. CASE InsertGasSample
  <2>1. block \in Heads /\ block.number \in 1..MaxBlock
    BY <1>7 DEF InsertGasSample, TurnSoFar, Heads
  <2>2. /\ DOMAIN gasHistory' = DOMAIN gasHistory \cup {block.number}
        /\ gasHistory'[block.number] = RowInHand
    BY <1>7 DEF InsertGasSample
  <2>3. TypeOK'
    BY <1>7, <2>1, <2>2 DEF InsertGasSample, TypeOK
  <2> QED
    BY <1>7, <2>1, <2>2, <2>3 DEF InsertGasSample, RingsOK, TurnSoFar,
       TurnForgotten, AttemptsLeft, LastBlockIsSampled, TurnComplete,
       RowInHand, NewestSample
<1>8. CASE SetLastBlock
  <2>1. /\ block \in Heads /\ block.number \in 1..MaxBlock
        /\ oracle.lastBase = block.base
        /\ block.number \in DOMAIN gasHistory
        /\ gasHistory[block.number] = RowInHand
    BY <1>8 DEF SetLastBlock, TurnSoFar, Heads
  <2>2. TypeOK'
    BY <1>8, <2>1 DEF SetLastBlock, TypeOK
  <2> QED
    BY <1>8, <2>1, <2>2 DEF SetLastBlock, RingsOK, TurnSoFar,
       TurnForgotten, AttemptsLeft, LastBlockIsSampled, TurnComplete,
       RowInHand, NewestSample
<1>9. CASE SamplerFails
  <2>1. sampler # "dead"
    BY <1>9 DEF SamplerFails
  <2>2. /\ attempts' \in 0..MaxAttempts
        /\ sampler' # "dead" => attempts' < MaxAttempts
    BY <1>1, <1>9, <2>1 DEF SamplerFails, TypeOK, AttemptsLeft
  <2>3. TypeOK'
    BY <1>9, <2>2 DEF SamplerFails, TypeOK
  <2> QED
    BY <1>9, <2>2, <2>3 DEF SamplerFails, RingsOK, TurnSoFar,
       TurnForgotten, AttemptsLeft, LastBlockIsSampled, TurnComplete
<1>10. CASE BackoffElapses
  BY <1>10 DEF BackoffElapses, TypeOK, RingsOK, TurnSoFar, TurnForgotten,
     AttemptsLeft, LastBlockIsSampled, TurnComplete
<1>11. CASE Restart
  <2>1. oracle'.base = << >> /\ oracle'.priority = << >>
    BY <1>11 DEF Restart, Renew, EmptyOracle
  <2>2. /\ << >> \in Seq(BaseFees) /\ << >> \in Seq(PriorityFees)
        /\ << >> \in Seq(Heads) /\ Len(<< >>) = 0
    OBVIOUS
  <2>3. TypeOK'
    BY <1>1, <1>11, <2>1, <2>2 DEF Restart, TypeOK
  <2> QED
    BY <1>1, <1>11, <2>1, <2>2, <2>3 DEF Restart, RingsOK, TurnSoFar,
       TurnForgotten, AttemptsLeft, LastBlockIsSampled, TurnComplete
<1>12. CASE UNCHANGED vars
  BY <1>12 DEF vars, TypeOK, RingsOK, TurnSoFar, TurnForgotten,
     AttemptsLeft, LastBlockIsSampled, TurnComplete, RowInHand, NewestSample
<1> QED
  BY <1>2, <1>3, <1>4, <1>5, <1>6, <1>7, <1>8, <1>9, <1>10, <1>11, <1>12
     DEF Next

\* The rings never outgrow RingSize nor drift apart, and the task never
\* counts beyond MaxAttempts, since only a living task fails.
THEOREM SamplerTypeCorrect == Spec => []TypeOK
<1>1. SamplerInv => TypeOK
  BY DEF SamplerInv
<1> QED
  BY <1>1, SamplerStarts, SamplerStep, PTL DEF Spec

\* A crash between the two writes leaves a row without last_block, never the
\* other way round, and rows are replaced but not removed.
THEOREM LastBlockHasRow == Spec => []LastBlockIsSampled
<1>1. SamplerInv => LastBlockIsSampled
  BY DEF SamplerInv
<1> QED
  BY <1>1, SamplerStarts, SamplerStep, PTL DEF Spec

\* After a complete turn last_block and the oracle are of one block, and the
\* fees the API shows are of the same sample, unless a reorganisation has
\* left a row with a higher number.
THEOREM SampleViewsAgree == Spec => []ViewsAgree
<1>1. SamplerInv => ViewsAgree
  BY DEF SamplerInv, TurnComplete, ViewsAgree, ShownFees
<1> QED
  BY <1>1, SamplerStarts, SamplerStep, PTL DEF Spec

\* The samples without a complete turn are counted against the attempts; only
\* a failure takes the task out of a turn it has begun.
UnshownInv == fed \in Seq(PriorityFees) /\ FewSamplesUnshown

LEMMA UnshownStep == SamplerInv /\ UnshownInv /\ [Next]_vars => UnshownInv'
<1> SUFFICES ASSUME SamplerInv, UnshownInv, [Next]_vars PROVE UnshownInv'
  OBVIOUS
<1>1. /\ fed \in Seq(PriorityFees) /\ Len(fed) \in Nat
      /\ shown \in Nat /\ attempts \in Nat
  BY SamplerAssumption DEF UnshownInv, SamplerInv, TypeOK
<1>2. ASSUME NEW h \in Heads, AnnounceHead(h) PROVE UnshownInv'
  BY <1>2 DEF AnnounceHead, feed, UnshownInv, FewSamplesUnshown
<1>3. ASSUME NEW p \in PriorityFees, SampleFee(p) PROVE UnshownInv'
  <2>1. /\ fed' = Append(fed, p) /\ shown' = shown /\ attempts' = attempts
        /\ sampler = "fee" /\ sampler' = "insert"
    BY <1>3 DEF SampleFee, Push
  <2>2. fed' \in Seq(PriorityFees) /\ Len(fed') = Len(fed) + 1
    BY <1>1, <2>1
  <2>3. Len(fed) <= shown + attempts
    BY <1>1, <2>1 DEF UnshownInv, FewSamplesUnshown
  <2> QED
    BY <1>1, <2>1, <2>2, <2>3 DEF UnshownInv, FewSamplesUnshown
<1>4. CASE InsertGasSample
  BY <1>4 DEF InsertGasSample, feed, UnshownInv, FewSamplesUnshown
<1>5. CASE SetLastBlock
  BY <1>1, <1>5 DEF SetLastBlock, feed, UnshownInv, FewSamplesUnshown
<1>6. CASE SamplerFails
  <2>1. /\ fed' = fed /\ shown' = shown /\ attempts' = attempts + 1
        /\ sampler' \notin {"insert", "save"}
    BY <1>6 DEF SamplerFails, feed
  <2> QED
    BY <1>1, <2>1 DEF UnshownInv, FewSamplesUnshown
<1>7. CASE Restart
  <2>1. fed' = << >> /\ shown' = 0 /\ attempts' = 0
    BY <1>7 DEF Restart, Renew
  <2>2. fed' \in Seq(PriorityFees) /\ Len(fed') = 0
    BY <2>1
  <2> QED
    BY <2>1, <2>2 DEF UnshownInv, FewSamplesUnshown
<1>8. CASE LinkBreaks \/ Connect \/ NextHead \/ BackoffElapses
  BY <1>8 DEF LinkBreaks, Connect, NextHead, BackoffElapses, feed,
     UnshownInv, FewSamplesUnshown
<1>9. CASE UNCHANGED vars
  BY <1>9 DEF vars, UnshownInv, FewSamplesUnshown
<1> QED
  BY <1>2, <1>3, <1>4, <1>5, <1>6, <1>7, <1>8, <1>9 DEF Next

\* For every retry limit and every history of failures: the samples the
\* scanner prices with and the API never showed are no more than the task's
\* failures and the one in hand.
THEOREM UnshownSamplesAreFew == Spec => []FewSamplesUnshown
<1>1. Init => UnshownInv
  BY DEF Init, FeedInit, UnshownInv, FewSamplesUnshown
<1>2. UnshownInv => FewSamplesUnshown
  BY DEF UnshownInv
<1> QED
  BY <1>1, <1>2, SamplerStarts, SamplerStep, UnshownStep, PTL DEF Spec

\* A step of the sampler feeds the shared oracle a sample, renews it with the
\* process, or leaves it alone.
LEMMA SamplerFeeds == SamplerInv /\ [Next]_vars => [FeedNext]_feed
<1> SUFFICES ASSUME SamplerInv, [Next]_vars PROVE [FeedNext]_feed
  OBVIOUS
<1>1. ASSUME NEW h \in Heads, AnnounceHead(h) PROVE UNCHANGED feed
  BY <1>1 DEF AnnounceHead
<1>2. ASSUME NEW p \in PriorityFees, SampleFee(p) PROVE FeedNext
  <2>1. block.base \in BaseFees
    BY <1>2 DEF SampleFee, SamplerInv, TurnSoFar, Heads
  <2>2. Push(block.base, p)
    BY <1>2 DEF SampleFee
  <2> QED
    BY <2>1, <2>2 DEF FeedNext
<1>3. CASE Restart
  BY <1>3 DEF Restart, FeedNext
<1>4. CASE \/ LinkBreaks \/ Connect \/ NextHead \/ InsertGasSample
           \/ SetLastBlock \/ SamplerFails \/ BackoffElapses
  BY <1>4 DEF LinkBreaks, Connect, NextHead, InsertGasSample, SetLastBlock,
     SamplerFails, BackoffElapses
<1>5. CASE UNCHANGED vars
  BY <1>5 DEF vars, feed
<1> QED
  BY <1>1, <1>2, <1>3, <1>4, <1>5 DEF Next

\* The sampler implements the feed: through failures, reorganisations and
\* restarts, the oracle only ever changes by a sample or with its process.
THEOREM SamplerImplementsFeed == Spec => FeedSpec
<1>1. Init => FeedInit
  BY DEF Init
<1> QED
  BY <1>1, SamplerStarts, SamplerStep, SamplerFeeds, PTL DEF Spec, FeedSpec

\* So what the scanner pays beside the running sampler, at every moment of
\* its three writes, is the 90th percentile of what was sampled since the
\* process started.
THEOREM SamplerRecommends == Spec => []RecommendedIsP90
  BY SamplerImplementsFeed, FeedRecommends, PTL

=============================================================================
