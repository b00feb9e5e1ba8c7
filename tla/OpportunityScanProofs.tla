------------------------ MODULE OpportunityScanProofs ------------------------
(***************************************************************************)
(* Proofs about OpportunityScan, for every list of pools, all reserves and *)
(* every amount: what scan_pairs finds, what the recorded spread says, and *)
(* that the backtest repeats the bot's decision.                           *)
(***************************************************************************)
EXTENDS OpportunityScan, SeqFilterProofs, TLAPS

-----------------------------------------------------------------------------
(* Arithmetic.  The provers multiply inequalities only when told to.       *)

\* Products of naturals are naturals, and grow with their factors.
LEMMA TimesGrows ==
    ASSUME NEW x \in Nat, NEW y \in Nat, NEW z \in Nat, x <= y
    PROVE  x * z \in Nat /\ y * z \in Nat /\ x * z <= y * z
  BY SMT

\* Strictly, where the other factor is positive.
LEMMA TimesGrowsStrictly ==
    ASSUME NEW x \in Nat, NEW y \in Nat, NEW z \in Nat, z > 0
    PROVE  x < y <=> x * z < y * z
<1>1. ASSUME x < y PROVE x * z < y * z
  <2>1. x + 1 <= y
    BY <1>1
  <2>2. (x + 1) * z <= y * z
    BY <2>1, TimesGrows
  <2>3. (x + 1) * z = x * z + z
    OBVIOUS
  <2>4. x * z \in Nat /\ y * z \in Nat
    OBVIOUS
  <2> QED
    BY <2>2, <2>3, <2>4
<1>2. ASSUME y <= x PROVE y * z <= x * z
  BY <1>2, TimesGrows
<1>3. x * z \in Nat /\ y * z \in Nat
  OBVIOUS
<1> QED
  BY <1>1, <1>2, <1>3

\* Division of naturals cuts off.
LEMMA DivIs ==
    ASSUME NEW m \in Nat, NEW n \in Nat, n > 0
    PROVE  /\ m \div n \in Nat
           /\ (m \div n) * n <= m
           /\ m < (m \div n + 1) * n
  BY SMT

\* A quote is the largest q with q * d <= 997 * x * s, for d below.
LEMMA QuoteIs ==
    ASSUME NEW x \in Nat, NEW r \in Nat, NEW s \in Nat, r > 0, s > 0
    PROVE  LET q == GetAmountOut(x, r, s)
               d == r * 1000 + x * 997
           IN  /\ q \in Nat /\ d \in Nat /\ d > 0
               /\ q * d <= x * 997 * s
               /\ x * 997 * s < (q + 1) * d
<1>1. x * 997 * s \in Nat
  BY SMT
<1>2. r * 1000 + x * 997 \in Nat /\ r * 1000 + x * 997 > 0
  BY SMT
<1>3. GetAmountOut(x, r, s) = (x * 997 * s) \div (r * 1000 + x * 997)
  BY DEF GetAmountOut
<1> QED
  BY <1>1, <1>2, <1>3, DivIs

\* Every quote is a natural.
LEMMA QuoteNat ==
    ASSUME NEW x \in Nat, NEW r \in Nat, NEW s \in Nat
    PROVE  GetAmountOut(x, r, s) \in Nat
<1>1. CASE r = 0 \/ s = 0
  BY <1>1 DEF GetAmountOut
<1>2. CASE r > 0 /\ s > 0
  BY <1>2, QuoteIs
<1> QED
  BY <1>1, <1>2

\* A quote stays below the spot price by the fee.
LEMMA QuoteBelowSpot ==
    ASSUME NEW x \in Nat, NEW r \in Nat, NEW s \in Nat, r > 0, s > 0
    PROVE  GetAmountOut(x, r, s) * (r * 1000) <= x * 997 * s
<1> DEFINE q == GetAmountOut(x, r, s)
           d == r * 1000 + x * 997
<1>1. q \in Nat /\ q * d <= x * 997 * s
  BY QuoteIs
<1>2. r * 1000 \in Nat /\ x * 997 \in Nat /\ d \in Nat /\ r * 1000 <= d
  BY SMT
<1>3. x * 997 * s \in Nat
  BY SMT
<1> HIDE DEF q, d
<1>4. (r * 1000) * q <= d * q /\ d * q \in Nat /\ (r * 1000) * q \in Nat
  BY <1>1, <1>2, TimesGrows
<1>5. (r * 1000) * q = q * (r * 1000) /\ d * q = q * d
  BY <1>1, <1>2
<1>6. q * (r * 1000) <= x * 997 * s
  BY <1>1, <1>3, <1>4, <1>5
<1> QED
  BY <1>6 DEF q

\* The pair accepts exactly the outputs up to the quote.
LEMMA AcceptsUpTo ==
    ASSUME NEW x \in Nat, NEW r \in Nat, NEW s \in Nat, NEW o \in Nat
    PROVE  Accepts(x, r, s, o) <=> o * (r * 1000 + x * 997) <= x * 997 * s
<1> DEFINE d == r * 1000 + x * 997
<1>1. (r + x) * 1000 - x * 3 = d
  BY SMT
<1>2. d * s = r * s * 1000 + x * 997 * s
  BY SMT
<1>3. d \in Nat
  BY SMT
<1>4. /\ r * s * 1000 \in Nat /\ x * 997 * s \in Nat
  BY SMT
<1> HIDE DEF d
<1>5. d * (s - o) = d * s - o * d /\ o * d \in Nat
  BY <1>3
<1>6. Accepts(x, r, s, o) <=> d * (s - o) >= r * s * 1000
  BY <1>1 DEF Accepts
<1>7. Accepts(x, r, s, o) <=> o * d <= x * 997 * s
  BY <1>2, <1>4, <1>5, <1>6
<1> QED
  BY <1>7 DEF d

\* get_amount_out computes the most that the pair gives.
LEMMA QuoteIsMost ==
    ASSUME NEW x \in Nat, NEW r \in Nat, NEW s \in Nat
    PROVE  MostAccepted(x, r, s) = GetAmountOut(x, r, s)
<1>1. CASE r = 0 \/ s = 0
  BY <1>1 DEF MostAccepted, GetAmountOut
<1>2. CASE r > 0 /\ s > 0
  <2> DEFINE q == GetAmountOut(x, r, s)
             d == r * 1000 + x * 997
             n == x * 997 * s
  <2>1. /\ q \in Nat /\ d \in Nat /\ d > 0 /\ q * d <= n
        /\ n < (q + 1) * d
    BY <1>2, QuoteIs
  <2>2. n \in Nat
    BY SMT
  <2>3. \A o \in Nat : Accepts(x, r, s, o) <=> o * d <= n
    BY AcceptsUpTo
  <2>4. n <= s * d
    <3>1. s * d = s * (r * 1000) + n
      BY SMT
    <3>2. s * (r * 1000) \in Nat
      BY SMT
    <3> HIDE DEF n, d
    <3> QED
      BY <2>2, <3>1, <3>2
  <2>5. MostAccepted(x, r, s)
          = CHOOSE o \in 0..s : /\ Accepts(x, r, s, o)
                                /\ ~ Accepts(x, r, s, o + 1)
    BY <1>2 DEF MostAccepted
  <2> HIDE DEF q, d, n
  <2>6. (q + 1) * d \in Nat /\ q * d \in Nat /\ s * d \in Nat
    BY <2>1
  <2>7. q \in 0..s
    <3> SUFFICES ASSUME q > s PROVE FALSE
      BY <2>1
    <3>1. s * d < q * d
      BY <2>1, TimesGrowsStrictly
    <3> QED
      BY <2>1, <2>2, <2>4, <2>6, <3>1
  <2>8. Accepts(x, r, s, q) /\ ~ Accepts(x, r, s, q + 1)
    BY <2>1, <2>2, <2>3, <2>6
  <2>9. ASSUME NEW o \in 0..s, Accepts(x, r, s, o),
               ~ Accepts(x, r, s, o + 1)
        PROVE  o = q
    <3>1. o * d <= n /\ n < (o + 1) * d /\ o * d \in Nat /\ (o + 1) * d \in Nat
      BY <2>1, <2>2, <2>3, <2>9
    <3>2. ~ (o < q)
      <4> SUFFICES ASSUME o + 1 <= q PROVE FALSE
        BY <2>1
      <4>1. (o + 1) * d <= q * d
        BY <2>1, TimesGrows
      <4> QED
        BY <2>1, <2>2, <2>6, <3>1, <4>1
    <3>3. ~ (q < o)
      <4> SUFFICES ASSUME q + 1 <= o PROVE FALSE
        BY <2>1
      <4>1. (q + 1) * d <= o * d
        BY <2>1, TimesGrows
      <4> QED
        BY <2>1, <2>2, <2>6, <3>1, <4>1
    <3> QED
      BY <2>1, <3>2, <3>3
  <2>10. MostAccepted(x, r, s) = q
    BY <2>5, <2>7, <2>8, <2>9
  <2> QED
    BY <2>10 DEF q
<1> QED
  BY <1>1, <1>2

\* WETH is dearer in a pool with xa WETH and ya of the stablecoin than in
\* one with xb and yb, by the fees of two swaps: 997 * 997 = 994009.
Dearer(xa, ya, xb, yb) == (xa * yb) * 1000000 < (xb * ya) * 994009

\* A round trip that pays sells WETH where it is dearer.
LEMMA PayingIsDearer ==
    ASSUME NEW x \in Nat, NEW xa \in Nat, NEW ya \in Nat, NEW yb \in Nat,
           NEW xb \in Nat, xa > 0, ya > 0, yb > 0, xb > 0,
           GetAmountOut(GetAmountOut(x, xa, ya), yb, xb) > x
    PROVE  Dearer(xa, ya, xb, yb)
<1> DEFINE p == GetAmountOut(x, xa, ya)
           q == GetAmountOut(p, yb, xb)
<1>1. p \in Nat
  BY QuoteNat
<1>2. q \in Nat
  BY <1>1, QuoteNat
<1>3. p * (xa * 1000) <= x * 997 * ya
  BY QuoteBelowSpot
<1>4. q * (yb * 1000) <= p * 997 * xb
  BY <1>1, QuoteBelowSpot
<1>5. x < q
  OBVIOUS
<1> HIDE DEF p, q
<1>6. /\ q * (yb * 1000) \in Nat /\ p * 997 * xb \in Nat
      /\ p * (xa * 1000) \in Nat /\ x * 997 * ya \in Nat
      /\ xa * 1000 \in Nat /\ 997 * xb \in Nat
  BY <1>1, <1>2
<1>7. (q * (yb * 1000)) * (xa * 1000) <= (p * 997 * xb) * (xa * 1000)
  BY <1>4, <1>6, TimesGrows
<1>8. (p * (xa * 1000)) * (997 * xb) <= (x * 997 * ya) * (997 * xb)
  BY <1>3, <1>6, TimesGrows
<1>9. (p * 997 * xb) * (xa * 1000) = (p * (xa * 1000)) * (997 * xb)
  BY <1>1
<1>10. (q * (yb * 1000)) * (xa * 1000) = q * ((xa * yb) * 1000000)
  BY <1>2
<1>11. (x * 997 * ya) * (997 * xb) = x * ((xb * ya) * 994009)
  OBVIOUS
<1> DEFINE l == (xa * yb) * 1000000
           r == (xb * ya) * 994009
<1>12. l \in Nat /\ r \in Nat /\ l > 0
  <2>1. xa * yb \in Nat /\ xb * ya \in Nat
    OBVIOUS
  <2>2. xa * yb > 0
    BY TimesGrowsStrictly
  <2> QED
    BY <2>1, <2>2
<1> HIDE DEF l, r
<1>13. q * l <= x * r
  <2>1. /\ (q * (yb * 1000)) * (xa * 1000) \in Nat
        /\ (p * 997 * xb) * (xa * 1000) \in Nat
        /\ (x * 997 * ya) * (997 * xb) \in Nat
    BY <1>1, <1>2
  <2>2. /\ (q * (yb * 1000)) * (xa * 1000) = q * l
        /\ (x * 997 * ya) * (997 * xb) = x * r
    BY <1>10, <1>11 DEF l, r
  <2> QED
    BY <1>7, <1>8, <1>9, <2>1, <2>2
<1>14. x * l < q * l
  BY <1>2, <1>5, <1>12, TimesGrowsStrictly
<1>15. x * l \in Nat /\ x * r \in Nat /\ q * l \in Nat
       /\ x * l = l * x /\ x * r = r * x
  BY <1>2, <1>12
<1>16. l * x < r * x
  BY <1>13, <1>14, <1>15
<1>17. l < r
  <2> SUFFICES ASSUME r <= l PROVE FALSE
    BY <1>12
  <2>1. r * x <= l * x
    BY <1>12, TimesGrows
  <2> QED
    BY <1>15, <1>16, <2>1
<1> QED
  BY <1>17 DEF l, r, Dearer

\* A spot price is a natural, the exact one cut off.
LEMMA SpotIs ==
    ASSUME NEW S \in Nat, NEW r \in Nat, NEW s \in Nat, r > 0
    PROVE  /\ GetSpotPrice(S, r, s) \in Nat
           /\ GetSpotPrice(S, r, s) * r <= s * S
           /\ s * S < (GetSpotPrice(S, r, s) + 1) * r
<1>1. s * S \in Nat
  BY SMT
<1>2. GetSpotPrice(S, r, s) = (s * S) \div r
  BY DEF GetSpotPrice
<1> QED
  BY <1>1, <1>2, DivIs

\* A spread is a natural.
LEMMA SpreadNat ==
    ASSUME NEW p \in Nat, NEW q \in Nat
    PROVE  SpreadBps(p, q) \in Nat
<1> DEFINE h == IF p > q THEN p ELSE q
           l == IF p < q THEN p ELSE q
<1>1. h \in Nat /\ l \in Nat /\ h - l \in Nat
  OBVIOUS
<1>2. SpreadBps(p, q) = IF l = 0 THEN 0 ELSE ((h - l) * 10000) \div l
  BY DEF SpreadBps
<1> HIDE DEF h, l
<1>3. (h - l) * 10000 \in Nat
  BY <1>1
<1>4. CASE l = 0
  BY <1>2, <1>4
<1>5. CASE l > 0
  BY <1>1, <1>2, <1>3, <1>5, DivIs
<1> QED
  BY <1>1, <1>4, <1>5

\* If the exact prices differ by the fees, so do the prices cut off, unless
\* they are too small to show it.
LEMMA SpreadShows ==
    ASSUME NEW S \in Nat, NEW xa \in Nat, NEW ya \in Nat, NEW yb \in Nat,
           NEW xb \in Nat, xa > 0, xb > 0,
           Dearer(xa, ya, xb, yb),
           GetSpotPrice(S, xb, yb) >= Finest
    PROVE  SpreadBps(GetSpotPrice(S, xa, ya), GetSpotPrice(S, xb, yb)) >= 60
<1> DEFINE p == GetSpotPrice(S, xa, ya)
           q == GetSpotPrice(S, xb, yb)
<1>1. p \in Nat /\ q \in Nat /\ q * xb <= yb * S /\ ya * S < (p + 1) * xa
      /\ q >= 36853
  <2>1. p \in Nat /\ ya * S < (p + 1) * xa
    BY SpotIs
  <2>2. q \in Nat /\ q * xb <= yb * S
    BY SpotIs
  <2>3. q >= 36853
    BY DEF Finest
  <2> QED
    BY <2>1, <2>2, <2>3
<1> HIDE DEF p, q
<1> DEFINE z == xa * xb
<1>2. z \in Nat /\ z > 0
  BY TimesGrowsStrictly
<1>3. q * z <= (xa * yb) * S
  <2>1. q * xb \in Nat /\ yb * S \in Nat
    BY <1>1
  <2>2. (q * xb) * xa <= (yb * S) * xa
    BY <1>1, <2>1, TimesGrows
  <2>3. (q * xb) * xa = q * (xa * xb) /\ (yb * S) * xa = (xa * yb) * S
    BY <1>1
  <2> QED
    BY <2>2, <2>3
<1>4. (xb * ya) * S < (p + 1) * z
  <2>1. ya * S \in Nat /\ (p + 1) * xa \in Nat
    BY <1>1
  <2>2. (ya * S) * xb < ((p + 1) * xa) * xb
    BY <1>1, <2>1, TimesGrowsStrictly
  <2>3. (ya * S) * xb = (xb * ya) * S
        /\ ((p + 1) * xa) * xb = (p + 1) * (xa * xb)
    BY <1>1
  <2> QED
    BY <2>2, <2>3
<1>5. ((xa * yb) * S) * 1000000 <= ((xb * ya) * S) * 994009
  <2>1. (xa * yb) * 1000000 \in Nat /\ (xb * ya) * 994009 \in Nat
    OBVIOUS
  <2>2. ((xa * yb) * 1000000) * S <= ((xb * ya) * 994009) * S
    BY <2>1, TimesGrows DEF Dearer
  <2>3. ((xa * yb) * 1000000) * S = ((xa * yb) * S) * 1000000
        /\ ((xb * ya) * 994009) * S = ((xb * ya) * S) * 994009
    OBVIOUS
  <2> QED
    BY <2>2, <2>3
<1>6. (xa * yb) * S \in Nat /\ (xb * ya) * S \in Nat
  OBVIOUS
<1> HIDE DEF z
<1>7. q * z \in Nat /\ (p + 1) * z \in Nat
  BY <1>1, <1>2
<1>8. (q * z) * 1000000 < ((p + 1) * z) * 994009
  BY <1>3, <1>4, <1>5, <1>6, <1>7
<1>9. (q * 1000000) * z < ((p + 1) * 994009) * z
  <2>1. (q * z) * 1000000 = (q * 1000000) * z
        /\ ((p + 1) * z) * 994009 = ((p + 1) * 994009) * z
    BY <1>1, <1>2
  <2> QED
    BY <1>8, <2>1
<1>10. q * 1000000 < (p + 1) * 994009
  <2>1. q * 1000000 \in Nat /\ (p + 1) * 994009 \in Nat
    BY <1>1
  <2> QED
    BY <1>2, <1>9, <2>1, TimesGrowsStrictly
<1>11. p * 1000 >= q * 1006
  BY <1>1, <1>10
<1>12. p > q /\ q > 0
  BY <1>1, <1>11
<1>13. SpreadBps(p, q) = ((p - q) * 10000) \div q
  BY <1>1, <1>12 DEF SpreadBps
<1>14. (p - q) * 10000 \in Nat /\ (p - q) * 10000 >= q * 60
  BY <1>1, <1>11, <1>12
<1>15. ((p - q) * 10000) \div q >= 60
  <2> DEFINE m == (p - q) * 10000
             k == m \div q
  <2>1. k \in Nat /\ m < (k + 1) * q
    BY <1>1, <1>12, <1>14, DivIs
  <2> HIDE DEF k, m
  <2>2. 60 * q < (k + 1) * q
    <3>1. m >= q * 60 /\ m \in Nat /\ (k + 1) * q \in Nat
      BY <1>1, <1>14, <2>1 DEF m
    <3> QED
      BY <1>1, <2>1, <3>1
  <2>3. 60 < k + 1
    BY <1>1, <1>12, <2>1, <2>2, TimesGrowsStrictly
  <2> QED
    BY <2>1, <2>3 DEF k, m
<1> QED
  BY <1>13, <1>15 DEF p, q

-----------------------------------------------------------------------------
(* The pairs of pools.                                                     *)

\* PairAt lists the pairs of indices, each once.
LEMMA PairsListed ==
    /\ Cardinality(IndexPairs) \in Nat
    /\ \A k \in 1..Cardinality(IndexPairs) : PairAt(k) \in IndexPairs
    /\ \A p \in IndexPairs : \E k \in 1..Cardinality(IndexPairs) :
         PairAt(k) = p
    /\ \A k, l \in 1..Cardinality(IndexPairs) : PairAt(k) = PairAt(l) => k = l
<1> DEFINE n == Len(PoolSeq)
           N == Cardinality(IndexPairs)
           U == [p \in IndexPairs |-> UpTo(p)]
<1>1. n \in Nat
  BY ScanAssumption
<1>2. IsFiniteSet(IndexPairs)
  <2>1. IsFiniteSet(1..n)
    BY <1>1, FS_Interval
  <2>2. IsFiniteSet((1..n) \X (1..n))
    BY <2>1, FS_Product
  <2>3. IndexPairs \in SUBSET ((1..n) \X (1..n))
    BY DEF IndexPairs
  <2> QED
    BY <2>2, <2>3, FS_Subset
<1>3. \A p \in IndexPairs : p[1] \in Nat /\ p[2] \in Nat /\ p = <<p[1], p[2]>>
  BY <1>1 DEF IndexPairs
<1>4. U \in [IndexPairs -> SUBSET IndexPairs]
  BY DEF UpTo
<1>5. \A p \in IndexPairs : p \in U[p]
  BY <1>3 DEF UpTo
<1>6. ASSUME NEW p \in IndexPairs, NEW q \in IndexPairs, p # q
      PROVE  \/ U[p] \subseteq U[q] /\ q \notin U[p]
             \/ U[q] \subseteq U[p] /\ p \notin U[q]
  <2>1. p[1] # q[1] \/ p[2] # q[2]
    BY <1>3, <1>6
  <2>2. \A r \in IndexPairs :
          /\ r \in U[p] <=> r[1] < p[1] \/ (r[1] = p[1] /\ r[2] <= p[2])
          /\ r \in U[q] <=> r[1] < q[1] \/ (r[1] = q[1] /\ r[2] <= q[2])
    BY DEF UpTo
  <2>3. U[p] \subseteq IndexPairs /\ U[q] \subseteq IndexPairs
    BY <1>4
  <2> HIDE DEF U
  <2>4. CASE p[1] < q[1] \/ (p[1] = q[1] /\ p[2] < q[2])
    <3>1. q \notin U[p]
      BY <1>3, <2>2, <2>4
    <3>2. \A r \in IndexPairs : r \in U[p] => r \in U[q]
      BY <1>3, <2>2, <2>4
    <3> QED
      BY <2>3, <3>1, <3>2
  <2>5. CASE q[1] < p[1] \/ (p[1] = q[1] /\ q[2] < p[2])
    <3>1. p \notin U[q]
      BY <1>3, <2>2, <2>5
    <3>2. \A r \in IndexPairs : r \in U[q] => r \in U[p]
      BY <1>3, <2>2, <2>5
    <3> QED
      BY <2>3, <3>1, <3>2
  <2> QED
    BY <1>3, <2>1, <2>4, <2>5
<1> HIDE DEF U
<1>7. /\ N \in Nat
      /\ \A p \in IndexPairs : Cardinality(U[p]) \in 1..N
      /\ \A k \in 1..N : \E p \in IndexPairs : Cardinality(U[p]) = k
      /\ \A p, q \in IndexPairs : Cardinality(U[p]) = Cardinality(U[q])
                                  => p = q
  BY <1>2, <1>4, <1>5, <1>6, RanksFill
<1>8. \A p \in IndexPairs : Cardinality(UpTo(p)) = Cardinality(U[p])
  BY DEF U
<1>9. \A k \in 1..N : /\ PairAt(k) \in IndexPairs
                      /\ Cardinality(UpTo(PairAt(k))) = k
  BY <1>7, <1>8 DEF PairAt
<1>10. ASSUME NEW p \in IndexPairs
       PROVE  \E k \in 1..N : PairAt(k) = p
  <2> DEFINE k == Cardinality(UpTo(p))
  <2>1. k \in 1..N
    BY <1>7, <1>8
  <2>2. PairAt(k) \in IndexPairs /\ Cardinality(UpTo(PairAt(k))) = k
    BY <1>9, <2>1
  <2>3. PairAt(k) = p
    BY <1>7, <1>8, <2>2
  <2> QED
    BY <2>1, <2>3
<1>11. \A k, l \in 1..N : PairAt(k) = PairAt(l) => k = l
  BY <1>9
<1> QED
  BY <1>7, <1>9, <1>10, <1>11

\* The double loop of main meets two different pools once, in some order.
LEMMA PoolPairsListed ==
    /\ Len(PoolPairs) \in Nat
    /\ \A k \in 1..Len(PoolPairs) :
         /\ PoolPairs[k][1] \in Pools /\ PoolPairs[k][2] \in Pools
         /\ PoolPairs[k][1] # PoolPairs[k][2]
    /\ \A a, b \in Pools : a # b => \E k \in 1..Len(PoolPairs) :
         PoolPairs[k] = <<a, b>> \/ PoolPairs[k] = <<b, a>>
    /\ \A k, l \in 1..Len(PoolPairs) :
         {PoolPairs[k][1], PoolPairs[k][2]}
             = {PoolPairs[l][1], PoolPairs[l][2]} => k = l
<1> DEFINE n == Len(PoolSeq)
           N == Cardinality(IndexPairs)
<1>1. /\ n \in Nat /\ PoolSeq \in Seq(Pools)
      /\ \A i, j \in 1..n : PoolSeq[i] = PoolSeq[j] => i = j
      /\ \A i \in 1..n : PoolSeq[i] \in Pools
  BY ScanAssumption
<1>2. N \in Nat
  BY PairsListed
<1>3. Len(PoolPairs) = N /\ \A k \in 1..N :
        PoolPairs[k] = <<PoolSeq[PairAt(k)[1]], PoolSeq[PairAt(k)[2]]>>
  BY <1>2 DEF PoolPairs
<1>4. \A p \in IndexPairs : /\ p[1] \in 1..n /\ p[2] \in 1..n /\ p[1] < p[2]
                            /\ p = <<p[1], p[2]>>
  BY DEF IndexPairs
<1>5. \A k \in 1..N : PairAt(k) \in IndexPairs
  BY PairsListed
<1> HIDE DEF n, N
<1>6. ASSUME NEW k \in 1..N
      PROVE  /\ PoolPairs[k][1] = PoolSeq[PairAt(k)[1]]
             /\ PoolPairs[k][2] = PoolSeq[PairAt(k)[2]]
             /\ PoolPairs[k][1] \in Pools /\ PoolPairs[k][2] \in Pools
             /\ PoolPairs[k][1] # PoolPairs[k][2]
  <2>1. /\ PairAt(k)[1] \in 1..n /\ PairAt(k)[2] \in 1..n
        /\ PairAt(k)[1] # PairAt(k)[2]
    BY <1>1, <1>4, <1>5
  <2> QED
    BY <1>1, <1>3, <2>1
<1>7. ASSUME NEW a \in Pools, NEW b \in Pools, a # b
      PROVE  \E k \in 1..N : PoolPairs[k] = <<a, b>> \/ PoolPairs[k] = <<b, a>>
  <2>1. PICK i \in 1..n : PoolSeq[i] = a
    BY DEF Pools, n
  <2>2. PICK j \in 1..n : PoolSeq[j] = b
    BY DEF Pools, n
  <2>3. i < j \/ j < i
    BY <1>1, <1>7, <2>1, <2>2
  <2>4. CASE i < j
    <3>1. <<i, j>> \in IndexPairs
      BY <2>4 DEF IndexPairs, n
    <3>2. PICK k \in 1..N : PairAt(k) = <<i, j>>
      BY <3>1, PairsListed DEF N
    <3> QED
      BY <1>3, <2>1, <2>2, <3>2
  <2>5. CASE j < i
    <3>1. <<j, i>> \in IndexPairs
      BY <2>5 DEF IndexPairs, n
    <3>2. PICK k \in 1..N : PairAt(k) = <<j, i>>
      BY <3>1, PairsListed DEF N
    <3> QED
      BY <1>3, <2>1, <2>2, <3>2
  <2> QED
    BY <2>3, <2>4, <2>5
<1>8. ASSUME NEW k \in 1..N, NEW l \in 1..N,
             {PoolPairs[k][1], PoolPairs[k][2]}
                 = {PoolPairs[l][1], PoolPairs[l][2]}
      PROVE  k = l
  <2> DEFINE p == PairAt(k)
             q == PairAt(l)
  <2>1. /\ p[1] \in 1..n /\ p[2] \in 1..n /\ p[1] < p[2]
        /\ q[1] \in 1..n /\ q[2] \in 1..n /\ q[1] < q[2]
        /\ p = <<p[1], p[2]>> /\ q = <<q[1], q[2]>>
    BY <1>4, <1>5
  <2>2. {PoolSeq[p[1]], PoolSeq[p[2]]} = {PoolSeq[q[1]], PoolSeq[q[2]]}
    BY <1>6, <1>8
  <2> HIDE DEF p, q
  <2>3. \/ PoolSeq[p[1]] = PoolSeq[q[1]] /\ PoolSeq[p[2]] = PoolSeq[q[2]]
        \/ PoolSeq[p[1]] = PoolSeq[q[2]] /\ PoolSeq[p[2]] = PoolSeq[q[1]]
    BY <2>2
  <2>4. (p[1] = q[1] /\ p[2] = q[2]) \/ (p[1] = q[2] /\ p[2] = q[1])
    BY <1>1, <2>1, <2>3
  <2>5. p[1] = q[1] /\ p[2] = q[2]
    BY <1>1, <2>1, <2>4
  <2>6. p = q
    BY <2>1, <2>5
  <2> QED
    BY <2>6, PairsListed DEF p, q, N
<1> QED
  BY <1>2, <1>3, <1>6, <1>7, <1>8

-----------------------------------------------------------------------------
(* The opportunity of a pair of pools.                                     *)

StoreOK == store \in [Pools -> Levels \cup {<<0, 0>>}]

\* What comes back of AmountIn by way of a, t and b, as the scanner quotes it.
Final(a, b, t) ==
    LET ra == ReservesForSwap(a, WETH, t)
        rb == ReservesForSwap(b, t, WETH)
    IN  GetAmountOut(GetAmountOut(AmountIn, ra[1], ra[2]), rb[1], rb[2])

\* Reserves are naturals, and the same pair of them in both directions.
LEMMA ReservesIs ==
    ASSUME StoreOK, NEW p \in Pools, NEW t, NEW u, t # u
    PROVE  /\ ReservesForSwap(p, t, u)[1] \in Nat
           /\ ReservesForSwap(p, t, u)[2] \in Nat
           /\ ReservesForSwap(p, u, t)[1] = ReservesForSwap(p, t, u)[2]
           /\ ReservesForSwap(p, u, t)[2] = ReservesForSwap(p, t, u)[1]
<1>1. Levels \subseteq Nat \X Nat
  BY ScanAssumption
<1>2. store[p] \in Nat \X Nat
  BY <1>1 DEF StoreOK
<1>3. store[p][1] \in Nat /\ store[p][2] \in Nat
  BY <1>2
<1>4. CASE Token0[p] = t /\ Token1[p] = u
  BY <1>3, <1>4 DEF ReservesForSwap
<1>5. CASE Token1[p] = t /\ Token0[p] = u
  BY <1>3, <1>5 DEF ReservesForSwap
<1>6. CASE /\ ~(Token0[p] = t /\ Token1[p] = u)
           /\ ~(Token1[p] = t /\ Token0[p] = u)
  <2>1. ReservesForSwap(p, t, u) = <<0, 0>>
        /\ ReservesForSwap(p, u, t) = <<0, 0>>
    BY <1>6 DEF ReservesForSwap
  <2> QED
    BY <2>1
<1> QED
  BY <1>4, <1>5, <1>6

\* stable_token_out finds the stablecoin of comparable pools, and no other.
LEMMA StableIs ==
    ASSUME NEW a \in Pools, NEW b \in Pools, a # b
    PROVE  /\ ~ Comparable(a, b) => StableTokenOut(a, b) = ZERO
           /\ Comparable(a, b) =>
                /\ StableTokenOut(a, b) \notin {ZERO, WETH}
                /\ StableTokenOut(a, b)
                     = CHOOSE t \in {Token0[a], Token1[a]} : t # WETH
                /\ StableTokenOut(a, b)
                     = CHOOSE t \in {Token0[b], Token1[b]} : t # WETH
                /\ Comparable(b, a)
<1> DEFINE T == {Token0[a], Token1[a]}
<1>1. /\ WETH # USDC /\ WETH # DAI /\ WETH # ZERO
      /\ ZERO # USDC /\ ZERO # DAI
      /\ T = {Token0[b], Token1[b]} => Token0[a] = Token0[b]
  BY ScanAssumption
<1>2. ASSUME Comparable(a, b)
      PROVE  /\ StableTokenOut(a, b) \notin {ZERO, WETH}
             /\ StableTokenOut(a, b) = CHOOSE t \in T : t # WETH
             /\ T = {Token0[b], Token1[b]} /\ Comparable(b, a)
  <2>1. /\ T = {Token0[b], Token1[b]} /\ Token0[a] = Token0[b]
        /\ T = {WETH, USDC} \/ T = {WETH, DAI}
    BY <1>1, <1>2 DEF Comparable
  <2>2. PICK s \in {USDC, DAI} : /\ T = {WETH, s}
                                 /\ s = USDC \/ USDC \notin T
    BY <1>1, <2>1
  <2>3. s # WETH /\ s # ZERO
    BY <1>1
  <2>4. Token0[a] # Token1[a]
    BY <2>2, <2>3
  <2>5. Token1[a] = Token1[b]
    BY <2>1, <2>4
  <2>6. StableTokenOut(a, b) = s
    BY <1>1, <2>1, <2>2, <2>3, <2>5 DEF StableTokenOut
  <2>7. \A t \in T : t # WETH <=> t = s
    BY <2>2, <2>3
  <2>8. s \in T
    BY <2>2
  <2>9. (CHOOSE t \in T : t # WETH) = s
    BY <2>3, <2>7, <2>8
  <2> QED
    BY <1>2, <2>1, <2>3, <2>6, <2>9 DEF Comparable
<1>3. ASSUME StableTokenOut(a, b) # ZERO
      PROVE  Comparable(a, b)
  <2>1. /\ <<Token0[a], Token1[a]>> = <<Token0[b], Token1[b]>>
        /\ WETH \in T
        /\ USDC \in T \/ DAI \in T
    BY <1>3 DEF StableTokenOut
  <2>2. Token0[a] = Token0[b] /\ Token1[a] = Token1[b]
    BY <2>1
  <2>3. T = {WETH, USDC} \/ T = {WETH, DAI}
    BY <1>1, <2>1
  <2> QED
    BY <2>2, <2>3 DEF Comparable
<1> QED
  BY <1>2, <1>3

\* For comparable pools the quote is the most that a round trip gives.
LEMMA FinalIsMost ==
    ASSUME StoreOK, NEW a \in Pools, NEW b \in Pools, a # b,
           Comparable(a, b)
    PROVE  /\ Final(a, b, StableTokenOut(a, b)) = RoundTrip(a, b)
           /\ Final(b, a, StableTokenOut(a, b)) = RoundTrip(b, a)
<1> DEFINE s == StableTokenOut(a, b)
<1>1. /\ s # WETH
      /\ s = CHOOSE t \in {Token0[a], Token1[a]} : t # WETH
      /\ s = CHOOSE t \in {Token0[b], Token1[b]} : t # WETH
  BY StableIs
<1> HIDE DEF s
<1>2. ASSUME NEW p \in Pools, NEW q \in Pools,
             s = CHOOSE t \in {Token0[p], Token1[p]} : t # WETH
      PROVE  Final(p, q, s) = RoundTrip(p, q)
  <2> DEFINE rp == ReservesForSwap(p, WETH, s)
             rq == ReservesForSwap(q, s, WETH)
  <2>1. /\ rp[1] \in Nat /\ rp[2] \in Nat /\ rq[1] \in Nat /\ rq[2] \in Nat
    BY <1>1, ReservesIs
  <2>2. /\ Final(p, q, s) = GetAmountOut(
             GetAmountOut(AmountIn, rp[1], rp[2]), rq[1], rq[2])
        /\ RoundTrip(p, q) = MostAccepted(
             MostAccepted(AmountIn, rp[1], rp[2]), rq[1], rq[2])
    BY <1>2 DEF Final, RoundTrip
  <2> HIDE DEF rp, rq
  <2>3. AmountIn \in Nat
    BY ScanAssumption
  <2>4. GetAmountOut(AmountIn, rp[1], rp[2]) \in Nat
    BY <2>1, <2>3, QuoteNat
  <2>5. MostAccepted(AmountIn, rp[1], rp[2])
          = GetAmountOut(AmountIn, rp[1], rp[2])
    BY <2>1, <2>3, QuoteIsMost
  <2>6. MostAccepted(GetAmountOut(AmountIn, rp[1], rp[2]), rq[1], rq[2])
          = GetAmountOut(GetAmountOut(AmountIn, rp[1], rp[2]), rq[1], rq[2])
    BY <2>1, <2>4, QuoteIsMost
  <2> QED
    BY <2>2, <2>5, <2>6
<1> QED
  BY <1>1, <1>2 DEF s

\* A round trip that pays, in reserves: none of them is zero, and the pools'
\* prices differ by the fees.
LEMMA PayingNeeds ==
    ASSUME StoreOK, NEW a \in Pools, NEW b \in Pools, NEW t, t # WETH,
           Final(a, b, t) > AmountIn
    PROVE  LET ra == ReservesForSwap(a, WETH, t)
               rb == ReservesForSwap(b, t, WETH)
           IN  /\ ra[1] > 0 /\ ra[2] > 0 /\ rb[1] > 0 /\ rb[2] > 0
               /\ Dearer(ra[1], ra[2], rb[2], rb[1])
<1> DEFINE xa == ReservesForSwap(a, WETH, t)[1]
           ya == ReservesForSwap(a, WETH, t)[2]
           yb == ReservesForSwap(b, t, WETH)[1]
           xb == ReservesForSwap(b, t, WETH)[2]
<1>1. xa \in Nat /\ ya \in Nat /\ yb \in Nat /\ xb \in Nat
  BY ReservesIs
<1>2. GetAmountOut(GetAmountOut(AmountIn, xa, ya), yb, xb) > AmountIn
  BY DEF Final
<1> SUFFICES /\ xa > 0 /\ ya > 0 /\ yb > 0 /\ xb > 0
             /\ Dearer(xa, ya, xb, yb)
  OBVIOUS
<1> HIDE DEF xa, ya, xb, yb
<1>3. AmountIn \in Nat
  BY ScanAssumption
<1>4. yb # 0 /\ xb # 0
  BY <1>2, <1>3 DEF GetAmountOut
<1>5. xa # 0 /\ ya # 0
  <2>1. SUFFICES ASSUME xa = 0 \/ ya = 0
                 PROVE  FALSE
    OBVIOUS
  <2>2. GetAmountOut(AmountIn, xa, ya) = 0
    BY <2>1 DEF GetAmountOut
  <2>3. yb * 1000 + 0 * 997 > 0 /\ yb * 1000 + 0 * 997 \in Nat
    BY <1>1, <1>4
  <2>4. GetAmountOut(0, yb, xb)
          = (0 * 997 * xb) \div (yb * 1000 + 0 * 997)
    BY <1>4 DEF GetAmountOut
  <2>5. 0 * 997 * xb = 0
    BY <1>1
  <2>6. GetAmountOut(0, yb, xb) = 0
    BY <2>3, <2>4, <2>5
  <2> QED
    BY <1>2, <1>3, <2>2, <2>6
<1>6. xa > 0 /\ ya > 0 /\ yb > 0 /\ xb > 0
  BY <1>1, <1>4, <1>5
<1> QED
  BY <1>1, <1>2, <1>3, <1>6, PayingIsDearer

\* Only one of the two directions of a pair pays.
LEMMA OneWayPays ==
    ASSUME StoreOK, NEW a \in Pools, NEW b \in Pools, NEW t, t # WETH,
           Final(a, b, t) > AmountIn
    PROVE  ~ (Final(b, a, t) > AmountIn)
<1> SUFFICES ASSUME Final(b, a, t) > AmountIn
             PROVE  FALSE
  OBVIOUS
<1> DEFINE xa == ReservesForSwap(a, WETH, t)[1]
           ya == ReservesForSwap(a, WETH, t)[2]
           xb == ReservesForSwap(b, WETH, t)[1]
           yb == ReservesForSwap(b, WETH, t)[2]
<1>1. /\ xa \in Nat /\ ya \in Nat /\ yb \in Nat /\ xb \in Nat
      /\ ReservesForSwap(a, t, WETH)[1] = ya
      /\ ReservesForSwap(a, t, WETH)[2] = xa
      /\ ReservesForSwap(b, t, WETH)[1] = yb
      /\ ReservesForSwap(b, t, WETH)[2] = xb
  BY ReservesIs
<1>2. Dearer(xa, ya, xb, yb) /\ xa > 0 /\ ya > 0 /\ xb > 0 /\ yb > 0
  BY <1>1, PayingNeeds
<1>3. Dearer(xb, yb, xa, ya)
  BY <1>1, PayingNeeds
<1> HIDE DEF xa, ya, xb, yb
<1> DEFINE u == xa * yb
           v == xb * ya
<1>4. u \in Nat /\ v \in Nat
  BY <1>1
<1>5. u * 1000000 < v * 994009 /\ v * 1000000 < u * 994009
  BY <1>2, <1>3 DEF Dearer
<1> HIDE DEF u, v
<1> QED
  BY <1>4, <1>5, SMT

\* The opportunity o is the round trip by way of a, t and b.
Offers(o, a, b, t) ==
    LET ra == ReservesForSwap(a, WETH, t)
        rb == ReservesForSwap(b, t, WETH)
    IN  /\ o \in Opportunities
        /\ o.poolA = a /\ o.poolB = b
        /\ o.profit = Final(a, b, t) - AmountIn
        /\ o.spread = SpreadBps(GetSpotPrice(Scale, ra[1], ra[2]),
                                GetSpotPrice(Scale, rb[2], rb[1]))

\* build_opportunity gives an opportunity for a round trip that pays, when
\* ETH has a price, and None otherwise.
LEMMA BuildIs ==
    ASSUME StoreOK, NEW a \in Pools, NEW b \in Pools, NEW t, t # WETH,
           NEW e \in Int
    PROVE  /\ ~ (Final(a, b, t) > AmountIn /\ e > 0)
                => BuildOpportunity(a, b, t, e) = NoOpportunity
           /\ Final(a, b, t) > AmountIn /\ e > 0
                => Offers(BuildOpportunity(a, b, t, e), a, b, t)
<1> DEFINE ra == ReservesForSwap(a, WETH, t)
           rb == ReservesForSwap(b, t, WETH)
           profit == CalculateProfit(AmountIn, ra[1], ra[2], rb[1], rb[2])
           pa == GetSpotPrice(Scale, ra[1], ra[2])
           pb == GetSpotPrice(Scale, rb[2], rb[1])
           o == [poolA |-> a, poolB |-> b, profit |-> profit,
                 spread |-> SpreadBps(pa, pb), usd |-> profit * e]
<1>1. BuildOpportunity(a, b, t, e)
        = IF 0 \in {ra[1], ra[2], rb[1], rb[2], profit} \/ e <= 0
          THEN NoOpportunity ELSE o
  BY DEF BuildOpportunity
<1>2. profit = IF Final(a, b, t) > AmountIn
               THEN Final(a, b, t) - AmountIn ELSE 0
  BY DEF CalculateProfit, Final
<1>3. /\ ra[1] \in Nat /\ ra[2] \in Nat /\ rb[1] \in Nat /\ rb[2] \in Nat
      /\ AmountIn \in Nat /\ Scale \in Nat
  BY ReservesIs, ScanAssumption
<1>4. Final(a, b, t) \in Nat
  <2>1. GetAmountOut(AmountIn, ra[1], ra[2]) \in Nat
    BY <1>3, QuoteNat
  <2>2. Final(a, b, t) = GetAmountOut(GetAmountOut(AmountIn, ra[1], ra[2]),
                                      rb[1], rb[2])
    BY DEF Final
  <2> HIDE DEF ra, rb
  <2> QED
    BY <1>3, <2>1, <2>2, QuoteNat
<1>5. ASSUME ~ (Final(a, b, t) > AmountIn /\ e > 0)
      PROVE  BuildOpportunity(a, b, t, e) = NoOpportunity
  <2> HIDE DEF ra, rb, profit, o
  <2>1. profit = 0 \/ e <= 0
    BY <1>2, <1>5
  <2> QED
    BY <1>1, <2>1
<1>6. ASSUME Final(a, b, t) > AmountIn, e > 0
      PROVE  Offers(BuildOpportunity(a, b, t, e), a, b, t)
  <2>1. ra[1] > 0 /\ ra[2] > 0 /\ rb[1] > 0 /\ rb[2] > 0
    BY <1>6, PayingNeeds
  <2> HIDE DEF ra, rb
  <2>2. pa \in Nat /\ pb \in Nat
    BY <1>3, <2>1, SpotIs
  <2> HIDE DEF pa, pb, profit
  <2>3. profit \in Nat /\ profit > 0 /\ profit = Final(a, b, t) - AmountIn
    BY <1>2, <1>3, <1>4, <1>6
  <2>4. profit * e \in Nat
    BY <1>6, <2>3
  <2>5. SpreadBps(pa, pb) \in Nat
    BY <2>2, SpreadNat
  <2>6. o \in Opportunities
    BY <2>3, <2>4, <2>5 DEF Opportunities
  <2>7. BuildOpportunity(a, b, t, e) = o
    BY <1>1, <1>3, <1>6, <2>1, <2>3
  <2> QED
    BY <2>3, <2>6, <2>7 DEF Offers, pa, pb, ra, rb
<1> QED
  BY <1>5, <1>6

\* scan_pairs on one pair: the direction that pays, if one does.
LEMMA BestOfIs ==
    ASSUME StoreOK, NEW a \in Pools, NEW b \in Pools, a # b, NEW e \in Int
    PROVE  /\ e <= 0 \/ (~ Paying(a, b) /\ ~ Paying(b, a))
                => BestOf(a, b, e) = NoOpportunity
           /\ e > 0 /\ Paying(a, b)
                => Offers(BestOf(a, b, e), a, b, StableTokenOut(a, b))
           /\ e > 0 /\ Paying(b, a)
                => Offers(BestOf(a, b, e), b, a, StableTokenOut(a, b))
<1> DEFINE t == StableTokenOut(a, b)
           ab == BuildOpportunity(a, b, t, e)
           ba == BuildOpportunity(b, a, t, e)
<1>1. BestOf(a, b, e) = IF t = ZERO THEN NoOpportunity
                        ELSE IF ab = NoOpportunity THEN ba
                        ELSE IF ba = NoOpportunity \/ ab.usd >= ba.usd
                        THEN ab ELSE ba
  BY DEF BestOf
<1>2. Comparable(b, a) <=> Comparable(a, b)
  BY StableIs
<1>3. CASE ~ Comparable(a, b)
  <2>1. t = ZERO /\ ~ Paying(a, b) /\ ~ Paying(b, a)
    BY <1>2, <1>3, StableIs DEF Paying
  <2> QED
    BY <1>1, <2>1
<1>4. CASE Comparable(a, b)
  <2>1. t # ZERO /\ t # WETH
    BY <1>4, StableIs
  <2>2. /\ Paying(a, b) <=> Final(a, b, t) > AmountIn
        /\ Paying(b, a) <=> Final(b, a, t) > AmountIn
    BY <1>2, <1>4, FinalIsMost DEF Paying
  <2> HIDE DEF t, ab, ba
  <2>3. /\ e <= 0 \/ ~ Paying(a, b) => ab = NoOpportunity
        /\ e > 0 /\ Paying(a, b) => Offers(ab, a, b, t)
        /\ e <= 0 \/ ~ Paying(b, a) => ba = NoOpportunity
        /\ e > 0 /\ Paying(b, a) => Offers(ba, b, a, t)
    <3>1. e > 0 <=> ~ (e <= 0)
      OBVIOUS
    <3>2. /\ ~ (Final(a, b, t) > AmountIn /\ e > 0) => ab = NoOpportunity
          /\ Final(a, b, t) > AmountIn /\ e > 0 => Offers(ab, a, b, t)
      BY <2>1, BuildIs DEF ab
    <3>3. /\ ~ (Final(b, a, t) > AmountIn /\ e > 0) => ba = NoOpportunity
          /\ Final(b, a, t) > AmountIn /\ e > 0 => Offers(ba, b, a, t)
      BY <2>1, BuildIs DEF ba
    <3> QED
      BY <2>2, <3>1, <3>2, <3>3
  <2>4. /\ Offers(ab, a, b, t) => ab # NoOpportunity
        /\ Offers(ba, b, a, t) => ba # NoOpportunity
    BY ScanAssumption DEF Offers
  <2>5. ~ (Paying(a, b) /\ Paying(b, a))
    BY <2>1, <2>2, OneWayPays
  <2>6. BestOf(a, b, e) = IF ab = NoOpportunity THEN ba
                          ELSE IF ba = NoOpportunity \/ ab.usd >= ba.usd
                          THEN ab ELSE ba
    BY <1>1, <2>1
  <2>7. /\ e <= 0 \/ (~ Paying(a, b) /\ ~ Paying(b, a))
             => BestOf(a, b, e) = NoOpportunity
        /\ e > 0 /\ Paying(a, b) => Offers(BestOf(a, b, e), a, b, t)
        /\ e > 0 /\ Paying(b, a) => Offers(BestOf(a, b, e), b, a, t)
    BY <2>3, <2>4, <2>5, <2>6
  <2> QED
    BY <2>7 DEF t
<1> QED
  BY <1>3, <1>4

\* The opportunity o is the round trip a, b, which pays.
Route(o, a, b) ==
    /\ Paying(a, b)
    /\ Offers(o, a, b, StableTokenOut(a, b))
    /\ o.profit = RoundTrip(a, b) - AmountIn

\* What scan_pairs keeps of a pair is a route, of whichever direction pays.
LEMMA PairRoute ==
    ASSUME StoreOK, NEW a \in Pools, NEW b \in Pools, a # b, NEW e \in Int
    PROVE  LET o == BestOf(a, b, e) IN
           /\ o # NoOpportunity
                => e > 0 /\ (Route(o, a, b) \/ Route(o, b, a))
           /\ e > 0 /\ Paying(a, b) => Route(o, a, b) /\ o # NoOpportunity
           /\ e > 0 /\ Paying(b, a) => Route(o, b, a) /\ o # NoOpportunity
<1> DEFINE o == BestOf(a, b, e)
<1>1. Paying(b, a) => StableTokenOut(b, a) = StableTokenOut(a, b)
  <2>1. SUFFICES ASSUME Paying(b, a)
                 PROVE  StableTokenOut(b, a) = StableTokenOut(a, b)
    OBVIOUS
  <2>2. Comparable(b, a)
    BY <2>1 DEF Paying
  <2>3. Comparable(a, b)
    BY <2>2, StableIs
  <2>4. StableTokenOut(a, b) = CHOOSE t \in {Token0[a], Token1[a]} : t # WETH
    BY <2>3, StableIs
  <2>5. StableTokenOut(b, a) = CHOOSE t \in {Token0[a], Token1[a]} : t # WETH
    BY <2>2, StableIs
  <2> QED
    BY <2>4, <2>5
<1>2. /\ Paying(a, b)
           => Final(a, b, StableTokenOut(a, b)) = RoundTrip(a, b)
      /\ Paying(b, a)
           => Final(b, a, StableTokenOut(b, a)) = RoundTrip(b, a)
  BY FinalIsMost DEF Paying
<1>3. /\ e <= 0 \/ (~ Paying(a, b) /\ ~ Paying(b, a)) => o = NoOpportunity
      /\ e > 0 /\ Paying(a, b) => Offers(o, a, b, StableTokenOut(a, b))
      /\ e > 0 /\ Paying(b, a) => Offers(o, b, a, StableTokenOut(a, b))
  BY BestOfIs
<1> HIDE DEF o
<1>4. /\ e > 0 /\ Paying(a, b) => Route(o, a, b) /\ o # NoOpportunity
      /\ e > 0 /\ Paying(b, a) => Route(o, b, a) /\ o # NoOpportunity
  BY <1>1, <1>2, <1>3, ScanAssumption DEF Route, Offers
<1>5. e > 0 \/ e <= 0
  OBVIOUS
<1> QED
  BY <1>3, <1>4, <1>5 DEF o

\* scan_pairs: nothing without a price; otherwise each route that pays, and
\* no pair of pools twice.
LEMMA ScanIs ==
    ASSUME StoreOK, NEW e \in Int
    PROVE  LET s == ScanPairs(e) IN
           /\ s \in Seq(Opportunities) /\ Len(s) <= Len(PoolPairs)
           /\ \A i \in 1..Len(s) : /\ e > 0
                                   /\ \E a, b \in Pools : Route(s[i], a, b)
           /\ e > 0 => \A a, b \in Pools : Paying(a, b) =>
                \E i \in 1..Len(s) : Route(s[i], a, b)
           /\ \A i, j \in 1..Len(s) :
                {s[i].poolA, s[i].poolB} = {s[j].poolA, s[j].poolB} => i = j
<1> DEFINE N == Len(PoolPairs)
           best == [k \in 1..N |-> BestOf(PoolPairs[k][1], PoolPairs[k][2], e)]
           T == {best[k] : k \in 1..Len(best)} \ {NoOpportunity}
           s == ScanPairs(e)
           S == T \cup {NoOpportunity}
<1>1. s = Filter(best, T)
  BY DEF ScanPairs
<1>2. N \in Nat
  BY PoolPairsListed
<1>3. best \in Seq(S) /\ Len(best) = N
  <2> HIDE DEF N
  <2> DEFINE B(k) == BestOf(PoolPairs[k][1], PoolPairs[k][2], e)
             f == [k \in 1..N |-> B(k)]
             D == {f[k] : k \in 1..Len(f)} \ {NoOpportunity}
  <2>1. f = best /\ D = T
    OBVIOUS
  <2> HIDE DEF B, best, T
  <2>2. Len(f) = N
    BY <1>2
  <2>3. \A k \in 1..N : f[k] \in D \cup {NoOpportunity}
    BY <2>2
  <2>4. f \in Seq(D \cup {NoOpportunity})
    BY <1>2, <2>2, <2>3
  <2> QED
    BY <2>1, <2>2, <2>4
<1>4. ASSUME NEW k \in 1..N
      PROVE  LET a == PoolPairs[k][1]
                 b == PoolPairs[k][2]
             IN  /\ a \in Pools /\ b \in Pools /\ a # b
                 /\ best[k] \in T => /\ e > 0
                                     /\ \/ Route(best[k], a, b)
                                        \/ Route(best[k], b, a)
                 /\ e > 0 /\ Paying(a, b)
                      => Route(best[k], a, b) /\ best[k] # NoOpportunity
                 /\ e > 0 /\ Paying(b, a)
                      => Route(best[k], b, a) /\ best[k] # NoOpportunity
  <2> DEFINE a == PoolPairs[k][1]
             b == PoolPairs[k][2]
  <2>1. a \in Pools /\ b \in Pools /\ a # b
    BY PoolPairsListed
  <2>2. best[k] = BestOf(a, b, e)
    OBVIOUS
  <2>3. best[k] \in T => best[k] # NoOpportunity
    OBVIOUS
  <2> HIDE DEF a, b, best, T
  <2>4. /\ best[k] # NoOpportunity
              => e > 0 /\ (Route(best[k], a, b) \/ Route(best[k], b, a))
        /\ e > 0 /\ Paying(a, b)
              => Route(best[k], a, b) /\ best[k] # NoOpportunity
        /\ e > 0 /\ Paying(b, a)
              => Route(best[k], b, a) /\ best[k] # NoOpportunity
    BY <2>1, <2>2, PairRoute
  <2>5. /\ a \in Pools /\ b \in Pools /\ a # b
        /\ best[k] \in T => /\ e > 0
                            /\ Route(best[k], a, b) \/ Route(best[k], b, a)
    BY <2>1, <2>3, <2>4
  <2> QED
    BY <2>4, <2>5 DEF a, b
<1>5. \A k \in 1..N : best[k] # NoOpportunity => best[k] \in T
  BY <1>3
<1> HIDE DEF best, T, s, S
<1>6. PICK g : Tracks(g, s, best, N, T)
  BY <1>1, <1>3, FilterTracks
<1>7. /\ s \in Seq(S) /\ Len(s) <= N /\ Len(s) \in Nat
      /\ g \in [1..Len(s) -> 1..N]
      /\ \A i, j \in 1..Len(s) : i < j => g[i] < g[j]
      /\ \A i \in 1..Len(s) : s[i] = best[g[i]] /\ best[g[i]] \in T
      /\ \A k \in 1..N : best[k] \in T => \E i \in 1..Len(s) : g[i] = k
  <2>1. s \in Seq(S) /\ Len(s) <= N
    BY <1>1, <1>3, FilterType
  <2>2. Len(s) \in Nat
    BY <2>1
  <2> QED
    BY <1>6, <2>1, <2>2 DEF Tracks
<1> DEFINE A(i) == PoolPairs[g[i]][1]
           B(i) == PoolPairs[g[i]][2]
<1>8. ASSUME NEW i \in 1..Len(s)
      PROVE  /\ e > 0 /\ A(i) \in Pools /\ B(i) \in Pools
             /\ Route(s[i], A(i), B(i)) \/ Route(s[i], B(i), A(i))
  BY <1>4, <1>7
<1>9. \A i \in 1..Len(s) : /\ s[i] \in Opportunities
                           /\ {s[i].poolA, s[i].poolB} = {A(i), B(i)}
  <2> SUFFICES ASSUME NEW i \in 1..Len(s)
               PROVE  /\ s[i] \in Opportunities
                      /\ {s[i].poolA, s[i].poolB} = {A(i), B(i)}
    OBVIOUS
  <2> HIDE DEF A, B
  <2>1. Route(s[i], A(i), B(i)) \/ Route(s[i], B(i), A(i))
    BY <1>8
  <2> QED
    BY <2>1 DEF Route, Offers
<1>10. s \in Seq(Opportunities)
  BY <1>7, <1>9
<1>11. ASSUME e > 0, NEW a \in Pools, NEW b \in Pools, Paying(a, b)
       PROVE  \E i \in 1..Len(s) : Route(s[i], a, b)
  <2>1. a # b
    BY <1>11 DEF Paying, Comparable
  <2>2. PICK k \in 1..N : PoolPairs[k] = <<a, b>> \/ PoolPairs[k] = <<b, a>>
    BY <2>1, PoolPairsListed
  <2>3. Route(best[k], a, b) /\ best[k] # NoOpportunity
    BY <1>4, <1>11, <2>2
  <2>4. best[k] \in T
    BY <1>5, <2>3
  <2> QED
    BY <1>7, <2>3, <2>4
<1>12. ASSUME NEW i \in 1..Len(s), NEW j \in 1..Len(s),
              {s[i].poolA, s[i].poolB} = {s[j].poolA, s[j].poolB}
       PROVE  i = j
  <2>1. {A(i), B(i)} = {A(j), B(j)}
    BY <1>9, <1>12
  <2>2. g[i] \in 1..N /\ g[j] \in 1..N
    BY <1>7
  <2>3. g[i] = g[j]
    BY <2>1, <2>2, PoolPairsListed
  <2> QED
    BY <1>7, <2>2, <2>3
<1>13. \A i \in 1..Len(s) : e > 0 /\ \E a, b \in Pools : Route(s[i], a, b)
  <2> SUFFICES ASSUME NEW i \in 1..Len(s)
               PROVE  e > 0 /\ \E a, b \in Pools : Route(s[i], a, b)
    OBVIOUS
  <2> HIDE DEF A, B
  <2> QED
    BY <1>8
<1>14. e > 0 => \A a, b \in Pools : Paying(a, b) =>
         \E i \in 1..Len(s) : Route(s[i], a, b)
  BY <1>11
<1>15. \A i, j \in 1..Len(s) :
         {s[i].poolA, s[i].poolB} = {s[j].poolA, s[j].poolB} => i = j
  BY <1>12
<1> QED
  BY <1>7, <1>10, <1>13, <1>14, <1>15 DEF s

\* Where the prices are fine enough, the spread of a route covers the fees.
LEMMA RouteSpread ==
    ASSUME StoreOK, FinePrices, NEW o, NEW a \in Pools, NEW b \in Pools,
           Route(o, a, b)
    PROVE  o.spread >= 60
<1> DEFINE t == StableTokenOut(a, b)
           xa == ReservesForSwap(a, WETH, t)[1]
           ya == ReservesForSwap(a, WETH, t)[2]
           yb == ReservesForSwap(b, t, WETH)[1]
           xb == ReservesForSwap(b, t, WETH)[2]
<1>1. Paying(a, b) /\ Comparable(a, b) /\ a # b
  BY DEF Route, Paying, Comparable
<1>2. t # WETH
  BY <1>1, StableIs
<1>3. Final(a, b, t) > AmountIn
  BY <1>1, FinalIsMost DEF Paying
<1>4. o.spread = SpreadBps(GetSpotPrice(Scale, xa, ya),
                           GetSpotPrice(Scale, xb, yb))
  BY DEF Route, Offers
<1> HIDE DEF t
<1>5. xa \in Nat /\ ya \in Nat /\ xb \in Nat /\ yb \in Nat
  BY <1>2, ReservesIs
<1>6. /\ xa > 0 /\ ya > 0 /\ xb > 0 /\ yb > 0
      /\ Dearer(xa, ya, xb, yb)
  BY <1>2, <1>3, PayingNeeds
<1>7. \/ xb = store[b][1] /\ yb = store[b][2]
      \/ xb = store[b][2] /\ yb = store[b][1]
  <2> DEFINE r == ReservesForSwap(b, t, WETH)
  <2>1. r \in {store[b], <<store[b][2], store[b][1]>>, <<0, 0>>}
    BY DEF ReservesForSwap
  <2>2. r # <<0, 0>>
    BY <1>6
  <2> HIDE DEF r
  <2>3. r = store[b] \/ r = <<store[b][2], store[b][1]>>
    BY <2>1, <2>2
  <2>4. \/ r[2] = store[b][1] /\ r[1] = store[b][2]
        \/ r[2] = store[b][2] /\ r[1] = store[b][1]
    BY <2>3
  <2> QED
    BY <2>4 DEF r
<1> HIDE DEF xa, ya, xb, yb
<1>8. store[b] \in Levels
  <2>1. store[b] \in Levels \/ store[b] = <<0, 0>>
    BY DEF StoreOK
  <2> QED
    BY <1>6, <1>7, <2>1
<1>9. GetSpotPrice(Scale, xb, yb) >= Finest
  BY <1>6, <1>7, <1>8 DEF FinePrices
<1>10. Scale \in Nat
  BY ScanAssumption
<1> QED
  BY <1>4, <1>5, <1>6, <1>9, <1>10, SpreadShows

-----------------------------------------------------------------------------
(* The invariants.                                                         *)

\* A decision on record is what its own numbers give at its own threshold.
RowsDecided ==
    \A i \in 1..Len(rows) :
        rows[i].decision = Recompute(rows[i], rows[i].threshold)

\* Opportunities only come of a price, so that gas has one in USD.
ScanInv ==
    /\ TypeOK
    /\ opps # << >> => price > 0
    /\ RowsDecided

\* The scan keeps the invariant.
LEMMA ScanKeeps ==
    ASSUME ScanInv, Scan
    PROVE  ScanInv'
<1>1. StoreOK
  BY DEF ScanInv, TypeOK, StoreOK
<1>2. price' \in Prices \cup {0} /\ price' \in Int /\ gas' \in GasCosts
  BY ScanAssumption DEF Scan, ScanInv, TypeOK
<1>3. /\ opps' \in Seq(Opportunities) /\ Len(opps') <= Len(PoolPairs)
      /\ \A i \in 1..Len(opps') : price' > 0
  <2> DEFINE e == price'
  <2>1. e \in Int /\ opps' = ScanPairs(e)
    BY <1>2 DEF Scan
  <2> HIDE DEF e
  <2>2. /\ ScanPairs(e) \in Seq(Opportunities)
        /\ Len(ScanPairs(e)) <= Len(PoolPairs)
        /\ \A i \in 1..Len(ScanPairs(e)) : e > 0
    BY <1>1, <2>1, ScanIs
  <2> QED
    BY <2>1, <2>2 DEF e
<1>4. opps' # << >> => price' > 0
  <2>1. opps' # << >> => 1 \in 1..Len(opps')
    BY <1>3
  <2> QED
    BY <1>3, <2>1
<1>5. UNCHANGED <<store, threshold, rows>>
  BY DEF Scan
<1>6. PoolPairs' = PoolPairs
  BY DEF PoolPairs, PairAt, UpTo, IndexPairs
<1>7. TypeOK'
  BY <1>2, <1>3, <1>5, <1>6 DEF TypeOK, ScanInv
<1>8. RowsDecided'
  BY <1>5 DEF ScanInv, RowsDecided, Recompute
<1> QED
  BY <1>4, <1>7, <1>8 DEF ScanInv

\* Deciding keeps it.
LEMMA DecideKeeps ==
    ASSUME ScanInv, Decide
    PROVE  ScanInv'
<1> DEFINE row == [usd |-> Head(opps).usd, gasUsd |-> gas * price,
                   decision |-> Evaluate(Head(opps), gas, price, threshold),
                   threshold |-> threshold]
           R == [usd : Nat, gasUsd : Nat, decision : {"go", "no-go"},
                 threshold : Thresholds]
<1>1. /\ opps # << >> /\ opps \in Seq(Opportunities)
      /\ Len(opps) <= Len(PoolPairs) /\ Len(PoolPairs) \in Nat
      /\ rows' = Append(rows, row) /\ opps' = Tail(opps)
      /\ UNCHANGED <<store, price, gas, threshold>>
      /\ rows \in Seq(R)
  BY PoolPairsListed DEF Decide, ScanInv, TypeOK
<1>2. price > 0 /\ price \in Int /\ gas \in Nat /\ threshold \in Thresholds
  BY <1>1, ScanAssumption DEF ScanInv, TypeOK
<1>3. Head(opps) \in Opportunities
  BY <1>1
<1>4. Head(opps).usd \in Nat
  BY <1>3 DEF Opportunities
<1>5. gas * price \in Nat
  BY <1>2
<1>6. row \in R
  BY <1>2, <1>4, <1>5 DEF Evaluate
<1>7. row.decision = Recompute(row, row.threshold)
  BY DEF Evaluate, Recompute
<1> HIDE DEF row, R
<1>8. /\ rows' \in Seq(R) /\ Len(rows') = Len(rows) + 1
      /\ \A i \in 1..Len(rows) : rows'[i] = rows[i]
      /\ rows'[Len(rows) + 1] = row
  BY <1>1, <1>6
<1>9. /\ opps' \in Seq(Opportunities) /\ Len(opps') <= Len(PoolPairs)
  BY <1>1
<1>10. PoolPairs' = PoolPairs
  BY DEF PoolPairs, PairAt, UpTo, IndexPairs
<1>11. TypeOK'
  BY <1>1, <1>8, <1>9, <1>10 DEF TypeOK, ScanInv, R
<1>12. \A i \in 1..Len(rows') :
         rows'[i].decision = Recompute(rows'[i], rows'[i].threshold)
  <2> SUFFICES ASSUME NEW i \in 1..Len(rows')
               PROVE  rows'[i].decision
                        = Recompute(rows'[i], rows'[i].threshold)
    OBVIOUS
  <2>1. Len(rows) \in Nat
    BY <1>1
  <2>2. CASE i = Len(rows) + 1
    BY <1>7, <1>8, <2>2
  <2>3. CASE i \in 1..Len(rows)
    BY <1>8, <2>3 DEF ScanInv, RowsDecided
  <2> QED
    BY <1>8, <2>1, <2>2, <2>3
<1>13. RowsDecided'
  BY <1>12 DEF RowsDecided, Recompute
<1> QED
  BY <1>1, <1>2, <1>11, <1>13 DEF ScanInv

\* The inductive invariant.
LEMMA ScanInvariant == Spec => []ScanInv
<1>1. Init => ScanInv
  <2> SUFFICES ASSUME Init
               PROVE  ScanInv
    OBVIOUS
  <2>1. Len(PoolPairs) \in Nat
    BY PoolPairsListed
  <2>2. TypeOK
    BY <2>1 DEF Init, TypeOK
  <2> QED
    BY <2>2 DEF Init, ScanInv, RowsDecided
<1>2. ScanInv /\ [Next]_vars => ScanInv'
  <2> SUFFICES ASSUME ScanInv, [Next]_vars
               PROVE  ScanInv'
    OBVIOUS
  <2>1. PoolPairs' = PoolPairs /\ Len(PoolPairs) \in Nat
    BY PoolPairsListed DEF PoolPairs, PairAt, UpTo, IndexPairs
  <2>2. ASSUME NEW p \in Pools, NEW r \in Levels, ApplySync(p, r)
        PROVE  ScanInv'
    <3>1. TypeOK'
      BY <2>1, <2>2 DEF ApplySync, ScanInv, TypeOK
    <3> QED
      BY <2>2, <3>1 DEF ApplySync, ScanInv, RowsDecided, Recompute
  <2>3. CASE Scan
    BY <2>3, ScanKeeps
  <2>4. CASE Decide
    BY <2>4, DecideKeeps
  <2>5. CASE Restart
    <3>1. TypeOK'
      BY <2>1, <2>5 DEF Restart, ScanInv, TypeOK
    <3> QED
      BY <2>5, <3>1 DEF Restart, ScanInv, RowsDecided, Recompute
  <2>6. CASE UNCHANGED vars
    <3>1. TypeOK'
      BY <2>1, <2>6 DEF vars, ScanInv, TypeOK
    <3> QED
      BY <2>6, <3>1 DEF vars, ScanInv, RowsDecided, Recompute
  <2> QED
    BY <2>2, <2>3, <2>4, <2>5, <2>6 DEF Next
<1> QED
  BY <1>1, <1>2, PTL DEF Spec

\* The scanner's state has its types: what scan_pairs reports are
\* opportunities, no more than there are pairs of pools, with profits and
\* spreads that are naturals, and gas on record is never negative.
THEOREM ScanTypeCorrect == Spec => []TypeOK
<1>1. ScanInv => TypeOK
  BY DEF ScanInv
<1> QED
  BY <1>1, ScanInvariant, PTL

\* run_backtest decides as the bot did, and a higher threshold only turns
\* "go" into "no-go".
THEOREM BacktestMatches == Spec => []BacktestAgrees
<1>1. ScanInv => BacktestAgrees
  <2> SUFFICES ASSUME ScanInv, NEW m \in Thresholds,
                      NEW i \in 1..Len(rows)
               PROVE  /\ m = rows[i].threshold => i \notin Mismatches(m)
                      /\ m > rows[i].threshold /\ i \in Mismatches(m)
                           => rows[i].decision = "go"
    BY DEF BacktestAgrees
  <2>1. rows[i].decision = Recompute(rows[i], rows[i].threshold)
    BY DEF ScanInv, RowsDecided
  <2> DEFINE R == [usd : Nat, gasUsd : Nat, decision : {"go", "no-go"},
                   threshold : Thresholds]
  <2>2. rows[i] \in R
    <3>1. rows \in Seq(R)
      BY DEF ScanInv, TypeOK
    <3> HIDE DEF R
    <3> QED
      BY <3>1
  <2>3. /\ rows[i].usd \in Nat /\ rows[i].gasUsd \in Nat
        /\ rows[i].threshold \in Int /\ m \in Int
        /\ rows[i].decision \in {"go", "no-go"}
    BY <2>2, ScanAssumption
  <2> QED
    BY <2>1, <2>3 DEF Mismatches, Recompute
<1> QED
  BY <1>1, ScanInvariant, PTL

\* scan_pairs reports every round trip that pays, once, with the most the
\* pairs give, and nothing else.
THEOREM ScanIsComplete == Spec => ScanFindsAllRoutes
<1> DEFINE Found ==
      Scan =>
         /\ {<<opps'[i].poolA, opps'[i].poolB, opps'[i].profit>> :
               i \in 1..Len(opps')}
               = IF price' > 0 THEN PayingRoutes ELSE {}
         /\ \A i, j \in 1..Len(opps') :
              {opps'[i].poolA, opps'[i].poolB}
                  = {opps'[j].poolA, opps'[j].poolB} => i = j
<1>1. ScanInv /\ [Next]_vars => [Found]_vars
  <2> SUFFICES ASSUME ScanInv, Scan
               PROVE  Found
    OBVIOUS
  <2> DEFINE e == price'
             s == ScanPairs(e)
             Of(o) == <<o.poolA, o.poolB, o.profit>>
             Seen == {Of(s[i]) : i \in 1..Len(s)}
  <2>1. e \in Int /\ opps' = s /\ StoreOK
    BY ScanAssumption DEF Scan, ScanInv, TypeOK, StoreOK
  <2> HIDE DEF e
  <2>2. /\ \A i \in 1..Len(s) : e > 0 /\ \E a, b \in Pools : Route(s[i], a, b)
        /\ e > 0 => \A a, b \in Pools : Paying(a, b) =>
             \E i \in 1..Len(s) : Route(s[i], a, b)
        /\ \A i, j \in 1..Len(s) :
             {s[i].poolA, s[i].poolB} = {s[j].poolA, s[j].poolB} => i = j
    BY <2>1, ScanIs
  <2> HIDE DEF s
  <2>3. ASSUME NEW o, NEW a, NEW b, Route(o, a, b)
        PROVE  Of(o) = <<a, b, RoundTrip(a, b) - AmountIn>> /\ Paying(a, b)
    BY <2>3 DEF Route, Offers
  <2> HIDE DEF Of
  <2>4. Seen = IF e > 0 THEN PayingRoutes ELSE {}
    <3>1. CASE ~ (e > 0)
      BY <2>2, <3>1
    <3>2. CASE e > 0
      <4>1. ASSUME NEW i \in 1..Len(s)
            PROVE  Of(s[i]) \in PayingRoutes
        <5>1. PICK a \in Pools, b \in Pools : Route(s[i], a, b)
          BY <2>2
        <5>2. /\ Of(s[i]) = <<a, b, RoundTrip(a, b) - AmountIn>>
              /\ Paying(a, b)
          BY <2>3, <5>1
        <5>3. <<a, b>> \in {p \in Pools \X Pools : Paying(p[1], p[2])}
          BY <5>2
        <5> QED
          BY <5>2, <5>3 DEF PayingRoutes
      <4>2. ASSUME NEW x \in PayingRoutes
            PROVE  x \in Seen
        <5>1. PICK r \in {p \in Pools \X Pools : Paying(p[1], p[2])} :
                x = <<r[1], r[2], RoundTrip(r[1], r[2]) - AmountIn>>
          BY DEF PayingRoutes
        <5>2. r[1] \in Pools /\ r[2] \in Pools /\ Paying(r[1], r[2])
          BY <5>1
        <5>3. PICK i \in 1..Len(s) : Route(s[i], r[1], r[2])
          BY <2>2, <3>2, <5>2
        <5>4. Of(s[i]) = x
          BY <2>3, <5>1, <5>3
        <5> QED
          BY <5>4
      <4> QED
        BY <3>2, <4>1, <4>2
    <3> QED
      BY <3>1, <3>2
  <2>5. {<<s[i].poolA, s[i].poolB, s[i].profit>> : i \in 1..Len(s)} = Seen
    BY DEF Of
  <2> QED
    BY <2>1, <2>2, <2>4, <2>5 DEF e
<1> QED
  BY <1>1, ScanInvariant, PTL DEF Spec, ScanFindsAllRoutes

\* The spread on record pays for both swaps, where the prices of the pools
\* are no finer than the scale of the code shows.
THEOREM SpreadsCoverFees == FinePrices /\ Spec => []SpreadCoversFees
<1> SUFFICES ASSUME FinePrices
             PROVE  Spec => []SpreadCoversFees
  OBVIOUS
<1>1. Init => SpreadCoversFees
  BY DEF Init, SpreadCoversFees
<1>2. ScanInv /\ SpreadCoversFees /\ [Next]_vars => SpreadCoversFees'
  <2> SUFFICES ASSUME ScanInv, SpreadCoversFees, [Next]_vars
               PROVE  SpreadCoversFees'
    OBVIOUS
  <2>1. CASE UNCHANGED opps
    BY <2>1 DEF SpreadCoversFees
  <2>2. CASE Scan
    <3> DEFINE e == price'
               s == ScanPairs(e)
    <3>1. e \in Int /\ opps' = s /\ StoreOK
      BY <2>2, ScanAssumption DEF Scan, ScanInv, TypeOK, StoreOK
    <3> HIDE DEF e
    <3>2. \A i \in 1..Len(s) : \E a, b \in Pools : Route(s[i], a, b)
      BY <3>1, ScanIs
    <3> HIDE DEF s
    <3>3. \A i \in 1..Len(s) : s[i].spread >= 60
      BY <3>1, <3>2, RouteSpread
    <3> QED
      BY <3>1, <3>3 DEF SpreadCoversFees
  <2>3. CASE Decide
    <3>1. opps # << >> /\ opps \in Seq(Opportunities) /\ opps' = Tail(opps)
      BY <2>3 DEF Decide, ScanInv, TypeOK
    <3>2. /\ Len(opps) \in Nat /\ Len(opps') = Len(opps) - 1
          /\ \A i \in 1..Len(opps') : opps'[i] = opps[i + 1]
      BY <3>1
    <3>3. \A i \in 1..Len(opps') : opps'[i].spread >= 60
      BY <3>2 DEF SpreadCoversFees
    <3> QED
      BY <3>3 DEF SpreadCoversFees
  <2>4. CASE Restart
    <3>1. Len(opps') = 0
      BY <2>4 DEF Restart
    <3> QED
      BY <3>1 DEF SpreadCoversFees
  <2> QED
    BY <2>1, <2>2, <2>3, <2>4 DEF Next, vars, ApplySync
<1> QED
  BY <1>1, <1>2, ScanInvariant, PTL DEF Spec

\* FinePrices is needed: on a coarse scale a round trip can pay while both
\* prices, cut off, are the same and the spread on record is zero.
LEMMA CoarsePricesHide ==
    \E x, k, xa, ya, xb, yb \in Nat \ {0} :
        /\ CalculateProfit(x, xa, ya, yb, xb) > 0
        /\ SpreadBps(GetSpotPrice(k, xa, ya), GetSpotPrice(k, xb, yb)) = 0
<1> DEFINE m == 1000000
           y == 1020000
<1>1. GetAmountOut(1000, m, y) = 1015
  BY DEF GetAmountOut
<1>2. GetAmountOut(1015, m, m) = 1010
  BY DEF GetAmountOut
<1>3. CalculateProfit(1000, m, y, m, m) = 10
  BY <1>1, <1>2 DEF CalculateProfit
<1>4. GetSpotPrice(10, m, y) = 10 /\ GetSpotPrice(10, m, m) = 10
  BY DEF GetSpotPrice
<1>5. SpreadBps(GetSpotPrice(10, m, y), GetSpotPrice(10, m, m)) = 0
  BY <1>4 DEF SpreadBps
<1>6. 10 > 0 /\ {1000, 10, m, y} \subseteq Nat \ {0}
  OBVIOUS
<1> HIDE DEF m, y
<1> QED
  BY <1>3, <1>5, <1>6

-----------------------------------------------------------------------------
(* Width.                                                                  *)

\* Every product and sum that scan_pairs computes for one direction of a
\* pair, before any division: those of both quotes, of both prices and of
\* the spread.
Computed(a, b, t) ==
    LET ra == ReservesForSwap(a, WETH, t)
        rb == ReservesForSwap(b, t, WETH)
        mid == GetAmountOut(AmountIn, ra[1], ra[2])
        priceA == GetSpotPrice(Scale, ra[1], ra[2])
        priceB == GetSpotPrice(Scale, rb[2], rb[1])
    IN  {AmountIn * 997 * ra[2], ra[1] * 1000 + AmountIn * 997,
         mid * 997 * rb[2], rb[1] * 1000 + mid * 997,
         ra[2] * Scale, rb[1] * Scale,
         (priceA - priceB) * 10000, (priceB - priceA) * 10000}

\* The inputs are no larger than R: uint112 for the reserves of a pair, and
\* 10^18 for the amount and the scale.
InputsUpTo(R) ==
    /\ \A l \in Levels : l[1] <= R /\ l[2] <= R
    /\ AmountIn <= R /\ Scale <= R

\* No value needs more than 14 bits beyond twice the width of the inputs.
NoWiderThan(R) ==
    \A a, b \in Pools : \A t \in {USDC, DAI} : \A v \in Computed(a, b, t) :
        v <= 10000 * (R * R)

\* The product of two numbers up to R.
LEMMA ProductUpTo ==
    ASSUME NEW R \in Nat, NEW x \in Nat, NEW y \in Nat, x <= R, y <= R
    PROVE  x * y \in Nat /\ R * R \in Nat /\ x * y <= R * R
<1>1. x * y <= R * y /\ x * y \in Nat /\ R * y \in Nat
  BY TimesGrows
<1>2. y * R <= R * R /\ y * R \in Nat /\ R * R \in Nat
  BY TimesGrows
<1>3. y * R = R * y
  OBVIOUS
<1> QED
  BY <1>1, <1>2, <1>3

\* Swapping never gives out more than the reserve.
LEMMA QuoteWithinReserve ==
    ASSUME NEW x \in Nat, NEW r \in Nat, NEW s \in Nat
    PROVE  GetAmountOut(x, r, s) \in Nat /\ GetAmountOut(x, r, s) <= s
<1>1. CASE r = 0 \/ s = 0
  BY <1>1 DEF GetAmountOut
<1>2. CASE r > 0 /\ s > 0
  <2> DEFINE q == GetAmountOut(x, r, s)
             d == r * 1000 + x * 997
  <2>1. q \in Nat /\ d \in Nat /\ d > 0 /\ q * d <= x * 997 * s
    BY <1>2, QuoteIs
  <2>2. s * d = s * (r * 1000) + x * 997 * s
    BY SMT
  <2>3. s * (r * 1000) \in Nat /\ x * 997 * s \in Nat
    BY SMT
  <2> HIDE DEF q, d
  <2>4. q * d \in Nat /\ s * d \in Nat /\ q * d <= s * d
    BY <2>1, <2>2, <2>3
  <2>5. ~ (s * d < q * d)
    BY <2>4
  <2>6. ~ (s < q)
    BY <2>1, <2>5, TimesGrowsStrictly
  <2> QED
    BY <2>1, <2>6 DEF q
<1> QED
  BY <1>1, <1>2

\* The values of one quote, with an input and reserves up to R.
LEMMA QuoteWidth ==
    ASSUME NEW R \in Nat, R > 0, NEW x \in Nat, NEW r \in Nat, NEW s \in Nat,
           x <= R, r <= R, s <= R
    PROVE  /\ x * 997 * s <= 10000 * (R * R)
           /\ r * 1000 + x * 997 <= 10000 * (R * R)
<1>1. x * s \in Nat /\ R * R \in Nat /\ x * s <= R * R
  BY ProductUpTo
<1>2. x * 997 * s = 997 * (x * s)
  BY SMT
<1>3. R * 1 <= R * R
  BY ProductUpTo
<1>4. r * 1000 + x * 997 <= 1997 * R
  OBVIOUS
<1> QED
  BY <1>1, <1>2, <1>3, <1>4

\* The value of one price, and the price.
LEMMA PriceWidth ==
    ASSUME NEW R \in Nat, NEW k \in Nat, NEW r \in Nat, NEW s \in Nat,
           k <= R, r <= R, s <= R
    PROVE  /\ s * k \in Nat /\ s * k <= R * R /\ R * R \in Nat
           /\ GetSpotPrice(k, r, s) \in Nat
           /\ GetSpotPrice(k, r, s) <= R * R
<1>1. s * k \in Nat /\ R * R \in Nat /\ s * k <= R * R
  BY ProductUpTo
<1>2. CASE r = 0
  BY <1>1, <1>2 DEF GetSpotPrice
<1>3. CASE r > 0
  <2> DEFINE n == s * k
             p == n \div r
  <2>1. n \in Nat /\ n <= R * R
    BY <1>1
  <2> HIDE DEF n
  <2>2. p \in Nat /\ p * r <= n
    BY <1>3, <2>1, DivIs
  <2>3. p <= p * r
    <3> HIDE DEF p
    <3>1. 1 * p <= r * p
      BY <1>3, <2>2, TimesGrows
    <3> QED
      BY <2>2, <3>1
  <2>4. GetSpotPrice(k, r, s) = p
    BY <1>3 DEF GetSpotPrice, n
  <2> HIDE DEF p
  <2>5. p * r \in Nat
    BY <2>2
  <2> QED
    BY <1>1, <2>1, <2>2, <2>3, <2>4, <2>5
<1> QED
  BY <1>2, <1>3

\* The arithmetic of scan_pairs never overflows: reserves of at most 112 bits
\* give values of at most 238, and mid, the outcome of the first swap, is no
\* wider than a reserve however it was quoted.  U256 arithmetic, unchecked in
\* get_amount_out, is therefore the arithmetic of naturals this model uses,
\* in every reachable state.
THEOREM ScanFitsItsWords ==
    ASSUME NEW R \in Nat, R > 0, InputsUpTo(R)
    PROVE  Spec => []NoWiderThan(R)
<1>1. ScanInv => NoWiderThan(R)
  <2> SUFFICES ASSUME ScanInv, NEW a \in Pools, NEW b \in Pools,
                      NEW t \in {USDC, DAI}, NEW v \in Computed(a, b, t)
               PROVE  v <= 10000 * (R * R)
    BY DEF NoWiderThan
  <2> DEFINE xa == ReservesForSwap(a, WETH, t)[1]
             ya == ReservesForSwap(a, WETH, t)[2]
             yb == ReservesForSwap(b, t, WETH)[1]
             xb == ReservesForSwap(b, t, WETH)[2]
             mid == GetAmountOut(AmountIn, xa, ya)
             priceA == GetSpotPrice(Scale, xa, ya)
             priceB == GetSpotPrice(Scale, xb, yb)
  <2>1. StoreOK /\ t # WETH /\ AmountIn \in Nat /\ Scale \in Nat
    BY ScanAssumption DEF ScanInv, TypeOK, StoreOK
  <2>2. AmountIn <= R /\ Scale <= R
    BY DEF InputsUpTo
  <2>3. ASSUME NEW p \in Pools
        PROVE  store[p][1] <= R /\ store[p][2] <= R
    <3>1. store[p] \in Levels \/ store[p] = <<0, 0>>
      BY <2>1 DEF StoreOK
    <3> QED
      BY <3>1 DEF InputsUpTo
  <2>4. ASSUME NEW p \in Pools, NEW u, NEW w, u # w
        PROVE  /\ ReservesForSwap(p, u, w)[1] \in Nat
               /\ ReservesForSwap(p, u, w)[2] \in Nat
               /\ ReservesForSwap(p, u, w)[1] <= R
               /\ ReservesForSwap(p, u, w)[2] <= R
    <3>1. /\ ReservesForSwap(p, u, w)[1] \in Nat
          /\ ReservesForSwap(p, u, w)[2] \in Nat
      BY <2>1, <2>4, ReservesIs
    <3>2. /\ ReservesForSwap(p, u, w)[1] <= R
          /\ ReservesForSwap(p, u, w)[2] <= R
      BY <2>3 DEF ReservesForSwap
    <3> QED
      BY <3>1, <3>2
  <2>5. /\ xa \in Nat /\ ya \in Nat /\ xb \in Nat /\ yb \in Nat
        /\ xa <= R /\ ya <= R /\ xb <= R /\ yb <= R
    BY <2>1, <2>4
  <2>6. v \in {AmountIn * 997 * ya, xa * 1000 + AmountIn * 997,
               mid * 997 * xb, yb * 1000 + mid * 997,
               ya * Scale, yb * Scale,
               (priceA - priceB) * 10000, (priceB - priceA) * 10000}
    BY DEF Computed
  <2> HIDE DEF xa, ya, xb, yb
  <2>7. mid \in Nat /\ mid <= R
    <3>1. mid \in Nat /\ mid <= ya
      BY <2>1, <2>5, QuoteWithinReserve
    <3> HIDE DEF mid
    <3> QED
      BY <2>5, <3>1
  <2>8. /\ priceA \in Nat /\ priceB \in Nat /\ R * R \in Nat
        /\ priceA <= R * R /\ priceB <= R * R
        /\ ya * Scale \in Nat /\ yb * Scale \in Nat
        /\ ya * Scale <= R * R /\ yb * Scale <= R * R
    BY <2>1, <2>2, <2>5, PriceWidth
  <2> HIDE DEF mid, priceA, priceB
  <2>9. /\ AmountIn * 997 * ya <= 10000 * (R * R)
        /\ xa * 1000 + AmountIn * 997 <= 10000 * (R * R)
    BY <2>1, <2>2, <2>5, QuoteWidth
  <2>10. /\ mid * 997 * xb <= 10000 * (R * R)
         /\ yb * 1000 + mid * 997 <= 10000 * (R * R)
    BY <2>5, <2>7, QuoteWidth
  <2>11. /\ ya * Scale <= 10000 * (R * R)
         /\ yb * Scale <= 10000 * (R * R)
    BY <2>8
  <2>12. /\ (priceA - priceB) * 10000 <= 10000 * (R * R)
         /\ (priceB - priceA) * 10000 <= 10000 * (R * R)
    BY <2>8
  <2> QED
    BY <2>6, <2>9, <2>10, <2>11, <2>12
<1> QED
  BY <1>1, ScanInvariant, PTL

=============================================================================
