-------------------------- MODULE SeqFilterProofs ---------------------------
(***************************************************************************)
(* What Filter returns, for every sequence and set, and what the numbers   *)
(* of a finite order are.  The facts about sequences are proved            *)
(* by descent: a claim that fails for some length fails for a least one.   *)
(***************************************************************************)
EXTENDS SeqFilter, Integers, WellFoundedInduction, NaturalsInduction,
        FiniteSetTheorems, TLAPS

\* A non-empty set of naturals has a least member.
LEMMA LeastNat ==
    ASSUME NEW T, T \subseteq Nat, T # {}
    PROVE  \E n \in T : \A m \in T : n <= m
<1>1. IsWellFoundedOn(OpToRel(<, Nat), Nat)
  BY NatLessThanWellFounded
<1>2. PICK n \in T : \A m \in T : <<m, n>> \notin OpToRel(<, Nat)
  BY <1>1, WFMin
<1>3. \A m \in T : ~ (m < n)
  BY <1>2 DEF OpToRel
<1> QED
  BY <1>3

\* Induction on the naturals, for the members of a set.
LEMMA SetInduction ==
    ASSUME NEW P, 0 \in P, \A n \in Nat : n \in P => n + 1 \in P
    PROVE  Nat \subseteq P
<1> DEFINE T == Nat \ P
<1> SUFFICES ASSUME T # {} PROVE FALSE
  OBVIOUS
<1>1. PICK n \in T : \A m \in T : n <= m
  BY LeastNat
<1>2. n - 1 \in Nat /\ n - 1 \notin T
  BY <1>1
<1> QED
  BY <1>1, <1>2

\* The equation that defines the function inside Filter.
Filters(f, s, T) ==
    f = [n \in 0..Len(s) |->
           IF n = 0 THEN << >>
           ELSE IF s[n] \in T THEN Append(f[n - 1], s[n]) ELSE f[n - 1]]

\* The equation has a solution.
LEMMA FilterExists ==
    ASSUME NEW S, NEW s \in Seq(S), NEW T
    PROVE  \E f : Filters(f, s, T)
<1> DEFINE Body(f, n) ==
             IF n = 0 THEN << >>
             ELSE IF s[n] \in T THEN Append(f[n - 1], s[n]) ELSE f[n - 1]
           P == {k \in Nat : \E f : f = [n \in 0..k |-> Body(f, n)]}
<1>1. 0 \in P
  <2> DEFINE f == [n \in 0..0 |-> << >>]
  <2>1. f = [n \in 0..0 |-> Body(f, n)]
    OBVIOUS
  <2> QED
    BY <2>1
<1>2. ASSUME NEW k \in Nat, k \in P
      PROVE  k + 1 \in P
  <2>1. PICK f : f = [n \in 0..k |-> Body(f, n)]
    BY <1>2
  <2> DEFINE g == [n \in 0..(k + 1) |->
                     IF n = k + 1 THEN Body(f, n) ELSE f[n]]
  <2>2. ASSUME NEW n \in 0..(k + 1)
        PROVE  g[n] = Body(g, n)
    <3>1. n = 0 \/ (n - 1 \in 0..k /\ n - 1 # k + 1)
      OBVIOUS
    <3>2. n # 0 => g[n - 1] = f[n - 1]
      BY <3>1
    <3>3. CASE n = k + 1
      BY <3>2, <3>3
    <3>4. CASE n \in 0..k
      <4> HIDE DEF Body
      <4>1. f[n] = Body(f, n) /\ g[n] = f[n]
        BY <2>1, <3>4
      <4> QED
        BY <3>2, <4>1 DEF Body
    <3> QED
      BY <3>3, <3>4
  <2>3. g = [n \in 0..(k + 1) |-> g[n]]
    OBVIOUS
  <2> HIDE DEF g, Body
  <2>4. g = [n \in 0..(k + 1) |-> Body(g, n)]
    BY <2>2, <2>3, Zenon
  <2>5. \E h : h = [n \in 0..(k + 1) |-> Body(h, n)]
    BY <2>4
  <2> QED
    BY <2>5
<1> HIDE DEF P
<1>3. Len(s) \in P
  BY <1>1, <1>2, SetInduction
<1> QED
  BY <1>3 DEF P, Filters

\* So Filter is the last value of a function that goes through s.
LEMMA FilterIs ==
    ASSUME NEW S, NEW s \in Seq(S), NEW T
    PROVE  \E f : /\ Filters(f, s, T)
                  /\ Filter(s, T) = f[Len(s)]
<1> DEFINE f == CHOOSE f : Filters(f, s, T)
<1>1. Filters(f, s, T)
  BY FilterExists
<1>2. Filter(s, T) = f[Len(s)]
  BY DEF Filter, Filters
<1> QED
  BY <1>1, <1>2

\* Filter keeps members of s that are in T, and no more than there are.
LEMMA FilterType ==
    ASSUME NEW S, NEW s \in Seq(S), NEW T
    PROVE  /\ Filter(s, T) \in Seq(S)
           /\ Len(Filter(s, T)) <= Len(s)
           /\ \A i \in 1..Len(Filter(s, T)) :
                /\ Filter(s, T)[i] \in T
                /\ \E j \in 1..Len(s) : Filter(s, T)[i] = s[j]
<1>1. PICK f : Filters(f, s, T) /\ Filter(s, T) = f[Len(s)]
  BY FilterIs
<1> DEFINE From(x) == x \in T /\ \E j \in 1..Len(s) : x = s[j]
           P == {n \in Nat : n <= Len(s) =>
                   /\ f[n] \in Seq(S) /\ Len(f[n]) <= n
                   /\ \A i \in 1..Len(f[n]) : From(f[n][i])}
<1>2. 0 \in P
  <2>1. f[0] = << >>
    BY <1>1 DEF Filters
  <2>2. << >> \in Seq(S) /\ Len(<< >>) = 0
    OBVIOUS
  <2>3. f[0] \in Seq(S) /\ Len(f[0]) = 0
    BY <2>1, <2>2
  <2> QED
    BY <2>3
<1>3. ASSUME NEW n \in Nat, n \in P
      PROVE  n + 1 \in P
  <2> SUFFICES ASSUME n + 1 <= Len(s)
               PROVE  /\ f[n + 1] \in Seq(S) /\ Len(f[n + 1]) <= n + 1
                      /\ \A i \in 1..Len(f[n + 1]) : From(f[n + 1][i])
    OBVIOUS
  <2>1. /\ f[n] \in Seq(S) /\ Len(f[n]) <= n
        /\ \A i \in 1..Len(f[n]) : From(f[n][i])
    BY <1>3
  <2>2. f[n + 1] = IF s[n + 1] \in T THEN Append(f[n], s[n + 1]) ELSE f[n]
    <3>1. n + 1 \in 0..Len(s) /\ n + 1 # 0 /\ (n + 1) - 1 = n
      OBVIOUS
    <3> QED
      BY <1>1, <3>1 DEF Filters
  <2>3. s[n + 1] \in S /\ n + 1 \in 1..Len(s)
    OBVIOUS
  <2>4. s[n + 1] \in T => From(s[n + 1])
    BY <2>3
  <2> HIDE DEF From
  <2>5. CASE s[n + 1] \in T
    <3>1. /\ f[n + 1] \in Seq(S) /\ Len(f[n + 1]) = Len(f[n]) + 1
          /\ f[n + 1][Len(f[n]) + 1] = s[n + 1]
          /\ \A i \in 1..Len(f[n]) : f[n + 1][i] = f[n][i]
      BY <2>1, <2>2, <2>3, <2>5
    <3> QED
      BY <2>1, <2>4, <2>5, <3>1
  <2>6. CASE s[n + 1] \notin T
    BY <2>1, <2>2, <2>6
  <2> QED
    BY <2>5, <2>6
<1> HIDE DEF P
<1>4. Len(s) \in P
  BY <1>2, <1>3, SetInduction
<1> QED
  BY <1>1, <1>4 DEF P

\* When the members of T come last, Filter drops what comes before them.
LEMMA FilterSuffix ==
    ASSUME NEW S, NEW s \in Seq(S), NEW T, NEW k \in 0..Len(s),
           \A i \in 1..Len(s) : s[i] \in T <=> i > k
    PROVE  /\ Len(Filter(s, T)) = Len(s) - k
           /\ \A i \in 1..(Len(s) - k) : Filter(s, T)[i] = s[k + i]
<1>1. PICK f : Filters(f, s, T) /\ Filter(s, T) = f[Len(s)]
  BY FilterIs
<1> DEFINE Left(n) == IF n <= k THEN 0 ELSE n - k
           P == {n \in Nat : n <= Len(s) =>
                   /\ f[n] \in Seq(S) /\ Len(f[n]) = Left(n)
                   /\ \A i \in 1..Left(n) : f[n][i] = s[k + i]}
<1>2. 0 \in P
  <2>1. f[0] = << >>
    BY <1>1 DEF Filters
  <2>2. << >> \in Seq(S) /\ Len(<< >>) = 0
    OBVIOUS
  <2>3. f[0] \in Seq(S) /\ Len(f[0]) = 0
    BY <2>1, <2>2
  <2> QED
    BY <2>3
<1>3. ASSUME NEW n \in Nat, n \in P
      PROVE  n + 1 \in P
  <2> SUFFICES ASSUME n + 1 <= Len(s)
               PROVE  /\ f[n + 1] \in Seq(S) /\ Len(f[n + 1]) = Left(n + 1)
                      /\ \A i \in 1..Left(n + 1) : f[n + 1][i] = s[k + i]
    OBVIOUS
  <2>1. /\ f[n] \in Seq(S) /\ Len(f[n]) = Left(n)
        /\ \A i \in 1..Left(n) : f[n][i] = s[k + i]
    BY <1>3
  <2>2. f[n + 1] = IF s[n + 1] \in T THEN Append(f[n], s[n + 1]) ELSE f[n]
    <3>1. n + 1 \in 0..Len(s) /\ n + 1 # 0 /\ (n + 1) - 1 = n
      OBVIOUS
    <3> QED
      BY <1>1, <3>1 DEF Filters
  <2>3. s[n + 1] \in S /\ (s[n + 1] \in T <=> n + 1 > k)
    OBVIOUS
  <2>4. CASE n + 1 <= k
    BY <2>1, <2>2, <2>3, <2>4
  <2>5. CASE n + 1 > k
    <3>1. f[n + 1] = Append(f[n], s[n + 1])
      BY <2>2, <2>3, <2>5
    <3>2. Left(n) = n - k /\ Left(n + 1) = n - k + 1 /\ n - k \in Nat
      BY <2>5
    <3>3. /\ f[n + 1] \in Seq(S) /\ Len(f[n + 1]) = n - k + 1
          /\ f[n + 1][n - k + 1] = s[n + 1]
          /\ \A i \in 1..(n - k) : f[n + 1][i] = f[n][i]
      BY <2>1, <2>3, <3>1, <3>2
    <3>4. ASSUME NEW i \in 1..(n - k + 1)
          PROVE  f[n + 1][i] = s[k + i]
      <4>1. CASE i = n - k + 1
        <5>1. k + i = n + 1
          BY <4>1
        <5> QED
          BY <3>3, <4>1, <5>1
      <4>2. CASE i # n - k + 1
        <5>1. i \in 1..(n - k)
          BY <3>2, <4>2
        <5> QED
          BY <2>1, <3>2, <3>3, <5>1
      <4> QED
        BY <4>1, <4>2
    <3> QED
      BY <3>2, <3>3, <3>4
  <2> QED
    BY <2>4, <2>5
<1> HIDE DEF P
<1>4. Len(s) \in P
  BY <1>2, <1>3, SetInduction
<1> QED
  BY <1>1, <1>4 DEF P

\* g tells for each element of e, what is left of the first n elements of s,
\* where it stood.
Tracks(g, e, s, n, T) ==
    /\ g \in [1..Len(e) -> 1..n]
    /\ \A i, j \in 1..Len(e) : i < j => g[i] < g[j]
    /\ \A i \in 1..Len(e) : e[i] = s[g[i]] /\ s[g[i]] \in T
    /\ \A j \in 1..n : s[j] \in T => \E i \in 1..Len(e) : g[i] = j

\* Filter keeps every member of T, in the order of s.
LEMMA FilterTracks ==
    ASSUME NEW S, NEW s \in Seq(S), NEW T
    PROVE  \E g : Tracks(g, Filter(s, T), s, Len(s), T)
<1>1. PICK f : Filters(f, s, T) /\ Filter(s, T) = f[Len(s)]
  BY FilterIs
<1> DEFINE P == {n \in Nat : n <= Len(s) =>
                   f[n] \in Seq(S) /\ \E g : Tracks(g, f[n], s, n, T)}
<1>2. 0 \in P
  <2>1. f[0] = << >>
    BY <1>1 DEF Filters
  <2>2. f[0] \in Seq(S) /\ Len(f[0]) = 0
    BY <2>1
  <2>3. Tracks([i \in 1..0 |-> 1], f[0], s, 0, T)
    BY <2>2 DEF Tracks
  <2> QED
    BY <2>2, <2>3
<1>3. ASSUME NEW n \in Nat, n \in P
      PROVE  n + 1 \in P
  <2> SUFFICES ASSUME n + 1 <= Len(s)
               PROVE  /\ f[n + 1] \in Seq(S)
                      /\ \E g : Tracks(g, f[n + 1], s, n + 1, T)
    OBVIOUS
  <2>1. f[n] \in Seq(S)
    BY <1>3
  <2>2. PICK g : Tracks(g, f[n], s, n, T)
    BY <1>3
  <2>3. f[n + 1] = IF s[n + 1] \in T THEN Append(f[n], s[n + 1]) ELSE f[n]
    <3>1. n + 1 \in 0..Len(s) /\ n + 1 # 0 /\ (n + 1) - 1 = n
      OBVIOUS
    <3> QED
      BY <1>1, <3>1 DEF Filters
  <2>4. s[n + 1] \in S
    OBVIOUS
  <2>5. CASE s[n + 1] \notin T
    <3>1. f[n + 1] = f[n]
      BY <2>3, <2>5
    <3>2. g \in [1..Len(f[n]) -> 1..(n + 1)]
      BY <2>2 DEF Tracks
    <3>3. ASSUME NEW j \in 1..(n + 1), s[j] \in T
          PROVE  \E i \in 1..Len(f[n]) : g[i] = j
      <4>1. j \in 1..n
        BY <2>5, <3>3
      <4> QED
        BY <2>2, <3>3, <4>1 DEF Tracks
    <3>4. Tracks(g, f[n + 1], s, n + 1, T)
      BY <2>2, <3>1, <3>2, <3>3 DEF Tracks
    <3> QED
      BY <2>1, <3>1, <3>4
  <2>6. CASE s[n + 1] \in T
    <3> DEFINE m == Len(f[n])
               h == [i \in 1..(m + 1) |-> IF i = m + 1 THEN n + 1 ELSE g[i]]
    <3>1. /\ f[n + 1] \in Seq(S) /\ Len(f[n + 1]) = m + 1 /\ m \in Nat
          /\ f[n + 1][m + 1] = s[n + 1]
          /\ \A i \in 1..m : f[n + 1][i] = f[n][i]
      BY <2>1, <2>3, <2>4, <2>6
    <3>2. /\ g \in [1..m -> 1..n]
          /\ \A i, j \in 1..m : i < j => g[i] < g[j]
          /\ \A i \in 1..m : f[n][i] = s[g[i]] /\ s[g[i]] \in T
          /\ \A j \in 1..n : s[j] \in T => \E i \in 1..m : g[i] = j
      BY <2>2 DEF Tracks
    <3> HIDE DEF m
    <3>3. /\ h[m + 1] = n + 1 /\ \A i \in 1..m : h[i] = g[i]
          /\ \A i \in 1..m : g[i] \in 1..n
      BY <3>1, <3>2
    <3>4. h \in [1..(m + 1) -> 1..(n + 1)]
      BY <3>1, <3>2
    <3> HIDE DEF h
    <3>5. \A i \in 1..(m + 1) : i = m + 1 \/ i \in 1..m
      BY <3>1
    <3>6. \A i, j \in 1..(m + 1) : i < j => h[i] < h[j]
      <4> SUFFICES ASSUME NEW i \in 1..(m + 1), NEW j \in 1..(m + 1), i < j
                   PROVE  h[i] < h[j]
        OBVIOUS
      <4>1. i \in 1..m
        BY <3>1
      <4>2. CASE j = m + 1
        BY <3>3, <4>1, <4>2
      <4>3. CASE j \in 1..m
        BY <3>2, <3>3, <4>1, <4>3
      <4> QED
        BY <3>5, <4>2, <4>3
    <3>7. \A i \in 1..(m + 1) : f[n + 1][i] = s[h[i]] /\ s[h[i]] \in T
      BY <2>6, <3>1, <3>2, <3>3, <3>5
    <3>8. ASSUME NEW j \in 1..(n + 1), s[j] \in T
          PROVE  \E i \in 1..(m + 1) : h[i] = j
      <4>1. CASE j = n + 1
        BY <3>1, <3>3, <4>1
      <4>2. CASE j \in 1..n
        <5>1. PICK i \in 1..m : g[i] = j
          BY <3>2, <3>8, <4>2
        <5>2. i \in 1..(m + 1) /\ h[i] = j
          BY <3>1, <3>3, <5>1
        <5> QED
          BY <5>2
      <4> QED
        BY <4>1, <4>2
    <3>9. Tracks(h, f[n + 1], s, n + 1, T)
      BY <3>1, <3>4, <3>6, <3>7, <3>8 DEF Tracks
    <3> QED
      BY <3>1, <3>9
  <2> QED
    BY <2>5, <2>6
<1> HIDE DEF P
<1>4. Len(s) \in P
  BY <1>2, <1>3, SetInduction
<1> QED
  BY <1>1, <1>4 DEF P

\* There are n numbers from 1 to n.
LEMMA FirstNumbers ==
    ASSUME NEW n \in Nat
    PROVE  IsFiniteSet(1..n) /\ Cardinality(1..n) = n
  BY FS_Interval

\* In a finite set of which the members are in order, U giving those up to
\* each, the numbers of members up to each are 1, 2, ...
LEMMA RanksFill ==
    ASSUME NEW S, IsFiniteSet(S), NEW U \in [S -> SUBSET S],
           \A x \in S : x \in U[x],
           \A x, y \in S : x # y => \/ U[x] \subseteq U[y] /\ y \notin U[x]
                                    \/ U[y] \subseteq U[x] /\ x \notin U[y]
    PROVE  /\ Cardinality(S) \in Nat
           /\ \A x \in S : Cardinality(U[x]) \in 1..Cardinality(S)
           /\ \A k \in 1..Cardinality(S) : \E x \in S : Cardinality(U[x]) = k
           /\ \A x, y \in S : Cardinality(U[x]) = Cardinality(U[y]) => x = y
<1> DEFINE n == Cardinality(S)
           f == [x \in S |-> Cardinality(U[x])]
<1>1. n \in Nat
  BY FS_CardinalityType
<1>2. ASSUME NEW x \in S
      PROVE  Cardinality(U[x]) \in 1..n /\ IsFiniteSet(U[x])
  <2>1. U[x] \in SUBSET S /\ U[x] # {}
    OBVIOUS
  <2>2. IsFiniteSet(U[x]) /\ Cardinality(U[x]) <= n
    BY <2>1, FS_Subset
  <2>3. Cardinality(U[x]) \in Nat /\ Cardinality(U[x]) # 0
    BY <2>1, <2>2, FS_CardinalityType, FS_EmptySet
  <2> QED
    BY <1>1, <2>2, <2>3
<1>3. ASSUME NEW x \in S, NEW y \in S, Cardinality(U[x]) = Cardinality(U[y])
      PROVE  x = y
  <2> SUFFICES ASSUME x # y PROVE FALSE
    OBVIOUS
  <2>1. x \in U[x] /\ y \in U[y] /\ IsFiniteSet(U[x]) /\ IsFiniteSet(U[y])
    BY <1>2
  <2>2. CASE U[x] \subseteq U[y] /\ y \notin U[x]
    <3>1. U[x] \in SUBSET U[y] /\ U[x] # U[y]
      BY <2>1, <2>2
    <3> QED
      BY <1>3, <2>1, <3>1, FS_Subset
  <2>3. CASE U[y] \subseteq U[x] /\ x \notin U[y]
    <3>1. U[y] \in SUBSET U[x] /\ U[x] # U[y]
      BY <2>1, <2>3
    <3> QED
      BY <1>3, <2>1, <3>1, FS_Subset
  <2> QED
    BY <2>2, <2>3
<1>4. f \in Injection(S, 1..n)
  BY <1>2, <1>3 DEF Injection, IsInjective
<1>5. IsFiniteSet(1..n) /\ Cardinality(1..n) = n
  BY <1>1, FirstNumbers
<1>6. f \in Surjection(S, 1..n)
  BY <1>4, <1>5, FS_Injection
<1>7. \A k \in 1..n : \E x \in S : Cardinality(U[x]) = k
  BY <1>6 DEF Surjection
<1> QED
  BY <1>1, <1>2, <1>3, <1>7

=============================================================================
