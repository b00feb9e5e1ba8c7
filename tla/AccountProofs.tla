---------------------------- MODULE AccountProofs ----------------------------
(***************************************************************************)
(* Proofs about the two parts of the API that stand before an account: the *)
(* login limiter, for every window and limit, and the concurrent calls of  *)
(* Registration, for every set of calls and names.                         *)
(***************************************************************************)
EXTENDS LoginLimiter, Registration, SeqFilterProofs, FiniteSetTheorems,
        TLAPS

-----------------------------------------------------------------------------
(* The limiter.  The entry of an address is the end of the sequence of all *)
(* its attempts that went through, and what is missing from it is stale.   *)

\* a is in the order of time.
Ordered(a) ==
    \A i \in 1..Len(a) :
        a[i] <= now /\ \A j \in i..Len(a) : a[i] <= a[j]

\* e holds the last attempts of a; those before them are a window old.
Remembers(e, a) ==
    /\ Len(e) <= Len(a)
    /\ \A i \in 1..Len(e) : e[i] = a[Len(a) - Len(e) + i]
    /\ \A i \in 1..(Len(a) - Len(e)) : now - a[i] >= Window

LimiterInv ==
    /\ LimiterTypeOK
    /\ \A ip \in IPs : /\ Ordered(admitted[ip])
                       /\ Remembers(limiter[ip], admitted[ip])
    /\ NoBurst

\* An ordered sequence falls into a stale part and a fresh one.
LEMMA StalePrefix ==
    ASSUME NEW l \in Seq(Nat), NEW c \in Int,
           \A i \in 1..Len(l) : \A j \in i..Len(l) : l[i] <= l[j]
    PROVE  \E k \in 0..Len(l) : \A i \in 1..Len(l) : l[i] > c <=> i > k
<1> DEFINE I == {i \in 1..Len(l) : l[i] > c}
<1>1. Len(l) \in Nat /\ \A i \in 1..Len(l) : l[i] \in Nat
  OBVIOUS
<1>2. CASE I = {}
  <2>1. \A i \in 1..Len(l) : ~(l[i] > c) /\ ~(i > Len(l))
    BY <1>1, <1>2
  <2>2. Len(l) \in 0..Len(l)
    BY <1>1
  <2> QED
    BY <2>1, <2>2
<1>3. CASE I # {}
  <2>1. I \subseteq Nat
    BY <1>1
  <2>2. PICK m \in I : \A i \in I : m <= i
    BY <1>3, <2>1, LeastNat
  <2>3. m \in 1..Len(l) /\ l[m] > c
    BY <2>2
  <2>4. \A i \in m..Len(l) : l[i] > c
    BY <1>1, <2>3
  <2>5. m - 1 \in 0..Len(l)
    BY <1>1, <2>3
  <2>6. \A i \in 1..Len(l) : l[i] > c <=> i > m - 1
    BY <1>1, <2>2, <2>3, <2>4
  <2> QED
    BY <2>5, <2>6
<1> QED
  BY <1>2, <1>3

\* The elements of a sequence over R are in R, whatever R is.
LEMMA ElementOf ==
    ASSUME NEW R, NEW s \in Seq(R), NEW i \in 1..Len(s)
    PROVE  s[i] \in R
  OBVIOUS

\* An entry that remembers ordered attempts is ordered itself, so retain
\* drops a prefix of it: what is left is in the window, what is gone is not.
LEMMA RetainRemembers ==
    ASSUME now \in Nat, NEW l \in Seq(0..MaxTime), NEW a \in Seq(0..MaxTime),
           Ordered(a), Remembers(l, a)
    PROVE  /\ Retain(l) \in Seq(0..MaxTime)
           /\ Len(Retain(l)) <= Len(l)
           /\ Remembers(Retain(l), a)
           /\ \A i \in 1..Len(Retain(l)) : now - Retain(l)[i] < Window
<1> DEFINE Fresh == {t \in Nat : now - t < Window}
           e == Filter(l, Fresh)
           d == Len(a) - Len(l)
<1>1. MaxTime \in Nat /\ Window \in Nat
  BY LimiterAssumption
<1>2. /\ Len(l) \in Nat /\ Len(a) \in Nat /\ d \in Nat
      /\ \A i \in 1..Len(l) : l[i] = a[d + i]
      /\ \A i \in 1..d : now - a[i] >= Window
      /\ \A i \in 1..Len(a) : a[i] \in Nat
  BY <1>1 DEF Remembers
<1>3. ASSUME NEW i \in 1..Len(l)
      PROVE  l[i] \in Nat /\ d + i \in 1..Len(a)
  <2>1. l[i] \in 0..MaxTime
    BY ElementOf
  <2>2. d + i \in 1..Len(a)
    BY <1>2
  <2> QED
    BY <1>1, <2>1, <2>2
<1> HIDE DEF d
<1>4. ASSUME NEW i \in 1..Len(l), NEW j \in i..Len(l)
      PROVE  l[i] <= l[j]
  <2>1. j \in 1..Len(l) /\ d + j \in (d + i)..Len(a)
    BY <1>2, <1>3 DEF d
  <2> QED
    BY <1>2, <1>3, <2>1 DEF Ordered
<1>5. PICK k \in 0..Len(l) :
        \A i \in 1..Len(l) : l[i] > now - Window <=> i > k
  <2>1. l \in Seq(Nat) /\ now - Window \in Int
    BY <1>1
  <2> QED
    BY <1>4, <2>1, StalePrefix
<1>6. ASSUME NEW i \in 1..Len(l)
      PROVE  l[i] \in Fresh <=> i > k
  <2>1. l[i] \in Nat
    BY <1>3
  <2>2. l[i] > now - Window <=> now - l[i] < Window
    BY <1>1, <2>1
  <2> QED
    BY <1>5, <2>1, <2>2
<1>7. Retain(l) = e
  BY DEF Retain
<1> HIDE DEF Fresh
<1>8. /\ e \in Seq(0..MaxTime) /\ \A i \in 1..Len(e) : e[i] \in Fresh
      /\ Len(e) = Len(l) - k
      /\ \A i \in 1..(Len(l) - k) : e[i] = l[k + i]
  BY <1>6, FilterType, FilterSuffix
<1> HIDE DEF e
<1>9. /\ e \in Seq(0..MaxTime)
      /\ Len(e) \in Nat /\ Len(e) <= Len(l) /\ Len(e) <= Len(a)
      /\ Len(a) - Len(e) = d + k
  <2>1. e \in Seq(0..MaxTime) /\ Len(e) \in Nat
    BY <1>8
  <2>2. Len(l) = Len(a) - d
    BY <1>2 DEF d
  <2> QED
    BY <1>2, <1>8, <2>1, <2>2
<1>10. \A i \in 1..Len(e) : e[i] = a[(d + k) + i]
  <2>1. \A i \in 1..Len(e) : /\ k + i \in 1..Len(l)
                             /\ d + (k + i) = (d + k) + i
    BY <1>2, <1>8
  <2> QED
    BY <1>2, <1>8, <2>1
<1>11. ASSUME NEW i \in 1..(d + k)
       PROVE  now - a[i] >= Window
  <2>1. CASE i <= d
    BY <1>2, <2>1
  <2>2. CASE i > d
    <3>1. i - d \in 1..k /\ i - d \in 1..Len(l) /\ d + (i - d) = i
      BY <1>2, <2>2
    <3>2. l[i - d] = a[i] /\ l[i - d] \notin Fresh /\ l[i - d] \in Nat
      BY <1>2, <1>3, <1>6, <3>1
    <3> QED
      BY <1>1, <3>2 DEF Fresh
  <2> QED
    BY <1>2, <2>1, <2>2
<1>12. Remembers(e, a)
  BY <1>9, <1>10, <1>11 DEF Remembers
<1>13. \A i \in 1..Len(e) : now - e[i] < Window
  BY <1>8 DEF Fresh
<1> QED
  BY <1>7, <1>9, <1>12, <1>13

\* Time passes, or the entry of one address changes: LimiterInv goes on to
\* hold if it does for the sequences of that address.
LEMMA LimiterFrame ==
    ASSUME LimiterInv, NEW ip \in IPs, NEW e \in Seq(0..MaxTime),
           Len(e) <= Limit, NEW a \in Seq(0..MaxTime),
           now' = now, answer' \in {"none", "let_through", "rate_limited"},
           limiter' = [limiter EXCEPT ![ip] = e],
           admitted' = [admitted EXCEPT ![ip] = a],
           Ordered(a), Remembers(e, a),
           \A i \in 1..(Len(a) - Limit) : a[i + Limit] - a[i] >= Window
    PROVE  LimiterInv'
<1> USE DEF LimiterInv
<1>1. limiter \in [IPs -> Seq(0..MaxTime)]
      /\ admitted \in [IPs -> Seq(0..MaxTime)]
  BY DEF LimiterTypeOK
<1>2. \A j \in IPs : /\ limiter'[j] = IF j = ip THEN e ELSE limiter[j]
                     /\ admitted'[j] = IF j = ip THEN a ELSE admitted[j]
  BY <1>1
<1>3. LimiterTypeOK'
  BY <1>1, <1>2 DEF LimiterTypeOK
<1>4. ASSUME NEW j \in IPs
      PROVE  Ordered(admitted[j])' /\ Remembers(limiter[j], admitted[j])'
  <2>1. Ordered(admitted'[j]) /\ Remembers(limiter'[j], admitted'[j])
    BY <1>2
  <2> QED
    BY <2>1 DEF Ordered, Remembers
<1>5. NoBurst'
  BY <1>2 DEF NoBurst
<1> QED
  BY <1>3, <1>4, <1>5

\* Every step preserves LimiterInv.  An attempt let through comes at least a
\* window after the one Limit places before it, which the entry no longer
\* holds.
LEMMA LimiterStep == LimiterInv /\ [LimiterNext]_limiterVars => LimiterInv'
<1> SUFFICES ASSUME LimiterInv, [LimiterNext]_limiterVars PROVE LimiterInv'
  OBVIOUS
<1>1. /\ now \in 0..MaxTime /\ MaxTime \in Nat
      /\ Window \in Nat /\ Limit \in Nat
  BY LimiterAssumption DEF LimiterInv, LimiterTypeOK
<1>2. ASSUME NEW ip \in IPs
      PROVE  /\ limiter[ip] \in Seq(0..MaxTime)
             /\ admitted[ip] \in Seq(0..MaxTime)
             /\ Len(limiter[ip]) <= Limit
             /\ Ordered(admitted[ip]) /\ Remembers(limiter[ip], admitted[ip])
             /\ \A i \in 1..(Len(admitted[ip]) - Limit) :
                  admitted[ip][i + Limit] - admitted[ip][i] >= Window
  BY DEF LimiterInv, LimiterTypeOK, NoBurst
<1>3. CASE Tick
  <2>1. /\ now' \in 0..MaxTime /\ now' = now + 1
        /\ UNCHANGED <<limiter, admitted>> /\ answer' = "none"
    BY <1>1, <1>3 DEF Tick
  <2>2. LimiterTypeOK' /\ NoBurst'
    BY <2>1 DEF LimiterInv, LimiterTypeOK, NoBurst
  <2>3. ASSUME NEW ip \in IPs
        PROVE  Ordered(admitted[ip])' /\ Remembers(limiter[ip],
                                                   admitted[ip])'
    <3> DEFINE a == admitted[ip]
    <3>1. \A i \in 1..Len(a) : a[i] \in Nat
      BY <1>1, <1>2
    <3>2. \A i \in 1..Len(a) : a[i] <= now'
      BY <1>1, <1>2, <2>1, <3>1 DEF Ordered
    <3>3. ASSUME NEW i \in 1..(Len(a) - Len(limiter[ip]))
          PROVE  now' - a[i] >= Window
      <4>1. Len(a) \in Nat /\ Len(limiter[ip]) \in Nat
        BY <1>2
      <4>2. now - a[i] >= Window
        BY <1>2 DEF Remembers
      <4>3. i \in 1..Len(a)
        BY <4>1
      <4> QED
        BY <1>1, <2>1, <3>1, <4>2, <4>3
    <3> QED
      BY <1>2, <2>1, <3>2, <3>3 DEF Ordered, Remembers
  <2> QED
    BY <2>2, <2>3 DEF LimiterInv
<1>4. ASSUME NEW ip \in IPs, LetThrough(ip)
      PROVE  LimiterInv'
  <2> DEFINE a == admitted[ip]
             e == Retain(limiter[ip])
             b == Append(a, now)
             f == Append(e, now)
  <2>1. /\ e \in Seq(0..MaxTime) /\ Remembers(e, a)
        /\ a \in Seq(0..MaxTime) /\ Ordered(a)
    BY <1>1, <1>2, RetainRemembers
  <2>2. /\ Len(e) < Limit /\ now' = now /\ answer' = "let_through"
        /\ limiter' = [limiter EXCEPT ![ip] = f]
        /\ admitted' = [admitted EXCEPT ![ip] = b]
    BY <1>4 DEF LetThrough, LimiterInv, LimiterTypeOK
  <2>3. \A i \in 1..(Len(a) - Limit) : a[i + Limit] - a[i] >= Window
    BY <1>2
  <2> HIDE DEF a, e
  <2>4. /\ Len(a) \in Nat /\ Len(e) \in Nat /\ Len(e) <= Len(a)
        /\ b \in Seq(0..MaxTime) /\ Len(b) = Len(a) + 1
        /\ f \in Seq(0..MaxTime) /\ Len(f) = Len(e) + 1
        /\ \A i \in 1..Len(a) : b[i] = a[i] /\ a[i] \in Nat
        /\ \A i \in 1..Len(e) : f[i] = e[i]
        /\ b[Len(a) + 1] = now /\ f[Len(e) + 1] = now
    BY <1>1, <2>1 DEF Remembers
  <2> HIDE DEF b, f
  <2>5. Len(f) <= Limit
    BY <1>1, <2>2, <2>4
  <2>6. Ordered(b)
    <3>1. ASSUME NEW i \in 1..Len(b)
          PROVE  b[i] <= now /\ \A j \in i..Len(b) : b[i] <= b[j]
      <4>1. CASE i = Len(a) + 1
        BY <1>1, <2>4, <4>1
      <4>2. CASE i \in 1..Len(a)
        <5>1. a[i] <= now /\ \A j \in i..Len(a) : a[i] <= a[j]
          BY <2>1, <4>2 DEF Ordered
        <5>2. ASSUME NEW j \in i..Len(b)
              PROVE  b[i] <= b[j]
          <6>1. j = Len(a) + 1 \/ (j \in i..Len(a) /\ j \in 1..Len(a))
            BY <2>4
          <6> QED
            BY <2>4, <4>2, <5>1, <6>1
        <5> QED
          BY <2>4, <4>2, <5>1, <5>2
      <4> QED
        BY <2>4, <4>1, <4>2
    <3> QED
      BY <3>1 DEF Ordered
  <2>7. Remembers(f, b)
    <3>1. Len(b) - Len(f) = Len(a) - Len(e) /\ Len(f) <= Len(b)
      BY <2>4
    <3>2. ASSUME NEW i \in 1..Len(f)
          PROVE  f[i] = b[(Len(a) - Len(e)) + i]
      <4>1. CASE i = Len(e) + 1
        BY <2>4, <4>1
      <4>2. CASE i \in 1..Len(e)
        <5>1. (Len(a) - Len(e)) + i \in 1..Len(a)
          BY <2>4, <4>2
        <5> QED
          BY <2>1, <2>4, <4>2, <5>1 DEF Remembers
      <4> QED
        BY <2>4, <4>1, <4>2
    <3>3. ASSUME NEW i \in 1..(Len(a) - Len(e))
          PROVE  now - b[i] >= Window
      <4>1. i \in 1..Len(a)
        BY <2>4
      <4> QED
        BY <2>1, <2>4, <4>1 DEF Remembers
    <3> QED
      BY <3>1, <3>2, <3>3 DEF Remembers
  <2>8. ASSUME NEW i \in 1..(Len(b) - Limit)
        PROVE  b[i + Limit] - b[i] >= Window
    <3>1. i \in 1..Len(a)
      BY <1>1, <2>2, <2>4
    <3>2. CASE i + Limit <= Len(a)
      <4>1. i \in 1..(Len(a) - Limit) /\ i + Limit \in 1..Len(a)
        BY <1>1, <2>4, <3>2
      <4> QED
        BY <2>3, <2>4, <3>1, <4>1
    <3>3. CASE i + Limit = Len(a) + 1
      <4>1. i \in 1..(Len(a) - Len(e))
        BY <1>1, <2>2, <2>4, <3>3
      <4>2. now - a[i] >= Window
        BY <2>1, <4>1 DEF Remembers
      <4> QED
        BY <2>4, <3>1, <3>3, <4>2
    <3> QED
      BY <1>1, <2>4, <3>2, <3>3
  <2> QED
    BY <2>2, <2>4, <2>5, <2>6, <2>7, <2>8, LimiterFrame
<1>5. ASSUME NEW ip \in IPs, RateLimited(ip)
      PROVE  LimiterInv'
  <2> DEFINE a == admitted[ip]
             e == Retain(limiter[ip])
  <2>1. /\ e \in Seq(0..MaxTime) /\ Remembers(e, a)
        /\ Len(e) <= Len(limiter[ip])
        /\ a \in Seq(0..MaxTime) /\ Ordered(a)
    BY <1>1, <1>2, RetainRemembers
  <2>2. /\ now' = now /\ answer' = "rate_limited"
        /\ limiter' = [limiter EXCEPT ![ip] = e]
        /\ admitted' = [admitted EXCEPT ![ip] = a]
    BY <1>5 DEF RateLimited, LimiterInv, LimiterTypeOK
  <2>3. \A i \in 1..(Len(a) - Limit) : a[i + Limit] - a[i] >= Window
    BY <1>2
  <2>4. Len(e) <= Limit
    BY <1>1, <1>2, <2>1
  <2> QED
    BY <2>1, <2>2, <2>3, <2>4, LimiterFrame
<1>6. CASE UNCHANGED limiterVars
  BY <1>6 DEF limiterVars, LimiterInv, LimiterTypeOK, NoBurst, Ordered,
     Remembers
<1>7. CASE Restart
  <2>1. /\ now' = now /\ answer' = "none"
        /\ limiter' \in [IPs -> Seq(0..MaxTime)]
        /\ admitted' \in [IPs -> Seq(0..MaxTime)]
        /\ \A ip \in IPs : limiter'[ip] = << >> /\ admitted'[ip] = << >>
    BY <1>7 DEF Restart
  <2>2. LimiterTypeOK' /\ NoBurst'
    BY <1>1, <2>1 DEF LimiterTypeOK, NoBurst
  <2>3. ASSUME NEW ip \in IPs
        PROVE  Ordered(admitted[ip])' /\ Remembers(limiter[ip],
                                                   admitted[ip])'
    BY <2>1 DEF Ordered, Remembers
  <2> QED
    BY <2>2, <2>3 DEF LimiterInv
<1> QED
  BY <1>3, <1>4, <1>5, <1>6, <1>7 DEF LimiterNext

\* LimiterInv holds at the start, when nobody has tried.
LEMMA LimiterStarts == LimiterInit => LimiterInv
<1> SUFFICES ASSUME LimiterInit PROVE LimiterInv
  OBVIOUS
<1>1. \A ip \in IPs : limiter[ip] = << >> /\ admitted[ip] = << >>
  BY DEF LimiterInit
<1>2. << >> \in Seq(0..MaxTime) /\ Len(<< >>) = 0
  OBVIOUS
<1>3. LimiterTypeOK
  BY <1>1, <1>2, LimiterAssumption DEF LimiterInit, LimiterTypeOK
<1>4. NoBurst
  BY <1>1, <1>2, LimiterAssumption DEF NoBurst
<1>5. Ordered(<< >>) /\ Remembers(<< >>, << >>)
  BY <1>2 DEF Ordered, Remembers
<1> QED
  BY <1>1, <1>3, <1>4, <1>5 DEF LimiterInv

\* The entries never grow beyond the limit, and every time they hold has
\* been on the clock.
THEOREM LimiterTypeCorrect == LimiterSpec => []LimiterTypeOK
<1>1. LimiterInv => LimiterTypeOK
  BY DEF LimiterInv
<1> QED
  BY <1>1, LimiterStarts, LimiterStep, PTL DEF LimiterSpec

\* However attempts are spread over the clock, no interval shorter than the
\* window holds more than Limit of one address that went through.
THEOREM LimiterHolds == LimiterSpec => []NoBurst
<1>1. LimiterInv => NoBurst
  BY DEF LimiterInv
<1> QED
  BY <1>1, LimiterStarts, LimiterStep, PTL DEF LimiterSpec

\* An attempt is refused only where Limit attempts of the same address went
\* through within the window: the entry that refuses it holds exactly those.
THEOREM RefusalsAreJustified == LimiterSpec => RefusedForCause
<1> DEFINE Justified ==
      \A ip \in IPs : RateLimited(ip) =>
        /\ Len(admitted[ip]) >= Limit
        /\ now - admitted[ip][Len(admitted[ip]) - Limit + 1] < Window
<1>1. LimiterInv => Justified
  <2> SUFFICES ASSUME LimiterInv, NEW ip \in IPs, RateLimited(ip)
               PROVE  /\ Len(admitted[ip]) >= Limit
                      /\ now - admitted[ip][Len(admitted[ip]) - Limit + 1]
                           < Window
    OBVIOUS
  <2> DEFINE a == admitted[ip]
             e == Retain(limiter[ip])
  <2>1. /\ now \in Nat /\ Limit \in Nat \ {0} /\ Len(limiter[ip]) <= Limit
        /\ limiter[ip] \in Seq(0..MaxTime) /\ a \in Seq(0..MaxTime)
        /\ Ordered(a) /\ Remembers(limiter[ip], a)
    BY LimiterAssumption DEF LimiterInv, LimiterTypeOK
  <2>2. /\ e \in Seq(0..MaxTime) /\ Len(e) <= Len(limiter[ip])
        /\ Remembers(e, a)
        /\ \A i \in 1..Len(e) : now - e[i] < Window
    BY <2>1, RetainRemembers
  <2>3. Len(e) >= Limit
    BY DEF RateLimited
  <2>4. Len(e) = Limit /\ Len(a) \in Nat
    BY <2>1, <2>2, <2>3
  <2> HIDE DEF a, e
  <2>5. /\ Len(a) >= Limit /\ 1 \in 1..Limit
        /\ e[1] = a[Len(a) - Limit + 1] /\ now - e[1] < Window
    BY <2>1, <2>2, <2>4 DEF Remembers
  <2> QED
    BY <2>5 DEF a
<1>2. RefusedForCause <=> [][Justified]_limiterVars
  BY PTL DEF RefusedForCause
<1> QED
  BY <1>1, <1>2, LimiterStarts, LimiterStep, PTL DEF LimiterSpec

-----------------------------------------------------------------------------
(* Registration.  Rows of users are numbered without gaps, so a new id is  *)
(* new; a call has a token only once it is answered, so what a call sent   *)
(* does not change under the token it got.                                 *)

\* A call past its first step has a body; only answered calls have tokens.
CallsInOrder ==
    \A r \in Requests :
        /\ phase[r] \in {"count", "insert", "limit", "lookup"}
             => body[r] \in Bodies
        /\ token[r] # NoToken => phase[r] = "ok"

\* Ids are 1 to the number of users; neither ids nor names occur twice.
UsersDistinct ==
    /\ IsFiniteSet(users)
    /\ \A u \in users : u.id \in 1..Cardinality(users)
    /\ \A u, v \in users :
         u.id = v.id \/ Key(u.username) = Key(v.username) => u = v

\* A registration that came late finds the user when it counts.
LateIsRefused ==
    \A r \in late :
        /\ users # {}
        /\ phase[r] \in {"count", "bad_request", "forbidden", "internal"}

\* The first part of TokensOwnUsers.
TokenHasUser ==
    \A r \in Requests : token[r] # NoToken =>
        \E u \in users : /\ u.id = token[r].uid
                         /\ u.username = token[r].sub
                         /\ u.password = body[r].password
                         /\ Key(u.username) = Key(body[r].name)

AccountInv ==
    /\ TypeOK /\ CallsInOrder /\ UsersDistinct /\ LateIsRefused
    /\ TokenHasUser

\* A call that moves on without a token, and without touching users, keeps
\* AccountInv if it has a body where it needs one and is not late where it
\* may not be.
LEMMA MovesOn ==
    ASSUME AccountInv, NEW r \in Requests, NEW p, Goes(r, p),
           p \in {"count", "insert", "limit", "lookup"} \cup Answers,
           token[r] = NoToken,
           p \in {"count", "insert", "limit", "lookup"}
             => body'[r] \in Bodies,
           NEW b \in Bodies \cup {NoBody}, body' = [body EXCEPT ![r] = b],
           UNCHANGED <<users, token, expired>>,
           \/ late' = late
           \/ late' = late \cup {r} /\ users # {} /\ p = "bad_request"
           \/ late' = late \cup {r} /\ users # {} /\ p = "count",
           r \in late => p \in {"count", "bad_request", "forbidden",
                                "internal"}
    PROVE  AccountInv'
<1> USE DEF AccountInv
<1>1. /\ phase \in [Requests -> {"waiting", "count", "insert", "limit",
                                 "lookup"} \cup Answers]
      /\ body \in [Requests -> Bodies \cup {NoBody}]
      /\ late \subseteq Requests
  BY DEF TypeOK
<1>2. \A q \in Requests : /\ phase'[q] = IF q = r THEN p ELSE phase[q]
                          /\ q # r => body'[q] = body[q]
  BY <1>1 DEF Goes
<1>3. TypeOK'
  BY <1>1, <1>2 DEF TypeOK, Goes
<1>4. CallsInOrder'
  BY <1>2 DEF CallsInOrder
<1>5. UsersDistinct'
  BY DEF UsersDistinct
<1>6. LateIsRefused'
  BY <1>1, <1>2 DEF LateIsRefused
<1>7. TokenHasUser'
  BY <1>2 DEF TokenHasUser
<1> QED
  BY <1>3, <1>4, <1>5, <1>6, <1>7

\* A call that is answered with the claims of a user whose password and name
\* it sent keeps AccountInv.
LEMMA TokenIssued ==
    ASSUME AccountInv, NEW r \in Requests, r \notin late,
           phase[r] \in {"insert", "lookup"},
           UNCHANGED <<body, expired, late>>,
           UsersDistinct', users \subseteq users', users' \subseteq Users,
           NEW u \in users', u.password = body[r].password,
           Key(u.username) = Key(body[r].name),
           IssueJwt(r, u.id, u.username)
    PROVE  AccountInv'
<1> USE DEF AccountInv
<1> DEFINE c == [uid |-> u.id, sub |-> u.username]
<1>1. /\ phase \in [Requests -> {"waiting", "count", "insert", "limit",
                                 "lookup"} \cup Answers]
      /\ token \in [Requests -> Claims \cup {NoToken}]
      /\ token[r] = NoToken /\ r \notin expired
  BY DEF TypeOK, CallsInOrder
<1>2. c \in Claims
  BY DEF Claims, Users
<1>3. \A q \in Requests \ {r} : phase'[q] = phase[q] /\ token'[q] = token[q]
  BY <1>1 DEF IssueJwt, Goes
<1>4. \/ phase'[r] = "ok" /\ token'[r] = c
      \/ phase'[r] = "internal" /\ token'[r] = NoToken
  BY <1>1 DEF IssueJwt, Goes
<1>5. TypeOK'
  <2>1. /\ phase' \in [Requests -> {"waiting", "count", "insert", "limit",
                                    "lookup"} \cup Answers]
        /\ token' \in [Requests -> Claims \cup {NoToken}]
    BY <1>1, <1>2 DEF IssueJwt, Goes, Answers
  <2> QED
    BY <1>1, <1>3, <2>1 DEF TypeOK
<1>6. CallsInOrder'
  BY <1>3, <1>4 DEF CallsInOrder
<1>7. LateIsRefused'
  BY <1>3 DEF LateIsRefused, TypeOK
<1>8. TokenHasUser'
  BY <1>3, <1>4 DEF TokenHasUser
<1> QED
  BY <1>5, <1>6, <1>7, <1>8

\* The row of a new user has a new id.
LEMMA RowIsNew ==
    ASSUME AccountInv, NEW r \in Requests, body[r] \in Bodies,
           ~ \E u \in users : Key(u.username) = Key(body[r].name),
           users' = users \cup {Row(r)}
    PROVE  /\ UsersDistinct' /\ users' \subseteq Users
           /\ Row(r) \in users'
           /\ Row(r).username = body[r].name
           /\ Row(r).password = body[r].password
<1> USE DEF AccountInv
<1> DEFINE n == Cardinality(users)
<1>1. n \in Nat
  BY FS_CardinalityType DEF UsersDistinct
<1>2. Row(r).id = n + 1 /\ Row(r).username = body[r].name
      /\ Row(r).password = body[r].password /\ Row(r) \in Users
  BY <1>1 DEF Row, Users, Ids, Bodies
<1>3. \A u \in users : u.id \in 1..n
  BY DEF UsersDistinct
<1>4. Row(r) \notin users
  BY <1>1, <1>2, <1>3
<1>5. IsFiniteSet(users') /\ Cardinality(users') = n + 1
  BY <1>4, FS_AddElement DEF UsersDistinct
<1> HIDE DEF n
<1>6. \A u \in users' : u.id \in 1..(n + 1)
  BY <1>1, <1>2, <1>3
<1>7. ASSUME NEW u \in users', NEW v \in users',
             u.id = v.id \/ Key(u.username) = Key(v.username)
      PROVE  u = v
  <2>1. CASE u \in users /\ v \in users
    BY <1>7, <2>1 DEF UsersDistinct
  <2>2. \A w \in users : /\ w.id # n + 1
                         /\ Key(w.username) # Key(Row(r).username)
    BY <1>1, <1>2, <1>3
  <2> QED
    BY <1>2, <1>7, <2>1, <2>2
<1>8. UsersDistinct'
  BY <1>5, <1>6, <1>7 DEF UsersDistinct
<1> QED
  BY <1>2, <1>8 DEF TypeOK

\* Every step of a call keeps AccountInv.
LEMMA AccountStep == AccountInv /\ [Next]_vars => AccountInv'
<1> SUFFICES ASSUME AccountInv, [Next]_vars PROVE AccountInv'
  OBVIOUS
<1>1. /\ body \in [Requests -> Bodies \cup {NoBody}]
      /\ token \in [Requests -> Claims \cup {NoToken}]
      /\ phase \in [Requests -> {"waiting", "count", "insert", "limit",
                                 "lookup"} \cup Answers]
      /\ users \subseteq Users
  BY DEF AccountInv, TypeOK
<1>2. \A r \in Requests :
        /\ phase[r] # "ok" => token[r] = NoToken
        /\ phase[r] \in {"count", "insert", "limit", "lookup"}
             => body[r] \in Bodies
        /\ phase[r] \in {"waiting", "insert", "limit", "lookup"}
             => r \notin late
        /\ body = [body EXCEPT ![r] = body[r]]
  BY <1>1 DEF AccountInv, CallsInOrder, LateIsRefused
<1>3. ASSUME NEW r \in Requests, NEW b \in Bodies, Register(r, b)
      PROVE  AccountInv'
  <2>1. PICK p \in {"count", "bad_request"} : Goes(r, p)
    BY <1>3 DEF Register
  <2>2. /\ phase[r] = "waiting" /\ body' = [body EXCEPT ![r] = b]
        /\ late' = (IF users = {} THEN late ELSE late \cup {r})
        /\ UNCHANGED <<users, token, expired>>
    BY <1>3 DEF Register
  <2>3. body'[r] \in Bodies
    BY <1>1, <2>2
  <2>4. p \in {"count", "insert", "limit", "lookup"} \cup Answers
    BY <2>1 DEF Answers
  <2>5. \/ late' = late
        \/ late' = late \cup {r} /\ users # {} /\ p = "bad_request"
        \/ late' = late \cup {r} /\ users # {} /\ p = "count"
    BY <2>1, <2>2
  <2> QED
    BY <1>2, <2>1, <2>2, <2>3, <2>4, <2>5, MovesOn
<1>4. ASSUME NEW r \in Requests, NEW b \in Bodies, Login(r, b)
      PROVE  AccountInv'
  <2>1. PICK p \in {"limit", "bad_request"} : Goes(r, p)
    BY <1>4 DEF Login
  <2>2. /\ phase[r] = "waiting" /\ body' = [body EXCEPT ![r] = b]
        /\ UNCHANGED <<users, token, expired, late>>
    BY <1>4 DEF Login
  <2>3. body'[r] \in Bodies
    BY <1>1, <2>2
  <2>4. p \in {"count", "insert", "limit", "lookup"} \cup Answers
    BY <2>1 DEF Answers
  <2> QED
    BY <1>2, <2>1, <2>2, <2>3, <2>4, MovesOn
<1>5. ASSUME NEW r \in Requests, CountUsers(r)
      PROVE  AccountInv'
  <2>1. /\ phase[r] = "count" /\ body' = body
        /\ UNCHANGED <<users, token, expired, late>>
        /\ body[r] \in Bodies \cup {NoBody}
    BY <1>1, <1>5 DEF CountUsers
  <2>2. CASE Cardinality(users) > 0
    <3>1. Goes(r, "forbidden")
      BY <1>5, <2>2 DEF CountUsers
    <3> QED
      BY <1>2, <2>1, <3>1, MovesOn DEF Answers
  <2>3. CASE ~(Cardinality(users) > 0)
    <3>1. Goes(r, "insert")
      BY <1>5, <2>3 DEF CountUsers
    <3>2. users = {}
      BY <2>3, FS_EmptySet, FS_CardinalityType DEF AccountInv, UsersDistinct
    <3>3. r \notin late
      BY <3>2 DEF AccountInv, LateIsRefused
    <3> QED
      BY <1>2, <2>1, <3>1, <3>3, MovesOn
  <2> QED
    BY <2>2, <2>3
<1>6. ASSUME NEW r \in Requests, InsertUser(r)
      PROVE  AccountInv'
  <2>1. /\ phase[r] = "insert" /\ UNCHANGED <<body, expired, late>>
        /\ body[r] \in Bodies /\ r \notin late
    BY <1>2, <1>6 DEF InsertUser
  <2>2. CASE \E u \in users : Key(u.username) = Key(body[r].name)
    <3>1. Goes(r, "conflict") /\ UNCHANGED <<users, token>>
      BY <1>6, <2>2 DEF InsertUser
    <3> QED
      BY <1>2, <2>1, <3>1, MovesOn DEF Answers
  <2>3. CASE ~ \E u \in users : Key(u.username) = Key(body[r].name)
    <3>1. users' = users \cup {Row(r)}
      BY <1>6, <2>3 DEF InsertUser
    <3>2. IssueJwt(r, Row(r).id, body[r].name)
      BY <1>6, <2>3 DEF InsertUser
    <3>3. /\ UsersDistinct' /\ users' \subseteq Users
          /\ Row(r) \in users'
          /\ Row(r).username = body[r].name
          /\ Row(r).password = body[r].password
      BY <2>1, <2>3, <3>1, RowIsNew
    <3>4. PICK u \in users' : u = Row(r)
      BY <3>3
    <3>5. IssueJwt(r, u.id, u.username)
      BY <3>2, <3>3, <3>4
    <3> QED
      BY <2>1, <3>1, <3>3, <3>4, <3>5, TokenIssued
  <2> QED
    BY <2>2, <2>3
<1>7. ASSUME NEW r \in Requests, EnforceRateLimit(r)
      PROVE  AccountInv'
  <2>1. PICK p \in {"lookup", "rate_limited"} : Goes(r, p)
    BY <1>7 DEF EnforceRateLimit
  <2>2. /\ phase[r] = "limit" /\ body' = body
        /\ UNCHANGED <<users, token, expired, late>>
    BY <1>7 DEF EnforceRateLimit
  <2>3. p \in {"count", "insert", "limit", "lookup"} \cup Answers
    BY <2>1 DEF Answers
  <2> QED
    BY <1>2, <2>1, <2>2, <2>3, MovesOn
<1>8. ASSUME NEW r \in Requests, CheckPassword(r)
      PROVE  AccountInv'
  <2>1. /\ phase[r] = "lookup" /\ UNCHANGED <<body, users, expired, late>>
        /\ body[r] \in Bodies /\ r \notin late
    BY <1>2, <1>8 DEF CheckPassword
  <2>2. CASE Goes(r, "unauthorized") /\ UNCHANGED token
    BY <1>2, <2>1, <2>2, MovesOn DEF Answers
  <2>3. ASSUME NEW u \in users, Key(u.username) = Key(body[r].name),
               u.password = body[r].password,
               IssueJwt(r, u.id, u.username)
        PROVE  AccountInv'
    <3>1. UsersDistinct' /\ users \subseteq users' /\ users' \subseteq Users
          /\ u \in users'
      BY <1>1, <2>1 DEF AccountInv, UsersDistinct
    <3> QED
      BY <2>1, <2>3, <3>1, TokenIssued
  <2> QED
    BY <1>8, <2>2, <2>3 DEF CheckPassword
<1>9. ASSUME NEW r \in Requests, Fail(r)
      PROVE  AccountInv'
  <2>1. /\ phase[r] \in {"count", "insert", "lookup"} /\ body' = body
        /\ UNCHANGED <<users, token, expired, late>>
        /\ Goes(r, "internal")
    BY <1>9 DEF Fail
  <2> QED
    BY <1>2, <2>1, MovesOn DEF Answers
<1>10. ASSUME NEW r \in Requests, Expire(r)
       PROVE  AccountInv'
  <2>1. TypeOK'
    BY <1>10 DEF Expire, AccountInv, TypeOK
  <2> QED
    BY <1>10, <2>1 DEF Expire, AccountInv, CallsInOrder, UsersDistinct,
       LateIsRefused, TokenHasUser
<1>11. ASSUME NEW r \in Requests, NEW t \in Requests, CallProtected(r, t)
       PROVE  AccountInv'
  <2>1. PICK p \in {"ok", "unauthorized"} : Goes(r, p)
    BY <1>11 DEF CallProtected
  <2>2. /\ phase[r] = "waiting" /\ body' = body
        /\ UNCHANGED <<users, token, expired, late>>
        /\ body[r] \in Bodies \cup {NoBody}
    BY <1>1, <1>11 DEF CallProtected
  <2>3. p \in {"count", "insert", "limit", "lookup"} \cup Answers
        /\ p \notin {"count", "insert", "limit", "lookup"}
    BY <2>1 DEF Answers
  <2> QED
    BY <1>2, <2>1, <2>2, <2>3, MovesOn
<1>12. CASE UNCHANGED vars
  BY <1>12 DEF vars, AccountInv, TypeOK, CallsInOrder, UsersDistinct,
     LateIsRefused, TokenHasUser
<1>13. ASSUME NEW r \in Requests, JsonRejected(r)
       PROVE  AccountInv'
  <2>1. /\ phase[r] = "waiting" /\ body' = body
        /\ UNCHANGED <<users, token, expired, late>>
        /\ Goes(r, "unprocessable")
        /\ body[r] \in Bodies \cup {NoBody}
    BY <1>1, <1>13 DEF JsonRejected
  <2> QED
    BY <1>2, <2>1, MovesOn DEF Answers
<1> QED
  BY <1>3, <1>4, <1>5, <1>6, <1>7, <1>8, <1>9, <1>10, <1>11, <1>12, <1>13
     DEF Next, Done

\* AccountInv holds at the start, when there is no user.
LEMMA AccountStarts == Init => AccountInv
<1> SUFFICES ASSUME Init PROVE AccountInv
  OBVIOUS
<1>1. TypeOK
  BY DEF Init, TypeOK
<1>2. UsersDistinct
  BY FS_EmptySet DEF Init, UsersDistinct
<1> QED
  BY <1>1, <1>2 DEF Init, AccountInv, CallsInOrder, LateIsRefused,
     TokenHasUser

\* Every call is in one of the phases the handlers go through, and only a
\* call with a token has one that expires.
THEOREM AccountsTypeCorrect == Spec => []TypeOK
<1>1. AccountInv => TypeOK
  BY DEF AccountInv
<1> QED
  BY <1>1, AccountStarts, AccountStep, PTL DEF Spec

\* The window between the count and the insert admits only calls that began
\* before there was a user: users are never removed, so a call that began
\* later counts one.
THEOREM LateRegistrationsFail == Spec => []LateCallsCreateNothing
<1>1. AccountInv => LateCallsCreateNothing
  BY DEF AccountInv, LateIsRefused, LateCallsCreateNothing
<1> QED
  BY <1>1, AccountStarts, AccountStep, PTL DEF Spec

\* However registrations and logins interleave, a token is the one of the
\* user whose password was sent, and names identify users as ids do.
THEOREM TokensIdentify == Spec => []TokensOwnUsers
<1>1. AccountInv => TokensOwnUsers
  <2> SUFFICES ASSUME AccountInv PROVE TokensOwnUsers
    OBVIOUS
  <2>1. ASSUME NEW q \in Requests, NEW r \in Requests,
               token[q] # NoToken, token[r] # NoToken
        PROVE  token[q].uid = token[r].uid
                 <=> Key(token[q].sub) = Key(token[r].sub)
    <3>1. PICK u \in users : u.id = token[q].uid /\ u.username = token[q].sub
      BY <2>1 DEF AccountInv, TokenHasUser
    <3>2. PICK v \in users : v.id = token[r].uid /\ v.username = token[r].sub
      BY <2>1 DEF AccountInv, TokenHasUser
    <3> QED
      BY <3>1, <3>2 DEF AccountInv, UsersDistinct
  <2> QED
    BY <2>1 DEF AccountInv, TokenHasUser, TokensOwnUsers
<1> QED
  BY <1>1, AccountStarts, AccountStep, PTL DEF Spec

-----------------------------------------------------------------------------
(* The one-time bootstrap.  Two registrations that both counted no user    *)
(* both insert; nothing else makes a second user.                          *)

\* At most one call is between its count and its insert.
OneInserts ==
    \A q, r \in Requests :
        phase[q] = "insert" /\ phase[r] = "insert" => q = r

\* Once there is a user no call is about to insert another.
NoneInserts == users # {} => \A r \in Requests : phase[r] # "insert"

\* While registrations do not overlap there, no step adds a second user.
LEMMA BootstrapStep ==
    AccountInv /\ OneInserts /\ NoneInserts /\ [Next]_vars
        => NoneInserts' /\ (users # {} => users' = users)
<1> SUFFICES ASSUME AccountInv, OneInserts, NoneInserts, [Next]_vars
             PROVE  NoneInserts' /\ (users # {} => users' = users)
  OBVIOUS
<1>1. phase \in [Requests -> {"waiting", "count", "insert", "limit",
                              "lookup"} \cup Answers]
  BY DEF AccountInv, TypeOK
<1>2. ASSUME NEW r \in Requests, InsertUser(r)
      PROVE  NoneInserts' /\ (users # {} => users' = users)
  <2>1. phase[r] = "insert" /\ users = {}
    BY <1>2 DEF InsertUser, NoneInserts
  <2>2. \E p \in {"conflict", "ok", "internal"} :
          phase' = [phase EXCEPT ![r] = p]
    BY <1>2 DEF InsertUser, IssueJwt, Goes
  <2>3. ASSUME NEW q \in Requests PROVE phase'[q] # "insert"
    BY <1>1, <2>1, <2>2 DEF OneInserts
  <2> QED
    BY <2>1, <2>3 DEF NoneInserts
<1>3. ASSUME NEW r \in Requests, CountUsers(r)
      PROVE  NoneInserts' /\ (users # {} => users' = users)
  <2>1. users' = users
    BY <1>3 DEF CountUsers
  <2>2. ASSUME users # {}
        PROVE  \A q \in Requests : phase'[q] # "insert"
    <3>1. Cardinality(users) \in Nat /\ Cardinality(users) # 0
      BY <2>2, FS_CardinalityType, FS_EmptySet
         DEF AccountInv, UsersDistinct
    <3>2. phase' = [phase EXCEPT ![r] = "forbidden"]
      <4>1. Cardinality(users) > 0
        BY <3>1
      <4> QED
        BY <1>3, <4>1 DEF CountUsers, Goes
    <3> QED
      BY <1>1, <2>2, <3>2 DEF NoneInserts
  <2> QED
    BY <2>1, <2>2 DEF NoneInserts
<1>4. ASSUME NEW r \in Requests,
             \/ \E b \in Bodies : Register(r, b) \/ Login(r, b)
             \/ EnforceRateLimit(r) \/ CheckPassword(r) \/ Fail(r)
             \/ JsonRejected(r)
             \/ \E t \in Requests : CallProtected(r, t)
      PROVE  NoneInserts' /\ (users # {} => users' = users)
  <2>1. users' = users
    BY <1>4 DEF Register, Login, EnforceRateLimit, CheckPassword, Fail,
       JsonRejected, CallProtected
  <2>2. \E p \in ({"count", "limit", "lookup"} \cup Answers) :
          phase' = [phase EXCEPT ![r] = p]
    BY <1>4 DEF Register, Login, EnforceRateLimit, CheckPassword, Fail,
       JsonRejected, CallProtected, IssueJwt, Goes, Answers
  <2>3. \A q \in Requests : phase'[q] = "insert" => phase[q] = "insert"
    BY <1>1, <2>2 DEF Answers
  <2> QED
    BY <2>1, <2>3 DEF NoneInserts
<1>5. ASSUME NEW r \in Requests, Expire(r)
      PROVE  NoneInserts' /\ (users # {} => users' = users)
  BY <1>5 DEF Expire, NoneInserts
<1>6. CASE UNCHANGED vars
  BY <1>6 DEF vars, NoneInserts
<1> QED
  BY <1>2, <1>3, <1>4, <1>5, <1>6 DEF Next, Done

\* What the README says of POST /api/auth/register holds as long as no two
\* calls are between count and insert together: this overlap, which the run
\* that refutes the claim shows, is the only way to a second user.
THEOREM BootstrapHoldsUnlessCallsOverlap ==
    Spec /\ []OneInserts => RegistrationIsOneTime
<1>1. Init => NoneInserts
  BY DEF Init, NoneInserts
<1>2. AccountInv /\ OneInserts /\ NoneInserts /\ [Next]_vars
        => NoneInserts' /\ [users # {} => users' = users]_vars
  BY BootstrapStep
<1> QED
  BY <1>1, <1>2, AccountStarts, AccountStep, PTL
     DEF Spec, RegistrationIsOneTime

\* The calls between their count and their insert, and that K at most are
\* there together.
Inserting == {r \in Requests : phase[r] = "insert"}
OverlapUpTo(K) == IsFiniteSet(Inserting) /\ Cardinality(Inserting) <= K

\* From the first user on, those there are and those under way are K at most.
Quota(K) == users # {} => Cardinality(users) + Cardinality(Inserting) <= K

\* A step that adds no user, and leads no call towards an insert, keeps Quota.
LEMMA QuotaFrame ==
    ASSUME NEW K \in Nat, AccountInv, OverlapUpTo(K), Quota(K),
           users' = users, users # {} => Inserting' \subseteq Inserting
    PROVE  Quota(K)'
<1> SUFFICES ASSUME users # {}
             PROVE  Cardinality(users) + Cardinality(Inserting') <= K
  BY DEF Quota
<1>1. Inserting' \in SUBSET Inserting
  OBVIOUS
<1>2. IsFiniteSet(Inserting') /\ Cardinality(Inserting') <=
        Cardinality(Inserting)
  BY <1>1, FS_Subset DEF OverlapUpTo
<1>3. /\ Cardinality(Inserting) \in Nat /\ Cardinality(Inserting') \in Nat
      /\ Cardinality(users) \in Nat
  BY <1>2, FS_CardinalityType DEF OverlapUpTo, AccountInv, UsersDistinct
<1> QED
  BY <1>2, <1>3 DEF Quota

\* Every step keeps Quota, while K calls at most overlap.
LEMMA QuotaStep ==
    ASSUME NEW K \in Nat
    PROVE  AccountInv /\ OverlapUpTo(K) /\ Quota(K) /\ [Next]_vars
             => Quota(K)'
<1> SUFFICES ASSUME AccountInv, OverlapUpTo(K), Quota(K), [Next]_vars
             PROVE  Quota(K)'
  OBVIOUS
<1>1. phase \in [Requests -> {"waiting", "count", "insert", "limit",
                              "lookup"} \cup Answers]
  BY DEF AccountInv, TypeOK
<1>2. IsFiniteSet(users) /\ Cardinality(users) \in Nat
  BY FS_CardinalityType DEF AccountInv, UsersDistinct
<1>3. ASSUME NEW r \in Requests, InsertUser(r) PROVE Quota(K)'
  <2>1. phase[r] = "insert" /\ r \in Inserting
    BY <1>3 DEF InsertUser, Inserting
  <2>2. \E p \in {"conflict", "ok", "internal"} :
          phase' = [phase EXCEPT ![r] = p]
    BY <1>3 DEF InsertUser, IssueJwt, Goes
  <2>3. Inserting' = Inserting \ {r}
    BY <1>1, <2>2 DEF Inserting
  <2>4. CASE users' = users
    BY <2>3, <2>4, QuotaFrame
  <2>5. CASE users' # users
    <3>1. users' = users \cup {Row(r)}
      BY <1>3, <2>5 DEF InsertUser
    <3>2. Row(r) \notin users
      BY <1>2 DEF Row, AccountInv, UsersDistinct
    <3>3. Cardinality(users') = Cardinality(users) + 1
      BY <1>2, <3>1, <3>2, FS_AddElement
    <3>4. /\ Cardinality(Inserting) \in Nat
          /\ Cardinality(Inserting') = Cardinality(Inserting) - 1
      BY <2>1, <2>3, FS_RemoveElement, FS_CardinalityType DEF OverlapUpTo
    <3>5. CASE users = {}
      <4>1. Cardinality(users) = 0
        BY <3>5, FS_EmptySet
      <4> QED
        BY <3>3, <3>4, <4>1 DEF Quota, OverlapUpTo
    <3>6. CASE users # {}
      BY <1>2, <3>3, <3>4, <3>6 DEF Quota
    <3> QED
      BY <3>5, <3>6
  <2> QED
    BY <2>4, <2>5
<1>4. ASSUME NEW r \in Requests, CountUsers(r) PROVE Quota(K)'
  <2>1. users' = users
    BY <1>4 DEF CountUsers
  <2>2. ASSUME users # {} PROVE Inserting' \subseteq Inserting
    <3>1. Cardinality(users) > 0
      BY <1>2, <2>2, FS_EmptySet
    <3>2. phase' = [phase EXCEPT ![r] = "forbidden"]
      BY <1>4, <3>1 DEF CountUsers, Goes
    <3> QED
      BY <1>1, <3>2 DEF Inserting
  <2> QED
    BY <2>1, <2>2, QuotaFrame
<1>5. ASSUME NEW r \in Requests,
             \/ \E b \in Bodies : Register(r, b) \/ Login(r, b)
             \/ EnforceRateLimit(r) \/ CheckPassword(r) \/ Fail(r)
             \/ JsonRejected(r)
             \/ \E t \in Requests : CallProtected(r, t)
      PROVE  Quota(K)'
  <2>1. users' = users
    BY <1>5 DEF Register, Login, EnforceRateLimit, CheckPassword, Fail,
       JsonRejected, CallProtected
  <2>2. \E p \in ({"count", "limit", "lookup"} \cup Answers) :
          phase' = [phase EXCEPT ![r] = p]
    BY <1>5 DEF Register, Login, EnforceRateLimit, CheckPassword, Fail,
       JsonRejected, CallProtected, IssueJwt, Goes, Answers
  <2>3. Inserting' \subseteq Inserting
    BY <1>1, <2>2 DEF Inserting, Answers
  <2> QED
    BY <2>1, <2>3, QuotaFrame
<1>6. ASSUME UNCHANGED <<users, phase>> PROVE Quota(K)'
  BY <1>6 DEF Quota, Inserting
<1>7. ASSUME NEW r \in Requests, Expire(r) PROVE Quota(K)'
  BY <1>6, <1>7 DEF Expire
<1>8. CASE UNCHANGED vars
  BY <1>6, <1>8 DEF vars
<1> QED
  BY <1>3, <1>4, <1>5, <1>7, <1>8 DEF Next, Done

\* How many accounts the race can make: no more than registrations were ever
\* between count and insert together, whatever is tried before or after.
THEOREM UsersAreNoMoreThanOverlap ==
    ASSUME NEW K \in Nat
    PROVE  Spec /\ []OverlapUpTo(K) => [](Cardinality(users) <= K)
<1>1. Init => Quota(K)
  BY DEF Init, Quota
<1>2. AccountInv /\ OverlapUpTo(K) /\ Quota(K) => Cardinality(users) <= K
  <2> SUFFICES ASSUME AccountInv, OverlapUpTo(K), Quota(K)
               PROVE  Cardinality(users) <= K
    OBVIOUS
  <2>1. Cardinality(users) \in Nat /\ Cardinality(Inserting) \in Nat
    BY FS_CardinalityType DEF AccountInv, UsersDistinct, OverlapUpTo
  <2>2. CASE users = {}
    BY <2>1, <2>2, FS_EmptySet
  <2>3. CASE users # {}
    BY <2>1, <2>3 DEF Quota
  <2> QED
    BY <2>2, <2>3
<1>3. AccountInv /\ OverlapUpTo(K) /\ Quota(K) /\ [Next]_vars => Quota(K)'
  BY QuotaStep
<1> QED
  BY <1>1, <1>2, <1>3, AccountStarts, AccountStep, PTL DEF Spec

=============================================================================
