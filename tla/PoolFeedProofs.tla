--------------------------- MODULE PoolFeedProofs ---------------------------
(* Invariance proofs for PoolFeed, for every set of pools and payloads and *)
(* every capacity of the channel.                                          *)
EXTENDS PoolFeed, TLAPS

\* A task that has not given up has a failure to spare: what makes the bound
\* on `attempts` inductive.
AttemptsLeft == subscriber # "dead" => attempts < MaxAttempts

TypeInv == TypeOK /\ AttemptsLeft

\* The typing of the feed, with AttemptsLeft, is preserved by every step.
LEMMA TypeStep == TypeInv /\ [Next]_vars => TypeInv'
<1> SUFFICES ASSUME TypeInv, [Next]_vars PROVE TypeInv'
  OBVIOUS
<1> USE FeedAssumption
    DEF TypeInv, AttemptsLeft, TypeOK, SubscriberStates, ScannerStates
<1>1. CASE LinkBreaks
  <2>1. PICK k \in 0..Len(inFlight) :
             /\ inFlight' = SubSeq(inFlight, 1, k)
             /\ missed' = missed \cup
                            {inFlight[i].pool : i \in k+1..Len(inFlight)}
    BY <1>1 DEF LinkBreaks
  <2>2. inFlight' \in Seq(Logs)
    BY <2>1
  <2>3. \A i \in k+1..Len(inFlight) : inFlight[i].pool \in Pools
    <3>1. \A i \in 1..Len(inFlight) : inFlight[i] \in Logs
      OBVIOUS
    <3> QED
      BY <3>1 DEF Logs
  <2>4. missed' \subseteq Pools
    BY <2>1, <2>3
  <2> QED
    BY <1>1, <2>2, <2>4 DEF LinkBreaks, scanVars
<1>2. ASSUME NEW log \in Logs, NodeSendsLog(log) PROVE TypeInv'
  <2>1. log.pool \in Pools /\ log.payload \in Payloads \cup {NoPayload}
    BY DEF Logs
  <2>2. chain' \in [Pools -> Payloads] /\ missed' \subseteq Pools
    BY <1>2, <2>1 DEF NodeSendsLog
  <2>3. inFlight' = inFlight \/ inFlight' = Append(inFlight, log)
    BY <1>2 DEF NodeSendsLog, Delivered
  <2>4. inFlight' \in Seq(Logs)
    BY <2>3
  <2> QED
    BY <1>2, <2>2, <2>4 DEF NodeSendsLog, scanVars
<1>10. ASSUME NEW p \in Pools, NEW older \in Payloads, ReorgUndoes(p, older)
       PROVE TypeInv'
  <2>1. [pool |-> p, payload |-> chain[p]] \in Logs
    BY DEF Logs
  <2>2. inFlight' \in Seq(Logs)
    BY <1>10, <2>1 DEF ReorgUndoes, Delivered
  <2>3. chain' \in [Pools -> Payloads] /\ missed' \subseteq Pools
    BY <1>10 DEF ReorgUndoes
  <2> QED
    BY <1>10, <2>2, <2>3 DEF ReorgUndoes, scanVars
<1>3. CASE Subscribe
  <2>1. << >> \in Seq(Logs)
    OBVIOUS
  <2>2. inFlight' \in Seq(Logs)
    BY <1>3, <2>1 DEF Subscribe, GiveUpOrBackOff
  <2> QED
    BY <1>3, <2>2 DEF Subscribe, GiveUpOrBackOff, chainVars, scanVars
<1>4. CASE BackoffElapses
  BY <1>4 DEF BackoffElapses, chainVars, scanVars
<1>5. CASE ReadLog
  <2>1. Head(inFlight) \in Logs /\ inFlight' \in Seq(Logs)
    BY <1>5 DEF ReadLog
  <2>2. store' \in [Pools -> Payloads \cup {NoPayload}]
    BY <1>5, <2>1 DEF ReadLog, ApplySync, Logs
  <2> QED
    BY <1>5, <2>1, <2>2 DEF ReadLog, chainVars, scanVars
<1>6. CASE SendUpdate
  BY <1>6 DEF SendUpdate, chainVars, scanVars
<1>7. CASE StreamEnds
  BY <1>7 DEF StreamEnds, GiveUpOrBackOff, chainVars, scanVars
<1>8. CASE Scanner
  BY <1>8 DEF Scanner, ScannerFails, ScannerConnects, Recv, TryRecv,
     DrainEnds, PriceKnown, ScanPairs, TradesDone,
     feedVars, chainVars, scanVars
<1>9. CASE UNCHANGED vars
  BY <1>9 DEF vars, feedVars, chainVars, scanVars
<1> QED
  BY <1>1, <1>2, <1>3, <1>4, <1>5, <1>6, <1>7, <1>8, <1>9, <1>10
  DEF Next, Node, Subscriber

\* Every variable of the feed keeps its type; in particular the channel never
\* holds more wake-ups than its capacity and the subscription task never
\* counts more than MaxAttempts failures.
THEOREM TypeCorrect == Spec => []TypeOK
<1>1. Init => TypeInv
  BY FeedAssumption DEF Init, TypeInv, AttemptsLeft, TypeOK, Logs,
     SubscriberStates, ScannerStates
<1>2. TypeInv => TypeOK
  BY DEF TypeInv
<1> QED
  BY <1>1, <1>2, TypeStep, PTL DEF Spec

\* A change of the store that the scanner has not read is announced by a
\* queued wake-up or is about to be: try_send may be refused only by a full
\* channel, which already holds one (capacities are at least 1), and the
\* drain only empties the channel on the way to the next read of the store.
THEOREM UpdatesAnnounced == Spec => []UnseenIsAnnounced
<1>1. Init => UnseenIsAnnounced
  BY DEF Init, UnseenIsAnnounced
<1>2. TypeOK /\ UnseenIsAnnounced /\ [Next]_vars => UnseenIsAnnounced'
  <2> SUFFICES ASSUME TypeOK, UnseenIsAnnounced, [Next]_vars
               PROVE UnseenIsAnnounced'
    OBVIOUS
  <2> USE FeedAssumption DEF UnseenIsAnnounced
  <2>1. CASE Node
    BY <2>1 DEF Node, LinkBreaks, NodeSendsLog, ReorgUndoes, scanVars
  <2>2. CASE Subscribe
    BY <2>2 DEF Subscribe, GiveUpOrBackOff, chainVars, scanVars
  <2>3. CASE BackoffElapses
    BY <2>3 DEF BackoffElapses, chainVars, scanVars
  <2>4. CASE ReadLog
    BY <2>4 DEF ReadLog, chainVars, scanVars
  <2>5. CASE SendUpdate
    BY <2>5 DEF SendUpdate, chainVars, scanVars, TypeOK
  <2>6. CASE StreamEnds
    BY <2>6 DEF StreamEnds, GiveUpOrBackOff, chainVars, scanVars
  <2>7. CASE Scanner
    BY <2>7 DEF Scanner, ScannerFails, ScannerConnects, Recv, TryRecv,
       DrainEnds, PriceKnown, ScanPairs, TradesDone,
       feedVars, chainVars, scanVars
  <2>8. CASE UNCHANGED vars
    BY <2>8 DEF vars, feedVars, chainVars, scanVars
  <2> QED
    BY <2>1, <2>2, <2>3, <2>4, <2>5, <2>6, <2>7, <2>8 DEF Next, Subscriber
<1> QED
  BY <1>1, <1>2, TypeCorrect, PTL DEF Spec

\* Outside a subscription nothing is on its way: the stream was read to its
\* end before the task went to reconnect.
StreamIsRead ==
    subscriber \in {"connecting", "backoff", "dead"}
        => link = "down" /\ inFlight = << >>

\* The store has the chain's reserves of p, or the last log of p on its way
\* carries them.
FollowsChain(p) ==
    /\ (\A i \in 1..Len(inFlight) :
           inFlight[i].pool = p => inFlight[i].payload = NoPayload)
         => store[p] = chain[p]
    /\ \A i \in 1..Len(inFlight) :
         /\ inFlight[i].pool = p
         /\ inFlight[i].payload # NoPayload
         /\ \A j \in i+1..Len(inFlight) :
              inFlight[j].pool = p => inFlight[j].payload = NoPayload
         => inFlight[i].payload = chain[p]

FeedInv == TypeInv /\ StreamIsRead /\ \A p \in Pools \ missed : FollowsChain(p)

\* A log of another pool, or without a payload, changes nothing for p.
LEMMA OtherLog ==
    ASSUME TypeOK, NEW p \in Pools, FollowsChain(p), NEW log \in Logs,
           inFlight' = inFlight \/ inFlight' = Append(inFlight, log),
           log.pool # p \/ log.payload = NoPayload,
           store'[p] = store[p], chain'[p] = chain[p]
    PROVE FollowsChain(p)'
<1>1. CASE inFlight' = inFlight
  BY <1>1 DEF FollowsChain
<1>2. CASE inFlight' = Append(inFlight, log)
  <2>1. /\ Len(inFlight') = Len(inFlight) + 1 /\ Len(inFlight) \in Nat
        /\ \A i \in 1..Len(inFlight) : inFlight'[i] = inFlight[i]
        /\ inFlight'[Len(inFlight) + 1] = log
    BY <1>2 DEF TypeOK
  <2> QED
    BY <2>1 DEF FollowsChain
<1> QED
  BY <1>1, <1>2

\* Every step keeps FeedInv.
LEMMA FeedStep == FeedInv /\ [Next]_vars => FeedInv'
<1> SUFFICES ASSUME FeedInv, [Next]_vars PROVE FeedInv'
  OBVIOUS
<1>0. TypeInv /\ TypeInv' /\ TypeOK
  BY TypeStep DEF FeedInv, TypeInv
<1>1. StreamIsRead'
  BY <1>0 DEF FeedInv, StreamIsRead, TypeInv, TypeOK, Next, Node, LinkBreaks,
     NodeSendsLog, ReorgUndoes, Delivered, Subscriber, Scanner, Subscribe,
     GiveUpOrBackOff, BackoffElapses, ReadLog, SendUpdate, StreamEnds,
     ScannerFails, ScannerConnects, Recv, TryRecv, DrainEnds, PriceKnown,
     ScanPairs, TradesDone, vars, feedVars, chainVars, scanVars
<1>2. ASSUME NEW p \in Pools \ missed' PROVE FollowsChain(p)'
  <2>1. CASE LinkBreaks
    <3>1. PICK k \in 0..Len(inFlight) :
             /\ inFlight' = SubSeq(inFlight, 1, k)
             /\ missed' = missed \cup
                            {inFlight[i].pool : i \in k+1..Len(inFlight)}
      BY <2>1 DEF LinkBreaks
    <3>2. /\ Len(inFlight') = k /\ Len(inFlight) \in Nat
          /\ \A i \in 1..k : inFlight'[i] = inFlight[i]
      BY <1>0, <3>1 DEF TypeOK
    <3>3. \A i \in k+1..Len(inFlight) : inFlight[i].pool # p
      BY <1>2, <3>1
    <3>4. FollowsChain(p) /\ UNCHANGED <<store, chain>>
      BY <1>2, <2>1, <3>1 DEF FeedInv, LinkBreaks
    <3> QED
      BY <3>2, <3>3, <3>4 DEF FollowsChain
  <2>2. ASSUME NEW log \in Logs, NodeSendsLog(log) PROVE FollowsChain(p)'
    <3>1. CASE log.pool # p \/ log.payload = NoPayload
      <4>1. p \notin missed
        BY <1>2, <2>2, <3>1 DEF NodeSendsLog
      <4>2. inFlight' = inFlight \/ inFlight' = Append(inFlight, log)
        BY <2>2 DEF NodeSendsLog, Delivered
      <4>3. store' = store /\ chain'[p] = chain[p]
        BY <1>0, <2>2, <3>1 DEF NodeSendsLog, TypeOK
      <4> QED
        BY <1>0, <1>2, <3>1, <4>1, <4>2, <4>3, OtherLog DEF FeedInv
    <3>2. CASE log.pool = p /\ log.payload # NoPayload
      <4>1. inFlight' = Append(inFlight, log)
        BY <1>2, <2>2, <3>2 DEF NodeSendsLog, Delivered
      <4>2. /\ Len(inFlight') = Len(inFlight) + 1 /\ Len(inFlight) \in Nat
            /\ inFlight'[Len(inFlight) + 1] = log
        BY <1>0, <4>1 DEF TypeOK
      <4>3. chain'[p] = log.payload
        BY <1>0, <1>2, <2>2, <3>2 DEF NodeSendsLog, TypeOK
      <4> QED
        BY <3>2, <4>2, <4>3 DEF FollowsChain
    <3> QED
      BY <3>1, <3>2
  <2>3. ASSUME NEW q \in Pools, NEW older \in Payloads, ReorgUndoes(q, older)
        PROVE FollowsChain(p)'
    <3> DEFINE log == [pool |-> q, payload |-> chain[q]]
    <3>1. log \in Logs /\ log.pool = q
      BY <1>0 DEF TypeOK, Logs
    <3>2. p # q /\ p \notin missed
      BY <1>2, <2>3 DEF ReorgUndoes
    <3>3. inFlight' = inFlight \/ inFlight' = Append(inFlight, log)
      BY <2>3 DEF ReorgUndoes, Delivered
    <3>4. store' = store /\ chain'[p] = chain[p]
      BY <1>0, <2>3, <3>2 DEF ReorgUndoes, TypeOK
    <3> HIDE DEF log
    <3> QED
      BY <1>0, <1>2, <3>1, <3>2, <3>3, <3>4, OtherLog DEF FeedInv
  <2>4. CASE ReadLog
    <3>1. /\ Len(inFlight) \in Nat \ {0}
          /\ Len(inFlight') = Len(inFlight) - 1
          /\ \A i \in 1..Len(inFlight') : inFlight'[i] = inFlight[i + 1]
          /\ Head(inFlight) = inFlight[1]
      BY <1>0, <2>4 DEF ReadLog, TypeOK
    <3>2. FollowsChain(p) /\ chain' = chain
      BY <1>2, <2>4 DEF FeedInv, ReadLog, chainVars
    <3>3. CASE Head(inFlight).pool # p \/ Head(inFlight).payload = NoPayload
      <4>1. store'[p] = store[p]
        BY <1>0, <1>2, <2>4, <3>3 DEF ReadLog, ApplySync, TypeOK
      <4>2. \A i \in 2..Len(inFlight) : inFlight[i] = inFlight'[i - 1]
        BY <3>1
      <4>3. ASSUME \A i \in 1..Len(inFlight') : inFlight'[i].pool = p
                       => inFlight'[i].payload = NoPayload
            PROVE store'[p] = chain'[p]
        <5>1. \A i \in 1..Len(inFlight) : inFlight[i].pool = p
                       => inFlight[i].payload = NoPayload
          BY <3>1, <3>3, <4>2, <4>3
        <5> QED
          BY <3>2, <4>1, <5>1 DEF FollowsChain
      <4>4. ASSUME NEW i \in 1..Len(inFlight'), inFlight'[i].pool = p,
                   inFlight'[i].payload # NoPayload,
                   \A j \in i+1..Len(inFlight') : inFlight'[j].pool = p
                       => inFlight'[j].payload = NoPayload
            PROVE inFlight'[i].payload = chain'[p]
        <5>1. \A j \in i+2..Len(inFlight) : inFlight[j].pool = p
                       => inFlight[j].payload = NoPayload
          BY <3>1, <4>2, <4>4
        <5>2. /\ i + 1 \in 1..Len(inFlight) /\ (i + 1) + 1 = i + 2
              /\ inFlight[i + 1] = inFlight'[i]
          BY <3>1
        <5>3. inFlight[i + 1].payload = chain[p]
          BY <3>2, <4>4, <5>1, <5>2 DEF FollowsChain
        <5> QED
          BY <3>2, <5>2, <5>3
      <4> QED
        BY <4>3, <4>4 DEF FollowsChain
    <3>4. CASE Head(inFlight).pool = p /\ Head(inFlight).payload # NoPayload
      <4>1. store'[p] = Head(inFlight).payload
        BY <1>0, <1>2, <2>4, <3>4 DEF ReadLog, ApplySync, TypeOK
      <4>2. \A i \in 2..Len(inFlight) : inFlight[i] = inFlight'[i - 1]
        BY <3>1
      <4>3. ASSUME \A i \in 1..Len(inFlight') : inFlight'[i].pool = p
                       => inFlight'[i].payload = NoPayload
            PROVE store'[p] = chain'[p]
        <5>1. \A i \in 2..Len(inFlight) : inFlight[i].pool = p
                       => inFlight[i].payload = NoPayload
          BY <3>1, <4>2, <4>3
        <5>2. inFlight[1].payload = chain[p]
          BY <3>1, <3>2, <3>4, <5>1 DEF FollowsChain
        <5> QED
          BY <3>1, <3>2, <4>1, <5>2
      <4>4. ASSUME NEW i \in 1..Len(inFlight'), inFlight'[i].pool = p,
                   inFlight'[i].payload # NoPayload,
                   \A j \in i+1..Len(inFlight') : inFlight'[j].pool = p
                       => inFlight'[j].payload = NoPayload
            PROVE inFlight'[i].payload = chain'[p]
        <5>1. \A j \in i+2..Len(inFlight) : inFlight[j].pool = p
                       => inFlight[j].payload = NoPayload
          BY <3>1, <4>2, <4>4
        <5>2. /\ i + 1 \in 1..Len(inFlight) /\ (i + 1) + 1 = i + 2
              /\ inFlight[i + 1] = inFlight'[i]
          BY <3>1
        <5>3. inFlight[i + 1].payload = chain[p]
          BY <3>2, <4>4, <5>1, <5>2 DEF FollowsChain
        <5> QED
          BY <3>2, <5>2, <5>3
      <4> QED
        BY <4>3, <4>4 DEF FollowsChain
    <3> QED
      BY <3>3, <3>4
  <2>5. CASE Subscribe
    <3>1. inFlight' = inFlight /\ UNCHANGED <<store, chain, missed>>
      BY <2>5 DEF FeedInv, StreamIsRead, Subscribe, chainVars
    <3> QED
      BY <1>2, <3>1 DEF FeedInv, FollowsChain
  <2>6. CASE BackoffElapses \/ SendUpdate \/ StreamEnds \/ Scanner
             \/ UNCHANGED vars
    <3>1. UNCHANGED <<inFlight, store, chain, missed>>
      BY <2>6 DEF BackoffElapses, SendUpdate, StreamEnds, Scanner,
         ScannerFails, ScannerConnects, Recv, TryRecv, DrainEnds, PriceKnown,
         ScanPairs, TradesDone, vars, feedVars, chainVars
    <3> QED
      BY <1>2, <3>1 DEF FeedInv, FollowsChain
  <2> QED
    BY <2>1, <2>2, <2>3, <2>4, <2>5, <2>6 DEF Next, Node, Subscriber
<1> QED
  BY <1>0, <1>1, <1>2 DEF FeedInv

\* What the scanner works with when it sleeps is the chain's state, for every
\* pool whose newest change reached the subscription: losses, repetitions and
\* undone changes of the past do not matter once a live log has come.
THEOREM ScansAreCurrent == Spec => []ScannerIsCurrent
<1>1. Init => FeedInv
  <2> SUFFICES ASSUME Init PROVE FeedInv
    OBVIOUS
  <2>1. TypeInv
    BY FeedAssumption DEF Init, TypeInv, AttemptsLeft, TypeOK, Logs,
       SubscriberStates, ScannerStates
  <2> QED
    BY <2>1 DEF Init, FeedInv, StreamIsRead
<1>2. FeedInv /\ UnseenIsAnnounced => ScannerIsCurrent
  <2> SUFFICES ASSUME FeedInv, UnseenIsAnnounced, scanner = "recv",
                      updates = 0, subscriber # "notify",
                      NEW p \in Pools \ missed, Pending(p) = {}
               PROVE scanned[p] = chain[p]
    BY DEF ScannerIsCurrent
  <2>1. DOMAIN inFlight = 1..Len(inFlight)
    BY DEF FeedInv, TypeInv, TypeOK
  <2>2. \A i \in 1..Len(inFlight) :
           inFlight[i].pool = p => inFlight[i].payload = NoPayload
    BY <2>1 DEF Pending
  <2>3. scanned = store
    BY DEF UnseenIsAnnounced
  <2> QED
    BY <2>2, <2>3 DEF FeedInv, FollowsChain
<1> QED
  BY <1>1, <1>2, FeedStep, UpdatesAnnounced, PTL DEF Spec
=============================================================================
