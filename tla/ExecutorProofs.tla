--------------------------- MODULE ExecutorProofs ---------------------------
(* Invariance proofs for Executor, for every set of routes and base fees   *)
(* and every bound on the chain, the blocks and the opportunities.         *)
EXTENDS Executor, TLAPS

\* The transaction of a priced call is one, which the trades table can hold.
LEMMA TxTyped == TypeOK /\ pc \in Priced => tx \in Txs
  BY DEF TypeOK, Priced, Txs, tx

\* Every step preserves the types of the chain, the call and the tables.
LEMMA TypeStep == TypeOK /\ [Next]_vars => TypeOK'
<1> SUFFICES ASSUME TypeOK, [Next]_vars PROVE TypeOK'
  OBVIOUS
<1> USE ExecutorAssumption DEF TypeOK, PCs, Priced, Statuses
<1>1. CASE NewBlock
  <2>1. PICK landed \in SUBSET {b \in bundles : b.target = head + 1},
             n \in nonce..(nonce + MaxTxs) :
          /\ nonce' = n
          /\ mined' = mined \cup {[tx |-> b.tx, block |-> head + 1] :
                                    b \in landed}
    BY <1>1 DEF NewBlock
  <2>2. mined' \in SUBSET [tx : Txs, block : Nat]
    BY <2>1 DEF Bundles
  <2> QED
    BY <1>1, <2>1, <2>2 DEF NewBlock, callVars, dbVars
<1>2. ASSUME NEW r \in Routes, NEW d \in {"go", "no-go"},
             NextOpportunity(r, d)
      PROVE TypeOK'
  BY <1>2 DEF NextOpportunity, chainVars, dbVars
<1>3. CASE GetBlockNumber \/ GetNonce \/ GetBaseFee \/ SimulateBundle
  <2>1. CASE GetBlockNumber
    BY <2>1 DEF GetBlockNumber, chainVars, callVars, dbVars
  <2>2. CASE GetNonce
    BY <2>2 DEF GetNonce, chainVars, callVars, dbVars
  <2>3. CASE GetBaseFee
    BY <2>3 DEF GetBaseFee, chainVars, callVars, dbVars
  <2>4. CASE SimulateBundle
    BY <2>4 DEF SimulateBundle, chainVars, callVars, dbVars
  <2> QED
    BY <1>3, <2>1, <2>2, <2>3, <2>4
<1>4. CASE SubmitBundle
  <2>1. tx \in Txs
    BY <1>4, TxTyped DEF SubmitBundle
  <2>2. [tx |-> tx, target |-> targetBlock] \in Bundles
    BY <2>1 DEF Bundles, targetBlock
  <2> QED
    BY <1>4, <2>1, <2>2 DEF SubmitBundle, chainVars, callVars, dbVars
<1>5. CASE PollReceipt \/ CheckDeadline
  BY <1>5 DEF PollReceipt, CheckDeadline, chainVars, callVars, dbVars
<1>6. CASE InsertTrade
  <2>1. tx \in Txs
    BY <1>6, TxTyped DEF InsertTrade
  <2>2. [tx |-> tx, status |-> status, block |-> targetBlock] \in Trades
    BY <1>6, <2>1 DEF InsertTrade, Trades, targetBlock
  <2>3. trades' \in Seq(Trades) /\ tradeId' \in Nat
    BY <1>6, <2>2 DEF InsertTrade
  <2> QED
    BY <1>6, <2>3 DEF InsertTrade, chainVars, callVars
<1>7. CASE ExecuteFails
  <2>1. unrecorded' \in SUBSET Txs
    BY <1>7, TxTyped DEF ExecuteFails, InFlight, Waiting
  <2> QED
    BY <1>7, <2>1 DEF ExecuteFails, chainVars, callVars, dbVars
<1>8. CASE InsertOpportunity
  <2>1. [route |-> route, decision |-> decision, trade |-> tradeId]
          \in Opportunities
    BY <1>8 DEF InsertOpportunity, Opportunities
  <2>2. opportunities' \in Seq(Opportunities)
    BY <1>8, <2>1 DEF InsertOpportunity
  <2> QED
    BY <1>8, <2>2 DEF InsertOpportunity, ClearCall, chainVars
<1>9. CASE ScannerFails
  BY <1>9 DEF ScannerFails, ClearCall, chainVars, dbVars
<1>10. CASE Restart
  <2>1. unrecorded' \in SUBSET Txs
    BY <1>10, TxTyped DEF Restart, InFlight, Waiting
  <2> QED
    BY <1>10, <2>1 DEF Restart, ClearCall, chainVars, dbVars
<1>11. CASE UNCHANGED vars
  BY <1>11 DEF vars
<1> QED
  BY <1>1, <1>2, <1>3, <1>4, <1>5, <1>6, <1>7, <1>8, <1>9, <1>10, <1>11
  DEF Next, ExecuteStep

\* Every variable keeps its type: a priced transaction has a real base fee,
\* and a call at "record" has an outcome to write.
THEOREM TypeCorrect == Spec => []TypeOK
<1>1. Init => TypeOK
  <2> SUFFICES ASSUME Init PROVE TypeOK
    OBVIOUS
  <2>1. trades \in Seq(Trades) /\ opportunities \in Seq(Opportunities)
    BY DEF Init
  <2> QED
    BY <2>1, ExecutorAssumption DEF Init, TypeOK, PCs, Priced, Statuses
<1> QED
  BY <1>1, TypeStep, PTL DEF Spec

-----------------------------------------------------------------------------
(* Nonces.  What was read about the chain is tied to the chain as it is:   *)
(* a bundle targets the next block at the latest, and a nonce read since   *)
(* the current block appeared is the account's.                            *)

Calling == {"nonce", "fee"} \cup Priced

CallInPast == pc \in Calling => curBlock <= head
TargetsReached == \A b \in bundles : b.target <= head + 1
NonceIsFresh ==
    pc \in {"fee", "submit", "simulate"} /\ curBlock = head
        => txNonce = nonce

NonceInv ==
    CallInPast /\ TargetsReached /\ NonceIsFresh /\ LiveBundlesShareNonce

\* A step of the scanner's that adds no bundle preserves NonceInv if the call
\* goes on with what it has read, or ends.
LEMMA NonceFrame ==
    ASSUME TypeOK, NonceInv, UNCHANGED <<chainVars, bundles>>,
           \/ pc' \notin Calling
           \/ /\ pc \in Calling /\ UNCHANGED <<curBlock, txNonce>>
              /\ pc' \in {"fee", "submit", "simulate"}
                   => pc \in {"fee", "submit", "simulate"}
    PROVE  NonceInv'
  BY DEF NonceInv, CallInPast, TargetsReached, NonceIsFresh, chainVars,
     LiveBundlesShareNonce, Calling, Priced

\* Every step preserves NonceInv.  NewBlock passes the target of every bundle
\* submitted so far, and SubmitBundle adds one that can still land only if
\* its nonce is fresh.
LEMMA NonceStep == TypeOK /\ NonceInv /\ [Next]_vars => NonceInv'
<1> SUFFICES ASSUME TypeOK, NonceInv, [Next]_vars PROVE NonceInv'
  OBVIOUS
<1>1. CASE NewBlock
  <2>1. /\ head \in Nat /\ head' = head + 1 /\ curBlock \in Nat
        /\ bundles \in SUBSET Bundles
        /\ UNCHANGED <<bundles, pc, curBlock, txNonce>>
    BY <1>1, ExecutorAssumption DEF NewBlock, TypeOK, callVars
  <2> QED
    BY <2>1 DEF NonceInv, CallInPast, TargetsReached, NonceIsFresh,
       LiveBundlesShareNonce, Calling, Priced, Bundles
<1>2. ASSUME NEW r \in Routes, NEW d \in {"go", "no-go"},
             NextOpportunity(r, d)
      PROVE NonceInv'
  BY <1>2, NonceFrame DEF NextOpportunity, Calling, Priced
<1>3. CASE GetBlockNumber
  BY <1>3, ExecutorAssumption DEF GetBlockNumber, TypeOK, NonceInv,
     CallInPast, TargetsReached, NonceIsFresh, LiveBundlesShareNonce,
     chainVars
<1>4. CASE GetNonce
  BY <1>4 DEF GetNonce, NonceInv, CallInPast, TargetsReached, NonceIsFresh,
     LiveBundlesShareNonce, chainVars, Calling
<1>5. CASE GetBaseFee
  BY <1>5, NonceFrame DEF GetBaseFee, Calling, Priced
<1>6. CASE SubmitBundle
  <2> DEFINE new == [tx |-> tx, target |-> targetBlock]
  <2>1. /\ head \in Nat /\ curBlock \in Nat /\ curBlock <= head
        /\ curBlock = head => txNonce = nonce
        /\ bundles' = bundles \cup {new}
        /\ UNCHANGED <<chainVars, curBlock, txNonce>>
        /\ pc' \in {"receipt", "log"}
    BY <1>6, ExecutorAssumption DEF SubmitBundle, TypeOK, NonceInv,
       CallInPast, NonceIsFresh, callVars, Calling, Priced
  <2>2. new.target = curBlock + 1 /\ new.tx.nonce = txNonce
    BY DEF targetBlock, tx
  <2>3. \A b \in bundles' : b \in bundles \/ b = new
    BY <2>1
  <2>4. TargetsReached'
    BY <2>1, <2>2, <2>3 DEF NonceInv, TargetsReached, chainVars
  <2>5. LiveBundlesShareNonce'
    BY <2>1, <2>2, <2>3 DEF NonceInv, LiveBundlesShareNonce, chainVars
  <2>6. CallInPast' /\ NonceIsFresh'
    BY <2>1 DEF CallInPast, NonceIsFresh, chainVars
  <2> QED
    BY <2>4, <2>5, <2>6 DEF NonceInv
<1>7. CASE SimulateBundle \/ PollReceipt \/ CheckDeadline
  BY <1>7, NonceFrame DEF SimulateBundle, PollReceipt, CheckDeadline,
     callVars, Calling, Priced
<1>8. CASE InsertTrade \/ ExecuteFails \/ InsertOpportunity \/ ScannerFails
  BY <1>8, NonceFrame DEF InsertTrade, ExecuteFails, InsertOpportunity,
     ScannerFails, Calling, Priced
<1>9. CASE Restart
  BY <1>9, NonceFrame DEF Restart, Calling, Priced
<1>10. CASE UNCHANGED vars
  BY <1>10 DEF vars, NonceInv, CallInPast, TargetsReached, NonceIsFresh,
     LiveBundlesShareNonce
<1> QED
  BY <1>1, <1>2, <1>3, <1>4, <1>5, <1>6, <1>7, <1>8, <1>9, <1>10
  DEF Next, ExecuteStep

\* NonceInv holds from the start: nothing was read and nothing submitted.
LEMMA NonceInit == Init => NonceInv
  BY DEF Init, NonceInv, CallInPast, TargetsReached, NonceIsFresh,
     LiveBundlesShareNonce, Calling, Priced

\* Whatever the interleaving of the reads of execute with new blocks, lost
\* answers and restarts, the bundles that can still land compete for one
\* nonce.
THEOREM LiveBundlesCompete == Spec => []LiveBundlesShareNonce
<1>1. NonceInv => LiveBundlesShareNonce
  BY DEF NonceInv
<1> QED
  BY <1>1, NonceInit, NonceStep, TypeCorrect, PTL DEF Spec

\* The blocks on chain are those mined so far.
MinedInPast == \A m \in mined : m.block <= head

\* The bot never trades twice in a block: of the bundles that compete for a
\* nonce, the chain takes one.
THEOREM NoDoubleTrade == Spec => []OneTradePerBlock
<1> DEFINE Inv == MinedInPast /\ OneTradePerBlock
<1>1. Init => Inv
  BY DEF Init, MinedInPast, OneTradePerBlock
<1>2. TypeOK /\ NonceInv /\ Inv /\ [Next]_vars => Inv'
  <2> SUFFICES ASSUME TypeOK, NonceInv, Inv, [Next]_vars PROVE Inv'
    OBVIOUS
  <2>1. CASE NewBlock
    <3>1. PICK landed \in SUBSET {b \in bundles : b.target = head + 1} :
            /\ \A b, c \in landed : b.tx.nonce = c.tx.nonce => b = c
            /\ mined' = mined \cup {[tx |-> b.tx, block |-> head + 1] :
                                      b \in landed}
      BY <2>1 DEF NewBlock
    <3>2. head \in Nat /\ head' = head + 1
      BY <2>1, ExecutorAssumption DEF NewBlock, TypeOK
    <3>3. \A b, c \in landed : b = c
      BY <3>1, <3>2 DEF NonceInv, LiveBundlesShareNonce
    <3>4. \A m \in mined : m.block \in Nat /\ m.block <= head
      BY DEF MinedInPast, TypeOK
    <3>5. \A m \in mined' :
            m \in mined \/ \E b \in landed :
                             m = [tx |-> b.tx, block |-> head + 1]
      BY <3>1
    <3>6. MinedInPast'
      BY <3>2, <3>4, <3>5 DEF MinedInPast
    <3>7. OneTradePerBlock'
      BY <3>2, <3>3, <3>4, <3>5 DEF OneTradePerBlock
    <3> QED
      BY <3>6, <3>7
  <2>2. CASE UNCHANGED <<mined, head>>
    BY <2>2 DEF MinedInPast, OneTradePerBlock
  <2>3. Next => NewBlock \/ UNCHANGED <<mined, head>>
    BY DEF Next, ExecuteStep, NextOpportunity, GetBlockNumber, GetNonce,
       GetBaseFee, SimulateBundle, SubmitBundle, PollReceipt, CheckDeadline,
       InsertTrade, ExecuteFails, InsertOpportunity, ScannerFails, Restart,
       chainVars
  <2> QED
    BY <2>1, <2>2, <2>3 DEF vars
<1> QED
  BY <1>1, <1>2, NonceInit, NonceStep, TypeCorrect, PTL DEF Spec

-----------------------------------------------------------------------------
(* Outcomes.  A receipt found for the call's transaction is the receipt of *)
(* the call's own bundle: an earlier bundle with the same hash cannot have *)
(* landed, or the nonce would have moved on before it was read again.      *)

MinedFromBundles ==
    \A m \in mined : /\ m.tx.nonce < nonce
                     /\ [tx |-> m.tx, target |-> m.block] \in bundles
NoLaterTarget ==
    pc \in Calling => \A b \in bundles : b.target <= curBlock + 1
MinedSinceRead ==
    pc \in {"fee"} \cup Priced =>
        \A m \in mined : m.tx.nonce = txNonce => m.block > curBlock
SuccessSeen ==
    pc = "record" /\ status = "success"
        => [tx |-> tx, block |-> targetBlock] \in mined

OutcomeInv ==
    /\ MinedFromBundles /\ NoLaterTarget /\ MinedSinceRead
    /\ SuccessSeen /\ SuccessIsMined

\* Nonces on chain are numbers.
LEMMA MinedNonce ==
    TypeOK => nonce \in Nat /\ \A m \in mined : m.tx.nonce \in Nat
<1> SUFFICES ASSUME TypeOK PROVE \A m \in mined : m.tx.nonce \in Nat
  BY DEF TypeOK
<1>1. \A m \in mined : m.tx \in Txs
  BY DEF TypeOK
<1> QED
  BY <1>1 DEF Txs

\* A step of the scanner's that touches neither chain nor tables preserves
\* OutcomeInv if the call goes on with what it has read, or ends.
LEMMA OutcomeFrame ==
    ASSUME TypeOK, OutcomeInv, UNCHANGED <<chainVars, trades, bundles>>,
           pc' # "record",
           \/ pc' \notin Calling
           \/ /\ pc \in {"fee"} \cup Priced /\ UNCHANGED <<curBlock, txNonce>>
    PROVE  OutcomeInv'
<1> USE DEF OutcomeInv, chainVars
<1>1. MinedFromBundles' /\ SuccessIsMined'
  BY DEF MinedFromBundles, SuccessIsMined
<1>2. NoLaterTarget' /\ MinedSinceRead'
  BY DEF NoLaterTarget, MinedSinceRead, Calling
<1>3. SuccessSeen'
  BY DEF SuccessSeen
<1> QED
  BY <1>1, <1>2, <1>3

\* Every step preserves OutcomeInv.
LEMMA OutcomeStep ==
    TypeOK /\ NonceInv /\ OutcomeInv /\ [Next]_vars => OutcomeInv'
<1> SUFFICES ASSUME TypeOK, NonceInv, OutcomeInv, [Next]_vars
             PROVE OutcomeInv'
  OBVIOUS
<1>1. CASE NewBlock
  <2>1. PICK landed \in SUBSET {b \in bundles : b.target = head + 1},
             n \in nonce..(nonce + MaxTxs) :
          /\ \A b \in landed : b.tx.nonce \in nonce..(n - 1)
          /\ nonce' = n
          /\ mined' = mined \cup {[tx |-> b.tx, block |-> head + 1] :
                                    b \in landed}
    BY <1>1 DEF NewBlock
  <2>2. /\ head \in Nat /\ nonce \in Nat /\ curBlock \in Nat
        /\ MaxTxs \in Nat
        /\ UNCHANGED <<bundles, pc, callVars, status, trades>>
    BY <1>1, ExecutorAssumption DEF NewBlock, TypeOK, dbVars
  <2>3. \A m \in mined' :
          m \in mined \/ \E b \in landed :
                           m = [tx |-> b.tx, block |-> head + 1]
    BY <2>1
  <2>4. \A b \in landed : b = [tx |-> b.tx, target |-> head + 1]
    BY DEF TypeOK, Bundles
  <2>5. \A m \in mined : /\ m.tx.nonce \in Nat /\ m.tx.nonce < nonce
                         /\ [tx |-> m.tx, target |-> m.block] \in bundles
    BY MinedNonce DEF OutcomeInv, MinedFromBundles
  <2>6. MinedFromBundles'
    <3>1. nonce <= nonce'
      BY <2>1, <2>2
    <3>2. \A b \in landed : b.tx.nonce < nonce' /\ b \in bundles
      BY <2>1, <2>2
    <3>3. ASSUME NEW m \in mined'
          PROVE  /\ m.tx.nonce < nonce'
                 /\ [tx |-> m.tx, target |-> m.block] \in bundles
      <4>1. CASE m \in mined
        BY <2>1, <2>2, <2>5, <3>1, <4>1
      <4>2. ASSUME NEW b \in landed, m = [tx |-> b.tx, block |-> head + 1]
            PROVE  /\ m.tx.nonce < nonce'
                   /\ [tx |-> m.tx, target |-> m.block] \in bundles
        BY <2>4, <3>2, <4>2
      <4> QED
        BY <2>3, <4>1, <4>2
    <3> QED
      BY <2>2, <3>3 DEF MinedFromBundles
  <2>7. NoLaterTarget'
    BY <2>2 DEF OutcomeInv, NoLaterTarget, callVars
  <2>8. MinedSinceRead'
    <3>1. pc \in {"fee"} \cup Priced => curBlock < head + 1
      BY <2>2 DEF NonceInv, CallInPast, Calling
    <3> QED
      BY <2>2, <2>3, <3>1 DEF OutcomeInv, MinedSinceRead, callVars
  <2>9. SuccessSeen' /\ SuccessIsMined'
    BY <2>1, <2>2 DEF OutcomeInv, SuccessSeen, SuccessIsMined, callVars, tx,
       targetBlock
  <2> QED
    BY <2>6, <2>7, <2>8, <2>9 DEF OutcomeInv
<1>2. ASSUME NEW r \in Routes, NEW d \in {"go", "no-go"},
             NextOpportunity(r, d)
      PROVE OutcomeInv'
  BY <1>2, OutcomeFrame DEF NextOpportunity, dbVars, Calling, Priced
<1>3. CASE GetBlockNumber
  <2>1. /\ UNCHANGED <<chainVars, bundles, trades>>
        /\ pc' = "nonce" /\ curBlock' = head
    BY <1>3 DEF GetBlockNumber, dbVars
  <2>2. NoLaterTarget'
    BY <2>1 DEF NonceInv, TargetsReached, NoLaterTarget
  <2> QED
    BY <2>1, <2>2 DEF OutcomeInv, MinedFromBundles, MinedSinceRead,
       SuccessSeen, SuccessIsMined, chainVars, Priced
<1>4. CASE GetNonce
  <2>1. /\ UNCHANGED <<chainVars, bundles, trades, curBlock>>
        /\ pc = "nonce" /\ pc' = "fee" /\ txNonce' = nonce
    BY <1>4 DEF GetNonce, dbVars
  <2>2. \A m \in mined : m.tx.nonce # nonce
    <3>1. \A m \in mined : m.tx.nonce < nonce
      BY DEF OutcomeInv, MinedFromBundles
    <3> QED
      BY <3>1, MinedNonce
  <2>3. MinedSinceRead'
    BY <2>1, <2>2 DEF MinedSinceRead, chainVars
  <2> QED
    BY <2>1, <2>3 DEF OutcomeInv, MinedFromBundles, NoLaterTarget,
       SuccessSeen, SuccessIsMined, chainVars, Calling
<1>5. CASE GetBaseFee
  BY <1>5, OutcomeFrame DEF GetBaseFee, dbVars, Calling, Priced
<1>6. CASE SimulateBundle
  BY <1>6 DEF SimulateBundle, OutcomeInv, MinedFromBundles, NoLaterTarget,
     MinedSinceRead, SuccessSeen, SuccessIsMined, chainVars, callVars,
     dbVars, Calling, Priced
<1>7. CASE SubmitBundle
  <2> DEFINE new == [tx |-> tx, target |-> targetBlock]
  <2>1. /\ UNCHANGED <<chainVars, callVars, trades>>
        /\ pc = "submit" /\ pc' \in {"receipt", "log"}
        /\ bundles' = bundles \cup {new}
        /\ curBlock \in Nat
    BY <1>7 DEF SubmitBundle, dbVars, TypeOK
  <2>2. new.target = curBlock + 1
    BY DEF targetBlock
  <2>3. MinedFromBundles'
    BY <2>1 DEF OutcomeInv, MinedFromBundles, chainVars
  <2>4. NoLaterTarget'
    BY <2>1, <2>2 DEF OutcomeInv, NoLaterTarget, callVars, Calling, Priced
  <2>5. MinedSinceRead' /\ SuccessSeen' /\ SuccessIsMined'
    BY <2>1 DEF OutcomeInv, MinedSinceRead, SuccessSeen, SuccessIsMined,
       chainVars, callVars, Priced
  <2> QED
    BY <2>3, <2>4, <2>5 DEF OutcomeInv
<1>8. CASE PollReceipt
  <2>1. CASE pc' = "deadline"
    BY <1>8, <2>1, OutcomeFrame DEF PollReceipt, callVars, dbVars, Priced
  <2>2. CASE pc' = "record"
    <3>1. PICK m \in mined : m.tx = tx
      BY <1>8, <2>2 DEF PollReceipt
    <3>2. m.block > curBlock
      <4>1. m.tx.nonce = txNonce
        BY <3>1 DEF tx
      <4> QED
        BY <1>8, <4>1 DEF PollReceipt, OutcomeInv, MinedSinceRead, Priced
    <3>3. m.block <= curBlock + 1
      <4>1. [tx |-> m.tx, target |-> m.block] \in bundles
        BY DEF OutcomeInv, MinedFromBundles
      <4> QED
        BY <1>8, <4>1 DEF PollReceipt, OutcomeInv, NoLaterTarget, Calling,
           Priced
    <3>4. m = [tx |-> tx, block |-> targetBlock]
      BY <3>1, <3>2, <3>3 DEF TypeOK, targetBlock
    <3>5. /\ UNCHANGED <<chainVars, callVars, bundles, trades>>
          /\ pc = "receipt"
      BY <1>8 DEF PollReceipt, dbVars
    <3>6. SuccessSeen'
      BY <3>4, <3>5 DEF SuccessSeen, chainVars, callVars, tx, targetBlock
    <3> QED
      BY <2>2, <3>5, <3>6 DEF OutcomeInv, MinedFromBundles, NoLaterTarget,
         MinedSinceRead, SuccessIsMined, chainVars, callVars, Calling, Priced
  <2> QED
    BY <1>8, <2>1, <2>2 DEF PollReceipt
<1>9. CASE CheckDeadline
  BY <1>9 DEF CheckDeadline, OutcomeInv, MinedFromBundles, NoLaterTarget,
     MinedSinceRead, SuccessSeen, SuccessIsMined, chainVars, callVars,
     dbVars, Calling, Priced
<1>10. CASE InsertTrade
  <2> DEFINE row == [tx |-> tx, status |-> status, block |-> targetBlock]
  <2>1. /\ trades' = Append(trades, row) /\ trades \in Seq(Trades)
        /\ UNCHANGED <<chainVars, bundles>>
        /\ pc = "record" /\ pc' = "log"
    BY <1>10 DEF InsertTrade, TypeOK
  <2>2. /\ DOMAIN trades' = 1..(Len(trades) + 1) /\ Len(trades) \in Nat
        /\ DOMAIN trades = 1..Len(trades)
        /\ \A i \in DOMAIN trades : trades'[i] = trades[i]
        /\ trades'[Len(trades) + 1] = row
    BY <2>1
  <2>3. row.status = "success" =>
          [tx |-> row.tx, block |-> row.block] \in mined
    BY <2>1 DEF OutcomeInv, SuccessSeen
  <2>4. SuccessIsMined'
    BY <2>1, <2>2, <2>3 DEF OutcomeInv, SuccessIsMined, chainVars
  <2> QED
    BY <2>1, <2>4 DEF OutcomeInv, MinedFromBundles, NoLaterTarget,
       MinedSinceRead, SuccessSeen, chainVars, Calling, Priced
<1>11. CASE ExecuteFails \/ InsertOpportunity \/ ScannerFails \/ Restart
  BY <1>11, OutcomeFrame DEF ExecuteFails, InsertOpportunity, ScannerFails,
     Restart, dbVars, Calling, Priced
<1>12. CASE UNCHANGED vars
  BY <1>12 DEF vars, OutcomeInv, MinedFromBundles, NoLaterTarget,
     MinedSinceRead, SuccessSeen, SuccessIsMined, tx, targetBlock
<1> QED
  BY <1>1, <1>2, <1>3, <1>4, <1>5, <1>6, <1>7, <1>8, <1>9, <1>10, <1>11,
     <1>12
  DEF Next, ExecuteStep

\* A success in the trades table is on the chain, in the block of its row:
\* the receipt poll cannot be answered by an earlier submission of the same
\* transaction.
THEOREM SuccessesAreReal == Spec => []SuccessIsMined
<1>1. Init => OutcomeInv
  BY DEF Init, OutcomeInv, MinedFromBundles, NoLaterTarget, MinedSinceRead,
     SuccessSeen, SuccessIsMined, Calling, Priced
<1>2. OutcomeInv => SuccessIsMined
  BY DEF OutcomeInv
<1> QED
  BY <1>1, <1>2, OutcomeStep, NonceInit, NonceStep, TypeCorrect, PTL
  DEF Spec

-----------------------------------------------------------------------------
(* Bundles and rows.  BundlesAreRecorded is inductive: pc tells when the   *)
(* bot answers for the bundle in hand, and every way out of those pcs      *)
(* leaves a row or an entry of unrecorded behind.                          *)

\* A step preserves BundlesAreRecorded if no bundle, row or loss is added and
\* the transaction in flight, if there is one, stays in flight.
LEMMA RecordedFrame ==
    ASSUME BundlesAreRecorded, UNCHANGED <<bundles, trades, unrecorded>>,
           InFlight => InFlight' /\ tx' = tx
    PROVE  BundlesAreRecorded'
  BY DEF BundlesAreRecorded, Recorded

\* When the call ends with a transaction in flight and no row, the
\* transaction counts as given up.
LEMMA RecordedGivenUp ==
    ASSUME BundlesAreRecorded, UNCHANGED <<bundles, trades>>,
           unrecorded' = IF InFlight THEN unrecorded \cup {tx}
                         ELSE unrecorded
    PROVE  BundlesAreRecorded'
  BY DEF BundlesAreRecorded, Recorded

\* Every step preserves BundlesAreRecorded.
LEMMA RecordedStep ==
    TypeOK /\ BundlesAreRecorded /\ [Next]_vars => BundlesAreRecorded'
<1> SUFFICES ASSUME TypeOK, BundlesAreRecorded, [Next]_vars
             PROVE BundlesAreRecorded'
  OBVIOUS
<1>1. CASE NewBlock
  BY <1>1, RecordedFrame DEF NewBlock, callVars, dbVars, InFlight, tx
<1>2. ASSUME NEW r \in Routes, NEW d \in {"go", "no-go"},
             NextOpportunity(r, d)
      PROVE BundlesAreRecorded'
  BY <1>2, RecordedFrame DEF NextOpportunity, dbVars, InFlight, Waiting
<1>3. CASE GetBlockNumber \/ GetNonce \/ GetBaseFee \/ SimulateBundle
  BY <1>3, RecordedFrame DEF GetBlockNumber, GetNonce, GetBaseFee,
     SimulateBundle, dbVars, InFlight, Waiting
<1>4. CASE SubmitBundle
  <2>1. /\ bundles' = bundles \cup {[tx |-> tx, target |-> targetBlock]}
        /\ UNCHANGED trades /\ tx' = tx /\ ~ InFlight
        /\ \/ pc' = "receipt" /\ UNCHANGED unrecorded
           \/ unrecorded' = unrecorded \cup {tx}
    BY <1>4 DEF SubmitBundle, callVars, dbVars, InFlight, Waiting, tx
  <2>2. InFlight' \/ tx \in unrecorded'
    BY <2>1 DEF InFlight, Waiting
  <2>3. \A b \in bundles' : b \in bundles \/ b.tx = tx
    BY <2>1
  <2> QED
    BY <2>1, <2>2, <2>3 DEF BundlesAreRecorded, Recorded
<1>5. CASE PollReceipt \/ CheckDeadline
  BY <1>5, RecordedFrame DEF PollReceipt, CheckDeadline, callVars, dbVars,
     InFlight, Waiting, tx
<1>6. CASE InsertTrade
  <2> DEFINE row == [tx |-> tx, status |-> status, block |-> targetBlock]
  <2>1. /\ trades' = Append(trades, row) /\ trades \in Seq(Trades)
        /\ UNCHANGED <<bundles, unrecorded>>
    BY <1>6 DEF InsertTrade, TypeOK
  <2>2. /\ DOMAIN trades' = 1..(Len(trades) + 1) /\ Len(trades) \in Nat
        /\ DOMAIN trades = 1..Len(trades)
        /\ \A i \in DOMAIN trades : trades'[i] = trades[i]
        /\ trades'[Len(trades) + 1].tx = tx
    BY <2>1
  <2>3. ASSUME NEW t, Recorded(t) \/ t = tx
        PROVE  \E i \in DOMAIN trades' : trades'[i].tx = t
    BY <2>2, <2>3 DEF Recorded
  <2> QED
    BY <2>1, <2>3 DEF BundlesAreRecorded, Recorded
<1>7. CASE ExecuteFails
  BY <1>7, RecordedGivenUp DEF ExecuteFails, dbVars
<1>8. CASE InsertOpportunity \/ ScannerFails
  BY <1>8, RecordedFrame DEF InsertOpportunity, ScannerFails, dbVars,
     InFlight, Waiting
<1>9. CASE Restart
  BY <1>9, RecordedGivenUp DEF Restart, dbVars
<1>10. CASE UNCHANGED vars
  BY <1>10, RecordedFrame DEF vars, InFlight, tx
<1> QED
  BY <1>1, <1>2, <1>3, <1>4, <1>5, <1>6, <1>7, <1>8, <1>9, <1>10
  DEF Next, ExecuteStep

\* No path of execute drops a bundle the relay took without a row in trades
\* and without an error or a restart.
THEOREM BundlesAccounted == Spec => []BundlesAreRecorded
<1>1. Init => BundlesAreRecorded
  BY DEF Init, BundlesAreRecorded
<1> QED
  BY <1>1, RecordedStep, TypeCorrect, PTL DEF Spec

-----------------------------------------------------------------------------
(* The refinement.  The trade id that run_scanner holds between the two    *)
(* writes belongs to the opportunity in hand.                              *)

Executing == {"block", "nonce", "fee"} \cup Priced

TradeInHand ==
    /\ pc \in Executing => decision = "go"
    /\ tradeId # 0 => /\ pc = "log"
                      /\ decision = "go"
                      /\ tradeId \in DOMAIN trades
                      /\ trades[tradeId].tx.route = route

\* A step that writes no trade and does not touch the trade id preserves
\* TradeInHand if the opportunity stays and no trade is in hand.
LEMMA HandFrame ==
    ASSUME TypeOK, TradeInHand, UNCHANGED <<trades, tradeId, route, decision>>,
           pc' = pc \/ pc \in Executing
    PROVE  TradeInHand'
  BY DEF TypeOK, TradeInHand, Executing, Priced

\* When the turn or the process ends, nothing is in hand.
LEMMA HandCleared ==
    ASSUME ClearCall, pc' \in {"idle", "dead"}
    PROVE  TradeInHand'
  BY DEF ClearCall, TradeInHand, Executing, Priced

\* Every step preserves TradeInHand.
LEMMA HandStep == TypeOK /\ TradeInHand /\ [Next]_vars => TradeInHand'
<1> SUFFICES ASSUME TypeOK, TradeInHand, [Next]_vars PROVE TradeInHand'
  OBVIOUS
<1>1. CASE NewBlock
  BY <1>1, HandFrame DEF NewBlock, callVars, dbVars
<1>2. ASSUME NEW r \in Routes, NEW d \in {"go", "no-go"},
             NextOpportunity(r, d)
      PROVE TradeInHand'
  BY <1>2 DEF NextOpportunity, TradeInHand, Executing, Priced, dbVars
<1>3. CASE GetBlockNumber \/ GetNonce \/ GetBaseFee \/ SimulateBundle
  BY <1>3, HandFrame DEF GetBlockNumber, GetNonce, GetBaseFee,
     SimulateBundle, callVars, dbVars, Executing, Priced
<1>4. CASE SubmitBundle \/ PollReceipt \/ CheckDeadline \/ ExecuteFails
  BY <1>4, HandFrame DEF SubmitBundle, PollReceipt, CheckDeadline,
     ExecuteFails, callVars, dbVars, Executing, Priced
<1>5. CASE InsertTrade
  <2>1. /\ pc = "record" /\ pc' = "log"
        /\ decision' = "go" /\ route' = route
        /\ trades \in Seq(Trades)
        /\ tx.route = route
    BY <1>5 DEF InsertTrade, callVars, TradeInHand, Executing, Priced,
       TypeOK, tx
  <2>2. /\ tradeId' = Len(trades) + 1
        /\ trades' = Append(trades, [tx |-> tx, status |-> status,
                                     block |-> targetBlock])
    BY <1>5 DEF InsertTrade
  <2>3. /\ tradeId' \in DOMAIN trades'
        /\ trades'[tradeId'].tx = tx
    BY <2>1, <2>2
  <2> QED
    BY <2>1, <2>3 DEF TradeInHand, Executing, Priced
<1>6. CASE InsertOpportunity
  BY <1>6, HandCleared DEF InsertOpportunity
<1>7. CASE ScannerFails
  BY <1>7, HandCleared DEF ScannerFails
<1>8. CASE Restart
  BY <1>8, HandCleared DEF Restart
<1>9. CASE UNCHANGED vars
  BY <1>9, HandFrame DEF vars
<1> QED
  BY <1>1, <1>2, <1>3, <1>4, <1>5, <1>6, <1>7, <1>8, <1>9
  DEF Next, ExecuteStep

\* A table with a row appended has grown by that row.
LEMMA AppendGrows ==
    ASSUME NEW S, NEW s \in Seq(S), NEW e \in S
    PROVE  /\ Ledger!Grown(s, Append(s, e))
           /\ Append(s, e)[Len(s) + 1] = e
           /\ Len(Append(s, e)) = Len(s) + 1
<1>1. SubSeq(Append(s, e), 1, Len(s)) = s
  OBVIOUS
<1> QED
  BY <1>1 DEF Ledger!Grown

\* InsertTrade is the ledger's RecordTrade, InsertOpportunity its
\* LogOpportunity; the end of the process may lose a credit, and no other
\* step shows in the tables.
LEMMA LedgerStep ==
    TypeOK /\ TradeInHand /\ [Next]_vars => [Ledger!Next]_(Ledger!ledgerVars)
<1> SUFFICES ASSUME TypeOK, TradeInHand, [Next]_vars
             PROVE  Ledger!Next \/ UNCHANGED <<trades, opportunities, tradeId>>
  BY DEF Ledger!ledgerVars
<1>1. CASE NewBlock \/ ExecuteFails \/ UNCHANGED vars
  BY <1>1 DEF NewBlock, ExecuteFails, dbVars, vars
<1>2. ASSUME NEW r \in Routes, NEW d \in {"go", "no-go"},
             NextOpportunity(r, d)
      PROVE UNCHANGED <<trades, opportunities, tradeId>>
  BY <1>2 DEF NextOpportunity, dbVars
<1>3. CASE GetBlockNumber \/ GetNonce \/ GetBaseFee \/ SimulateBundle
  BY <1>3 DEF GetBlockNumber, GetNonce, GetBaseFee, SimulateBundle, dbVars
<1>4. CASE SubmitBundle \/ PollReceipt \/ CheckDeadline
  BY <1>4 DEF SubmitBundle, PollReceipt, CheckDeadline, dbVars
<1>5. CASE InsertTrade
  <2> DEFINE row == [tx |-> tx, status |-> status, block |-> targetBlock]
  <2>1. pc = "record" /\ tradeId = 0 /\ tx \in Txs
    BY <1>5, TxTyped DEF InsertTrade, TradeInHand, Priced
  <2>2. row \in Trades /\ trades \in Seq(Trades)
    BY <2>1 DEF TypeOK, Trades, targetBlock
  <2>3. trades' = Append(trades, row) /\ tradeId' = Len(trades) + 1
    BY <1>5 DEF InsertTrade
  <2>4. \A i \in DOMAIN trades : trades[i].tx # row.tx
    BY <1>5 DEF InsertTrade, Recorded
  <2> HIDE DEF row
  <2>5. Ledger!Grown(trades, trades') /\ trades'[tradeId'] = row
        /\ tradeId' = Len(trades')
    BY <2>2, <2>3, AppendGrows
  <2>6. UNCHANGED opportunities
    BY <1>5 DEF InsertTrade
  <2> QED
    BY <2>1, <2>2, <2>4, <2>5, <2>6 DEF Ledger!Next, Ledger!RecordTrade
<1>6. CASE InsertOpportunity
  <2> DEFINE row == [route |-> route, decision |-> decision,
                     trade |-> tradeId]
  <2>1. row \in Opportunities /\ opportunities \in Seq(Opportunities)
    BY <1>6 DEF InsertOpportunity, TypeOK, Opportunities
  <2>2. /\ row.trade = tradeId
        /\ tradeId # 0 => /\ row.decision = "go"
                          /\ trades[tradeId].tx.route = row.route
    BY DEF TradeInHand
  <2>3. /\ opportunities' = Append(opportunities, row)
        /\ tradeId' = 0
        /\ UNCHANGED trades
    BY <1>6 DEF InsertOpportunity, ClearCall
  <2> HIDE DEF row
  <2>4. /\ Ledger!Grown(opportunities, opportunities')
        /\ opportunities'[Len(opportunities')] = row
    BY <2>1, <2>3, AppendGrows
  <2> QED
    BY <2>1, <2>2, <2>3, <2>4 DEF Ledger!Next, Ledger!LogOpportunity
<1>7. CASE ScannerFails \/ Restart
  <2>1. tradeId' = 0 /\ UNCHANGED <<trades, opportunities>>
    BY <1>7 DEF ScannerFails, Restart, ClearCall, dbVars
  <2> QED
    BY <2>1 DEF Ledger!Next, Ledger!LoseCredit
<1> QED
  BY <1>1, <1>2, <1>3, <1>4, <1>5, <1>6, <1>7 DEF Next, ExecuteStep

\* The tables behave as TradeLedger says, for any number of opportunities,
\* failures and restarts: rows are only added, a transaction has one row, and
\* a trade is credited to the opportunity it was made for or to none.
THEOREM TablesAreALedger == Spec => ImplementsLedger
<1>1. Init => Ledger!Init
  BY DEF Init, Ledger!Init
<1>2. Init => TradeInHand
  BY DEF Init, TradeInHand, Executing, Priced
<1>3. Spec => []TradeInHand
  <2>1. TypeOK /\ TradeInHand /\ [Next]_vars => TradeInHand'
    BY HandStep
  <2> QED
    BY <1>2, <2>1, TypeCorrect, PTL DEF Spec
<1> QED
  BY <1>1, <1>3, TypeCorrect, LedgerStep, PTL
  DEF Spec, ImplementsLedger, Ledger!Spec

-----------------------------------------------------------------------------
(* What the ledger is good for: credits are unambiguous.                   *)

\* The trade in hand has not been credited yet.
HandUncredited ==
    \A i \in DOMAIN opportunities :
        tradeId # 0 => opportunities[i].trade # tradeId

LinkInv == Ledger!TradesAreLinkedOnce /\ HandUncredited

\* Every step preserves LinkInv: a new trade has an id no opportunity can
\* name yet, and a new opportunity names the trade in hand or none.
LEMMA LinkStep ==
    TypeOK /\ TradeInHand /\ LinkInv /\ [Next]_vars => LinkInv'
<1> SUFFICES ASSUME TypeOK, TradeInHand, LinkInv, [Next]_vars
             PROVE  LinkInv'
  OBVIOUS
<1> USE DEF LinkInv, Ledger!TradesAreLinkedOnce, HandUncredited
<1>0. trades \in Seq(Trades) /\ opportunities \in Seq(Opportunities)
  BY DEF TypeOK
<1>1. CASE UNCHANGED <<trades, opportunities, tradeId>>
  BY <1>1
<1>2. CASE tradeId' = 0 /\ UNCHANGED <<trades, opportunities>>
  BY <1>2
<1>3. CASE InsertTrade
  <2> DEFINE row == [tx |-> tx, status |-> status, block |-> targetBlock]
  <2>1. /\ trades' = Append(trades, row) /\ UNCHANGED opportunities
        /\ tradeId' = Len(trades) + 1
    BY <1>3 DEF InsertTrade
  <2> HIDE DEF row
  <2>2. \A k \in DOMAIN trades : k \in DOMAIN trades' /\ k # tradeId'
                                 /\ trades'[k] = trades[k]
    BY <1>0, <2>1
  <2>3. tradeId' # 0
    BY <1>0, <2>1
  <2> QED
    BY <2>1, <2>2, <2>3
<1>4. CASE InsertOpportunity
  <2> DEFINE row == [route |-> route, decision |-> decision,
                     trade |-> tradeId]
             n == Len(opportunities) + 1
  <2>1. /\ opportunities' = Append(opportunities, row)
        /\ tradeId' = 0 /\ UNCHANGED trades
    BY <1>4 DEF InsertOpportunity, ClearCall
  <2>2. tradeId # 0 => /\ row.decision = "go"
                       /\ row.trade \in DOMAIN trades
                       /\ trades[row.trade].tx.route = row.route
    BY DEF TradeInHand
  <2>3. row.trade = tradeId
    OBVIOUS
  <2> HIDE DEF row
  <2>4. /\ DOMAIN opportunities' = DOMAIN opportunities \cup {n}
        /\ opportunities'[n] = row
        /\ \A i \in DOMAIN opportunities :
             i # n /\ opportunities'[i] = opportunities[i]
    BY <1>0, <2>1
  <2> HIDE DEF n
  <2> QED
    BY <2>1, <2>2, <2>3, <2>4
<1>5. \/ UNCHANGED <<trades, opportunities, tradeId>>
      \/ tradeId' = 0 /\ UNCHANGED <<trades, opportunities>>
      \/ InsertTrade \/ InsertOpportunity
  BY DEF Next, ExecuteStep, vars, dbVars, ClearCall, NewBlock,
     NextOpportunity, GetBlockNumber, GetNonce, GetBaseFee, SimulateBundle,
     SubmitBundle, PollReceipt, CheckDeadline, ExecuteFails, ScannerFails,
     Restart
<1> QED
  BY <1>1, <1>2, <1>3, <1>4, <1>5

\* An opportunity in the log names no trade, or an existing one of its own
\* route, and no trade is named by two opportunities, through any sequence of
\* failures, repeated submissions and restarts.
THEOREM CreditsAreUnambiguous == Spec => []Ledger!TradesAreLinkedOnce
<1>1. Init => TradeInHand /\ LinkInv
  BY DEF Init, TradeInHand, Executing, Priced, LinkInv, HandUncredited,
     Ledger!TradesAreLinkedOnce
<1>2. LinkInv => Ledger!TradesAreLinkedOnce
  BY DEF LinkInv
<1> QED
  BY <1>1, <1>2, TypeCorrect, HandStep, LinkStep, PTL DEF Spec

-----------------------------------------------------------------------------
(* Failures.  wait_for_inclusion reads the receipt and then, in a call of  *)
(* its own, the block number; a transaction that lands between the two may *)
(* be called failed.  How late the second read has to be is stated with    *)
(* a history variable beside the specification.                            *)

VARIABLE seen   \* the latest block when the receipt was last asked for

SeenNext == seen' = IF pc = "receipt" /\ pc' = "deadline" THEN head ELSE seen
SeenSpec == seen = 0 /\ [][SeenNext]_<<vars, seen>>

\* At most three blocks appear between the two reads: 36 seconds.
ReadsKeepUp == pc = "deadline" => head <= seen + 3

\* What landed since the receipt was asked for is in a later block, and a
\* wait that has ended did so past the deadline.
PollInv ==
    /\ seen \in Nat
    /\ pc = "deadline" =>
         seen <= head /\ \A m \in mined : m.tx = tx => m.block > seen
    /\ pc = "record" /\ status = "failed" => head > targetBlock + 2
    /\ FailedIsNotIncluded

\* The transaction in hand lands in its target block if at all.
LEMMA LandsByTarget ==
    ASSUME TypeOK, OutcomeInv, pc \in Priced
    PROVE  /\ targetBlock \in Nat
           /\ \A b \in bundles : b.target \in Nat /\ b.target <= targetBlock
           /\ \A m \in mined : m.block \in Nat /\ m.block <= targetBlock
<1>1. \A b \in bundles : b.target \in Nat /\ b.target <= targetBlock
  BY DEF TypeOK, Bundles, OutcomeInv, NoLaterTarget, Calling, targetBlock
<1>2. ASSUME NEW m \in mined PROVE m.block \in Nat /\ m.block <= targetBlock
  <2>1. [tx |-> m.tx, target |-> m.block] \in bundles
    BY DEF OutcomeInv, MinedFromBundles
  <2> QED
    BY <1>1, <2>1
<1>3. targetBlock \in Nat
  BY DEF TypeOK, targetBlock
<1> QED
  BY <1>1, <1>2, <1>3

\* A step that leaves chain and call alone, and waits for nothing, keeps
\* PollInv.
LEMMA PollFrame ==
    ASSUME PollInv, seen' = seen, pc' \notin {"deadline", "record"}
    PROVE  PollInv'
  BY DEF PollInv, FailedIsNotIncluded

\* Every step preserves PollInv, as long as the reads keep up.
LEMMA PollStep ==
    /\ TypeOK /\ OutcomeInv /\ PollInv /\ ReadsKeepUp
    /\ [Next]_vars /\ [SeenNext]_<<vars, seen>>
    => PollInv'
<1> SUFFICES ASSUME TypeOK, OutcomeInv, PollInv, ReadsKeepUp, [Next]_vars,
                    [SeenNext]_<<vars, seen>>
             PROVE  PollInv'
  OBVIOUS
<1>1. seen' = IF pc = "receipt" /\ pc' = "deadline" THEN head ELSE seen
  BY DEF SeenNext, vars
<1>2. head \in Nat /\ seen \in Nat
  BY DEF TypeOK, PollInv
<1>3. CASE NewBlock
  <2>1. PICK landed \in SUBSET {b \in bundles : b.target = head + 1} :
          mined' = mined \cup {[tx |-> b.tx, block |-> head + 1] :
                                 b \in landed}
    BY <1>3 DEF NewBlock
  <2>2. /\ head' = head + 1 /\ pc' = pc /\ status' = status
        /\ tx' = tx /\ targetBlock' = targetBlock /\ seen' = seen
    BY <1>1, <1>3 DEF NewBlock, callVars, tx, targetBlock
  <2>3. \A m \in mined' : m \in mined \/ \E b \in landed :
                            m = [tx |-> b.tx, block |-> head + 1]
    BY <2>1
  <2>4. CASE pc = "deadline"
    <3>1. \A m \in mined' : m.tx = tx => m.block > seen
      BY <1>2, <2>3, <2>4 DEF PollInv
    <3> QED
      BY <1>2, <2>2, <2>4, <3>1 DEF PollInv, FailedIsNotIncluded
  <2>5. CASE pc = "record" /\ status = "failed"
    <3>1. /\ targetBlock \in Nat
          /\ \A b \in bundles : b.target \in Nat /\ b.target <= targetBlock
      BY <2>5, LandsByTarget DEF Priced
    <3>2. head > targetBlock + 2
      BY <2>5 DEF PollInv
    <3>3. landed = {}
      BY <1>2, <3>1, <3>2
    <3>4. \A m \in mined' : m \in mined
      BY <2>3, <3>3
    <3>5. FailedIsNotIncluded'
      BY <2>2, <2>5, <3>4 DEF PollInv, FailedIsNotIncluded
    <3> QED
      BY <1>2, <2>2, <2>5, <3>1, <3>2, <3>5 DEF PollInv
  <2>6. CASE pc # "deadline" /\ ~ (pc = "record" /\ status = "failed")
    BY <1>2, <2>2, <2>6 DEF PollInv, FailedIsNotIncluded
  <2> QED
    BY <2>4, <2>5, <2>6
<1>4. CASE PollReceipt
  <2>1. CASE pc' = "deadline"
    <3>1. /\ pc = "receipt" /\ ~ \E m \in mined : m.tx = tx
          /\ mined' = mined /\ head' = head /\ tx' = tx
      BY <1>4, <2>1 DEF PollReceipt, chainVars, callVars, tx
    <3> QED
      BY <1>1, <1>2, <2>1, <3>1 DEF PollInv, FailedIsNotIncluded
  <2>2. CASE pc' # "deadline"
    <3>1. pc' = "record" /\ status' = "success"
      BY <1>4, <2>2 DEF PollReceipt
    <3> QED
      BY <1>1, <1>2, <3>1 DEF PollInv, FailedIsNotIncluded
  <2> QED
    BY <2>1, <2>2
<1>5. CASE CheckDeadline
  <2>1. CASE pc' = "record"
    <3>1. /\ pc = "deadline" /\ head > targetBlock + 2
          /\ mined' = mined /\ head' = head /\ tx' = tx
          /\ targetBlock' = targetBlock
      BY <1>5, <2>1 DEF CheckDeadline, chainVars, callVars, tx, targetBlock
    <3>2. /\ targetBlock \in Nat
          /\ \A m \in mined : m.block \in Nat /\ m.block <= targetBlock
      BY <3>1, LandsByTarget DEF Priced
    <3>3. head <= seen + 3
      BY <3>1 DEF ReadsKeepUp
    <3>4. seen >= targetBlock
      BY <1>2, <3>1, <3>2, <3>3
    <3>5. \A m \in mined : m.tx # tx
      BY <1>2, <3>1, <3>2, <3>4 DEF PollInv
    <3> QED
      BY <1>1, <1>2, <2>1, <3>1, <3>5 DEF PollInv, FailedIsNotIncluded
  <2>2. CASE pc' # "record"
    <3>1. pc = "deadline" /\ pc' = "receipt"
      BY <1>5, <2>2 DEF CheckDeadline
    <3> QED
      BY <1>1, <3>1, PollFrame
  <2> QED
    BY <2>1, <2>2
<1>6. CASE SimulateBundle
  <2>1. pc = "simulate" /\ pc' = "record" /\ status' = "simulated"
    BY <1>6 DEF SimulateBundle
  <2> QED
    BY <1>1, <1>2, <2>1 DEF PollInv, FailedIsNotIncluded
<1>7. CASE \/ \E r \in Routes, d \in {"go", "no-go"} : NextOpportunity(r, d)
           \/ GetBlockNumber \/ GetNonce \/ GetBaseFee \/ SubmitBundle
           \/ InsertTrade \/ ExecuteFails \/ InsertOpportunity
           \/ ScannerFails \/ Restart
  <2>1. pc' \notin {"deadline", "record"}
    BY <1>7 DEF NextOpportunity, GetBlockNumber, GetNonce, GetBaseFee,
       SubmitBundle, InsertTrade, ExecuteFails, InsertOpportunity,
       ScannerFails, Restart
  <2> QED
    BY <1>1, <2>1, PollFrame
<1>8. CASE UNCHANGED vars
  <2>1. seen' = seen /\ pc' = pc
    BY <1>1, <1>8 DEF vars
  <2> QED
    BY <1>8, <2>1 DEF vars, PollInv, FailedIsNotIncluded, tx, targetBlock
<1> QED
  BY <1>3, <1>4, <1>5, <1>6, <1>7, <1>8 DEF Next, ExecuteStep

\* So PollInv holds throughout.
LEMMA PollInvariant == Spec /\ SeenSpec /\ []ReadsKeepUp => []PollInv
<1>1. Init => OutcomeInv
  BY DEF Init, OutcomeInv, MinedFromBundles, NoLaterTarget, MinedSinceRead,
     SuccessSeen, SuccessIsMined, Calling, Priced
<1>2. Init /\ seen = 0 => PollInv
  BY DEF Init, PollInv, FailedIsNotIncluded
<1> QED
  BY <1>1, <1>2, PollStep, OutcomeStep, NonceInit, NonceStep, TypeCorrect, PTL
  DEF Spec, SeenSpec

\* What wait_for_inclusion says of its result is true unless four blocks, the
\* target and the three the deadline allows, appear between its two reads.
\* The run that refutes the claim without this condition needs exactly four:
\* the condition cannot be weakened by a block.
THEOREM FailuresAreRealIfReadsKeepUp ==
    Spec /\ SeenSpec /\ []ReadsKeepUp => []FailedIsNotIncluded
<1>1. PollInv => FailedIsNotIncluded
  BY DEF PollInv
<1> QED
  BY <1>1, PollInvariant, PTL

\* The other half of SuccessIsMined: a row of status failed names a block that
\* does not hold its transaction, nor does any before it.  (A later block may,
\* when the same transaction was submitted again.)
FailedIsMissed ==
    \A i \in DOMAIN trades : trades[i].status = "failed" =>
        \A m \in mined : m.tx = trades[i].tx => m.block > trades[i].block

\* A failed row is written when its block is past.
FailedInPast ==
    \A i \in DOMAIN trades : trades[i].status = "failed" =>
        trades[i].block < head

\* Every step preserves both.
LEMMA MissedStep ==
    TypeOK /\ PollInv /\ FailedIsMissed /\ FailedInPast /\ [Next]_vars
        => FailedIsMissed' /\ FailedInPast'
<1> SUFFICES ASSUME TypeOK, PollInv, FailedIsMissed, FailedInPast,
                    [Next]_vars
             PROVE  FailedIsMissed' /\ FailedInPast'
  OBVIOUS
<1>1. /\ head \in Nat /\ trades \in Seq(Trades)
      /\ \A i \in DOMAIN trades : trades[i].block \in Nat
  <2>1. trades \in Seq(Trades)
    BY DEF TypeOK
  <2>2. \A i \in DOMAIN trades : trades[i] \in Trades
    BY <2>1
  <2> QED
    BY <2>1, <2>2 DEF TypeOK, Trades
<1>2. CASE NewBlock
  <2>1. PICK landed \in SUBSET {b \in bundles : b.target = head + 1} :
          mined' = mined \cup {[tx |-> b.tx, block |-> head + 1] :
                                 b \in landed}
    BY <1>2 DEF NewBlock
  <2>2. head' = head + 1 /\ trades' = trades
    BY <1>2 DEF NewBlock, dbVars
  <2>3. \A m \in mined' : m \in mined \/ m.block = head + 1
    BY <2>1
  <2>4. FailedInPast'
    BY <1>1, <2>2 DEF FailedInPast
  <2>5. FailedIsMissed'
    BY <1>1, <2>2, <2>3 DEF FailedIsMissed, FailedInPast
  <2> QED
    BY <2>4, <2>5
<1>3. CASE InsertTrade
  <2> DEFINE row == [tx |-> tx, status |-> status, block |-> targetBlock]
             n == Len(trades)
  <2>1. /\ pc = "record" /\ trades' = Append(trades, row)
        /\ mined' = mined /\ head' = head
    BY <1>3 DEF InsertTrade, chainVars
  <2>2. row.tx = tx /\ row.status = status /\ row.block = targetBlock
    OBVIOUS
  <2> HIDE DEF row
  <2>3. /\ DOMAIN trades' = 1..(n + 1) /\ DOMAIN trades = 1..n /\ n \in Nat
        /\ trades'[n + 1] = row
        /\ \A i \in 1..n : trades'[i] = trades[i]
    BY <1>1, <2>1
  <2>4. ASSUME status = "failed"
        PROVE  targetBlock < head /\ \A m \in mined : m.tx # tx
    <3>1. head > targetBlock + 2 /\ \A m \in mined : m.tx # tx
      BY <2>1, <2>4 DEF PollInv, FailedIsNotIncluded
    <3>2. targetBlock \in Nat
      BY DEF TypeOK, targetBlock
    <3> QED
      BY <1>1, <3>1, <3>2
  <2>5. ASSUME NEW i \in DOMAIN trades', trades'[i].status = "failed"
        PROVE  /\ trades'[i].block < head'
               /\ \A m \in mined' : m.tx = trades'[i].tx
                                      => m.block > trades'[i].block
    <3>1. CASE i = n + 1
      BY <2>1, <2>2, <2>3, <2>4, <2>5, <3>1
    <3>2. CASE i # n + 1
      <4>1. i \in 1..n /\ trades'[i] = trades[i]
        BY <2>3, <3>2
      <4> QED
        BY <2>1, <2>3, <2>5, <4>1 DEF FailedIsMissed, FailedInPast
    <3> QED
      BY <3>1, <3>2
  <2> QED
    BY <2>5 DEF FailedIsMissed, FailedInPast
<1>4. CASE UNCHANGED <<trades, mined, head>>
  BY <1>4 DEF FailedIsMissed, FailedInPast
<1>5. Next => NewBlock \/ InsertTrade \/ UNCHANGED <<trades, mined, head>>
  BY DEF Next, ExecuteStep, NextOpportunity, GetBlockNumber, GetNonce,
     GetBaseFee, SimulateBundle, SubmitBundle, PollReceipt, CheckDeadline,
     ExecuteFails, InsertOpportunity, ScannerFails, Restart, chainVars,
     dbVars
<1> QED
  BY <1>2, <1>3, <1>4, <1>5 DEF vars

\* With SuccessIsMined: as long as the reads keep up, the status on record
\* says for good whether the trade landed in the block its row names.
THEOREM FailedRowsAreTrue ==
    Spec /\ SeenSpec /\ []ReadsKeepUp => []FailedIsMissed
<1>1. Init => FailedIsMissed /\ FailedInPast
  BY DEF Init, FailedIsMissed, FailedInPast
<1> QED
  BY <1>1, MissedStep, PollInvariant, TypeCorrect, PTL DEF Spec

=============================================================================
