-------------------------- MODULE ArbContractProofs --------------------------
(***************************************************************************)
(* Proofs about ArbContract, for every set of tokens, pairs, amounts,      *)
(* floors, premiums and reserves.                                          *)
(***************************************************************************)
EXTENDS ArbContract, TLAPS

\* Where a transaction runs in executeOperation, its checks passed.
Trading == {"swapA", "swapB", "profit", "repay"}

\* What the checks of executeArb and executeOperation establish.
Requested ==
    /\ tx # NoTx /\ tx.initiator = "self" =>
         /\ tx.params.minProfit > 0
         /\ tx.params.tokenIn # tx.params.tokenOut
         /\ tx.params.poolA # tx.params.poolB
         /\ tx.loan.asset = tx.params.tokenIn
         /\ tx.loan.amount = tx.params.amountIn
    /\ pc \in Trading =>
         /\ tx.initiator = "self"
         /\ ValidPools(tx.params)

\* Balances h with n more of asset t.
Plus(h, t, n) == [a \in Assets |-> IF a = t THEN h[a] + n ELSE h[a]]

\* The contract holds what it held before the transaction, and at each point
\* of the trade exactly one more amount: the loan, or what a swap brought.
Stake ==
    /\ pc = "loan" => held = tx.held
    /\ pc \in {"callback", "swapA"} =>
         held = Plus(tx.held, tx.loan.asset, tx.loan.amount)
    /\ pc = "swapB" => held = Plus(tx.held, tx.params.tokenOut, tx.received)
    /\ pc \in {"profit", "repay"} =>
         held = Plus(tx.held, tx.params.tokenIn, tx.returned)
    /\ pc = "repay" => tx.returned >= repayAmount + tx.params.minProfit

\* Aave is approved for the repayment while it is due, and for nothing else.
Approved ==
    /\ tx # NoTx => tx.allowance = [t \in Tokens |-> 0]
    /\ allowance = [t \in Tokens |->
                      IF pc = "repay" /\ t = tx.loan.asset
                      THEN repayAmount ELSE 0]

Accounts == TypeOK /\ Requested /\ Stake /\ Approved

-----------------------------------------------------------------------------
(* Arithmetic.                                                             *)

\* What the provers need of the integer division of _getAmountOut.
LEMMA DivNat ==
    ASSUME NEW m \in Nat, NEW n \in Nat, n > 0
    PROVE  /\ m \div n \in Nat
           /\ (m \div n) * n <= m
  BY SMT

\* A quote is a natural number.
LEMMA QuoteNat ==
    ASSUME NEW x \in Nat, NEW r \in Nat, NEW s \in Nat, r > 0
    PROVE  QuoteOf(x, r, s) \in Nat
  <1>1. x * 997 * s \in Nat
    BY SMT
  <1>2. r * 1000 + x * 997 \in Nat /\ r * 1000 + x * 997 > 0
    BY SMT
  <1> QED
    BY <1>1, <1>2, DivNat DEF QuoteOf

\* The pair accepts every quote: the floor in _getAmountOut leaves the pair
\* with no less than its check asks for.
LEMMA QuoteAccepted ==
    ASSUME NEW x \in Nat, NEW r \in Nat, NEW s \in Nat, r > 0, s > 0
    PROVE  PairAccepts(x, QuoteOf(x, r, s), r, s)
  <1> DEFINE d == r * 1000 + x * 997
             q == QuoteOf(x, r, s)
  <1>1. q \in Nat
    BY QuoteNat
  <1>2. d \in Nat /\ d > 0 /\ x * 997 * s \in Nat
    BY SMT
  <1>3. q * d <= x * 997 * s
    BY <1>2, DivNat DEF QuoteOf
  <1>4. d * s = r * s * 1000 + x * 997 * s
    BY SMT
  <1>5. r * s > 0
    BY SMT
  <1> HIDE DEF q
  <1>6. q < s
    <2> SUFFICES ASSUME q >= s PROVE FALSE
      BY <1>1
    <2>1. q * d >= s * d
      BY <1>1, <1>2, SMT
    <2> QED
      BY <2>1, <1>1, <1>2, <1>3, <1>4, <1>5, SMT
  <1>7. d * (s - q) = d * s - q * d
    BY <1>1, <1>2, SMT
  <1>8. (r + x) * 1000 - x * 3 = d
    BY SMT
  <1>9. d * (s - q) >= r * s * 1000
    <2> DEFINE ds == d * s
               qd == q * d
               rs == r * s * 1000
               xs == x * 997 * s
    <2>1. ds \in Int /\ qd \in Int /\ rs \in Int /\ xs \in Int
      BY <1>1, <1>2, SMT
    <2>2. ds = rs + xs /\ qd <= xs
      BY <1>3, <1>4
    <2> HIDE DEF ds, qd, rs, xs
    <2>3. ds - qd >= rs
      BY <2>1, <2>2, SMT
    <2> QED
      BY <2>3, <1>7 DEF ds, qd, rs
  <1> QED
    BY <1>6, <1>8, <1>9 DEF PairAccepts, q

-----------------------------------------------------------------------------
(* Types and accounts.                                                     *)

\* A transaction that is under way has the fields of a transaction.
LEMMA TxTyped ==
    ASSUME TypeOK, pc # "idle"
    PROVE  /\ tx \in Txs /\ tx # NoTx
           /\ tx.params \in ArbParams /\ tx.loan \in Loans
           /\ tx.params.tokenIn \in Tokens /\ tx.params.tokenOut \in Tokens
           /\ tx.params.poolA \in Pairs /\ tx.params.poolB \in Pairs
           /\ tx.params.amountIn \in Nat /\ tx.params.minProfit \in Nat
           /\ tx.loan.asset \in Tokens
           /\ tx.loan.amount \in Nat /\ tx.loan.premium \in Nat
           /\ tx.received \in Nat /\ tx.returned \in Nat
           /\ tx.reserves \in Reserves /\ tx.held \in Balances
           /\ tx.allowance \in Approvals
           /\ repayAmount \in Nat
  <1>1. tx # NoTx /\ tx \in Txs
    BY DEF TypeOK
  <1>2. /\ tx.params \in ArbParams /\ tx.loan \in Loans
        /\ tx.received \in Nat /\ tx.returned \in Nat
        /\ tx.reserves \in Reserves /\ tx.held \in Balances
        /\ tx.allowance \in Approvals
    BY <1>1 DEF Txs
  <1>3. /\ tx.params.tokenIn \in Tokens /\ tx.params.tokenOut \in Tokens
        /\ tx.params.poolA \in Pairs /\ tx.params.poolB \in Pairs
        /\ tx.params.amountIn \in Nat /\ tx.params.minProfit \in Nat
    BY <1>2, ContractAssumption DEF ArbParams
  <1>4. /\ tx.loan.asset \in Tokens
        /\ tx.loan.amount \in Nat /\ tx.loan.premium \in Nat
    BY <1>2, ContractAssumption DEF Loans
  <1>5. repayAmount \in Nat
    BY <1>4 DEF repayAmount
  <1> QED
    BY <1>1, <1>2, <1>3, <1>4, <1>5

\* The reserves of a pair are naturals, whichever way round they are read.
LEMMA OrientedNat ==
    ASSUME NEW rs \in Reserves, NEW q \in Pairs, NEW t
    PROVE  /\ Oriented(rs, q, t)[1] \in Nat
           /\ Oriented(rs, q, t)[2] \in Nat
  BY DEF Oriented, Reserves

\* A swap's output is a natural, and the pair accepts it unless it is 0.
LEMMA AmountOutAccepted ==
    ASSUME reserves \in Reserves, NEW q \in Pairs, NEW t, NEW x \in Nat
    PROVE  /\ AmountOut(q, t, x) \in Nat
           /\ AmountOut(q, t, x) > 0 =>
                PairAccepts(x, AmountOut(q, t, x),
                            Oriented(reserves, q, t)[1],
                            Oriented(reserves, q, t)[2])
  <1> DEFINE r == Oriented(reserves, q, t)
  <1>1. r[1] \in Nat /\ r[2] \in Nat
    BY OrientedNat
  <1>2. CASE r[1] > 0 /\ r[2] > 0
    <2>1. AmountOut(q, t, x) = QuoteOf(x, r[1], r[2])
      BY <1>2 DEF AmountOut
    <2> HIDE DEF r
    <2>2. /\ QuoteOf(x, r[1], r[2]) \in Nat
          /\ PairAccepts(x, QuoteOf(x, r[1], r[2]), r[1], r[2])
      BY <1>1, <1>2, QuoteNat, QuoteAccepted
    <2> QED
      BY <2>1, <2>2 DEF r
  <1>3. CASE ~(r[1] > 0 /\ r[2] > 0)
    <2>1. AmountOut(q, t, x) = 0
      BY <1>3 DEF AmountOut
    <2> QED
      BY <2>1
  <1> QED
    BY <1>2, <1>3

\* A swap that goes through keeps reserves and balances in the naturals.
LEMMA SwapTyped ==
    ASSUME TypeOK, NEW q \in Pairs, NEW tIn \in Tokens, NEW tOut \in Tokens,
           NEW x \in Nat, tIn # tOut,
           SwapGoesThrough(q, tIn, x), Swap(q, tIn, tOut, x)
    PROVE  /\ reserves' \in Reserves /\ held' \in Balances
           /\ AmountOut(q, tIn, x) \in Nat
           /\ held' = [a \in Assets |->
                         IF a = tOut THEN held[a] + AmountOut(q, tIn, x)
                         ELSE IF a = tIn THEN held[a] - x ELSE held[a]]
  <1> DEFINE out == AmountOut(q, tIn, x)
             r == Oriented(reserves, q, tIn)
  <1>1. out \in Nat
    BY AmountOutAccepted DEF TypeOK
  <1>2. out < r[2] /\ held[tIn] >= x
    BY DEF SwapGoesThrough, PairAccepts
  <1>3. reserves[q] \in Nat \X Nat
    BY DEF TypeOK, Reserves
  <1>4. r[2] = IF tIn = Token0[q] THEN reserves[q][2] ELSE reserves[q][1]
    BY <1>3 DEF Oriented
  <1>5. reserves' = [reserves EXCEPT ![q] =
                      IF tIn = Token0[q]
                      THEN <<reserves[q][1] + x, reserves[q][2] - out>>
                      ELSE <<reserves[q][1] - out, reserves[q][2] + x>>]
    BY DEF Swap, TypeOK, Reserves
  <1>6. held' = [a \in Assets |-> IF a = tOut THEN held[tOut] + out
                                  ELSE IF a = tIn THEN held[tIn] - x
                                  ELSE held[a]]
    BY DEF Swap, TypeOK, Balances, Assets
  <1> HIDE DEF out, r
  <1>7. reserves' \in Reserves
    BY <1>1, <1>2, <1>3, <1>4, <1>5 DEF TypeOK, Reserves
  <1>8. held[tIn] \in Nat /\ held[tOut] \in Nat
    BY DEF TypeOK, Balances, Assets
  <1>9. held' \in Balances
    BY <1>1, <1>2, <1>6, <1>8 DEF TypeOK, Balances
  <1> QED
    BY <1>1, <1>6, <1>7, <1>9 DEF out

-----------------------------------------------------------------------------
(* Each kind of step keeps the accounts.                                   *)

\* A rollback restores the accounts the transaction started with.
LEMMA RollbackKeeps ==
    ASSUME Accounts, pc # "idle", Rollback
    PROVE  Accounts'
  <1> USE DEF Accounts
  <1>1. TypeOK'
    BY TxTyped DEF TypeOK, Rollback, Ends, Locations
  <1>2. Requested' /\ Stake'
    BY DEF Rollback, Ends, Requested, Stake, Trading
  <1>3. allowance' = [t \in Tokens |-> 0]
    BY TxTyped DEF Rollback, Approved
  <1>4. Approved'
    BY <1>3 DEF Rollback, Ends, Approved
  <1> QED
    BY <1>1, <1>2, <1>4

\* Between transactions only reserves and balances move.
LEMMA IdleKeeps ==
    ASSUME Accounts, pc = "idle", UNCHANGED <<allowance, pc, tx, txs>>,
           reserves' \in Reserves, held' \in Balances
    PROVE  Accounts'
  BY DEF Accounts, TypeOK, Requested, Stake, Approved, Trading

\* Beginning a flash loan for valid parameters.
LEMMA BeginsTyped ==
    ASSUME TypeOK, NEW i \in {"self", "other"}, NEW l \in Loans,
           NEW p \in ArbParams, Begins(i, l, p)
    PROVE  /\ tx' \in Txs /\ tx' # NoTx /\ txs' \in 0..MaxTxs
           /\ tx'.initiator = i /\ tx'.loan = l /\ tx'.params = p
           /\ tx'.held = held /\ tx'.allowance = allowance
           /\ tx'.reserves = reserves
  <1>1. tx' \in Txs
    BY DEF Begins, Txs, TypeOK
  <1>2. tx' # NoTx
    BY <1>1, ContractAssumption
  <1>3. txs' \in 0..MaxTxs
    BY ContractAssumption DEF Begins, TypeOK
  <1> QED
    BY <1>1, <1>2, <1>3 DEF Begins

\* executeArb: the accounts of a loan asked for.
LEMMA ExecuteArbKeeps ==
    ASSUME Accounts, NEW p \in ArbParams, ExecuteArb(p)
    PROVE  Accounts'
  <1> USE DEF Accounts
  <1>1. PICK premium \in Premiums :
          Begins("self", [asset |-> p.tokenIn, amount |-> p.amountIn,
                          premium |-> premium], p)
    BY DEF ExecuteArb
  <1> DEFINE l == [asset |-> p.tokenIn, amount |-> p.amountIn,
                   premium |-> premium]
  <1>2. l \in Loans
    BY DEF Loans, ArbParams
  <1>3. l.asset = p.tokenIn /\ l.amount = p.amountIn
    OBVIOUS
  <1>4. Begins("self", l, p)
    BY <1>1
  <1> HIDE DEF l
  <1>5. /\ tx' \in Txs /\ tx' # NoTx /\ txs' \in 0..MaxTxs
        /\ tx'.initiator = "self" /\ tx'.loan = l /\ tx'.params = p
        /\ tx'.held = held /\ tx'.allowance = allowance
    BY <1>2, <1>4, BeginsTyped
  <1>6. TypeOK'
    BY <1>5 DEF TypeOK, ExecuteArb, Locations
  <1>7. Requested' /\ Stake'
    BY <1>3, <1>5 DEF Requested, Stake, ExecuteArb, Trading
  <1>8. Approved'
    BY <1>5 DEF Approved, ExecuteArb
  <1> QED
    BY <1>6, <1>7, <1>8

\* Somebody else's loan: it carries nobody's request.
LEMMA ForeignLoanKeeps ==
    ASSUME Accounts, NEW l \in Loans, NEW p \in ArbParams, ForeignLoan(l, p)
    PROVE  Accounts'
  <1> USE DEF Accounts
  <1>1. /\ tx' \in Txs /\ tx' # NoTx /\ txs' \in 0..MaxTxs
        /\ tx'.initiator = "other" /\ tx'.loan = l /\ tx'.params = p
        /\ tx'.held = held /\ tx'.allowance = allowance
    BY BeginsTyped DEF ForeignLoan
  <1>2. l.asset \in Tokens /\ l.amount \in Nat
    BY ContractAssumption DEF Loans
  <1>3. held' = Plus(held, l.asset, l.amount)
    BY <1>2 DEF ForeignLoan, Plus, TypeOK, Balances
  <1>4. held' \in Balances
    BY <1>2, <1>3 DEF Plus, TypeOK, Balances
  <1>5. TypeOK'
    BY <1>1, <1>4 DEF TypeOK, ForeignLoan, Locations
  <1>6. Requested' /\ Stake'
    BY <1>1, <1>3 DEF Requested, Stake, ForeignLoan, Trading
  <1>7. Approved'
    BY <1>1 DEF Approved, ForeignLoan
  <1> QED
    BY <1>5, <1>6, <1>7

\* Aave lends, or the transaction is rolled back.
LEMMA LendKeeps ==
    ASSUME Accounts, FlashLoanSimple
    PROVE  Accounts'
  <1> USE DEF Accounts
  <1>1. CASE Rollback
    BY <1>1, RollbackKeeps DEF FlashLoanSimple
  <1>2. CASE /\ held' = [held EXCEPT ![tx.loan.asset] = @ + tx.loan.amount]
             /\ pc' = "callback"
             /\ UNCHANGED <<reserves, allowance, tx, txs>>
    <2>1. pc = "loan" /\ pc # "idle"
      BY DEF FlashLoanSimple
    <2>2. tx.loan.asset \in Tokens /\ tx.loan.amount \in Nat
      BY <2>1, TxTyped
    <2>3. held' = Plus(held, tx.loan.asset, tx.loan.amount)
      BY <1>2, <2>2 DEF Plus, TypeOK, Balances
    <2>4. held' \in Balances
      BY <2>2, <2>3 DEF Plus, TypeOK, Balances
    <2>5. TypeOK'
      BY <1>2, <2>1, <2>4 DEF TypeOK, Locations
    <2>6. Requested' /\ Stake'
      BY <1>2, <2>1, <2>3 DEF Requested, Stake, Trading
    <2>7. Approved'
      BY <1>2, <2>1 DEF Approved, repayAmount
    <2> QED
      BY <2>5, <2>6, <2>7
  <1> QED
    BY <1>1, <1>2 DEF FlashLoanSimple

\* executeOperation goes on only with what executeArb asked for.
LEMMA CallbackKeeps ==
    ASSUME Accounts, ExecuteOperation
    PROVE  Accounts'
  <1> USE DEF Accounts
  <1>1. pc = "callback" /\ pc # "idle"
    BY DEF ExecuteOperation
  <1>2. CASE Rollback
    BY <1>1, <1>2, RollbackKeeps
  <1>3. CASE /\ tx.initiator = "self" /\ ValidPools(tx.params)
             /\ pc' = "swapA"
             /\ UNCHANGED <<reserves, held, allowance, tx, txs>>
    <2>1. TypeOK'
      BY <1>1, <1>3 DEF TypeOK, Locations
    <2>2. Requested' /\ Stake' /\ Approved'
      BY <1>1, <1>3
      DEF Requested, Stake, Approved, Trading, repayAmount, ValidPools,
          ValidatePool
    <2> QED
      BY <2>1, <2>2
  <1> QED
    BY <1>2, <1>3 DEF ExecuteOperation

\* The first swap turns the loan into tokenOut.
LEMMA SwapAKeeps ==
    ASSUME Accounts, SwapA
    PROVE  Accounts'
  <1> USE DEF Accounts
  <1> DEFINE p == tx.params
             out == AmountOut(p.poolA, p.tokenIn, tx.loan.amount)
  <1>1. pc = "swapA" /\ pc # "idle" /\ pc \in Trading
    BY DEF SwapA, Trading
  <1>2. CASE Rollback
    BY <1>1, <1>2, RollbackKeeps
  <1>3. CASE /\ SwapGoesThrough(p.poolA, p.tokenIn, tx.loan.amount)
             /\ Swap(p.poolA, p.tokenIn, p.tokenOut, tx.loan.amount)
             /\ tx' = [tx EXCEPT !.received = out]
             /\ pc' = "swapB"
             /\ UNCHANGED <<allowance, txs>>
    <2>1. /\ tx \in Txs /\ tx # NoTx
          /\ p.tokenIn \in Tokens /\ p.tokenOut \in Tokens
          /\ p.poolA \in Pairs /\ tx.loan.amount \in Nat
          /\ tx.held \in Balances
      BY <1>1, TxTyped
    <2>2. p.tokenIn # p.tokenOut /\ tx.loan.asset = p.tokenIn
      BY <1>1, <2>1 DEF Requested
    <2>3. /\ reserves' \in Reserves /\ held' \in Balances /\ out \in Nat
          /\ held' = [a \in Assets |->
                        IF a = p.tokenOut THEN held[a] + out
                        ELSE IF a = p.tokenIn THEN held[a] - tx.loan.amount
                        ELSE held[a]]
      BY <1>3, <2>1, <2>2, SwapTyped
    <2> HIDE DEF out
    <2>4. /\ tx' \in Txs /\ tx'.received = out
          /\ tx'.params = tx.params /\ tx'.loan = tx.loan
          /\ tx'.held = tx.held /\ tx'.allowance = tx.allowance
          /\ tx'.initiator = tx.initiator
      BY <1>3, <2>1, <2>3 DEF Txs
    <2>5. tx' # NoTx
      BY <2>4, ContractAssumption
    <2>6. TypeOK'
      BY <1>3, <2>3, <2>4, <2>5 DEF TypeOK, Locations
    <2>7. Requested'
      BY <1>1, <1>3, <2>1, <2>4
      DEF Requested, Trading, ValidPools, ValidatePool
    <2>8. held = Plus(tx.held, p.tokenIn, tx.loan.amount)
      BY <1>1, <2>2 DEF Stake
    <2>9. held' = Plus(tx.held, p.tokenOut, out)
      BY <2>1, <2>2, <2>3, <2>8 DEF Plus, Balances, Assets
    <2>10. Stake'
      BY <1>3, <2>4, <2>9 DEF Stake
    <2>11. Approved'
      BY <1>1, <1>3, <2>1, <2>4 DEF Approved
    <2> QED
      BY <2>6, <2>7, <2>10, <2>11
  <1> QED
    BY <1>2, <1>3 DEF SwapA

\* The second swap turns all of it back into tokenIn.
LEMMA SwapBKeeps ==
    ASSUME Accounts, SwapB
    PROVE  Accounts'
  <1> USE DEF Accounts
  <1> DEFINE p == tx.params
             out == AmountOut(p.poolB, p.tokenOut, tx.received)
  <1>1. pc = "swapB" /\ pc # "idle" /\ pc \in Trading
    BY DEF SwapB, Trading
  <1>2. CASE Rollback
    BY <1>1, <1>2, RollbackKeeps
  <1>3. CASE /\ SwapGoesThrough(p.poolB, p.tokenOut, tx.received)
             /\ Swap(p.poolB, p.tokenOut, p.tokenIn, tx.received)
             /\ tx' = [tx EXCEPT !.returned = out]
             /\ pc' = "profit"
             /\ UNCHANGED <<allowance, txs>>
    <2>1. /\ tx \in Txs /\ tx # NoTx
          /\ p.tokenIn \in Tokens /\ p.tokenOut \in Tokens
          /\ p.poolB \in Pairs /\ tx.received \in Nat
          /\ tx.held \in Balances
      BY <1>1, TxTyped
    <2>2. p.tokenIn # p.tokenOut
      BY <1>1, <2>1 DEF Requested
    <2>3. /\ reserves' \in Reserves /\ held' \in Balances /\ out \in Nat
          /\ held' = [a \in Assets |->
                        IF a = p.tokenIn THEN held[a] + out
                        ELSE IF a = p.tokenOut THEN held[a] - tx.received
                        ELSE held[a]]
      BY <1>3, <2>1, <2>2, SwapTyped
    <2> HIDE DEF out
    <2>4. /\ tx' \in Txs /\ tx'.returned = out
          /\ tx'.params = tx.params /\ tx'.loan = tx.loan
          /\ tx'.held = tx.held /\ tx'.allowance = tx.allowance
          /\ tx'.initiator = tx.initiator
      BY <1>3, <2>1, <2>3 DEF Txs
    <2>5. tx' # NoTx
      BY <2>4, ContractAssumption
    <2>6. TypeOK'
      BY <1>3, <2>3, <2>4, <2>5 DEF TypeOK, Locations
    <2>7. Requested'
      BY <1>1, <1>3, <2>1, <2>4
      DEF Requested, Trading, ValidPools, ValidatePool
    <2>8. held = Plus(tx.held, p.tokenOut, tx.received)
      BY <1>1 DEF Stake
    <2>9. held' = Plus(tx.held, p.tokenIn, out)
      BY <2>1, <2>2, <2>3, <2>8 DEF Plus, Balances, Assets
    <2>10. Stake'
      BY <1>3, <2>4, <2>9 DEF Stake
    <2>11. Approved'
      BY <1>1, <1>3, <2>1, <2>4 DEF Approved
    <2> QED
      BY <2>6, <2>7, <2>10, <2>11
  <1> QED
    BY <1>2, <1>3 DEF SwapB

\* The floor is met and the repayment approved, or nothing happened.
LEMMA ProfitKeeps ==
    ASSUME Accounts, CheckProfit
    PROVE  Accounts'
  <1> USE DEF Accounts
  <1>1. pc = "profit" /\ pc # "idle" /\ pc \in Trading
    BY DEF CheckProfit, Trading
  <1>2. CASE Rollback
    BY <1>1, <1>2, RollbackKeeps
  <1>3. CASE /\ tx.returned >= repayAmount + tx.params.minProfit
             /\ allowance' = [allowance EXCEPT ![tx.loan.asset] = repayAmount]
             /\ pc' = "repay"
             /\ UNCHANGED <<reserves, held, tx, txs>>
    <2>1. tx # NoTx /\ tx.loan.asset \in Tokens /\ repayAmount \in Nat
      BY <1>1, TxTyped
    <2>2. repayAmount' = repayAmount
      BY <1>3 DEF repayAmount
    <2>3. Approved'
      BY <1>1, <1>3, <2>1, <2>2 DEF Approved
    <2>4. TypeOK'
      BY <1>3, <2>1 DEF TypeOK, Locations, Approvals
    <2>5. Requested'
      BY <1>1, <1>3 DEF Requested, Trading, ValidPools, ValidatePool
    <2>6. Stake'
      BY <1>1, <1>3, <2>2 DEF Stake
    <2> QED
      BY <2>3, <2>4, <2>5, <2>6
  <1> QED
    BY <1>2, <1>3 DEF CheckProfit

\* The contract holds the repayment, and more, when Aave pulls it.
LEMMA RepaymentCovered ==
    ASSUME Accounts, pc = "repay"
    PROVE  /\ allowance[tx.loan.asset] = repayAmount
           /\ held = Plus(tx.held, tx.params.tokenIn, tx.returned)
           /\ tx.loan.asset = tx.params.tokenIn
           /\ tx.params.tokenIn \in Assets /\ tx.held \in Balances
           /\ tx.returned >= repayAmount + tx.params.minProfit
           /\ tx.params.minProfit > 0 /\ tx.params.minProfit \in Nat
           /\ tx.returned \in Nat /\ repayAmount \in Nat
           /\ held[tx.loan.asset] >= repayAmount
  <1> USE DEF Accounts
  <1>1. pc # "idle" /\ pc \in Trading
    BY DEF Trading
  <1>2. /\ tx # NoTx /\ tx.loan.asset \in Tokens /\ repayAmount \in Nat
        /\ tx.returned \in Nat /\ tx.params.minProfit \in Nat
        /\ tx.held \in Balances
    BY <1>1, TxTyped
  <1>3. /\ tx.loan.asset = tx.params.tokenIn /\ tx.params.minProfit > 0
    BY <1>1, <1>2 DEF Requested
  <1>4. allowance[tx.loan.asset] = repayAmount
    BY <1>2 DEF Approved
  <1>5. /\ held = Plus(tx.held, tx.params.tokenIn, tx.returned)
        /\ tx.returned >= repayAmount + tx.params.minProfit
    BY DEF Stake
  <1>6. held[tx.loan.asset] = tx.held[tx.loan.asset] + tx.returned
    BY <1>2, <1>3, <1>5 DEF Plus, Assets
  <1>7. tx.held[tx.loan.asset] \in Nat
    BY <1>2 DEF Balances, Assets
  <1>8. held[tx.loan.asset] >= repayAmount
    BY <1>2, <1>5, <1>6, <1>7
  <1> QED
    BY <1>2, <1>3, <1>4, <1>5, <1>8 DEF Assets

\* Aave pulls the repayment; what is left is the profit.
LEMMA RepayKeeps ==
    ASSUME Accounts, Repay
    PROVE  /\ Accounts'
           /\ held' = Plus(tx.held, tx.params.tokenIn,
                           tx.returned - repayAmount)
  <1> USE DEF Accounts
  <1>1. pc = "repay" /\ pc # "idle"
    BY DEF Repay
  <1> DEFINE asset == tx.loan.asset
  <1>2. /\ allowance[asset] = repayAmount /\ held[asset] >= repayAmount
        /\ held = Plus(tx.held, asset, tx.returned)
        /\ asset = tx.params.tokenIn
        /\ asset \in Assets /\ tx.held \in Balances
        /\ tx.returned \in Nat /\ repayAmount \in Nat
    BY <1>1, RepaymentCovered
  <1>3. /\ held' = [held EXCEPT ![asset] = held[asset] - repayAmount]
        /\ allowance' = [allowance EXCEPT ![asset] =
                           allowance[asset] - repayAmount]
        /\ Ends
        /\ UNCHANGED reserves
    BY <1>2 DEF Repay
  <1>4. held' = Plus(tx.held, asset, tx.returned - repayAmount)
    BY <1>2, <1>3 DEF Plus, Balances
  <1>5. held' \in Balances
    BY <1>2, <1>3 DEF TypeOK, Balances
  <1>6. allowance' = [t \in Tokens |-> 0]
    <2>1. repayAmount - repayAmount = 0
      BY <1>2
    <2>2. allowance' = [allowance EXCEPT ![asset] = 0]
      BY <1>2, <1>3, <2>1
    <2> QED
      BY <1>1, <2>2 DEF Approved
  <1>7. TypeOK'
    <2>1. allowance' \in Approvals
      BY <1>6 DEF Approvals
    <2> QED
      BY <1>3, <1>5, <2>1 DEF TypeOK, Ends, Locations
  <1>8. Requested' /\ Stake'
    BY <1>3 DEF Requested, Stake, Ends, Trading
  <1>9. Approved'
    BY <1>3, <1>6 DEF Approved, Ends
  <1> QED
    BY <1>2, <1>4, <1>7, <1>8, <1>9

-----------------------------------------------------------------------------
(* The theorems.                                                           *)

\* The accounts are right initially.
LEMMA AccountsInit ==
    Init => Accounts
  <1> SUFFICES ASSUME Init PROVE Accounts
    OBVIOUS
  <1>1. reserves \in Reserves
    BY ContractAssumption DEF Init, Reserves
  <1>2. held \in Balances /\ allowance \in Approvals
    BY DEF Init, Balances, Approvals
  <1>3. txs \in 0..MaxTxs
    BY ContractAssumption DEF Init
  <1>4. TypeOK
    BY <1>1, <1>2, <1>3 DEF Init, TypeOK, Locations
  <1>5. Requested /\ Stake /\ Approved
    BY DEF Init, Requested, Stake, Approved, Trading
  <1> QED
    BY <1>4, <1>5 DEF Accounts

\* Every step keeps the accounts.
LEMMA AccountsStep ==
    Accounts /\ [Next]_vars => Accounts'
  <1> SUFFICES ASSUME Accounts, [Next]_vars PROVE Accounts'
    OBVIOUS
  <1>1. ASSUME NEW q \in Pairs, NEW r \in Markets, MarketMoves(q, r)
        PROVE  Accounts'
    <2>1. reserves' \in Reserves
      BY <1>1, ContractAssumption
      DEF MarketMoves, Accounts, TypeOK, Reserves
    <2> QED
      BY <1>1, <2>1, IdleKeeps DEF MarketMoves, Accounts, TypeOK
  <1>2. ASSUME NEW a \in Assets, NEW d \in Deposits, Deposit(a, d)
        PROVE  Accounts'
    <2>1. held' \in Balances
      BY <1>2, ContractAssumption DEF Deposit, Accounts, TypeOK, Balances
    <2> QED
      BY <1>2, <2>1, IdleKeeps DEF Deposit, Accounts, TypeOK
  <1>3. ASSUME NEW t \in Tokens, Withdraw(t)
        PROVE  Accounts'
    <2>1. held' \in Balances
      BY <1>3 DEF Withdraw, Accounts, TypeOK, Balances
    <2> QED
      BY <1>3, <2>1, IdleKeeps DEF Withdraw, Accounts, TypeOK
  <1>4. CASE RescueEth
    <2>1. held' \in Balances
      BY <1>4 DEF RescueEth, Accounts, TypeOK, Balances
    <2> QED
      BY <1>4, <2>1, IdleKeeps DEF RescueEth, Accounts, TypeOK
  <1>5. ASSUME NEW l \in Loans, NEW p \in ArbParams, ForeignLoan(l, p)
        PROVE  Accounts'
    BY <1>5, ForeignLoanKeeps
  <1>6. ASSUME NEW p \in ArbParams, ExecuteArb(p)
        PROVE  Accounts'
    BY <1>6, ExecuteArbKeeps
  <1>7. CASE Trade
    BY <1>7, LendKeeps, CallbackKeeps, SwapAKeeps, SwapBKeeps, ProfitKeeps,
       RepayKeeps DEF Trade
  <1>8. CASE UNCHANGED vars
    BY <1>8
    DEF vars, Accounts, TypeOK, Requested, Stake, Approved, Trading,
        repayAmount, ValidPools, ValidatePool
  <1> QED
    BY <1>1, <1>2, <1>3, <1>4, <1>5, <1>6, <1>7, <1>8
    DEF Next, Outside, OwnerCalls

\* At every point of every transaction the contract holds what it held before
\* plus exactly the one amount that the trade has got to.
THEOREM AccountsKept == Spec => []Accounts
  <1> QED
    BY AccountsInit, AccountsStep, PTL DEF Spec

\* Reserves, balances and approvals are never negative.
THEOREM TypeCorrect == Spec => []TypeOK
  <1>1. Accounts => TypeOK
    BY DEF Accounts
  <1> QED
    BY <1>1, AccountsKept, PTL

\* NoStandingApproval, for every set of tokens and every loan.
THEOREM ApprovalsEnd == Spec => []NoStandingApproval
  <1>1. Accounts => NoStandingApproval
    BY DEF Accounts, Approved, NoStandingApproval
  <1> QED
    BY <1>1, AccountsKept, PTL

\* Where the accounts are right, a swap that brings anything goes through.
LEMMA SwapsAccepted ==
    ASSUME Accounts PROVE SwapsGoThrough
  <1> DEFINE p == tx.params
  <1> USE DEF Accounts
  <1>1. ASSUME pc = "swapA",
               AmountOut(p.poolA, p.tokenIn, tx.loan.amount) > 0
        PROVE  SwapGoesThrough(p.poolA, p.tokenIn, tx.loan.amount)
    <2>1. /\ tx # NoTx /\ p.poolA \in Pairs /\ p.tokenIn \in Tokens
          /\ tx.loan.amount \in Nat /\ tx.held \in Balances
      BY <1>1, TxTyped
    <2>2. tx.loan.asset = p.tokenIn
      BY <1>1, <2>1 DEF Requested, Trading
    <2>3. held[p.tokenIn] = tx.held[p.tokenIn] + tx.loan.amount
      BY <1>1, <2>1, <2>2 DEF Stake, Plus, Assets
    <2>4. tx.held[p.tokenIn] \in Nat
      BY <2>1 DEF Balances, Assets
    <2>5. held[p.tokenIn] >= tx.loan.amount
      BY <2>1, <2>3, <2>4
    <2> QED
      BY <1>1, <2>1, <2>5, AmountOutAccepted DEF SwapGoesThrough, TypeOK
  <1>2. ASSUME pc = "swapB",
               AmountOut(p.poolB, p.tokenOut, tx.received) > 0
        PROVE  SwapGoesThrough(p.poolB, p.tokenOut, tx.received)
    <2>1. /\ p.poolB \in Pairs /\ p.tokenOut \in Tokens
          /\ tx.received \in Nat /\ tx.held \in Balances
      BY <1>2, TxTyped
    <2>2. held[p.tokenOut] = tx.held[p.tokenOut] + tx.received
      BY <1>2, <2>1 DEF Stake, Plus, Assets
    <2>3. tx.held[p.tokenOut] \in Nat
      BY <2>1 DEF Balances, Assets
    <2>4. held[p.tokenOut] >= tx.received
      BY <2>1, <2>2, <2>3
    <2> QED
      BY <1>2, <2>1, <2>4, AmountOutAccepted DEF SwapGoesThrough, TypeOK
  <1> QED
    BY <1>1, <1>2 DEF SwapsGoThrough

\* SwapsGoThrough, for all reserves and amounts: rounding never costs the
\* trade the pair's consent.
THEOREM QuotesAreAccepted == Spec => []SwapsGoThrough
  <1>1. Accounts => SwapsGoThrough
    BY SwapsAccepted
  <1> QED
    BY <1>1, AccountsKept, PTL

\* TradeEarns, for every constant: no trade stakes what the contract held,
\* and none that reaches the repayment fails.
THEOREM TradesEarn == Spec => TradeEarns
  <1> DEFINE Earns ==
        pc = "repay" /\ pc' = "idle" =>
         /\ held'[tx.params.tokenIn] > tx.held[tx.params.tokenIn]
         /\ held'[tx.params.tokenIn] >=
                tx.held[tx.params.tokenIn] + tx.params.minProfit
         /\ \A a \in Assets \ {tx.params.tokenIn} : held'[a] = tx.held[a]
  <1>1. Accounts /\ [Next]_vars => [Earns]_vars
    <2> SUFFICES ASSUME Accounts, Next, pc = "repay", pc' = "idle"
                 PROVE  Earns
      OBVIOUS
    <2>1. Repay
      BY DEF Next, Outside, OwnerCalls, Trade, MarketMoves, Deposit,
             ForeignLoan, ExecuteArb, Withdraw, RescueEth, FlashLoanSimple,
             ExecuteOperation, SwapA, SwapB, CheckProfit
    <2>2. held' = Plus(tx.held, tx.params.tokenIn,
                       tx.returned - repayAmount)
      BY <2>1, RepayKeeps
    <2>3. /\ tx.params.tokenIn \in Assets /\ tx.held \in Balances
          /\ tx.returned >= repayAmount + tx.params.minProfit
          /\ tx.params.minProfit > 0 /\ tx.params.minProfit \in Nat
          /\ tx.returned \in Nat /\ repayAmount \in Nat
      BY RepaymentCovered
    <2>4. tx.held[tx.params.tokenIn] \in Nat
      BY <2>3 DEF Balances
    <2>5. held'[tx.params.tokenIn] =
            tx.held[tx.params.tokenIn] + (tx.returned - repayAmount)
      BY <2>2, <2>3 DEF Plus
    <2>6. \A a \in Assets \ {tx.params.tokenIn} : held'[a] = tx.held[a]
      BY <2>2 DEF Plus
    <2>7. /\ held'[tx.params.tokenIn] > tx.held[tx.params.tokenIn]
          /\ held'[tx.params.tokenIn] >=
                tx.held[tx.params.tokenIn] + tx.params.minProfit
      BY <2>3, <2>4, <2>5
    <2> QED
      BY <2>6, <2>7
  <1>2. TradeEarns <=> [][Earns]_vars
    BY PTL DEF TradeEarns
  <1> QED
    BY <1>1, <1>2, AccountsKept, PTL DEF Spec

-----------------------------------------------------------------------------
(* Agreement with the bot's estimate.                                      *)

\* The two amounts of the estimate, on the reserves the trade started on.
MidAmount ==
    LET a == Oriented(tx.reserves, tx.params.poolA, tx.params.tokenIn)
    IN  GetAmountOut(tx.params.amountIn, a[1], a[2])

FinalOut ==
    LET b == Oriented(tx.reserves, tx.params.poolB, tx.params.tokenOut)
    IN  GetAmountOut(MidAmount, b[1], b[2])

\* The swaps bring what the estimate says: the first one leaves the second
\* pair alone.
Quoted ==
    /\ pc \in {"loan", "callback", "swapA"} => reserves = tx.reserves
    /\ pc = "swapB" =>
         /\ tx.received = MidAmount
         /\ reserves[tx.params.poolB] = tx.reserves[tx.params.poolB]
    /\ pc \in {"profit", "repay"} => tx.returned = FinalOut

\* The Rust and the Solidity formula are the same function.
LEMMA AmountOutIs ==
    ASSUME reserves \in Reserves, NEW q \in Pairs, NEW t, NEW x \in Nat
    PROVE  AmountOut(q, t, x) =
             GetAmountOut(x, Oriented(reserves, q, t)[1],
                             Oriented(reserves, q, t)[2])
  <1>1. /\ Oriented(reserves, q, t)[1] \in Nat
        /\ Oriented(reserves, q, t)[2] \in Nat
    BY OrientedNat
  <1> QED
    BY <1>1 DEF AmountOut, GetAmountOut, QuoteOf

\* Nothing in, nothing out.
LEMMA ZeroIn ==
    ASSUME NEW r \in Nat, NEW s \in Nat
    PROVE  GetAmountOut(0, r, s) = 0
  <1>1. CASE r = 0 \/ s = 0
    BY <1>1 DEF GetAmountOut
  <1>2. CASE r > 0 /\ s > 0
    <2>1. 0 * 997 * s = 0 /\ r * 1000 + 0 * 997 = r * 1000
      BY SMT
    <2>2. 0 \div (r * 1000) = 0
      BY <1>2, SMT
    <2> QED
      BY <1>2, <2>1, <2>2 DEF GetAmountOut
  <1> QED
    BY <1>1, <1>2

\* Orientation depends on the reserves of that pair only.
LEMMA OrientedLocal ==
    ASSUME NEW rs, NEW ss, NEW q, NEW t, rs[q] = ss[q]
    PROVE  Oriented(rs, q, t) = Oriented(ss, q, t)
  BY DEF Oriented

\* Quoted is kept by every step.
LEMMA QuotedStep ==
    Accounts /\ Quoted /\ [Next]_vars => Quoted'
  <1> SUFFICES ASSUME Accounts, Quoted, [Next]_vars PROVE Quoted'
    OBVIOUS
  <1> USE DEF Accounts
  <1>1. CASE pc' = "idle"
    BY <1>1 DEF Quoted
  <1>2. CASE UNCHANGED vars
    BY <1>2 DEF vars, Quoted, MidAmount, FinalOut, Oriented
  <1>3. CASE pc = "idle" /\ pc' # "idle" /\ Next
    <2>1. reserves' = reserves /\ tx'.reserves = reserves
          /\ pc' \in {"loan", "callback"}
      BY <1>3 DEF Next, Outside, OwnerCalls, Trade, MarketMoves, Deposit,
                  ForeignLoan, ExecuteArb, Withdraw, RescueEth, Begins,
                  FlashLoanSimple, ExecuteOperation, SwapA, SwapB,
                  CheckProfit, Repay
    <2> QED
      BY <2>1 DEF Quoted
  <1>4. CASE FlashLoanSimple /\ pc' # "idle"
    BY <1>4 DEF FlashLoanSimple, Rollback, Ends, Quoted
  <1>5. CASE ExecuteOperation /\ pc' # "idle"
    BY <1>5 DEF ExecuteOperation, Rollback, Ends, Quoted
  <1>6. CASE SwapA /\ pc' # "idle"
    <2> DEFINE p == tx.params
               out == AmountOut(p.poolA, p.tokenIn, tx.loan.amount)
    <2>1. /\ pc = "swapA" /\ pc # "idle" /\ pc \in Trading
          /\ Swap(p.poolA, p.tokenIn, p.tokenOut, tx.loan.amount)
          /\ tx' = [tx EXCEPT !.received = out]
          /\ pc' = "swapB"
      BY <1>6 DEF SwapA, Rollback, Ends, Trading
    <2>2. /\ tx \in Txs /\ tx # NoTx /\ p.poolA \in Pairs
          /\ p.poolB \in Pairs /\ tx.loan.amount \in Nat
      BY <2>1, TxTyped
    <2>3. p.poolA # p.poolB /\ tx.loan.amount = p.amountIn
      BY <2>1, <2>2 DEF Requested
    <2>4. reserves = tx.reserves /\ reserves \in Reserves
      BY <2>1 DEF Quoted, TypeOK
    <2>5. out = MidAmount
      BY <2>2, <2>3, <2>4, AmountOutIs DEF MidAmount
    <2>6. reserves'[p.poolB] = reserves[p.poolB]
      BY <2>1, <2>2, <2>3, <2>4 DEF Swap, Reserves
    <2> HIDE DEF out
    <2>7. /\ tx'.received = out /\ tx'.params = tx.params
          /\ tx'.reserves = tx.reserves
      BY <2>1, <2>2 DEF Txs
    <2>8. MidAmount' = MidAmount
      BY <2>7 DEF MidAmount, Oriented
    <2> QED
      BY <2>1, <2>4, <2>5, <2>6, <2>7, <2>8 DEF Quoted
  <1>7. CASE SwapB /\ pc' # "idle"
    <2> DEFINE p == tx.params
               out == AmountOut(p.poolB, p.tokenOut, tx.received)
    <2>1. /\ pc = "swapB" /\ pc # "idle"
          /\ tx' = [tx EXCEPT !.returned = out]
          /\ pc' = "profit"
      BY <1>7 DEF SwapB, Rollback, Ends
    <2>2. /\ tx \in Txs /\ p.poolB \in Pairs /\ tx.received \in Nat
      BY <2>1, TxTyped
    <2>3. /\ tx.received = MidAmount
          /\ reserves[p.poolB] = tx.reserves[p.poolB]
          /\ reserves \in Reserves
      BY <2>1 DEF Quoted, TypeOK
    <2>4. out = FinalOut
      BY <2>2, <2>3, AmountOutIs, OrientedLocal DEF FinalOut
    <2> HIDE DEF out
    <2>5. /\ tx'.returned = out /\ tx'.params = tx.params
          /\ tx'.reserves = tx.reserves
      BY <2>1, <2>2 DEF Txs
    <2>6. FinalOut' = FinalOut
      BY <2>5 DEF FinalOut, MidAmount, Oriented
    <2> QED
      BY <2>1, <2>4, <2>5, <2>6 DEF Quoted
  <1>8. CASE CheckProfit /\ pc' # "idle"
    BY <1>8 DEF CheckProfit, Rollback, Ends, Quoted, FinalOut, MidAmount,
                Oriented
  <1>9. CASE Repay
    BY <1>9 DEF Repay, Rollback, Ends, Quoted
  <1> QED
    BY <1>1, <1>2, <1>3, <1>4, <1>5, <1>6, <1>7, <1>8, <1>9
    DEF Next, Outside, OwnerCalls, Trade, MarketMoves, Deposit, ForeignLoan,
        ExecuteArb, Withdraw, RescueEth

\* Where a trade under way is rolled back, the estimate was too low; where it
\* is repaid, the contract keeps the estimate less the premium.
LEMMA AgreementStep ==
    ASSUME Accounts, Quoted, Next, pc \notin {"idle", "loan"}, pc' = "idle",
           tx.initiator = "self", ValidPools(tx.params)
    PROVE  held'[tx.params.tokenIn] =
             tx.held[tx.params.tokenIn] +
               (IF Estimate >= tx.loan.premium + tx.params.minProfit
                THEN Estimate - tx.loan.premium ELSE 0)
  <1> DEFINE p == tx.params
             n == tx.loan.premium + p.minProfit
             goal == held'[p.tokenIn] = tx.held[p.tokenIn] +
                       (IF Estimate >= n
                        THEN Estimate - tx.loan.premium ELSE 0)
  <1> USE DEF Accounts
  <1>1. /\ tx # NoTx /\ p.tokenIn \in Tokens
        /\ p.poolA \in Pairs /\ p.poolB \in Pairs
        /\ p.amountIn \in Nat /\ p.minProfit \in Nat
        /\ tx.loan.amount \in Nat /\ tx.loan.premium \in Nat
        /\ tx.received \in Nat /\ tx.returned \in Nat
        /\ tx.reserves \in Reserves /\ tx.held \in Balances
    BY TxTyped
  <1>2. /\ p.minProfit > 0 /\ tx.loan.asset = p.tokenIn
        /\ tx.loan.amount = p.amountIn
    BY <1>1 DEF Requested
  <1>3. tx.held[p.tokenIn] \in Nat
    BY <1>1 DEF Balances, Assets
  <1>4. Estimate = IF FinalOut > p.amountIn THEN FinalOut - p.amountIn ELSE 0
    BY DEF Estimate, CalculateProfit, FinalOut, MidAmount
  <1>5. ASSUME Rollback, FinalOut \in Nat, FinalOut < p.amountIn + n
        PROVE  goal
    <2>1. held'[p.tokenIn] = tx.held[p.tokenIn]
      BY <1>5 DEF Rollback
    <2>2. ~(Estimate >= n)
      BY <1>1, <1>2, <1>4, <1>5
    <2> QED
      BY <1>3, <2>1, <2>2
  <1>6. ASSUME Rollback, FinalOut = 0
        PROVE  goal
    BY <1>1, <1>2, <1>5, <1>6
  <1>7. ~ExecuteOperation
    BY <1>1, <1>2 DEF ExecuteOperation
  <1>8. CASE SwapA
    <2>1. pc = "swapA" /\ Rollback
          /\ ~SwapGoesThrough(p.poolA, p.tokenIn, tx.loan.amount)
      BY <1>8 DEF SwapA
    <2>2. AmountOut(p.poolA, p.tokenIn, tx.loan.amount) = 0
      <3>1. AmountOut(p.poolA, p.tokenIn, tx.loan.amount) \in Nat
        BY <1>1, AmountOutAccepted DEF TypeOK
      <3> QED
        BY <2>1, <3>1, SwapsAccepted DEF SwapsGoThrough
    <2>3. reserves = tx.reserves
      BY <2>1 DEF Quoted
    <2>4. MidAmount = 0
      BY <1>1, <1>2, <2>2, <2>3, AmountOutIs DEF MidAmount
    <2>5. FinalOut = 0
      BY <1>1, <2>4, ZeroIn, OrientedNat DEF FinalOut
    <2> QED
      BY <1>6, <2>1, <2>5
  <1>9. CASE SwapB
    <2>1. pc = "swapB" /\ Rollback
          /\ ~SwapGoesThrough(p.poolB, p.tokenOut, tx.received)
      BY <1>9 DEF SwapB
    <2>2. AmountOut(p.poolB, p.tokenOut, tx.received) = 0
      <3>1. AmountOut(p.poolB, p.tokenOut, tx.received) \in Nat
        BY <1>1, AmountOutAccepted DEF TypeOK
      <3> QED
        BY <2>1, <3>1, SwapsAccepted DEF SwapsGoThrough
    <2>3. /\ tx.received = MidAmount /\ reserves \in Reserves
          /\ reserves[p.poolB] = tx.reserves[p.poolB]
      BY <2>1 DEF Quoted, TypeOK
    <2>4. FinalOut = 0
      BY <1>1, <2>2, <2>3, AmountOutIs, OrientedLocal DEF FinalOut
    <2> QED
      BY <1>6, <2>1, <2>4
  <1>10. CASE CheckProfit
    <2>1. pc = "profit" /\ Rollback
          /\ ~(tx.returned >= repayAmount + p.minProfit)
      BY <1>10 DEF CheckProfit
    <2>2. tx.returned = FinalOut
      BY <2>1 DEF Quoted
    <2>3. FinalOut \in Nat /\ FinalOut < p.amountIn + n
      BY <1>1, <1>2, <2>1, <2>2 DEF repayAmount
    <2> QED
      BY <1>5, <2>1, <2>3
  <1>11. CASE Repay
    <2>1. pc = "repay"
      BY <1>11 DEF Repay
    <2>2. held' = Plus(tx.held, p.tokenIn, tx.returned - repayAmount)
      BY <1>11, RepayKeeps
    <2>3. held'[p.tokenIn] = tx.held[p.tokenIn]
                               + (tx.returned - repayAmount)
      BY <1>1, <2>2 DEF Plus, Assets
    <2>4. tx.returned >= repayAmount + p.minProfit
      BY <2>1, RepaymentCovered
    <2>5. tx.returned = FinalOut
      BY <2>1 DEF Quoted
    <2>6. repayAmount = p.amountIn + tx.loan.premium
      BY <1>2 DEF repayAmount
    <2>7. Estimate = tx.returned - p.amountIn
      BY <1>1, <1>2, <1>4, <2>4, <2>5, <2>6
    <2> HIDE DEF n
    <2>8. Estimate >= n /\ tx.returned - repayAmount
                             = Estimate - tx.loan.premium
      BY <1>1, <1>2, <2>4, <2>6, <2>7 DEF n
    <2> QED
      BY <2>3, <2>8 DEF n
  <1> QED
    BY <1>7, <1>8, <1>9, <1>10, <1>11
    DEF Next, Outside, OwnerCalls, Trade, MarketMoves, Deposit, ForeignLoan,
        ExecuteArb, Withdraw, RescueEth, FlashLoanSimple

\* AgreesWithEstimate, for all reserves, amounts, premiums and floors: the
\* contract never disappoints calculate_profit on unmoved reserves.
THEOREM EstimatesAreKept == Spec => AgreesWithEstimate
  <1> DEFINE Agrees ==
        pc \notin {"idle", "loan"} /\ pc' = "idle"
          /\ tx.initiator = "self" /\ ValidPools(tx.params) =>
          held'[tx.params.tokenIn] =
             tx.held[tx.params.tokenIn] +
               (IF Estimate >= tx.loan.premium + tx.params.minProfit
                THEN Estimate - tx.loan.premium ELSE 0)
  <1>1. Init => Quoted
    BY DEF Init, Quoted
  <1>2. Accounts /\ Quoted /\ [Next]_vars => [Agrees]_vars
    BY AgreementStep
  <1>3. AgreesWithEstimate <=> [][Agrees]_vars
    BY PTL DEF AgreesWithEstimate
  <1> QED
    BY <1>1, <1>2, <1>3, QuotedStep, AccountsKept, PTL DEF Spec

-----------------------------------------------------------------------------
(* Atomicity.  ArbContract implements AtomicArb: while a transaction runs, *)
(* the market and the owner still see the state it started in, so every    *)
(* step is invisible except the last one of a trade.                       *)

\* From reserves rs to ss, only pairs of Q changed, and none of them gave
\* more than it was paid for.
Paid(rs, ss, Q) ==
    /\ \A q \in Pairs \ Q : ss[q] = rs[q]
    /\ \A q \in Q : ss[q][1] * ss[q][2] >= rs[q][1] * rs[q][2]

\* The pairs that the trade has swapped on so far are paid.
PairsPaid ==
    /\ pc \in {"loan", "callback", "swapA"} => reserves = tx.reserves
    /\ pc = "swapB" => Paid(tx.reserves, reserves, {tx.params.poolA})
    /\ pc \in {"profit", "repay"} =>
         Paid(tx.reserves, reserves, {tx.params.poolA, tx.params.poolB})

\* The fee that the pair takes off what came in is a margin: the product of
\* the reserves themselves does not shrink in an accepted swap.
LEMMA ProductGrows ==
    ASSUME NEW x \in Nat, NEW y \in Nat, NEW r \in Nat, NEW s \in Nat,
           PairAccepts(x, y, r, s)
    PROVE  (r + x) * (s - y) >= r * s
  <1> DEFINE k == s - y
             m == (r + x) * k
             n == r * s
  <1>1. k \in Nat /\ x * k >= 0
    BY SMT DEF PairAccepts
  <1>2. ((r + x) * 1000 - x * 3) * k = m * 1000 - (x * k) * 3
    BY <1>1, SMT
  <1>3. ((r + x) * 1000 - x * 3) * k >= n * 1000
    BY DEF PairAccepts
  <1>4. m \in Int /\ n \in Int /\ x * k \in Int
    BY <1>1, SMT
  <1>5. m * 1000 - (x * k) * 3 >= n * 1000
    BY <1>2, <1>3
  <1> HIDE DEF m, n, k
  <1>6. m >= n
    <2> DEFINE z == x * k
    <2>1. z \in Int /\ z >= 0 /\ m * 1000 - z * 3 >= n * 1000
      BY <1>1, <1>4, <1>5
    <2> HIDE DEF z
    <2> QED
      BY <1>4, <2>1, SMT
  <1> QED
    BY <1>6 DEF m, n, k

\* A swap that goes through pays its pair and leaves the others alone.
LEMMA SwapPays ==
    ASSUME TypeOK, NEW q \in Pairs, NEW tIn \in Tokens, NEW tOut,
           NEW x \in Nat,
           SwapGoesThrough(q, tIn, x), Swap(q, tIn, tOut, x)
    PROVE  Paid(reserves, reserves', {q})
  <1> DEFINE out == AmountOut(q, tIn, x)
             r == Oriented(reserves, q, tIn)
  <1>1. out \in Nat /\ r[1] \in Nat /\ r[2] \in Nat
    BY AmountOutAccepted, OrientedNat DEF TypeOK
  <1>2. PairAccepts(x, out, r[1], r[2])
    BY DEF SwapGoesThrough
  <1>3. reserves[q] \in Nat \X Nat
    BY DEF TypeOK, Reserves
  <1>4. reserves' = [reserves EXCEPT ![q] =
                      IF tIn = Token0[q]
                      THEN <<reserves[q][1] + x, reserves[q][2] - out>>
                      ELSE <<reserves[q][1] - out, reserves[q][2] + x>>]
    BY DEF Swap, TypeOK, Reserves
  <1>5. (r[1] + x) * (r[2] - out) >= r[1] * r[2]
    <2> HIDE DEF out, r
    <2> QED
      BY <1>1, <1>2, ProductGrows
  <1>6. \A p \in Pairs \ {q} : reserves'[p] = reserves[p]
    BY <1>4 DEF TypeOK, Reserves
  <1> HIDE DEF out
  <1>7. reserves'[q][1] * reserves'[q][2] >= reserves[q][1] * reserves[q][2]
    <2>1. CASE tIn = Token0[q]
      <3>1. reserves'[q] = <<reserves[q][1] + x, reserves[q][2] - out>>
        BY <1>4, <2>1 DEF TypeOK, Reserves
      <3> QED
        BY <1>5, <2>1, <3>1 DEF Oriented
    <2>2. CASE tIn # Token0[q]
      <3>1. reserves'[q] = <<reserves[q][1] - out, reserves[q][2] + x>>
        BY <1>4, <2>2 DEF TypeOK, Reserves
      <3>2. r[1] = reserves[q][2] /\ r[2] = reserves[q][1]
        BY <2>2 DEF Oriented
      <3> DEFINE a == reserves[q][1]
                 b == reserves[q][2]
      <3>3. (b + x) * (a - out) >= b * a
        BY <1>5, <3>2
      <3>4. a \in Nat /\ b \in Nat
        BY <1>3
      <3> HIDE DEF a, b
      <3>5. (a - out) * (b + x) >= a * b
        BY <1>1, <3>3, <3>4, SMT
      <3> QED
        BY <3>1, <3>5 DEF a, b
    <2> QED
      BY <2>1, <2>2
  <1> QED
    BY <1>6, <1>7 DEF Paid

\* PairsPaid is kept by every step.
LEMMA PaidStep ==
    Accounts /\ PairsPaid /\ [Next]_vars => PairsPaid'
  <1> SUFFICES ASSUME Accounts, PairsPaid, [Next]_vars PROVE PairsPaid'
    OBVIOUS
  <1> USE DEF Accounts
  <1>1. CASE pc' = "idle"
    BY <1>1 DEF PairsPaid
  <1>2. CASE UNCHANGED vars
    BY <1>2 DEF vars, PairsPaid, Paid
  <1>3. CASE pc = "idle" /\ pc' # "idle" /\ Next
    <2>1. /\ reserves' = reserves /\ tx'.reserves = reserves
          /\ pc' \in {"loan", "callback"}
      BY <1>3 DEF Next, Outside, OwnerCalls, Trade, MarketMoves, Deposit,
                  ForeignLoan, ExecuteArb, Withdraw, RescueEth, Begins,
                  FlashLoanSimple, ExecuteOperation, SwapA, SwapB,
                  CheckProfit, Repay
    <2> QED
      BY <2>1 DEF PairsPaid
  <1>4. CASE (FlashLoanSimple \/ ExecuteOperation) /\ pc' # "idle"
    BY <1>4 DEF FlashLoanSimple, ExecuteOperation, Rollback, Ends, PairsPaid
  <1>5. CASE SwapA /\ pc' # "idle"
    <2> DEFINE p == tx.params
               out == AmountOut(p.poolA, p.tokenIn, tx.loan.amount)
    <2>1. /\ pc = "swapA" /\ pc # "idle"
          /\ SwapGoesThrough(p.poolA, p.tokenIn, tx.loan.amount)
          /\ Swap(p.poolA, p.tokenIn, p.tokenOut, tx.loan.amount)
          /\ tx' = [tx EXCEPT !.received = out]
          /\ pc' = "swapB"
      BY <1>5 DEF SwapA, Rollback, Ends
    <2>2. /\ tx \in Txs /\ p.poolA \in Pairs /\ p.tokenIn \in Tokens
          /\ tx.loan.amount \in Nat
      BY <2>1, TxTyped
    <2>3. Paid(reserves, reserves', {p.poolA})
      BY <2>1, <2>2, SwapPays
    <2>4. reserves = tx.reserves
      BY <2>1 DEF PairsPaid
    <2> HIDE DEF out
    <2>5. tx'.params = tx.params /\ tx'.reserves = tx.reserves
      BY <2>1, <2>2 DEF Txs
    <2> QED
      BY <2>1, <2>3, <2>4, <2>5 DEF PairsPaid
  <1>6. CASE SwapB /\ pc' # "idle"
    <2> DEFINE p == tx.params
               out == AmountOut(p.poolB, p.tokenOut, tx.received)
    <2>1. /\ pc = "swapB" /\ pc # "idle" /\ pc \in Trading
          /\ SwapGoesThrough(p.poolB, p.tokenOut, tx.received)
          /\ Swap(p.poolB, p.tokenOut, p.tokenIn, tx.received)
          /\ tx' = [tx EXCEPT !.returned = out]
          /\ pc' = "profit"
      BY <1>6 DEF SwapB, Rollback, Ends, Trading
    <2>2. /\ tx \in Txs /\ tx # NoTx /\ p.poolA \in Pairs
          /\ p.poolB \in Pairs /\ p.tokenOut \in Tokens
          /\ tx.received \in Nat
      BY <2>1, TxTyped
    <2>3. p.poolA # p.poolB
      BY <2>1, <2>2 DEF Requested
    <2>4. Paid(reserves, reserves', {p.poolB})
      BY <2>1, <2>2, SwapPays
    <2>5. Paid(tx.reserves, reserves, {p.poolA})
      BY <2>1 DEF PairsPaid
    <2>6. Paid(tx.reserves, reserves', {p.poolA, p.poolB})
      BY <2>2, <2>3, <2>4, <2>5 DEF Paid
    <2> HIDE DEF out
    <2>7. tx'.params = tx.params /\ tx'.reserves = tx.reserves
      BY <2>1, <2>2 DEF Txs
    <2> QED
      BY <2>1, <2>6, <2>7 DEF PairsPaid
  <1>7. CASE CheckProfit /\ pc' # "idle"
    BY <1>7 DEF CheckProfit, Rollback, Ends, PairsPaid
  <1>8. CASE Repay
    BY <1>8 DEF Repay, Rollback, Ends, PairsPaid
  <1> QED
    BY <1>1, <1>2, <1>3, <1>4, <1>5, <1>6, <1>7, <1>8
    DEF Next, Outside, OwnerCalls, Trade, MarketMoves, Deposit, ForeignLoan,
        ExecuteArb, Withdraw, RescueEth

\* A step that rolls back, or stays within a transaction, shows nothing.
LEMMA HiddenStep ==
    ASSUME pc # "idle",
           \/ Rollback
           \/ pc' # "idle" /\ tx'.held = tx.held
                /\ tx'.reserves = tx.reserves
    PROVE  UNCHANGED Atomic!atomicVars
  BY DEF Rollback, Ends, Atomic!atomicVars

\* A transaction begins by remembering what it must restore.
LEMMA BeginHidden ==
    ASSUME pc = "idle", pc' # "idle", NEW i, NEW l, NEW p, Begins(i, l, p)
    PROVE  UNCHANGED Atomic!atomicVars
  BY DEF Begins, Atomic!atomicVars

\* The repayment is where the trade as a whole becomes visible.
LEMMA RepayIsTrade ==
    ASSUME Accounts, PairsPaid, Repay
    PROVE  Atomic!Trade(tx.params.tokenIn, tx.params.poolA, tx.params.poolB)
  <1> DEFINE p == tx.params
  <1>1. pc = "repay" /\ pc # "idle" /\ pc \in Trading
    BY DEF Repay, Trading
  <1>2. tx # NoTx /\ p.poolA \in Pairs /\ p.poolB \in Pairs
    BY <1>1, TxTyped DEF Accounts
  <1>3. p.poolA # p.poolB
    BY <1>1, <1>2 DEF Accounts, Requested
  <1>4. held' = Plus(tx.held, p.tokenIn, tx.returned - repayAmount)
    BY RepayKeeps
  <1>5. /\ p.tokenIn \in Assets /\ tx.held \in Balances
        /\ tx.returned >= repayAmount + p.minProfit
        /\ p.minProfit > 0 /\ p.minProfit \in Nat
        /\ tx.returned \in Nat /\ repayAmount \in Nat
        /\ allowance[tx.loan.asset] = repayAmount
        /\ held[tx.loan.asset] >= repayAmount
    BY <1>1, RepaymentCovered
  <1>6. held'[p.tokenIn] > tx.held[p.tokenIn]
    <2>1. tx.held[p.tokenIn] \in Nat
      BY <1>5 DEF Balances
    <2>2. held'[p.tokenIn] =
            tx.held[p.tokenIn] + (tx.returned - repayAmount)
      BY <1>4, <1>5 DEF Plus
    <2> QED
      BY <1>5, <2>1, <2>2
  <1>7. \A a \in Assets \ {p.tokenIn} : held'[a] = tx.held[a]
    BY <1>4 DEF Plus
  <1>8. reserves' = reserves /\ pc' = "idle"
    <2>1. repayAmount >= repayAmount
      BY <1>5
    <2> QED
      BY <1>5, <2>1 DEF Repay, Ends
  <1>9. Paid(tx.reserves, reserves', {p.poolA, p.poolB})
    BY <1>1, <1>8 DEF PairsPaid
  <1> QED
    BY <1>1, <1>3, <1>6, <1>7, <1>8, <1>9
    DEF Atomic!Trade, Atomic!OnlyAsset, Paid

\* Every step of the contract is a step of AtomicArb or invisible.
LEMMA AtomicStep ==
    Accounts /\ PairsPaid /\ [Next]_vars => [Atomic!Next]_Atomic!atomicVars
  <1> SUFFICES ASSUME Accounts, PairsPaid, [Next]_vars
               PROVE  Atomic!Next \/ UNCHANGED Atomic!atomicVars
    OBVIOUS
  <1> USE DEF Accounts
  <1>1. ASSUME NEW q \in Pairs, NEW r \in Markets, MarketMoves(q, r)
        PROVE  Atomic!Next
    BY <1>1 DEF MarketMoves, Atomic!Next, Atomic!MarketMoves
  <1>2. ASSUME NEW a \in Assets, NEW d \in Deposits, Deposit(a, d)
        PROVE  Atomic!Next \/ UNCHANGED Atomic!atomicVars
    <2>1. /\ pc = "idle" /\ pc' = "idle" /\ reserves' = reserves
          /\ held' = [held EXCEPT ![a] = held[a] + d]
          /\ held \in Balances /\ d \in Nat /\ held[a] \in Nat
      BY <1>2, ContractAssumption DEF Deposit, TypeOK, Balances
    <2>2. CASE d = 0
      <3>1. held' = held
        BY <2>1, <2>2 DEF Balances
      <3> QED
        BY <2>1, <3>1 DEF Atomic!atomicVars
    <2>3. CASE d > 0
      <3>1. /\ held'[a] > held[a]
            /\ \A b \in Assets \ {a} : held'[b] = held[b]
        BY <2>1, <2>3 DEF Balances
      <3>2. Atomic!Receive(a)
        BY <2>1, <3>1 DEF Atomic!Receive, Atomic!OnlyAsset
      <3> QED
        BY <3>2 DEF Atomic!Next
    <2> QED
      BY <2>1, <2>2, <2>3
  <1>3. ASSUME NEW t \in Assets, pc = "idle", held' = [held EXCEPT ![t] = 0],
               UNCHANGED <<reserves, pc>>
        PROVE  Atomic!Next
    <2>1. Atomic!TakeOut(t)
      BY <1>3 DEF Atomic!TakeOut, Atomic!OnlyAsset, TypeOK, Balances
    <2> QED
      BY <2>1 DEF Atomic!Next
  <1>4. ASSUME NEW t \in Tokens, Withdraw(t)
        PROVE  Atomic!Next
    BY <1>3, <1>4 DEF Withdraw, Assets
  <1>5. CASE RescueEth
    BY <1>3, <1>5 DEF RescueEth, Assets
  <1>6. ASSUME NEW l \in Loans, NEW p \in ArbParams, ForeignLoan(l, p)
        PROVE  UNCHANGED Atomic!atomicVars
    BY <1>6, BeginHidden DEF ForeignLoan
  <1>7. ASSUME NEW p \in ArbParams, ExecuteArb(p)
        PROVE  UNCHANGED Atomic!atomicVars
    BY <1>7, BeginHidden DEF ExecuteArb
  <1>8. CASE FlashLoanSimple \/ ExecuteOperation \/ CheckProfit
    BY <1>8, HiddenStep DEF FlashLoanSimple, ExecuteOperation, CheckProfit
  <1>9. CASE SwapA \/ SwapB
    <2>1. pc # "idle"
      BY <1>9 DEF SwapA, SwapB
    <2>2. tx \in Txs
      BY <2>1, TxTyped
    <2>3. Rollback \/ (pc' # "idle" /\ tx'.held = tx.held
                         /\ tx'.reserves = tx.reserves)
      BY <1>9, <2>2 DEF SwapA, SwapB, Txs
    <2> QED
      BY <2>1, <2>3, HiddenStep
  <1>10. CASE Repay
    <2>1. /\ tx.params.tokenIn \in Assets
          /\ tx.params.poolA \in Pairs /\ tx.params.poolB \in Pairs
      BY <1>10, TxTyped DEF Repay, Assets
    <2> QED
      BY <1>10, <2>1, RepayIsTrade DEF Atomic!Next
  <1>11. CASE UNCHANGED vars
    BY <1>11 DEF vars, Atomic!atomicVars
  <1> QED
    BY <1>1, <1>2, <1>4, <1>5, <1>6, <1>7, <1>8, <1>9, <1>10, <1>11
    DEF Next, Outside, OwnerCalls, Trade

\* TradesAreAtomic, for every constant: loan, callback, swaps and repayment
\* show as one profitable trade that pays both pairs, or as nothing.
THEOREM TradesAtomic == Spec => TradesAreAtomic
  <1>1. Init => Atomic!Init
    BY DEF Init, Atomic!Init
  <1>2. Init => PairsPaid
    BY DEF Init, PairsPaid
  <1> QED
    BY <1>1, <1>2, PaidStep, AtomicStep, AccountsKept, PTL
    DEF Spec, TradesAreAtomic, Atomic!Spec

=============================================================================
