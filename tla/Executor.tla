------------------------------ MODULE Executor ------------------------------
(***************************************************************************)
(* The execution of one opportunity after the other: the loop of           *)
(* run_scanner over the opportunities of a scan (zelvex-core/src/          *)
(* scanner.rs), ArbitrageExecutor::execute and build_signed_tx             *)
(* (zelvex-exec/src/executor.rs), wait_for_inclusion (inclusion.rs), the   *)
(* Flashbots client (flashbots.rs) and the two tables it all ends in,      *)
(* trades and opportunities (zelvex-db).                                   *)
(*                                                                         *)
(* Every `await` is a step: the chain moves between any two of them.  A    *)
(* transaction is its route (which stands for the calldata), nonce and     *)
(* base fee; signing is deterministic, so the triple also is its hash.     *)
(* The chain and the relay are external; reorganisations are left out, and *)
(* all reads see one node, as all providers are opened on one ws_url.      *)
(***************************************************************************)
EXTENDS Naturals, Sequences

CONSTANTS Routes,        \* ordered pairs of pools, with what is traded
          NoRoute,       \* no opportunity in hand
          BaseFees,      \* base fees of blocks
          LastBlock,     \* bound: height of the chain
          MaxTxs,        \* bound: the account's transactions in one block
          MaxTurns       \* bound: opportunities ever taken up

ASSUME ExecutorAssumption ==
    /\ NoRoute \notin Routes
    /\ BaseFees \subseteq Nat \ {0}
    /\ LastBlock \in Nat
    /\ MaxTxs \in Nat
    /\ MaxTurns \in Nat

VARIABLES turns,         \* opportunities taken up (bounds the model)
          head,          \* number of the latest block
          baseFee,       \* its base fee
          nonce,         \* the account's transaction count in that block
          bundles,       \* what has reached the relay
          mined,         \* the bot's transactions on chain, with their block
          paperTrade,    \* bot.paper_trade, read when the process starts
          pc,            \* the next await of the scanner task
          route,         \* opportunity in hand
          decision,      \* what evaluate said of it
          curBlock,      \* current_block
          txNonce,       \* nonce of the transaction being built
          txFee,         \* base fee it was priced from, 0 before
          status,        \* outcome about to be recorded
          tradeId,       \* row of trades, 0 for None
          trades,        \* table trades, row ids 1, 2, ...
          opportunities, \* table opportunities
          unrecorded     \* transactions given up after they reached the
                         \* relay: the answer, a poll, the row or the
                         \* process was lost (history)

chainVars == <<head, baseFee, nonce, mined>>
callVars == <<route, decision, curBlock, txNonce, txFee>>
dbVars == <<trades, opportunities>>
vars == <<turns, head, baseFee, nonce, bundles, mined, paperTrade, pc,
          route, decision, curBlock, txNonce, txFee, status, tradeId, trades,
          opportunities, unrecorded>>

Txs == [route : Routes, nonce : Nat, fee : BaseFees]
Bundles == [tx : Txs, target : Nat]
Statuses == {"success", "failed", "simulated"}
Trades == [tx : Txs, status : Statuses, block : Nat]
Opportunities ==
    [route : Routes, decision : {"go", "no-go"}, trade : Nat]

\* pc while a transaction is fully priced; while its bundle is out; and all.
Priced == {"submit", "simulate", "receipt", "deadline", "record"}
Waiting == {"receipt", "deadline"}
PCs == {"idle", "block", "nonce", "fee", "log", "dead"} \cup Priced

\* The signed transaction, and so tx_hash; target_block.
tx == [route |-> route, nonce |-> txNonce, fee |-> txFee]
targetBlock == curBlock + 1

Recorded(t) == \E i \in DOMAIN trades : trades[i].tx = t

\* The bot has handed its transaction to the relay and follows it.
InFlight == pc \in Waiting \/ (pc = "record" /\ status # "simulated")

TypeOK ==
    /\ turns \in 0..MaxTurns
    /\ head \in 0..LastBlock
    /\ baseFee \in BaseFees
    /\ nonce \in Nat
    /\ bundles \in SUBSET Bundles
    /\ mined \in SUBSET [tx : Txs, block : Nat]
    /\ paperTrade \in BOOLEAN
    /\ pc \in PCs
    /\ route \in Routes \cup {NoRoute}
    /\ pc \notin {"idle", "dead"} => route \in Routes
    /\ decision \in {"go", "no-go"}
    /\ curBlock \in Nat
    /\ txNonce \in Nat
    /\ txFee \in BaseFees \cup {0}
    /\ pc \in Priced => txFee \in BaseFees
    /\ status \in Statuses \cup {"none"}
    /\ pc = "record" => status \in Statuses
    /\ tradeId \in Nat
    /\ trades \in Seq(Trades)
    /\ opportunities \in Seq(Opportunities)
    /\ unrecorded \in SUBSET Txs

\* The locals of one turn of the loop are gone.
ClearCall ==
    /\ route' = NoRoute
    /\ decision' = "no-go"
    /\ curBlock' = 0
    /\ txNonce' = 0
    /\ txFee' = 0
    /\ status' = "none"
    /\ tradeId' = 0

Init ==
    /\ turns = 0
    /\ head = 0
    /\ baseFee \in BaseFees
    /\ nonce = 0
    /\ bundles = {}
    /\ mined = {}
    /\ paperTrade \in BOOLEAN
    /\ pc = "idle"
    /\ route = NoRoute
    /\ decision = "no-go"
    /\ curBlock = 0
    /\ txNonce = 0
    /\ txFee = 0
    /\ status = "none"
    /\ tradeId = 0
    /\ trades = << >>
    /\ opportunities = << >>
    /\ unrecorded = {}

-----------------------------------------------------------------------------
(* The chain (external).                                                   *)

\* A block: some bundles that target it land, each using a nonce of its own;
\* nonces they leave unused are used by other transactions of the account.
NewBlock ==
    /\ head < LastBlock
    /\ head' = head + 1
    /\ baseFee' \in BaseFees
    /\ \E landed \in SUBSET {b \in bundles : b.target = head + 1},
          n \in nonce..(nonce + MaxTxs) :
         /\ \A b \in landed : b.tx.nonce \in nonce..(n - 1)
         /\ \A b, c \in landed : b.tx.nonce = c.tx.nonce => b = c
         /\ nonce' = n
         /\ mined' = mined \cup {[tx |-> b.tx, block |-> head + 1] :
                                   b \in landed}
    /\ UNCHANGED <<turns, bundles, paperTrade, pc, callVars, status, tradeId,
                   dbVars, unrecorded>>

-----------------------------------------------------------------------------
(* One turn of the scanner's loop.                                         *)

\* The next opportunity of a scan is evaluated; "go" is executed.
NextOpportunity(r, d) ==
    /\ pc = "idle"
    /\ turns < MaxTurns
    /\ turns' = turns + 1
    /\ route' = r
    /\ decision' = d
    /\ pc' = IF d = "go" THEN "block" ELSE "log"
    /\ UNCHANGED <<chainVars, bundles, paperTrade, curBlock, txNonce, txFee,
                   status, tradeId, dbVars, unrecorded>>

\* The scanner reads the block number.  The bound leaves the chain room to
\* pass the deadline.
GetBlockNumber ==
    /\ pc = "block"
    /\ head + 4 <= LastBlock
    /\ curBlock' = head
    /\ pc' = "nonce"
    /\ UNCHANGED <<turns, chainVars, bundles, paperTrade, route, decision,
                   txNonce, txFee, status, tradeId, dbVars, unrecorded>>

\* Mutant: the bundle still in the relay is counted, as "pending" would.
GetNonce_Pending ==
    /\ pc = "nonce"
    /\ txNonce' = IF \E b \in bundles : b.target > head
                  THEN nonce + 1 ELSE nonce
    /\ pc' = "fee"
    /\ UNCHANGED <<turns, chainVars, bundles, paperTrade, route, decision,
                   curBlock, txFee, status, tradeId, dbVars, unrecorded>>

GetNonce ==
    /\ pc = "nonce"
    /\ txNonce' = nonce
    /\ pc' = "fee"
    /\ UNCHANGED <<turns, chainVars, bundles, paperTrade, route, decision,
                   curBlock, txFee, status, tradeId, dbVars, unrecorded>>

\* Mutant: a block without a base fee is taken to have one of zero.
GetBaseFee_Missing ==
    /\ pc = "fee"
    /\ txFee' \in {baseFee, 0}
    /\ pc' = IF paperTrade THEN "simulate" ELSE "submit"
    /\ UNCHANGED <<turns, chainVars, bundles, paperTrade, route, decision,
                   curBlock, txNonce, status, tradeId, dbVars, unrecorded>>

\* The latest block's base fee completes the transaction, which is signed.
GetBaseFee ==
    /\ pc = "fee"
    /\ txFee' = baseFee
    /\ pc' = IF paperTrade THEN "simulate" ELSE "submit"
    /\ UNCHANGED <<turns, chainVars, bundles, paperTrade, route, decision,
                   curBlock, txNonce, status, tradeId, dbVars, unrecorded>>

\* A simulation that the relay answers is recorded, whatever its verdict.
SimulateBundle ==
    /\ pc = "simulate"
    /\ status' = "simulated"
    /\ pc' = "record"
    /\ UNCHANGED <<turns, chainVars, bundles, paperTrade, callVars, tradeId,
                   dbVars, unrecorded>>

\* The relay takes the bundle and its answer arrives or is lost.  (A bundle
\* that does not reach it, or that it refuses, is ExecuteFails.)
SubmitBundle ==
    /\ pc = "submit"
    /\ bundles' = bundles \cup {[tx |-> tx, target |-> targetBlock]}
    /\ \/ /\ pc' = "receipt"
          /\ UNCHANGED unrecorded
       \/ /\ pc' = "log"
          /\ unrecorded' = unrecorded \cup {tx}
    /\ UNCHANGED <<turns, chainVars, paperTrade, callVars, status, tradeId,
                   dbVars>>

\* wait_for_inclusion: first the receipt ...
PollReceipt ==
    /\ pc = "receipt"
    /\ \/ /\ \E m \in mined : m.tx = tx
          /\ status' = "success"
          /\ pc' = "record"
       \/ /\ ~ \E m \in mined : m.tx = tx
          /\ pc' = "deadline"
          /\ UNCHANGED status
    /\ UNCHANGED <<turns, chainVars, bundles, paperTrade, callVars, tradeId,
                   dbVars, unrecorded>>

\* Mutant: the wait ends without an outcome at the deadline.
CheckDeadline_NoRow ==
    /\ pc = "deadline"
    /\ pc' = IF head > targetBlock + 2 THEN "log" ELSE "receipt"
    /\ UNCHANGED <<turns, chainVars, bundles, paperTrade, callVars, status,
                   tradeId, dbVars, unrecorded>>

\* Mutant: the deadline never ends the wait.
CheckDeadline_Never ==
    /\ pc = "deadline"
    /\ pc' = "receipt"
    /\ UNCHANGED <<turns, chainVars, bundles, paperTrade, callVars, status,
                   tradeId, dbVars, unrecorded>>

\* ... then, when there is none, the block number.
CheckDeadline ==
    /\ pc = "deadline"
    /\ \/ /\ head > targetBlock + 2
          /\ status' = "failed"
          /\ pc' = "record"
       \/ /\ head <= targetBlock + 2
          /\ pc' = "receipt"
          /\ UNCHANGED status
    /\ UNCHANGED <<turns, chainVars, bundles, paperTrade, callVars, tradeId,
                   dbVars, unrecorded>>

\* Mutant: the row names the block seen last in place of the target.
InsertTrade_HeadBlock ==
    /\ pc = "record"
    /\ ~ Recorded(tx)
    /\ trades' = Append(trades,
                   [tx |-> tx, status |-> status, block |-> head])
    /\ tradeId' = Len(trades) + 1
    /\ pc' = "log"
    /\ UNCHANGED <<turns, chainVars, bundles, paperTrade, callVars, status,
                   opportunities, unrecorded>>

\* tx_hash is UNIQUE: a second row for one transaction is refused, which is
\* ExecuteFails.
InsertTrade ==
    /\ pc = "record"
    /\ ~ Recorded(tx)
    /\ trades' = Append(trades,
                   [tx |-> tx, status |-> status, block |-> targetBlock])
    /\ tradeId' = Len(trades) + 1
    /\ pc' = "log"
    /\ UNCHANGED <<turns, chainVars, bundles, paperTrade, callVars, status,
                   opportunities, unrecorded>>

\* Any call of execute fails.  The error is printed, the opportunity logged
\* without a trade, and the loop goes on.
ExecuteFails ==
    /\ pc \in {"nonce", "fee"} \cup Priced
    /\ pc' = "log"
    /\ unrecorded' = IF InFlight THEN unrecorded \cup {tx} ELSE unrecorded
    /\ UNCHANGED <<turns, chainVars, bundles, paperTrade, callVars, status,
                   tradeId, dbVars>>

\* Mutant: the trade of one opportunity is left for the next.
InsertOpportunity_StaleTrade ==
    /\ pc = "log"
    /\ opportunities' = Append(opportunities,
         [route |-> route, decision |-> decision, trade |-> tradeId])
    /\ pc' = "idle"
    /\ UNCHANGED <<turns, chainVars, bundles, paperTrade, callVars, status,
                   tradeId, trades, unrecorded>>

InsertOpportunity ==
    /\ pc = "log"
    /\ opportunities' = Append(opportunities,
         [route |-> route, decision |-> decision, trade |-> tradeId])
    /\ pc' = "idle"
    /\ ClearCall
    /\ UNCHANGED <<turns, chainVars, bundles, paperTrade, trades,
                   unrecorded>>

\* The block number or the insertion fails: run_scanner returns, for good.
ScannerFails ==
    /\ pc \in {"block", "log"}
    /\ pc' = "dead"
    /\ ClearCall
    /\ UNCHANGED <<turns, chainVars, bundles, paperTrade, dbVars,
                   unrecorded>>

\* The process ends at any point and is started again, perhaps with another
\* configuration.
Restart ==
    /\ pc' = "idle"
    /\ paperTrade' \in BOOLEAN
    /\ unrecorded' = IF InFlight THEN unrecorded \cup {tx} ELSE unrecorded
    /\ ClearCall
    /\ UNCHANGED <<turns, chainVars, bundles, dbVars>>

-----------------------------------------------------------------------------
\* What the scanner does with the opportunity in hand.
ExecuteStep ==
    \/ GetBlockNumber \/ GetNonce \/ GetBaseFee \/ SimulateBundle
    \/ SubmitBundle \/ PollReceipt \/ CheckDeadline \/ InsertTrade
    \/ ExecuteFails \/ InsertOpportunity \/ ScannerFails

Next ==
    \/ NewBlock
    \/ \E r \in Routes, d \in {"go", "no-go"} : NextOpportunity(r, d)
    \/ ExecuteStep
    \/ Restart

\* The chain goes on, and a query of the database returns: sqlx and SQLite
\* bound its waits.  Nothing is assumed of the calls to the node and to the
\* relay, which carry no timeout.
QueryStep == pc \in {"record", "log"} /\ ExecuteStep

Spec == Init /\ [][Next]_vars
FairSpec == Spec /\ WF_vars(NewBlock) /\ WF_vars(QueryStep)

-----------------------------------------------------------------------------
(* Properties.                                                             *)

\* All bundles that can still land carry the account's next nonce, although
\* block number and nonce are read in separate calls, submissions are
\* repeated after lost answers, and the process restarts.
LiveBundlesShareNonce ==
    \A b \in bundles : b.target > head => b.tx.nonce = nonce

\* So a block never holds two of the bot's trades: an opportunity submitted
\* again is not paid for twice.
OneTradePerBlock ==
    \A m1, m2 \in mined : m1.block = m2.block => m1 = m2

\* A trade recorded as a success was mined, in the block the row names.
SuccessIsMined ==
    \A i \in DOMAIN trades : trades[i].status = "success" =>
        [tx |-> trades[i].tx, block |-> trades[i].block] \in mined

\* A bundle the relay took has a row in trades, or is being followed, or was
\* given up after an error or a restart: no other path drops it.
BundlesAreRecorded ==
    \A b \in bundles :
        \/ Recorded(b.tx)
        \/ InFlight /\ tx = b.tx
        \/ b.tx \in unrecorded

\* The two tables, and the trade id held between their writes, behave as
\* TradeLedger says, through failed calls, refused rows and restarts: no row
\* is changed or lost, and no trade is credited to an opportunity that did
\* not make it, or to two.
Ledger == INSTANCE TradeLedger WITH open <- tradeId
ImplementsLedger == Ledger!Spec

\* No single call to the node or the relay hangs for good.
CallsReturn ==
    \A call \in {"block", "nonce", "fee", "simulate", "submit", "receipt",
                 "deadline"} : []<>(pc # call)

\* If every call returns, with an answer or an error, an execution ends,
\* whatever becomes of its bundle: the rounds of wait_for_inclusion are
\* finitely many, and the loop comes back to the next opportunity, or the
\* scanner has failed.
ExecutionEnds ==
    CallsReturn => (pc = "nonce" ~> pc \in {"idle", "dead"})

\* What wait_for_inclusion says of its result: `false` is returned only for a
\* transaction that was not included.
FailedIsNotIncluded ==
    pc = "record" /\ status = "failed" => ~ \E m \in mined : m.tx = tx

=============================================================================
