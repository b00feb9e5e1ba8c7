----------------------------- MODULE GasSampler -----------------------------
(***************************************************************************)
(* run_gas_sampler (zelvex-gas/src/lib.rs): the task that samples the fees *)
(* of every new block into the GasOracle, the table gas_history and the    *)
(* row last_block of bot_state (zelvex-db), one after the other.           *)
(*                                                                         *)
(* The node is external: heads are lost while the stream is down, and a    *)
(* reorganisation announces a block number again with another fee.         *)
(***************************************************************************)
EXTENDS OracleFeed

CONSTANTS MaxAttempts,   \* failures before giving up, 10
          MaxHeads,      \* bound: heads announced
          MaxBlock       \* bound: block numbers
ASSUME SamplerAssumption ==
    /\ MaxAttempts \in Nat \ {0}
    /\ MaxHeads \in Nat
    /\ MaxBlock \in Nat

VARIABLES heads,         \* heads announced (bounds the model)
          link,          \* "up" while the block stream is open
          stream,        \* heads delivered and not yet read
          sampler,       \* where the task is
          attempts,      \* its failures, never reset while it runs
          block,         \* head in hand
          gasHistory,    \* rows of gas_history: block number -> sample
          lastBlock,     \* bot_state "last_block"
          sampled,       \* head whose three writes were done last, since
                         \* the task last failed (history)
          shown          \* turns completed by this process (history)

vars == <<heads, link, stream, sampler, attempts, block, oracle, fed,
          gasHistory, lastBlock, sampled, shown>>

NoHead == [number |-> 0, base |-> 0]
Heads == [number : 1..MaxBlock, base : BaseFees]

TypeOK ==
    /\ heads \in 0..MaxHeads
    /\ link \in {"up", "down"}
    /\ stream \in Seq(Heads)
    /\ sampler \in {"connecting", "next", "fee", "insert", "save", "backoff",
                    "dead"}
    /\ attempts \in 0..MaxAttempts
    /\ block \in Heads \cup {NoHead}
    /\ Len(oracle.base) = Len(oracle.priority)
    /\ Len(oracle.base) <= RingSize
    /\ DOMAIN gasHistory \subseteq 1..MaxBlock
    /\ lastBlock \in 0..MaxBlock
    /\ sampled \in Heads \cup {NoHead}
    /\ shown \in Nat

Init ==
    /\ heads = 0
    /\ link = "down"
    /\ stream = << >>
    /\ sampler = "connecting"
    /\ attempts = 0
    /\ block = NoHead
    /\ FeedInit
    /\ gasHistory = << >>
    /\ lastBlock = 0
    /\ sampled = NoHead
    /\ shown = 0

-----------------------------------------------------------------------------
(* The node (external).                                                    *)

AnnounceHead(h) ==
    /\ heads < MaxHeads
    /\ heads' = heads + 1
    /\ \/ link = "up" /\ stream' = Append(stream, h)
       \/ UNCHANGED stream
    /\ UNCHANGED <<link, sampler, attempts, block, feed, gasHistory,
                   lastBlock, sampled, shown>>

LinkBreaks ==
    /\ link = "up"
    /\ link' = "down"
    /\ UNCHANGED <<heads, stream, sampler, attempts, block, feed,
                   gasHistory, lastBlock, sampled, shown>>

-----------------------------------------------------------------------------
(* The sampler.                                                            *)

Connect ==
    /\ sampler = "connecting"
    /\ link' = "up"
    /\ stream' = << >>
    /\ sampler' = "next"
    /\ UNCHANGED <<heads, attempts, block, feed, gasHistory, lastBlock,
                   sampled, shown>>

NextHead ==
    /\ sampler = "next"
    /\ stream # << >>
    /\ block' = Head(stream)
    /\ stream' = Tail(stream)
    /\ sampler' = "fee"
    /\ UNCHANGED <<heads, link, attempts, feed, gasHistory, lastBlock,
                   sampled, shown>>

\* The node's suggestion is read, and the sample pushed under the lock.
SampleFee(priority) ==
    /\ sampler = "fee"
    /\ Push(block.base, priority)
    /\ sampler' = "insert"
    /\ UNCHANGED <<heads, link, stream, attempts, block, gasHistory,
                   lastBlock, sampled, shown>>

RowInHand == [base |-> block.base, priority |-> oracle.lastPriority]
NewestSample == [base |-> oracle.lastBase, priority |-> oracle.lastPriority]

\* Mutant: a block number that has a row keeps it.
InsertGasSample_OrIgnore ==
    /\ sampler = "insert"
    /\ gasHistory' = [n \in DOMAIN gasHistory \cup {block.number} |->
         IF n \in DOMAIN gasHistory THEN gasHistory[n] ELSE RowInHand]
    /\ sampler' = "save"
    /\ UNCHANGED <<heads, link, stream, attempts, block, feed, lastBlock,
                   sampled, shown>>

\* Mutant: last_block is written before the row it stands for.
InsertGasSample_AfterSave ==
    /\ sampler = "insert"
    /\ lastBlock' = block.number
    /\ sampler' = "save"
    /\ UNCHANGED <<heads, link, stream, attempts, block, feed, gasHistory,
                   sampled, shown>>

\* INSERT OR REPLACE: a block announced again replaces its row.
InsertGasSample ==
    /\ sampler = "insert"
    /\ gasHistory' = [n \in DOMAIN gasHistory \cup {block.number} |->
         IF n = block.number THEN RowInHand ELSE gasHistory[n]]
    /\ sampler' = "save"
    /\ UNCHANGED <<heads, link, stream, attempts, block, feed, lastBlock,
                   sampled, shown>>

SetLastBlock ==
    /\ sampler = "save"
    /\ lastBlock' = block.number
    /\ sampled' = block
    /\ shown' = shown + 1
    /\ sampler' = "next"
    /\ block' = NoHead
    /\ UNCHANGED <<heads, link, stream, attempts, feed, gasHistory>>

\* Mutant: the failures are counted, the limit is not checked.
SamplerFails_Forever ==
    /\ \/ sampler \in {"connecting", "fee", "insert", "save"}
       \/ sampler = "next" /\ stream = << >> /\ link = "down"
    /\ attempts' = attempts + 1
    /\ sampler' = "backoff"
    /\ block' = NoHead
    /\ sampled' = NoHead
    /\ link' = "down"
    /\ UNCHANGED <<heads, stream, feed, gasHistory, lastBlock, shown>>

\* Mutant: a query that fails is logged and the next block awaited.
SamplerFails_GoesOn ==
    /\ \/ sampler \in {"connecting", "fee", "insert", "save"}
       \/ sampler = "next" /\ stream = << >> /\ link = "down"
    /\ block' = NoHead
    /\ sampled' = NoHead
    /\ IF sampler \in {"insert", "save"}
       THEN sampler' = "next" /\ UNCHANGED <<attempts, link>>
       ELSE /\ attempts' = attempts + 1
            /\ sampler' = IF attempts' >= MaxAttempts THEN "dead"
                          ELSE "backoff"
            /\ link' = "down"
    /\ UNCHANGED <<heads, stream, feed, gasHistory, lastBlock, shown>>

\* A connection, a call or a query fails, or the stream ends: the connection
\* is dropped and, up to MaxAttempts, opened again after a pause.
SamplerFails ==
    /\ \/ sampler \in {"connecting", "fee", "insert", "save"}
       \/ sampler = "next" /\ stream = << >> /\ link = "down"
    /\ attempts' = attempts + 1
    /\ sampler' = IF attempts' >= MaxAttempts THEN "dead" ELSE "backoff"
    /\ block' = NoHead
    /\ sampled' = NoHead
    /\ link' = "down"
    /\ UNCHANGED <<heads, stream, feed, gasHistory, lastBlock, shown>>

BackoffElapses ==
    /\ sampler = "backoff"
    /\ sampler' = "connecting"
    /\ UNCHANGED <<heads, link, stream, attempts, block, feed, gasHistory,
                   lastBlock, sampled, shown>>

\* The process ends and is started again: the oracle starts empty.
Restart ==
    /\ link' = "down"
    /\ stream' = << >>
    /\ sampler' = "connecting"
    /\ attempts' = 0
    /\ block' = NoHead
    /\ Renew
    /\ sampled' = NoHead
    /\ shown' = 0
    /\ UNCHANGED <<heads, gasHistory, lastBlock>>

-----------------------------------------------------------------------------
(* The API, which reads what the sampler has written.                      *)

\* ORDER BY block_number DESC LIMIT 1
HighestBlock ==
    CHOOSE n \in DOMAIN gasHistory : \A m \in DOMAIN gasHistory : m <= n

\* The fees of stats_gas and of the messages to a session.
ShownFees == gasHistory[HighestBlock]

-----------------------------------------------------------------------------
Next ==
    \/ LinkBreaks \/ Connect \/ NextHead \/ InsertGasSample \/ SetLastBlock
    \/ SamplerFails \/ BackoffElapses \/ Restart
    \/ \E h \in Heads : AnnounceHead(h)
    \/ \E priority \in PriorityFees : SampleFee(priority)

Spec == Init /\ [][Next]_vars

-----------------------------------------------------------------------------
(* Properties.                                                             *)

\* last_block, which the API shows as the current block, always has its row
\* of gas_history, though the two are written separately and the task may
\* fail or the process end between the writes.
LastBlockIsSampled == lastBlock # 0 => lastBlock \in DOMAIN gasHistory

\* While the sampler waits for a block after a complete turn, last_block and
\* the oracle are of the same block, and the fees the API shows beside them
\* are of that very sample, a block announced twice included.  After a
\* reorganisation to a lower number the API goes on showing the fees of the
\* orphaned block until the chain has grown past it; this is all the
\* property leaves open.
ViewsAgree ==
    sampler = "next" /\ sampled # NoHead =>
        /\ lastBlock = sampled.number
        /\ oracle.lastBase = sampled.base
        /\ HighestBlock = lastBlock => ShownFees = NewestSample

\* The oracle may hold samples that gas_history or last_block never got,
\* since it is fed first and the writes may fail.  Each of them has cost the
\* task one of its attempts, but for the one in hand: the scanner prices
\* with no more than MaxAttempts samples an operator could not see.
FewSamplesUnshown ==
    Len(fed) <= shown + attempts
                + (IF sampler \in {"insert", "save"} THEN 1 ELSE 0)

=============================================================================
