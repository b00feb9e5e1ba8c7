------------------------------ MODULE PoolFeed ------------------------------
(***************************************************************************)
(* The market-data path of the bot: the task that follows the pools' Sync  *)
(* logs (zelvex-core/src/sync_subscriber.rs), the PoolStore it writes      *)
(* (zelvex-core/src/sync.rs), the bounded channel `updates` that carries   *)
(* nothing but wake-ups (zelvex-bin/src/main.rs) and the loop of           *)
(* run_scanner that consumes them (zelvex-core/src/scanner.rs).            *)
(*                                                                         *)
(* A log's payload (reserve0, reserve1, block number) is one element of    *)
(* Payloads: apply_sync overwrites all three together.  The node is        *)
(* external: it announces the changes of the chain in order, loses any of  *)
(* them, and announces a change that a reorganisation undoes once more,    *)
(* marked `removed`, a mark that decode_sync_log does not look at.  The    *)
(* sleep of the reconnect loop is abstracted to a state that some time     *)
(* later ends.                                                             *)
(***************************************************************************)
EXTENDS Naturals, Sequences

CONSTANTS Pools,            \* addresses followed
          Payloads,         \* what a Sync log carries
          NoPayload,        \* reserves 0, 0 at block 0: no log applied yet
          UpdatesCapacity,  \* capacity of the channel, 1024 in main
          MaxAttempts,      \* failed connections before giving up, 10
          MaxLogs           \* bound: logs the node ever sends

ASSUME FeedAssumption ==
    /\ NoPayload \notin Payloads
    /\ UpdatesCapacity \in Nat \ {0}
    /\ MaxAttempts \in Nat \ {0}
    /\ MaxLogs \in Nat

VARIABLES chain,      \* the pools' reserves at the head of the chain
          missed,     \* pools whose newest change the task was never sent
          logsSent,   \* logs the node has produced (bounds the model)
          link,       \* "up" while the subscription's stream is open
          inFlight,   \* logs delivered and not yet read, oldest first
          subscriber, \* where run_sync_subscription is
          attempts,   \* its count of failed connections, never reset
          store,      \* PoolStore: payload last applied to each pool
          updates,    \* wake-ups queued in the channel
          scanner,    \* where run_scanner is
          scanned     \* the store as scan_pairs last read it (history)

chainVars == <<chain, missed, logsSent>>
feedVars == <<chainVars, link, inFlight, subscriber, attempts, store>>
scanVars == <<scanner, scanned>>
vars == <<feedVars, updates, scanVars>>

\* A log that decode_sync_log rejects (topic or length) carries NoPayload.
Logs == [pool : Pools, payload : Payloads \cup {NoPayload}]

SubscriberStates == {"connecting", "listening", "notify", "backoff", "dead"}
ScannerStates == {"connecting", "recv", "drain", "price", "scan", "trade",
                  "dead"}

TypeOK ==
    /\ chain \in [Pools -> Payloads]
    /\ missed \subseteq Pools
    /\ logsSent \in 0..MaxLogs
    /\ link \in {"up", "down"}
    /\ inFlight \in Seq(Logs)
    /\ subscriber \in SubscriberStates
    /\ attempts \in 0..MaxAttempts
    /\ store \in [Pools -> Payloads \cup {NoPayload}]
    /\ updates \in 0..UpdatesCapacity
    /\ scanner \in ScannerStates
    /\ scanned \in [Pools -> Payloads \cup {NoPayload}]

\* The pools have reserves before the program starts, which main does not
\* read: fetch_pool_metadata asks for the tokens only.
Init ==
    /\ chain \in [Pools -> Payloads]
    /\ missed = Pools
    /\ logsSent = 0
    /\ link = "down"
    /\ inFlight = << >>
    /\ subscriber = "connecting"
    /\ attempts = 0
    /\ store = [p \in Pools |-> NoPayload]
    /\ updates = 0
    /\ scanner = "connecting"
    /\ scanned = [p \in Pools |-> NoPayload]

-----------------------------------------------------------------------------
(* The node and its WebSocket (external).                                  *)

\* The task is sent `log` over an open stream, or the log is lost: nobody
\* listens, or the stream lags behind a full buffer and drops it.
Delivered(log) ==
    /\ link = "up"
    /\ inFlight' = Append(inFlight, log)

\* A pool changes and emits its log; a log without a payload is none of the
\* pool's Sync events.
NodeSendsLog(log) ==
    /\ logsSent < MaxLogs
    /\ logsSent' = logsSent + 1
    /\ IF log.payload = NoPayload
       THEN /\ UNCHANGED <<chain, missed>>
            /\ Delivered(log) \/ UNCHANGED inFlight
       ELSE /\ chain' = [chain EXCEPT ![log.pool] = log.payload]
            /\ \/ Delivered(log) /\ missed' = missed \ {log.pool}
               \/ UNCHANGED inFlight /\ missed' = missed \cup {log.pool}
    /\ UNCHANGED <<link, subscriber, attempts, store, updates, scanVars>>

\* A reorganisation takes the pool back to older reserves.  What is announced
\* is the log of the change that was undone.
ReorgUndoes(p, older) ==
    /\ logsSent < MaxLogs
    /\ logsSent' = logsSent + 1
    /\ chain' = [chain EXCEPT ![p] = older]
    /\ missed' = missed \cup {p}
    /\ Delivered([pool |-> p, payload |-> chain[p]]) \/ UNCHANGED inFlight
    /\ UNCHANGED <<link, subscriber, attempts, store, updates, scanVars>>

\* The connection breaks.  Some of the logs on their way are still read.
LinkBreaks ==
    /\ link = "up"
    /\ link' = "down"
    /\ \E k \in 0..Len(inFlight) :
         /\ inFlight' = SubSeq(inFlight, 1, k)
         /\ missed' = missed \cup {inFlight[i].pool : i \in k+1..Len(inFlight)}
    /\ UNCHANGED <<chain, logsSent, subscriber, attempts, store, updates,
                   scanVars>>

-----------------------------------------------------------------------------
(* The subscription task.                                                  *)

\* Mutant: the failure is not counted.
GiveUpOrBackOff_Uncounted ==
    /\ attempts' = attempts
    /\ subscriber' = IF attempts + 1 >= MaxAttempts THEN "dead" ELSE "backoff"

\* One pass of subscribe_sync_events ended in an error.
GiveUpOrBackOff ==
    /\ attempts' = attempts + 1
    /\ subscriber' = IF attempts + 1 >= MaxAttempts THEN "dead" ELSE "backoff"

Subscribe ==
    /\ subscriber = "connecting"
    /\ \/ /\ link' = "up"
          /\ inFlight' = << >>
          /\ subscriber' = "listening"
          /\ UNCHANGED attempts
       \/ /\ GiveUpOrBackOff
          /\ UNCHANGED <<link, inFlight>>
    /\ UNCHANGED <<chainVars, store, updates, scanVars>>

BackoffElapses ==
    /\ subscriber = "backoff"
    /\ subscriber' = "connecting"
    /\ UNCHANGED <<chainVars, link, inFlight, attempts, store, updates,
                   scanVars>>

\* Mutant: a pool that has reserves keeps them.
ApplySync_FirstOnly(log) ==
    [store EXCEPT ![log.pool] = IF @ = NoPayload THEN log.payload ELSE @]

\* apply_sync, for a pool that is in the store.
ApplySync(log) == [store EXCEPT ![log.pool] = log.payload]

\* The next log is decoded; a good one is applied under the store's lock.
ReadLog ==
    /\ subscriber = "listening"
    /\ inFlight # << >>
    /\ inFlight' = Tail(inFlight)
    /\ LET log == Head(inFlight) IN
         \/ /\ log.payload = NoPayload
            /\ UNCHANGED <<subscriber, store>>
         \/ /\ log.payload # NoPayload
            /\ store' = ApplySync(log)
            /\ subscriber' = "notify"
    /\ UNCHANGED <<chainVars, link, attempts, updates, scanVars>>

\* Mutant: the wake-up is queued whether or not the channel has room.
SendUpdate_Unbounded ==
    /\ subscriber = "notify"
    /\ subscriber' = "listening"
    /\ updates' = IF scanner # "dead" THEN updates + 1 ELSE updates
    /\ UNCHANGED <<chainVars, link, inFlight, attempts, store, scanVars>>

\* try_send: refused without a trace when the channel is full or closed.
SendUpdate ==
    /\ subscriber = "notify"
    /\ subscriber' = "listening"
    /\ updates' = IF updates < UpdatesCapacity /\ scanner # "dead"
                  THEN updates + 1 ELSE updates
    /\ UNCHANGED <<chainVars, link, inFlight, attempts, store, scanVars>>

StreamEnds ==
    /\ subscriber = "listening"
    /\ link = "down"
    /\ inFlight = << >>
    /\ GiveUpOrBackOff
    /\ UNCHANGED <<chainVars, link, inFlight, store, updates, scanVars>>

-----------------------------------------------------------------------------
(* run_scanner.  Its receiver is dropped, with what it holds, on return.   *)

ScannerFails ==
    /\ scanner \in {"connecting", "price", "trade"}
    /\ scanner' = "dead"
    /\ updates' = 0
    /\ UNCHANGED <<feedVars, scanned>>

ScannerConnects ==
    /\ scanner = "connecting"
    /\ scanner' = "recv"
    /\ UNCHANGED <<feedVars, updates, scanned>>

Recv ==
    /\ scanner = "recv"
    /\ updates > 0
    /\ updates' = updates - 1
    /\ scanner' = "drain"
    /\ UNCHANGED <<feedVars, scanned>>

TryRecv ==
    /\ scanner = "drain"
    /\ updates > 0
    /\ updates' = updates - 1
    /\ UNCHANGED <<feedVars, scanVars>>

DrainEnds ==
    /\ scanner = "drain"
    /\ updates = 0
    /\ scanner' = "price"
    /\ UNCHANGED <<feedVars, updates, scanned>>

\* The price is read from the feed when 30 s old, then the gas estimate.
PriceKnown ==
    /\ scanner = "price"
    /\ scanner' = "scan"
    /\ UNCHANGED <<feedVars, updates, scanned>>

ScanPairs ==
    /\ scanner = "scan"
    /\ scanned' = store
    /\ scanner' = "trade"
    /\ UNCHANGED <<feedVars, updates>>

\* Mutant: wake-ups that arrived while trading are thrown away.
TradesDone_Drain ==
    /\ scanner = "trade"
    /\ scanner' = "recv"
    /\ updates' = 0
    /\ UNCHANGED <<feedVars, scanned>>

\* The opportunities found were evaluated, executed and logged.
TradesDone ==
    /\ scanner = "trade"
    /\ scanner' = "recv"
    /\ UNCHANGED <<feedVars, updates, scanned>>

-----------------------------------------------------------------------------
Node ==
    \/ LinkBreaks
    \/ \E log \in Logs : NodeSendsLog(log)
    \/ \E p \in Pools, older \in Payloads : ReorgUndoes(p, older)

Subscriber ==
    Subscribe \/ BackoffElapses \/ ReadLog \/ SendUpdate \/ StreamEnds

Scanner ==
    \/ ScannerFails \/ ScannerConnects \/ Recv \/ TryRecv \/ DrainEnds
    \/ PriceKnown \/ ScanPairs \/ TradesDone

Next == Node \/ Subscriber \/ Scanner

\* tokio runs a task that can run, and a sleep ends.  Nothing is assumed of
\* the logs, nor of the calls that carry no timeout: on_ws and subscribe_logs
\* in "connecting", and what the scanner awaits in "connecting", "price" and
\* "trade".
LocalSubscriberStep == BackoffElapses \/ ReadLog \/ SendUpdate \/ StreamEnds
LocalScannerStep == Recv \/ TryRecv \/ DrainEnds \/ ScanPairs

Spec == Init /\ [][Next]_vars
FairSpec ==
    Spec /\ WF_vars(LocalSubscriberStep) /\ WF_vars(LocalScannerStep)

-----------------------------------------------------------------------------
(* Properties.                                                             *)

\* The scanner never sleeps on reserves it has not scanned, although wake-ups
\* are dropped when the channel is full and are drained in bulk: while it is
\* not on its way to the next scan, a store it has not seen is announced, by
\* a wake-up queued or one the subscriber is about to queue.
UnseenIsAnnounced ==
    scanner \in {"connecting", "recv", "trade"} /\ scanned # store
        => updates > 0 \/ subscriber = "notify"

\* The changes of a pool that are still on their way.
Pending(p) ==
    {i \in DOMAIN inFlight :
        inFlight[i].pool = p /\ inFlight[i].payload # NoPayload}

\* When the scanner sleeps and nothing is on its way, the reserves it scanned
\* last are those of the chain, for every pool but those whose newest change
\* was lost, undone, or made before the program started.
ScannerIsCurrent ==
    scanner = "recv" /\ updates = 0 /\ subscriber # "notify"
        => \A p \in Pools \ missed :
              Pending(p) = {} => scanned[p] = chain[p]

\* No call that the scanner awaits without a timeout hangs for good.
CallsReturn == []<>(scanner \notin {"connecting", "price", "trade"})

\* If those calls return, every change of the store is followed by a scan of
\* the store as it then is, unless the scanner has failed for good.
UpdateIsScanned ==
    CallsReturn => ((scanned # store) ~> (scanned = store \/ scanner = "dead"))

\* No connection attempt hangs for good.
ConnectsReturn == []<>(subscriber # "connecting")

\* If connection attempts return, with whatever result, the reconnect loop
\* cannot spin for ever: every outage ends with an open subscription, or with
\* the task given up after MaxAttempts failures.
OutageEnds ==
    ConnectsReturn =>
        (subscriber \in {"connecting", "backoff"}
            ~> subscriber \in {"listening", "dead"})

=============================================================================
