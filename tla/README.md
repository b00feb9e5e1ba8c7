# A verification model of ZELVEX

ZELVEX is an arbitrage bot: it follows the reserves of Uniswap V2 pools over a
node's WebSocket, looks for pairs of pools whose prices differ, submits the
trades that pay through the Flashbots relay, and records all of it in SQLite
for an HTTP/WebSocket API. These modules model the parts of it that run
concurrently, fail, retry or restart, the arithmetic they trade on and the
contract that trades; they are checked with TLC on small instances, and all
safety properties are proved with TLAPS for all instances.

Run one check with `tlc -config X.cfg M`, one proof with `tlapm M.tla`; the
runs are listed below and in `PROJECT.json`, which also maps every definition
to the lines it models.

## 1. The system

| Part | Source | State it keeps | Operations |
| --- | --- | --- | --- |
| Sync subscription | `zelvex-core/src/sync_subscriber.rs` | connection, count of failures | connect, read a log, back off, give up |
| Pool store | `zelvex-core/src/sync.rs` | reserves and block of each pool | `apply_sync`, `get` |
| Wake-up channel | `zelvex-bin/src/main.rs:56` | up to 1024 tokens | `try_send`, `recv`, `try_recv` |
| Scanner | `zelvex-core/src/scanner.rs` | ETH price and its age, the opportunity in hand | wait, drain, price, scan, evaluate, execute, log |
| Executor | `zelvex-exec/src/executor.rs`, `inclusion.rs`, `flashbots.rs` | locals of one `execute` | read nonce and fee, sign, simulate or submit, wait, record |
| Gas oracle and sampler | `zelvex-gas/src/lib.rs` | rings of 100 fees, count of failures | `push_sample`, percentile, sample a block |
| Configuration and start | `zelvex-config/src/lib.rs`, `zelvex-bin/src/main.rs` | settings, the spawned tasks | load, override, migrate, write `bot_state`, spawn, bind |
| Database | `zelvex-db` | users, trades, opportunities, gas_history, bot_state | inserts, reads, migrations |
| API | `zelvex-api/src/lib.rs` | login limiter, sessions | register, login, bot start/stop, reads, WebSocket pushes |
| Arithmetic | `zelvex-core/src/amm.rs`, `zelvex-sim` | none | swap output, profit, decision, backtest |
| Contract | `contracts/ZelvexArb.sol` | owner, balances | `executeArb`, flash-loan callback, withdrawals |

`main` starts three tasks (gas sampler, sync subscription, scanner) and the
HTTP server; they share the pool store and the oracle through mutexes, the
channel, and the database. The scanner calls the executor in its own task, so
one execution at a time is in progress and the scanner does not see new
reserves meanwhile. No task is restarted when it ends, and nothing but a log
line tells that one has.

What is hard here: every `await` lets the chain and the other tasks move on;
answers of the relay and the node get lost; the process may end between a
submission and its record; logs and heads are lost or announced twice; retries
are counted over the lifetime of a task; several API calls run at once on the
same tables; and the profit of a trade is computed twice, in Rust before it and
in Solidity while it happens, on reserves that may differ. What makes each part
correct:

- feed: the scanner never sleeps on reserves it has not scanned, however full
  the channel was;
- scan: every round trip that pays is reported, once, and nothing else;
- decision: the backtest decides as the bot did;
- executor: at most one trade per block, successes that are on chain, no bundle
  and no trade without its row;
- contract: a trade earns its floor or leaves no trace, and earns what the scan
  predicted;
- gas: the oracle, the table and `last_block` agree, the recommendation is the
  percentile it claims to be;
- API: one user, tokens that name the user who asked for them, no bursts of
  logins, a stopped bot that stops, every trade pushed once and in order, lists
  without holes and figures that fit together;
- start and upgrade: no row is lost, and what the API shows of the settings is
  what the tasks run with.

Section 3 says which of these hold. `PROJECT.json` lists the hazards line by
line.

## 2. The modules

| Module | Models | Proofs |
| --- | --- | --- |
| `PoolFeed` | subscription, store, channel, outer loop of the scanner, and the chain they follow | `PoolFeedProofs` |
| `Executor` | inner loop of the scanner, executor, inclusion, relay, the tables trades and opportunities | `ExecutorProofs` |
| `TradeLedger` | abstract: what the two tables promise; implemented by `Executor` | in `ExecutorProofs` |
| `Amm` | the constant-product arithmetic, as operators | in `ArbContractProofs`, `OpportunityScanProofs` |
| `SeqFilter` | `Vec::retain` and `filter_map`, as an operator on sequences | `SeqFilterProofs` |
| `OpportunityScan` | `scan_pairs`, `evaluate` and `run_backtest`; extends `Amm` and `SeqFilter` | `OpportunityScanProofs` |
| `ArbContract` | the Solidity contract with Aave and two pairs; extends `Amm` | `ArbContractProofs` |
| `AtomicArb` | abstract: a trade is one step; implemented by `ArbContract` | in `ArbContractProofs` |
| `BotControl` | `Executor` extended with the `running` flag of the API | |
| `GasOracle` | the oracle as a value with operators | in `GasSamplerProofs` |
| `OracleFeed` | the shared oracle and all it was fed; implemented by `GasSampler` | in `GasSamplerProofs` |
| `GasSampler` | the sampler task; extends `OracleFeed` | `GasSamplerProofs` |
| `Registration` | concurrent `auth_register` and `auth_login` calls, tokens, `require_jwt` | `AccountProofs` |
| `LoginLimiter` | `enforce_login_rate_limit`; extends `SeqFilter` | `AccountProofs` |
| `Startup` | `main`, the configuration and the migrations | in `ServerProofs` |
| `WsSession` | a WebSocket session | in `ServerProofs` |
| `Dashboard` | the handlers that read the table trades | in `ServerProofs` |
| `Server` | composes `Startup`, `WsSession` and `Dashboard` on one database | `ServerProofs` |

Every `MC*` module instantiates one of them for TLC. A definition whose name
ends in `_Something` and whose comment starts with "Mutant" is a plausible bug
put in place of the definition it is named after, to show that a property
notices.

**PoolFeed.** `subscriber` and `scanner` are the places of the two tasks.
`ReadLog` is the decode and `apply_sync` under the lock, `SendUpdate` the
`try_send` that follows it: a full channel drops the wake-up. `Recv`,
`TryRecv`, `DrainEnds`, `PriceKnown`, `ScanPairs` and `TradesDone` are one turn
of the scanner's loop. A log's reserves are one payload, as `apply_sync`
replaces all of them. `chain` is what the pools hold: the node announces its
changes in order and may lose any of them; `ReorgUndoes` takes a pool back to
older reserves and announces only the log that was undone, whose `removed` mark
the code does not look at. `missed` has the pools whose newest change the task
was not sent, at first all of them, since `main` reads tokens but no reserves.
`scanned` is a history variable: the store as the last scan read it.

**Executor.** `pc` names the next `await` of the scanner task: `block`,
`nonce`, `fee`, `simulate`/`submit`, `receipt`, `deadline`, `record`, `log`.
A transaction is its route, nonce and base fee, which also determine its hash,
since calldata and signature are functions of them. `NewBlock` is the chain:
any set of bundles that target the block may land, each with a nonce of its
own, next to other transactions of the account. `SubmitBundle` has the lost
answer as a second outcome; `ExecuteFails` is an error of any call of
`execute`, after which the opportunity is logged without a trade;
`ScannerFails` is an error in `run_scanner` itself, which ends the task;
`Restart` ends the process at any point and starts it in either mode, paper or
live. `unrecorded` is a history variable: transactions given up after they had
reached the relay. The paper mode records a simulation whatever its verdict, as
the code does. `TradeLedger` sees the two tables and, as `open`, the trade id
that `run_scanner` carries from one to the other (`tradeId`); all the rest of
`Executor` is invisible to it. A failed insertion or a restart in between is its
`LoseCredit`.

**Amm, OpportunityScan.** The operators are the functions of `amm.rs` on
naturals; 0 stands for `None`, which every caller treats like a zero. The width
of U256 is not modelled, because reserves of 112 bits keep every product far
below it, which `ScanFitsItsWords` proves. `Scan` and `Decide` are the two
loops of `run_scanner` as to what they compute; the waits between them are in
`PoolFeed` and `Executor`, where the decision is a free choice. `PoolPairs` is
the double loop of `main`, the pairs of indices in lexicographic order: the
pair at place `k` is the one with `k` pairs up to it. Prices and USD figures
are exact integers, not f64, so what rounding of an f64 does is not covered.
`Restart` keeps the table and may change `min_profit_usd`, which is when a
backtest has something to find; the threshold in a row is a history variable.

**ArbContract.** A transaction runs alone from `idle` to `idle` and carries the
state it started in; a failed `require`, at any place, is `Rollback` to it.
`ExecuteArb`, `FlashLoanSimple`, `ExecuteOperation`, `SwapA`, `SwapB`,
`CheckProfit` and `Repay` are the calls in their order. `ForeignLoan` is a loan
of somebody else that names the contract as receiver. Calls that a first
`require` refuses change nothing and are not actions. Aave, the tokens and the
pairs are external: ERC-20 balances without fees on transfer, a pair whose
balances are its reserves and which checks the product of the two as Uniswap V2
does, and a premium that Aave is free to choose. The address of an account is
not modelled: only the contract's own balances are. `AtomicArb` sees the
balances and reserves of the last committed state: during a transaction the
mapping takes the ones it started in, so a trade is one step at `Repay` and a
rollback is none.

**GasOracle, OracleFeed, GasSampler.** `PushSample` and
`RecommendedPriorityFee` are the functions of the code on integers, with the
saturation to u64. `Sorted` is `sort_unstable` by rank: the sample at place `k`
is the one with `k` samples up to it. `OracleFeed` is the oracle behind its
mutex, beside the history `fed` of the samples of this process: `Push` is what
the sampler does under the lock, `Renew` the new process. The sampler's three
writes (`SampleFee`, `InsertGasSample`, `SetLastBlock`) are three steps,
between which the task may fail or the process end. The rows of `gas_history`
are kept in wei. `ShownFees` is what the API reads of them, in `stats_gas` and
in a session: the row with the highest number, which need not be the row of
`last_block`. `sampled` and `shown` are history variables: the head of the last
complete turn, and the number of complete turns of this process.

**Registration.** Every request is one call, of `auth_register`, `auth_login`
or a protected route, one action per query; `JsonRejected` is a body that axum
refuses before the handler runs. A password stands for its hash and
`Key` for a name without its case, which is what the index and the lookup
compare. A token is its claims; `Expire` ends it, and `CallProtected` is
`require_jwt` with the token that some other call was given, or none. When the
limiter refuses is the subject of `LoginLimiter`, here it may.

**Startup.** `proc` names the next step of `main`; `Exit` is an error at any of
them, or a kill. A setting is a value of the file or, if the variable is set, of
the environment; one bad variable ends the start. Migration 0006 is three
steps in a transaction, of which SQLite undoes everything unless it commits.
`linked` says that an opportunity refers to a trade: sqlx enforces foreign keys
and the PRAGMA of 0006 has no effect inside a transaction, so the drop then
fails. `recorded` is a history variable, the rows ever recorded.

**WsSession, Dashboard, Server.** A session is one action per query or message,
with the four status messages of a push as one step. In `Dashboard` a call is
two steps, the two queries whose figures belong together, and `pager` is a
client that walks through `/api/trades` by `offset`; the list is ordered by
place, a row's place being the number of rows that precede it, itself included.
The cutoff of `week_trades` falls within a day, so of the day `Week` days ago
any end part may count. In `Server` the process
starts, serves and ends; its tasks end with it, and the scanner records trades
from `SpawnScanner` on. One client at a time has a session or makes calls, since
sessions and read handlers share nothing that one of them writes, except
`running`, which no read handler of `Dashboard` reads. Days pass only while
nothing but a call is in progress, at most one during a call.

**LoginLimiter, BotControl** follow the handlers named in their headers. The
limiter's map is in memory: `Restart` empties it, and with it the history
`admitted`, so its properties are about one run of the process.

## 3. The runs

| Run | Shows |
| --- | --- |
| `pool_feed` | the scanner never sleeps on reserves it has not scanned (`UnseenIsAnnounced`: what it has not scanned is announced, or about to be); what it scanned last is what the chain holds, for all pools but those whose newest change was lost or undone (`ScannerIsCurrent`); every change is scanned, if the scanner's calls return; every outage ends in a subscription or in giving up, if the attempts to connect return |
| `executor` | no two trades in one block, successes are on chain in the block named, no bundle is dropped silently, the tables behave as `TradeLedger` (`ImplementsLedger`), an execution ends, if its calls return |
| `executor_deadline` | *violation*: `false` from `wait_for_inclusion` for an included transaction |
| `bot_control` | *violation*: a stopped bot takes up opportunities |
| `opportunity_scan` | the scan against a search for every round trip that pays (`ScanFindsAllRoutes`); an opportunity's spread covers the fees; the backtest agrees |
| `arb_contract` | a trade earns its floor from the swaps alone (`TradeEarns`), as much as the bot estimated (`AgreesWithEstimate`); it is atomic (`TradesAreAtomic`, by `AtomicArb`); its quotes are accepted by the pairs; no approval is left |
| `registration` | calls that arrive after the first user create nothing; a token names the one user whose password was sent |
| `registration_once` | *violation*: racing first registrations create two users |
| `login_limiter` | no burst in any window while the process runs, no refusal without cause |
| `gas_oracle` | the recommendation is the 90th percentile of the newest samples, against a definition that does not sort and looks at all samples ever fed |
| `gas_sampler` | `last_block` always has its sample; after a complete turn the oracle, `last_block` and the fees the API shows are of one sample, unless a reorganisation has left a row with a higher number; every sample that was never shown has cost the task an attempt |
| `server` | an upgrade that fails or is killed at any statement loses no row; settings shown are those in force; trades are pushed once and in order, and eventually if sends return; paging misses nothing; two figures of one answer fit together, or differ by no more than what was recorded between the queries |

The three violations are disagreements between the code and what the
repository says of it:

- `inclusion.rs:13` documents "`true` if the transaction was included, `false`
  if the deadline passed". The receipt is read before the block number, so a
  connection that stalls, or a node that imports several blocks at once,
  between the two reads makes the answer `false` for an included transaction;
  the trade is recorded as failed. It takes four blocks between the two reads:
  with three or fewer the claim holds (`FailuresAreRealIfReadsKeepUp`). Reading
  the block number first would exclude it.
- `POST /api/bot/stop` (`README.md:94`) answers `"stopped"`, and
  `GET /api/bot/status` repeats it, but `run_scanner` does not read the flag.
- `README.md:77` calls registration a "one-time bootstrap"; the count and the
  insertion are two queries, and calls with different names that count
  together all succeed. That overlap is the only way to a second user, and
  there are never more users than calls that overlapped
  (`BootstrapHoldsUnlessCallsOverlap`, `UsersAreNoMoreThanOverlap`).

Fees of an orphaned block: `stats_gas` and the pushes show the fees of the
highest block number in `gas_history`. When a reorganisation announces a lower
number, they are the orphan's until the chain has grown past it, next to the
`last_block` of the new chain; `ViewsAgree` leaves open this window and no
other.

A remark on the contract's tests: `test_successful_arb`
(`contracts/test/ZelvexArb.t.sol:79-101`) makes WETH cheap on pool A and trades
with `tokenIn = WETH`. The contract sells `tokenIn` on pool A, so the estimate
for these reserves is zero, and by `AgreesWithEstimate` the trade is rolled
back. `test_gas_measurement` (`:150-182`) has the same reserves and the same
direction. The scanner has the direction right: what it reports is what pays.

Remarks on the start: an upgrade by 0006 of a database in which an opportunity
refers to a trade can never succeed, because of the PRAGMA above; nothing is
lost, but the new release does not start (`DropTrades` stays disabled until
`Exit`). `success_rate_pct` may exceed 100 and `failed_tx_spent_usd` may exceed
`total_spent_usd` for one answer, when a trade is recorded between the queries;
`AnswersAreConsistent` says by how much. `max_gas_gwei` and `min_liquidity_usd`
are read and shown, and used by nothing.

### Bounds

`PoolFeed`: two pools, two payloads, a channel of two, three logs, three
attempts: a burst exceeds the channel, a task can use up its attempts with logs
in flight, and a change can be lost, undone and made again. `Executor`: two
routes, two turns, blocks 0 to 5; one base fee, because a second fee, like a
second route, only makes another hash with the same nonce. Two turns are what a
double submission needs; an execution may start in block 0 or 1 and the deadline
is three blocks after its target. `MaxTxs = 2` lets two of the bot's
transactions land in one block, so that `OneTradePerBlock` is not a bound in
disguise. `GetBlockNumber` is guarded so that the chain has room to pass the
deadline; without that the bound would look like a hang. `OpportunityScan`:
three pools on the same tokens and one on others, each at one of five levels
(one of them empty), so that all orders of three prices occur and the profits
lie below, at and above the thresholds once gas is paid. One row is enough,
since rows do not influence each other. The scale of a spot price is 100000:
`FinePrices`, the hypothesis of `SpreadsCoverFees`, holds for these levels, and
TLC evaluates it. `ArbContract`: two pairs on the same tokens and a third token
that neither holds; even, doubled and empty reserves; one loan of 10, two per
behaviour; three units of any asset in the contract before a trade, so that it
could pay a premium it did not earn. The premium is 1, the best estimate 5: the
floors 0, 4 and 5 are the one only a foreign loan can carry, the largest that
passes and the smallest that does not. `Registration`: four calls, two
passwords, three names of which two differ in case: two registrations that race,
a login and a call with its token. `LoginLimiter`: limit two, window three,
three windows of time. `GasOracle`: seven recent samples, since below seven the
percentile is the maximum; a ring of eight that turns over; one fee above
`MaxU64`. `GasSampler`: two block numbers, three heads, so that one is announced
again. `Server`: three trades, batches and pages of two, so neither a push nor a
page holds them all; a client that asks for one row and one that asks for more
than `MaxLimit`; three days with a week of two, so that a trade reaches the day
of the cutoff; two shown settings with two values each; an empty machine and one
with a table of an older release, linked or not.

Deadlock is checked except where a part may stop for good: a feed with no more
logs or with both tasks ended, the clock of the limiter at its bound, a server
nobody starts again.

### Fairness

tokio runs a task that can run, so a task's local steps are weakly fair, and so
are its queries: SQLite is a file, and sqlx bounds the wait for a connection.
No step that waits for the network is fair, since none of these calls carries a
timeout; that they return is a hypothesis of the property instead, and a call
that never returns refutes the hypothesis:

- `OutageEnds`: the attempts to connect return (`ConnectsReturn`;
  `sync_subscriber.rs:19-31`);
- `UpdateIsScanned`: the calls of the scanner return (`CallsReturn` of
  `PoolFeed`);
- `ExecutionEnds`: the calls of the node and of the relay return (`CallsReturn`
  of `Executor`; `flashbots.rs:67`);
- `TradesReachClient`: what is sent to the client is taken (`SendsReturn`;
  `zelvex-api/src/lib.rs:673`).

They return with an answer or an error; that they succeed is not assumed.
Nothing is assumed of the node's logs. In `Executor` the chain is weakly fair.
In `Server` nothing is assumed of the start, of clients beyond `SendsReturn`, or
of the scanner; the ticker is strongly fair, because `select!` polls its
branches in random order and a client that keeps sending cannot win for ever.

## 4. The proofs

**PoolFeedProofs.** `TypeCorrect` needs `AttemptsLeft`: a task that has not
given up has a failure to spare, which makes the bound on `attempts` inductive.
`UpdatesAnnounced` is the core: while the scanner is not on its way to a scan, a
store it has not seen has a wake-up queued or about to be queued. `ReadLog`
makes the store unseen and moves to `notify`; `SendUpdate` may be refused only
by a channel that is full, and a full channel is not empty because the capacity
is at least one; the drain takes wake-ups only before a scan. So the scanner
never sleeps on a store it has not seen. `ScansAreCurrent` adds the chain:
`FollowsChain` says that for a pool that was not missed, the last of its logs on
their way, or without any the store, is what the chain holds; `StreamIsRead`
that a stream with unread logs is one the task still reads. With
`UpdatesAnnounced` this carries over to what was scanned.

**ExecutorProofs.** `NonceInv` ties what was read to the chain as it is: the
call's block is not in the future, no bundle targets more than the next block,
a nonce read since the current block appeared is the account's, and so every
bundle that can still land carries the account's nonce (`LiveBundlesCompete`).
`NewBlock` passes the target of all earlier bundles, and `SubmitBundle` adds a
live one only if the block did not change since `GetBlockNumber`, and then
neither did the nonce. `NoDoubleTrade` follows, since landing bundles have
different nonces. `OutcomeInv` then shows that a receipt found for the call's
hash is of the call's own bundle: what is mined came from a bundle and used a
nonce below the account's; a transaction with the nonce just read can only have
been mined after the call's block, and no bundle targets more than the block
after that. So `SuccessesAreReal`: the block in the row is the block on chain.
`TablesAreALedger` is the refinement of `TradeLedger`. Its invariant,
`TradeInHand`, says that a trade id is held only at `log`, by the opportunity
whose route the trade has; `LedgerStep` then maps `InsertTrade` to
`RecordTrade`, `InsertOpportunity` to `LogOpportunity`, the end of the task or
the process to `LoseCredit`, and everything else to a stutter.
`CreditsAreUnambiguous` adds that the trade in hand has not been credited
before, and so that none is credited twice.

Two theorems say when the refuted claim of `wait_for_inclusion` is true. A
history variable `seen`, which only these proofs have, keeps the latest block at
the time of the last receipt call; `ReadsKeepUp` says that at most three blocks
appear until the block number is read. `PollInv` then is inductive: what landed
since the receipt call did so after `seen`, by `OutcomeInv` no later than the
target, and a deadline found passed puts `seen` at the target or beyond; once
the wait has ended past the deadline no bundle of the transaction is left to
land. `FailuresAreRealIfReadsKeepUp` follows for the answer, and
`FailedRowsAreTrue` for the rows: with `SuccessIsMined` the status on record
says exactly whether the trade landed in the block its row names. It says
nothing of later blocks: the same opportunity at the same nonce and base fee is
the same transaction, which may land when it is submitted again, while
`tx_hash` being UNIQUE leaves the first row in place.

**ArbContractProofs.** `Accounts` says where the money is at each step of a
trade: the contract holds what it held before, plus the loan; after `SwapA` the
output in place of the loan; after `SwapB` what came back; and Aave's allowance
is the repayment between `CheckProfit` and `Repay` and zero otherwise. It needs
`Requested`, that the loan is the one the parameters name, and the initiator
the contract itself, once the callback has accepted them. From it follow
`TypeCorrect` (a balance or reserve below zero would not be a natural),
`ApprovalsEnd` and `TradesEarn`. `QuoteAccepted` is arithmetic:
with `q = (x * 997 * s) \div (r * 1000 + x * 997)`, the pair's check
`(r * 1000 + x * 997) * (s - q) >= r * s * 1000` is the defining inequality of
the division. `QuotesAreAccepted` is this lemma and `Accounts`. `Quoted` ties
what the swaps brought to the reserves the transaction started on: the pools
are different, so the first swap does not move the second one's reserves;
`EstimatesAreKept` follows, and with it the equality of `calculate_profit` and
the contract's own arithmetic for all reserves and amounts.

`TradesAtomic` is the refinement of `AtomicArb`. `PairsPaid` follows the
reserves as `Accounts` follows the balances: the pairs swapped on so far have
no smaller a product than at the start, because the fee the pair takes off what
came in is a margin (`ProductGrows`), and the other pairs are as they were.
`Repay` then is a trade of the abstract specification, everything inside a
transaction a stutter.

`BundlesAccounted`, in `ExecutorProofs`, needs no strengthening: `pc` tells when
the bot answers for the bundle in hand, and every way out of those places leaves
a row or an entry of `unrecorded` behind.

**SeqFilterProofs.** What a filter leaves of a sequence is a recursive function,
and what it computes takes induction. The library states induction for an
operator, which none of the provers instantiates; here it is stated for a set of
naturals (`SetInduction`, from the existence of a least element), and the
property to be shown is put into the set. `FilterExists` and `FilterIs` give
`Filter` its equation; `FilterType`, `FilterSuffix` and `FilterTracks` say that
the result has members of the sequence only, that a filter which a prefix fails
leaves the rest, and that there is an order-preserving correspondence between
the result and the members that pass.

**OpportunityScanProofs.** `QuoteIsMost`: the quotient of `get_amount_out` is
the largest output that the pair's own check accepts, for all amounts and
reserves; a round trip as the scanner quotes it is therefore the best there is.
`PayingIsDearer` bounds what comes back by the spot prices: a round trip pays
only if WETH is dearer in the first pool than in the second by the fees of two
swaps, `xa * yb * 10^6 < xb * ya * 997^2`. Both directions at once would make a
positive number smaller than itself (`OneWayPays`), so keeping the better
direction loses nothing. `RanksFill` counts: sets that grow along a linear
order have all the sizes from one to the number of elements (it is proved in
`SeqFilterProofs`, and the percentile needs it too), so every pair of
pools stands at one place of the list, and with `FilterTracks` each route that
pays is reported once (`ScanIs`, `ScanIsComplete`). `SpreadsCoverFees` carries
the same inequality over to the prices as the code cuts them off. Cutting off
can hide 0.27 basis points of the 60.27 that the fees make, unless a price is
at least 36853 units of the scale; `FinePrices` is this hypothesis about the
reserves. With the code's scale of 10^18 and a stablecoin of six decimals it
says that a WETH is worth 0.04 USDC or more; `CoarsePricesHide` shows by example
that a coarser scale records a spread of zero for a trip that pays.
`ScanFitsItsWords` bounds every value computed before a division by
`10000 * R * R`, for inputs up to `R`: a swap gives out no more than the reserve
(`QuoteWithinReserve`), so the second quote starts from a number as small as the
first. With `R` of 112 bits that is 238. `BacktestMatches` rests on
`ScanInv`: a decision on record is what the row's own numbers give at its
threshold, and opportunities only come of a positive price.

**AccountProofs.** The limiter forgets, so `NoBurst` is not inductive. The
history `admitted` holds all attempts that went through; `LimiterInv` says that
it is ordered in time, that an entry is its end (`Remembers`), and that all
before that is a window old. `StalePrefix` splits the ordered sequence where
`retain` does, and `FilterSuffix` says that `retain` leaves the fresh part. Any
`Limit + 1` admitted attempts then span a window, because the first of them was
stale, or counted, when the last was let through. For `Registration` the
invariant numbers the rows of `users` without gaps and without equal names
(`UsersDistinct`), gives tokens to answered calls only (`CallsInOrder`), and
keeps a late call from ever passing its count (`LateIsRefused`). Rows are never
changed, so the user a token named stays. `BootstrapHoldsUnlessCallsOverlap` and
`UsersAreNoMoreThanOverlap` bound the race: from the first user on, no call
passes the count any more, so the users there are and the calls about to insert
one are together no more than were ever about to (`Quota`).

**GasSamplerProofs.** `TurnSoFar` says what a turn of the loop has written at
each of its places: the oracle's newest fees, then the row of the block in
hand, then `last_block`. `TurnForgotten` says that a task without a connection
does not claim a complete turn; with both, `LastBlockIsSampled` and
`TurnComplete` are inductive although a block number can be written twice.
`TurnComplete`, that the row of `last_block` is the oracle's newest sample,
implies `ViewsAgree` wherever that row is the one shown. `UnshownStep` counts:
a turn that fed the oracle ends by being shown or by a failure, and `attempts`
is never reset while the process runs (`UnshownSamplesAreFew`).
`FeedRecommends` is about the oracle alone. `RingIsNewest` is its invariant:
the ring is the end of what was fed, however often it has turned over, so the
samples looked at are the newest of all (`RecentIsNewest`). `RanksFill` gives
every place of the sorted order one sample (`SortedPlaces`); with the `k`-th as
fee, the samples strictly below it are among the `k - 1` before it and those
above among the `n - k` after (`PlacesCount`), saturated or not; `IndexIsNinth`
is the rounding. `SamplerImplementsFeed` shows the sampler to be an
implementation of `OracleFeed`, and so `SamplerRecommends` holds beside the
running task.

**ServerProofs.** One invariant per part, each with a lemma that the steps of
the other parts respect. `RowsAreSafe` says where the trades are while migration
0006 runs: in the table, in its copy, or in what a rollback restores.
`KeysWritten` counts the settings written by this start; a process serves only
when all are. `RowsFollow` says that the ids fetched and not yet sent are those
that follow `last_trade_id`. For the read handlers, `PlaceGrows` is the core:
a new row moves the others towards the end of the list, never towards its
start, so what a client has of the first `offset` places it keeps
(`PagesCover`), and the offset reaches the total only when nothing is missing.
`FirstFigure` and `SecondFigure` bound what the second query can read by what
the first one read and what was recorded since.

The assumptions are those on the constants (`FeedAssumption`,
`ExecutorAssumption`, `ContractAssumption`, `ScanAssumption`,
`LimiterAssumption`, `OracleAssumption`, `FeesAssumption`, `SamplerAssumption`,
`SessionAssumption`, `ServerAssumption`): capacities, limits and attempts at
least one, fees positive, amounts naturals, the two tokens of a pair different,
pools listed once with their tokens in the order of their addresses, tables of
an older release no longer than `MaxTrades`. The proofs hold for any number of
pools, routes, blocks, restarts, turns, tokens, pairs, trades, calls and
clients, and for every value of the bounds. What is taken from outside is in the
actions marked external: Aave calls back with the loan it was asked for, or not
at all, and pulls the loan and its premium.

Only model-checked are the liveness properties (`UpdateIsScanned`, `OutageEnds`,
`ExecutionEnds`, `TradesReachClient`), since the prover does not handle
fairness.

## 5. What is not modelled

`wallet_balance` (a pass-through to the node), static files and the web UI,
which keep no state; `zelvex-core/src/node.rs`, a reconnect loop that nothing
calls; the plain records of `zelvex-types`; TOML syntax and the types of single
settings; the sums of the backtest report and of PnL (`net_profit_usd` is NULL
in every row the executor writes). `Executor` takes the decision as a free
choice and knows nothing of amounts, and the contract's transactions are not
those of `Executor`. `mined` is what the chain includes, reverted or not, since
`wait_for_inclusion` looks at no more than that there is a receipt: a row of
status success says that the transaction was included, not that it earned.
Reorganisations are left out of `Executor`. A session is not ended by the
expiry of its token, in the model as in the code. The rounding of f64 is left
out everywhere. All providers are opened on one `ws_url` and are taken to see
one chain.

## 6. State

All parts of section 2 are modelled and checked, and every safety property of
every passing run is proved. What could follow:

1. Reorganisations in `Executor`: a receipt that is taken back after the row was
   written, and the proofs this touches.
2. The scanner's decision and the executor in one module, so that the amounts of
   a row and the contract's floor are related across both.
