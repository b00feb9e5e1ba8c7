---------------------------- MODULE ServerProofs ----------------------------
(***************************************************************************)
(* Proofs about Server, for every size of pushes and pages, every number   *)
(* of trades and every table of an older release: the start of the process *)
(* with its migration, then the session and the read handlers, each beside *)
(* an executor that goes on recording trades.                              *)
(***************************************************************************)
EXTENDS Server, FiniteSetTheorems, TLAPS

-----------------------------------------------------------------------------
(* The start.  Migration 0006 holds all trades in its copy, and in what a  *)
(* rollback restores, until it is committed.                               *)

TableOK ==
    /\ trades \in Seq(Rows) /\ Len(trades) <= MaxTrades
    /\ recorded \in Seq(Rows) /\ Len(recorded) <= MaxTrades
    /\ day \in 0..MaxDay

\* Where the rows are, in and outside the transaction of migration 0006.
RowsAreSafe ==
    /\ migration = NoMigration => trades = recorded
    /\ migration # NoMigration =>
         /\ migration \in Migrations
         /\ migration.copy = recorded /\ migration.before = recorded
         /\ trades \in {recorded, << >>}

\* The keys written so far show the configuration in force, and the start
\* goes on only when all of them are written.
KeysWritten ==
    /\ proc # "down" => config \in Settings
    /\ written # 0 => proc \in {"state", "executor", "bind", "serving"}
    /\ proc \in {"executor", "bind", "serving"} => written = Len(ShownKeys)
    /\ \A i \in 1..written : botState[ShownKeys[i]] = config[ShownKeys[i]]

StartInv == StartTypeOK /\ TableOK /\ RowsAreSafe /\ KeysWritten

\* A step that leaves the rows of bot_state and the configuration alone
\* keeps what was written, if it moves to a place that asks for no more.
LEMMA StartFrame ==
    ASSUME StartInv, TableOK', RowsAreSafe',
           UNCHANGED <<config, written, botState>>,
           proc' \in Procs, proc # "down", schema' \in 0..6,
           linked' \in BOOLEAN,
           migration' # NoMigration => proc' = "migrate" /\ schema' = 5,
           written # 0 => proc' \in {"state", "executor", "bind", "serving"},
           proc' \in {"executor", "bind", "serving"}
             => written = Len(ShownKeys)
    PROVE  StartInv'
<1>1. Len(recorded') >= Len(trades')
  BY DEF TableOK, RowsAreSafe
<1>2. StartTypeOK'
  BY <1>1 DEF StartInv, StartTypeOK
<1>3. KeysWritten'
  BY DEF StartInv, KeysWritten
<1> QED
  BY <1>2, <1>3 DEF StartInv

\* A machine without a database, or with one of an older release.
LEMMA StartStarts == ServerInit => StartInv
<1> SUFFICES ASSUME ServerInit PROVE StartInv
  OBVIOUS
<1>1. PICK old \in OldTables, links \in BOOLEAN : StartInit(old, links)
  BY DEF ServerInit
<1>2. old \in Seq(Rows) /\ Len(old) <= MaxTrades /\ MaxDay \in Nat
      /\ Len(ShownKeys) \in Nat
  BY ServerAssumption
<1>3. TableOK /\ RowsAreSafe
  BY <1>1, <1>2 DEF ServerInit, StartInit, TableOK, RowsAreSafe
<1>4. botState \in [Keys -> Values \cup {Default, Unset}]
  BY <1>1 DEF StartInit
<1>5. schema \in 0..6
  BY <1>1 DEF StartInit
<1>6. StartTypeOK
  BY <1>1, <1>2, <1>4, <1>5 DEF StartInit, StartTypeOK, Procs
<1>7. KeysWritten
  BY <1>1, <1>2 DEF StartInit, KeysWritten
<1> QED
  BY <1>3, <1>6, <1>7 DEF StartInv

\* A variable that is set and parses has a value.
LEMMA OverridesAreSettings ==
    ASSUME NEW file \in Settings,
           NEW env \in [Keys -> Values \cup {Unset, Bad}],
           \A k \in Keys : env[k] # Bad
    PROVE  ApplyEnvOverrides(file, env) \in Settings
BY DEF ApplyEnvOverrides, Settings

\* Every step of the start keeps StartInv.
LEMMA StartStepKeeps ==
    ASSUME StartInv, StartStep, UNCHANGED day
    PROVE  StartInv'
<1> USE DEF StartInv
<1>1. /\ Len(ShownKeys) \in Nat
      /\ \A i \in 1..Len(ShownKeys) : ShownKeys[i] \in Keys
  BY ServerAssumption DEF Keys
<1>2. /\ trades \in Seq(Rows) /\ recorded \in Seq(Rows) /\ day \in 0..MaxDay
      /\ Len(trades) <= MaxTrades /\ Len(recorded) <= MaxTrades
      /\ proc \in Procs /\ schema \in 0..6 /\ linked \in BOOLEAN
      /\ written \in 0..Len(ShownKeys)
      /\ botState \in [Keys -> Values \cup {Default, Unset}]
      /\ migration # NoMigration => proc = "migrate" /\ schema = 5
  BY DEF TableOK, StartTypeOK
<1>3. ASSUME NEW file \in Settings,
             NEW env \in [Keys -> Values \cup {Unset, Bad}], Load(file, env)
      PROVE  StartInv'
  <2>1. config' \in Settings
    BY <1>3, OverridesAreSettings DEF Load
  <2>2. TableOK' /\ RowsAreSafe'
    BY <1>3 DEF Load, TableOK, RowsAreSafe
  <2>3. written = 0
    BY <1>2, <1>3 DEF Load, KeysWritten
  <2>4. StartTypeOK'
    BY <1>3, <2>1, <1>2 DEF Load, StartTypeOK, Procs
  <2>5. KeysWritten'
    BY <1>3, <2>1, <2>3 DEF Load, KeysWritten
  <2> QED
    BY <2>2, <2>4, <2>5
<1>4. CASE Connect \/ FetchPoolMetadata \/ SpawnScanner \/ Bind
  <2>1. /\ TableOK' /\ RowsAreSafe'
        /\ UNCHANGED <<config, written, botState, schema, linked, migration>>
    BY <1>4 DEF Connect, FetchPoolMetadata, SpawnScanner, Bind, TableOK,
       RowsAreSafe
  <2>2. /\ proc' \in Procs /\ proc # "down"
        /\ proc \in {"connect", "metadata", "executor", "bind"}
    BY <1>4 DEF Connect, FetchPoolMetadata, SpawnScanner, Bind, Procs
  <2>3. /\ proc' \in {"bind", "serving"} => written = Len(ShownKeys)
        /\ proc' # "executor"
        /\ written # 0 => proc' \in {"state", "executor", "bind", "serving"}
    BY <1>4 DEF Connect, FetchPoolMetadata, SpawnScanner, Bind, KeysWritten
  <2> QED
    BY <1>2, <2>1, <2>2, <2>3, StartFrame
<1>5. CASE MigrationsDone \/ SpawnFeeds
  <2>1. /\ TableOK' /\ RowsAreSafe'
        /\ UNCHANGED <<config, written, botState, schema, linked, migration>>
    BY <1>5 DEF MigrationsDone, SpawnFeeds, TableOK, RowsAreSafe
  <2>2. /\ proc' \in Procs /\ proc # "down" /\ migration = NoMigration
    BY <1>2, <1>5 DEF MigrationsDone, SpawnFeeds, Procs
  <2>3. /\ proc' \in {"executor", "bind", "serving"}
             => written = Len(ShownKeys)
        /\ written # 0 => proc' \in {"state", "executor", "bind", "serving"}
    BY <1>5 DEF MigrationsDone, SpawnFeeds, KeysWritten
  <2> QED
    BY <1>2, <2>1, <2>2, <2>3, StartFrame
<1>6. CASE Migrate
  <2>1. TableOK' /\ RowsAreSafe' /\ migration = NoMigration
    BY <1>2, <1>6 DEF Migrate, TableOK, RowsAreSafe
  <2>2. schema' \in 0..6
    BY <1>2, <1>6 DEF Migrate
  <2>3. botState' \in [Keys -> Values \cup {Default, Unset}]
    BY <1>2, <1>6 DEF Migrate
  <2>4. StartTypeOK'
    BY <1>6, <2>1, <2>2, <2>3 DEF Migrate, StartTypeOK
  <2>5. written = 0
    BY <1>6 DEF Migrate, KeysWritten
  <2>6. KeysWritten'
    BY <1>6, <2>5 DEF Migrate, KeysWritten
  <2> QED
    BY <2>1, <2>4, <2>6
<1>7. CASE CopyTrades
  <2> DEFINE m == [step |-> "copied", copy |-> trades, before |-> trades]
  <2>1. /\ migration' = m /\ trades = recorded /\ UNCHANGED trades
        /\ UNCHANGED recorded
    BY <1>7 DEF CopyTrades, RowsAreSafe
  <2>2. m \in Migrations /\ m.copy = trades /\ m.before = trades
    BY <1>2 DEF Migrations
  <2>3. TableOK' /\ RowsAreSafe'
    BY <2>1, <2>2 DEF TableOK, RowsAreSafe
  <2>4. /\ UNCHANGED <<config, written, botState, schema, linked, proc>>
        /\ proc = "migrate" /\ schema = 5
    BY <1>7 DEF CopyTrades
  <2> QED
    BY <1>2, <2>3, <2>4, StartFrame DEF KeysWritten
<1>8. CASE DropTrades
  <2>1. /\ migration' = [migration EXCEPT !.step = "dropped"]
        /\ trades' = << >> /\ UNCHANGED recorded /\ migration # NoMigration
    BY <1>8 DEF DropTrades
  <2>2. /\ migration \in Migrations /\ migration.copy = recorded
        /\ migration.before = recorded
    BY <2>1 DEF RowsAreSafe
  <2>3. /\ migration' \in Migrations /\ migration'.copy = recorded
        /\ migration'.before = recorded
    BY <2>1, <2>2 DEF Migrations
  <2>4. migration' # NoMigration
    BY <2>3, ServerAssumption
  <2>5. << >> \in Seq(Rows) /\ Len(<< >>) = 0
    OBVIOUS
  <2>6. TableOK' /\ RowsAreSafe'
    BY <1>2, <2>1, <2>3, <2>4, <2>5, SessionAssumption
       DEF TableOK, RowsAreSafe
  <2>7. /\ UNCHANGED <<config, written, botState, schema, linked, proc>>
        /\ proc = "migrate" /\ schema = 5
    BY <1>2, <1>8 DEF DropTrades
  <2> QED
    BY <1>2, <2>6, <2>7, StartFrame DEF KeysWritten
<1>9. CASE RenameTrades
  <2>1. /\ trades' = recorded /\ UNCHANGED recorded
        /\ migration' = NoMigration
    BY <1>9 DEF RenameTrades, RowsAreSafe
  <2>2. TableOK' /\ RowsAreSafe'
    BY <1>2, <2>1 DEF TableOK, RowsAreSafe
  <2>3. /\ UNCHANGED <<config, written, botState, linked, proc>>
        /\ schema' = 6 /\ proc = "migrate"
    BY <1>2, <1>9 DEF RenameTrades
  <2> QED
    BY <1>2, <2>1, <2>2, <2>3, StartFrame DEF KeysWritten
<1>10. CASE SetBotState
  <2> DEFINE k == ShownKeys[written + 1]
  <2>1. /\ proc = "state" /\ written < Len(ShownKeys)
        /\ written' = written + 1
        /\ botState' = [botState EXCEPT ![k] = config[k]]
        /\ UNCHANGED <<proc, config, schema, migration, trades, linked,
                       recorded>>
    BY <1>10 DEF SetBotState
  <2>2. k \in Keys /\ config \in Settings /\ config[k] \in Values
    BY <1>1, <1>2, <2>1 DEF KeysWritten, Settings
  <2>3. /\ botState' \in [Keys -> Values \cup {Default, Unset}]
        /\ \A j \in Keys : botState'[j] = IF j = k THEN config[k]
                                          ELSE botState[j]
    BY <1>2, <2>1, <2>2
  <2>4. StartTypeOK'
    BY <1>1, <1>2, <2>1, <2>3 DEF StartTypeOK
  <2>5. ASSUME NEW i \in 1..written'
        PROVE  botState'[ShownKeys[i]] = config'[ShownKeys[i]]
    <3>1. i \in 1..Len(ShownKeys) /\ (i = written + 1 \/ i \in 1..written)
      BY <1>1, <1>2, <2>1
    <3>2. ShownKeys[i] \in Keys
      BY <1>1, <3>1
    <3> QED
      BY <2>1, <2>3, <3>1, <3>2 DEF KeysWritten
  <2>6. KeysWritten'
    BY <1>2, <2>1, <2>2, <2>5 DEF KeysWritten
  <2> QED
    BY <2>1, <2>4, <2>6 DEF TableOK, RowsAreSafe
<1> QED
  BY <1>3, <1>4, <1>5, <1>6, <1>7, <1>8, <1>9, <1>10 DEF StartStep

\* The process ends wherever it is, and its open transaction is undone.
LEMMA ExitKeeps ==
    ASSUME StartInv, Exit, UNCHANGED day
    PROVE  StartInv'
<1>1. trades' = recorded /\ UNCHANGED recorded /\ migration' = NoMigration
  BY DEF StartInv, RowsAreSafe, Exit
<1>2. TableOK' /\ RowsAreSafe'
  BY <1>1 DEF StartInv, TableOK, RowsAreSafe
<1>3. Len(ShownKeys) \in Nat /\ Len(recorded) \in Nat
  BY ServerAssumption DEF StartInv, TableOK
<1>4. StartTypeOK'
  BY <1>1, <1>3 DEF StartInv, StartTypeOK, Exit, Procs
<1>5. KeysWritten'
  BY DEF Exit, KeysWritten
<1> QED
  BY <1>2, <1>4, <1>5 DEF StartInv

\* A trade is recorded outside the migration.
LEMMA InsertKeeps ==
    ASSUME StartInv, NEW status \in {"success", "failed"},
           InsertTrade(status)
    PROVE  StartInv'
<1> DEFINE t == [status |-> status, day |-> day]
<1>1. /\ trades \in Seq(Rows) /\ Len(trades) <= MaxTrades
      /\ day \in 0..MaxDay /\ migration = NoMigration /\ trades = recorded
      /\ MaxTrades \in Nat
  BY SessionAssumption DEF StartInv, TableOK, StartTypeOK, RowsAreSafe,
     InsertTrade
<1>2. /\ trades' = Append(trades, t) /\ recorded' = Append(recorded, t)
      /\ Len(trades) < MaxTrades /\ t \in Rows
      /\ UNCHANGED startVars /\ UNCHANGED day
  BY <1>1 DEF InsertTrade, Rows
<1> HIDE DEF t
<1>3. TableOK' /\ RowsAreSafe'
  BY <1>1, <1>2 DEF TableOK, RowsAreSafe, startVars
<1>4. proc # "down" /\ UNCHANGED <<proc, config, written, botState, schema,
                                   linked, migration>>
  BY <1>2 DEF InsertTrade, startVars
<1> QED
  BY <1>1, <1>3, <1>4, StartFrame DEF StartInv, StartTypeOK, KeysWritten

\* Neither the steps of the start nor those beside it disturb StartInv.
LEMMA StartInvStep == StartInv /\ [ServerNext]_serverVars => StartInv'
<1> SUFFICES ASSUME StartInv, [ServerNext]_serverVars PROVE StartInv'
  OBVIOUS
<1>1. CASE Starts
  BY <1>1, StartStepKeeps DEF Starts
<1>2. CASE Stops
  BY <1>2, ExitKeeps DEF Stops
<1>3. CASE NewDay
  <2>1. /\ day' \in 0..MaxDay
        /\ UNCHANGED startVars /\ UNCHANGED trades /\ UNCHANGED recorded
    BY <1>3, ServerAssumption DEF NewDay, StartInv, TableOK
  <2> QED
    BY <2>1 DEF startVars, StartInv, StartTypeOK, TableOK, RowsAreSafe,
       KeysWritten
<1>4. CASE InCall \/ InSession(SessionStep) \/ UNCHANGED serverVars
  BY <1>4 DEF InCall, InSession, serverVars, startVars, StartInv,
     StartTypeOK, TableOK, RowsAreSafe, KeysWritten
<1>5. ASSUME NEW status \in {"success", "failed"}, InsertTrade(status)
      PROVE  StartInv'
  BY <1>5, InsertKeeps
<1> QED
  BY <1>1, <1>2, <1>3, <1>4, <1>5 DEF ServerNext

\* Migration 0006, through or interrupted at any statement and tried again,
\* loses no trade: the copy and what a rollback restores are all rows.
THEOREM UpgradesKeepRows == ServerSpec => []UpgradeKeepsRows
<1>1. StartInv => UpgradeKeepsRows
  BY DEF StartInv, RowsAreSafe, UpgradeKeepsRows
<1> QED
  BY <1>1, StartStarts, StartInvStep, PTL DEF ServerSpec

\* However many starts failed between the writes, with whatever other
\* configuration, a process that serves has rewritten every key.
THEOREM ShownConfigHolds == ServerSpec => []ShownConfigIsInForce
<1>1. StartInv => ShownConfigIsInForce
  <2> SUFFICES ASSUME StartInv, proc = "serving", NEW k \in Keys
               PROVE  botState[k] = config[k]
    BY DEF ShownConfigIsInForce
  <2>1. PICK i \in DOMAIN ShownKeys : k = ShownKeys[i]
    BY DEF Keys
  <2>2. i \in 1..Len(ShownKeys)
    BY ServerAssumption
  <2> QED
    BY <2>1, <2>2 DEF StartInv, KeysWritten
<1> QED
  BY <1>1, StartStarts, StartInvStep, PTL DEF ServerSpec

-----------------------------------------------------------------------------
(* The session.  What was fetched and not yet sent are the ids that follow *)
(* last_trade_id, whatever has been recorded since.                        *)

\* Only a process that serves has a session, and one that has not read
\* MAX(id) yet has its locals as they were.
SessionBegins ==
    /\ proc # "serving" => phase = "closed"
    /\ phase \in {"closed", "auth", "max_id"} =>
         lastTradeId = 0 /\ since = 0 /\ rows = << >> /\ pushed = << >>

\* The rows of a push follow last_trade_id without a gap, and exist.
RowsFollow ==
    /\ since <= lastTradeId
    /\ lastTradeId + Len(rows) <= Len(trades)
    /\ \A i \in 1..Len(rows) : rows[i] = lastTradeId + i
    /\ rows # << >> => phase = "send"

SessionInv == SessionTypeOK /\ SessionBegins /\ RowsFollow /\ PushedInOrder

\* The table grew or stayed, and kept its rows.
Grew ==
    /\ Len(trades) <= Len(trades')
    /\ \A i \in Ids : trades'[i] = trades[i]

\* Consecutive ids, and the next one.
LEMMA NextIdFollows ==
    ASSUME NEW s \in Nat, NEW n \in Nat
    PROVE  Append([i \in 1..n |-> s + i], s + n + 1)
             = [i \in 1..(n + 1) |-> s + i]
<1> DEFINE f == [i \in 1..n |-> s + i]
           g == [i \in 1..(n + 1) |-> s + i]
           a == Append(f, s + n + 1)
<1>1. f \in Seq(Nat) /\ Len(f) = n /\ g \in Seq(Nat) /\ Len(g) = n + 1
  OBVIOUS
<1>2. /\ a \in Seq(Nat) /\ Len(a) = n + 1 /\ a[n + 1] = s + n + 1
      /\ \A i \in 1..n : a[i] = f[i]
  BY <1>1
<1>3. \A i \in 1..n : f[i] = s + i
  OBVIOUS
<1>4. \A i \in 1..(n + 1) : g[i] = s + i
  OBVIOUS
<1> HIDE DEF a, f, g
<1>5. ASSUME NEW i \in 1..(n + 1)
      PROVE  a[i] = g[i]
  <2>1. i = n + 1 \/ i \in 1..n
    OBVIOUS
  <2> QED
    BY <1>2, <1>3, <1>4, <2>1
<1>6. a = g
  BY <1>1, <1>2, <1>5
<1> QED
  BY <1>6 DEF a, f, g

\* A step beside a session leaves SessionInv, if the table only grows while
\* the session is open.
LEMMA SessionFrame ==
    ASSUME SessionInv, UNCHANGED sessionVars, TableOK, TableOK',
           phase = "closed" \/ Len(trades) <= Len(trades'),
           proc' # "serving" => phase = "closed"
    PROVE  SessionInv'
<1>1. Len(trades) \in Nat /\ Len(trades') \in Nat /\ Len(trades') <= MaxTrades
  BY DEF TableOK
<1>2. /\ UNCHANGED <<running, phase, valid, lastTradeId, rows, since, pushed>>
      /\ lastTradeId \in Nat
  BY SessionAssumption DEF sessionVars, pushVars, SessionInv, SessionTypeOK
<1>3. SessionTypeOK'
  BY <1>1, <1>2 DEF SessionInv, SessionTypeOK
<1>4. SessionBegins' /\ PushedInOrder'
  BY <1>2 DEF SessionInv, SessionBegins, PushedInOrder
<1>5. lastTradeId + Len(rows) <= Len(trades')
  <2>1. CASE phase = "closed"
    BY <1>1, <2>1 DEF SessionInv, SessionBegins
  <2>2. CASE Len(trades) <= Len(trades')
    <3>1. Len(rows) \in Nat /\ lastTradeId + Len(rows) <= Len(trades)
      BY DEF SessionInv, SessionTypeOK, RowsFollow
    <3> QED
      BY <1>1, <1>2, <2>2, <3>1
  <2> QED
    BY <2>1, <2>2
<1>6. RowsFollow'
  BY <1>2, <1>5 DEF SessionInv, RowsFollow
<1> QED
  BY <1>3, <1>4, <1>6 DEF SessionInv

\* A session that ends, or one that never was, has empty locals.
LEMMA EndedSession ==
    ASSUME TableOK', running' \in BOOLEAN, phase' = "closed",
           valid' = FALSE, lastTradeId' = 0, rows' = << >>, since' = 0,
           pushed' = << >>
    PROVE  SessionInv'
<1>1. Len(trades') \in Nat /\ Len(trades') <= MaxTrades /\ MaxTrades \in Nat
      /\ Batch \in Nat
  BY SessionAssumption DEF TableOK
<1>2. << >> \in Seq(1..MaxTrades) /\ Len(<< >>) = 0
  OBVIOUS
<1>3. SessionTypeOK'
  <2>1. valid' \in BOOLEAN
    OBVIOUS
  <2>2. 0 \in 0..MaxTrades /\ 0 <= Batch
    BY <1>1
  <2> QED
    BY <1>1, <1>2, <2>1, <2>2 DEF SessionTypeOK
<1>4. PushedInOrder'
  <2>1. [i \in 1..(0 - 0) |-> 0 + i] = << >>
    OBVIOUS
  <2> QED
    BY <2>1 DEF PushedInOrder
<1> QED
  BY <1>1, <1>2, <1>3, <1>4 DEF SessionInv, SessionBegins, RowsFollow

\* Every step of the session keeps SessionInv.
LEMMA SessionStepKeeps ==
    ASSUME SessionInv, SessionStep, TableOK, TableOK', UNCHANGED trades,
           proc = "serving", proc' = "serving"
    PROVE  SessionInv'
<1> USE DEF SessionInv
<1>1. /\ Len(trades) \in Nat /\ Len(trades) <= MaxTrades /\ MaxTrades \in Nat
      /\ Batch \in Nat \ {0} /\ running \in BOOLEAN /\ valid \in BOOLEAN
      /\ lastTradeId \in 0..MaxTrades /\ since \in 0..MaxTrades
      /\ rows \in Seq(1..MaxTrades) /\ Len(rows) <= Batch
      /\ pushed \in Seq(1..MaxTrades) /\ Len(rows) \in Nat
  BY SessionAssumption DEF TableOK, SessionTypeOK
<1>2. CASE Upgrade \/ Authenticate \/ Command \/ Tick \/ PushStatus
           \/ PushDone
  <2>1. /\ UNCHANGED <<lastTradeId, rows, since, pushed>>
        /\ running' \in BOOLEAN /\ valid' \in BOOLEAN
        /\ phase' \in {"auth", "max_id", "select", "status", "fetch"}
        /\ phase # "send" \/ rows = << >>
        /\ phase' \in {"auth", "max_id"} => phase \in {"closed", "auth"}
    BY <1>1, <1>2 DEF Upgrade, Authenticate, Command, Tick, PushStatus,
       PushDone, pushVars
  <2>2. SessionTypeOK'
    BY <1>1, <2>1 DEF SessionTypeOK
  <2>3. SessionBegins'
    BY <2>1 DEF SessionBegins
  <2>4. RowsFollow'
    BY <2>1 DEF RowsFollow
  <2> QED
    BY <2>1, <2>2, <2>3, <2>4 DEF PushedInOrder
<1>3. CASE ReadMaxId
  <2>1. PICK id \in {Len(trades), 0} : lastTradeId' = id /\ since' = id
    BY <1>3 DEF ReadMaxId
  <2>2. /\ phase' = "select" /\ UNCHANGED <<running, valid, rows, pushed>>
        /\ rows = << >> /\ pushed = << >> /\ Len(rows) = 0
        /\ id \in 0..MaxTrades /\ id <= Len(trades)
    BY <1>1, <1>3, <2>1 DEF ReadMaxId, SessionBegins
  <2>3. SessionTypeOK'
    BY <1>1, <2>1, <2>2 DEF SessionTypeOK
  <2>4. SessionBegins' /\ RowsFollow'
    BY <1>1, <2>1, <2>2 DEF SessionBegins, RowsFollow
  <2>5. PushedInOrder'
    <3>1. 1..(id - id) = {}
      BY <2>2
    <3>2. [i \in 1..(id - id) |-> id + i] = << >>
      BY <3>1
    <3> QED
      BY <2>1, <2>2, <3>2 DEF PushedInOrder
  <2> QED
    BY <2>3, <2>4, <2>5
<1>4. CASE FetchRows
  <2> DEFINE k == IF Len(trades) - lastTradeId < Batch
                  THEN Len(trades) - lastTradeId ELSE Batch
             r == [i \in 1..k |-> lastTradeId + i]
  <2>1. /\ rows' = r /\ phase' = "send" /\ phase = "fetch"
        /\ UNCHANGED <<running, valid, lastTradeId, since, pushed>>
    BY <1>4 DEF FetchRows
  <2>2. lastTradeId <= Len(trades)
    BY <1>1 DEF RowsFollow
  <2>3. k \in Nat /\ k <= Batch /\ lastTradeId + k <= Len(trades)
    BY <1>1, <2>2
  <2> HIDE DEF k
  <2>4. ASSUME NEW i \in 1..k
        PROVE  lastTradeId + i \in 1..MaxTrades
    BY <1>1, <2>3
  <2>5. r \in Seq(1..MaxTrades) /\ Len(r) = k
        /\ \A i \in 1..k : r[i] = lastTradeId + i
    BY <2>3, <2>4
  <2> HIDE DEF r
  <2>6. SessionTypeOK'
    BY <1>1, <2>1, <2>3, <2>5 DEF SessionTypeOK
  <2>7. RowsFollow'
    BY <1>1, <2>1, <2>3, <2>5 DEF RowsFollow
  <2> QED
    BY <2>1, <2>6, <2>7 DEF SessionBegins, PushedInOrder
<1>5. CASE SendRow
  <2>1. /\ phase = "send" /\ rows # << >> /\ lastTradeId' = Head(rows)
        /\ pushed' = Append(pushed, Head(rows)) /\ rows' = Tail(rows)
        /\ UNCHANGED <<running, phase, valid, since>>
    BY <1>5 DEF SendRow
  <2>2. /\ Len(rows) >= 1 /\ Head(rows) = rows[1]
        /\ Tail(rows) \in Seq(1..MaxTrades) /\ Len(Tail(rows)) = Len(rows) - 1
        /\ \A i \in 1..(Len(rows) - 1) : Tail(rows)[i] = rows[i + 1]
    BY <1>1, <2>1
  <2>3. Head(rows) = lastTradeId + 1 /\ lastTradeId + 1 \in 1..MaxTrades
    BY <1>1, <2>2 DEF RowsFollow
  <2>4. /\ since <= lastTradeId /\ lastTradeId + Len(rows) <= Len(trades)
        /\ \A i \in 1..Len(rows) : rows[i] = lastTradeId + i
    BY DEF RowsFollow
  <2>5. SessionTypeOK'
    BY <1>1, <2>1, <2>2, <2>3 DEF SessionTypeOK
  <2>6. \A i \in 1..Len(rows') : rows'[i] = lastTradeId' + i
    BY <1>1, <2>1, <2>2, <2>3, <2>4
  <2>7. RowsFollow'
    BY <1>1, <2>1, <2>2, <2>3, <2>4, <2>6 DEF RowsFollow
  <2>8. PushedInOrder'
    <3>1. /\ lastTradeId - since \in Nat /\ since \in Nat
          /\ since + (lastTradeId - since) + 1 = lastTradeId + 1
          /\ (lastTradeId + 1) - since = (lastTradeId - since) + 1
      BY <1>1, <2>4
    <3>2. Append([i \in 1..(lastTradeId - since) |-> since + i],
                 lastTradeId + 1)
            = [i \in 1..((lastTradeId - since) + 1) |-> since + i]
      BY <3>1, NextIdFollows
    <3> QED
      BY <2>1, <2>3, <3>1, <3>2 DEF PushedInOrder
  <2> QED
    BY <2>1, <2>5, <2>7, <2>8 DEF SessionBegins
<1>6. CASE Close
  BY <1>1, <1>6, EndedSession DEF Close, SessionEnds
<1> QED
  BY <1>2, <1>3, <1>4, <1>5, <1>6 DEF SessionStep, Push

\* While a process serves, the table only grows.
LEMMA TableGrows ==
    ASSUME StartInv, [ServerNext]_serverVars, proc = "serving",
           proc' = "serving"
    PROVE  Grew
<1>1. trades \in Seq(Rows) /\ Len(trades) \in Nat
  BY DEF StartInv, TableOK
<1>2. CASE UNCHANGED trades
  BY <1>1, <1>2 DEF Grew
<1>3. ASSUME NEW status \in {"success", "failed"}, InsertTrade(status)
      PROVE  Grew
  <2>1. PICK t : trades' = Append(trades, t)
    BY <1>3 DEF InsertTrade
  <2> QED
    BY <1>1, <2>1 DEF Grew, Ids
<1>4. ~ Starts /\ ~ Stops
  BY DEF StartInv, StartTypeOK, Starts, StartStep, Load, Connect, Migrate,
     CopyTrades, DropTrades, RenameTrades, MigrationsDone, FetchPoolMetadata,
     SetBotState, SpawnFeeds, SpawnScanner, Bind, Stops, Exit
<1> QED
  BY <1>2, <1>3, <1>4 DEF ServerNext, NewDay, InCall, InSession, serverVars

\* No step beside the session, the end of the process included, disturbs
\* SessionInv.
LEMMA SessionInvStep ==
    StartInv /\ SessionInv /\ [ServerNext]_serverVars => SessionInv'
<1> SUFFICES ASSUME StartInv, SessionInv, [ServerNext]_serverVars
             PROVE  SessionInv'
  OBVIOUS
<1>1. TableOK /\ TableOK'
  BY StartInvStep DEF StartInv
<1>2. CASE InSession(SessionStep)
  <2>1. SessionStep /\ proc = "serving" /\ proc' = "serving"
        /\ UNCHANGED trades
    BY <1>2 DEF InSession, startVars
  <2> QED
    BY <1>1, <2>1, SessionStepKeeps
<1>3. CASE Stops
  BY <1>1, <1>3, EndedSession DEF Stops, SessionEnds, SessionInv,
     SessionTypeOK
<1>4. CASE UNCHANGED sessionVars /\ ~ Stops
  <2>1. CASE proc = "serving"
    <3>1. proc' = "serving"
      BY <1>4, <2>1 DEF ServerNext, Starts, StartStep, Load, Connect,
         Migrate, CopyTrades, DropTrades, RenameTrades, MigrationsDone,
         FetchPoolMetadata, SetBotState, SpawnFeeds, SpawnScanner, Bind,
         NewDay, InCall, InSession, InsertTrade, serverVars, startVars
    <3>2. Len(trades) <= Len(trades')
      BY <2>1, <3>1, TableGrows DEF Grew
    <3> QED
      BY <1>1, <1>4, <3>1, <3>2, SessionFrame
  <2>2. CASE proc # "serving"
    <3>1. phase = "closed"
      BY <2>2 DEF SessionInv, SessionBegins
    <3> QED
      BY <1>1, <1>4, <3>1, SessionFrame
  <2> QED
    BY <2>1, <2>2
<1> QED
  BY <1>2, <1>3, <1>4 DEF ServerNext, Starts, NewDay, InCall, InsertTrade,
     serverVars

\* There is no session at the start.
LEMMA SessionStarts == ServerInit => SessionInv
<1> SUFFICES ASSUME ServerInit PROVE SessionInv
  OBVIOUS
<1>1. Len(trades) \in Nat /\ Len(trades) <= MaxTrades /\ MaxTrades \in Nat
      /\ Batch \in Nat
  BY StartStarts, SessionAssumption DEF StartInv, TableOK
<1>2. /\ << >> \in Seq(1..MaxTrades) /\ Len(<< >>) = 0
      /\ 0 \in 0..MaxTrades /\ 0 <= Batch
  BY <1>1
<1>3. SessionInit
  BY DEF ServerInit
<1>4. SessionTypeOK
  BY <1>1, <1>2, <1>3 DEF SessionInit, SessionTypeOK
<1>5. [i \in 1..(0 - 0) |-> 0 + i] = << >>
  OBVIOUS
<1> QED
  BY <1>1, <1>2, <1>3, <1>4, <1>5 DEF SessionInit, SessionInv,
     SessionBegins, RowsFollow, PushedInOrder

\* A client is sent consecutive trades from the one its session began with,
\* however many are recorded between a fetch and the sends that follow it.
THEOREM PushesInOrder == ServerSpec => []PushedInOrder
<1>1. SessionInv => PushedInOrder
  BY DEF SessionInv
<1> QED
  BY <1>1, StartStarts, StartInvStep, SessionStarts, SessionInvStep, PTL
     DEF ServerSpec

-----------------------------------------------------------------------------
(* The list of trades.  Every row has a place of its own; a row recorded   *)
(* later moves others towards the end, never towards the start.            *)

\* The rows at or before i.
UpTo(i) == {j \in Ids : j = i \/ Precedes(j, i)}

\* Ids are the numbers of the rows, and rows have days.
LEMMA TableIds ==
    ASSUME TableOK
    PROVE  /\ Ids = 1..Len(trades) /\ Len(trades) \in Nat
           /\ IsFiniteSet(Ids) /\ Cardinality(Ids) = Len(trades)
           /\ \A i \in Ids : trades[i] \in Rows /\ trades[i].day \in Nat
<1>1. Ids = 1..Len(trades) /\ Len(trades) \in Nat
  BY DEF TableOK, Ids
<1>2. IsFiniteSet(Ids) /\ Cardinality(Ids) = Len(trades)
  BY <1>1, FS_Interval
<1>3. \A i \in Ids : trades[i] \in Rows
  BY <1>1 DEF TableOK
<1>4. \A i \in Ids : trades[i].day \in Nat
  BY <1>3, ServerAssumption DEF Rows
<1> QED
  BY <1>1, <1>2, <1>3, <1>4

\* Places are places of the table.
LEMMA PlaceType ==
    ASSUME TableOK, NEW i \in Ids
    PROVE  /\ Place(i) \in 1..Len(trades) /\ IsFiniteSet(UpTo(i))
           /\ Place(i) = Cardinality(UpTo(i))
<1>1. UpTo(i) \in SUBSET Ids /\ i \in UpTo(i)
  BY DEF UpTo
<1>2. IsFiniteSet(UpTo(i)) /\ Cardinality(UpTo(i)) <= Len(trades)
  BY <1>1, TableIds, FS_Subset
<1>3. Cardinality(UpTo(i)) \in Nat /\ Cardinality(UpTo(i)) # 0
  BY <1>1, <1>2, FS_CardinalityType, FS_EmptySet
<1>4. Place(i) = Cardinality(UpTo(i))
  BY DEF Place, UpTo
<1> QED
  BY <1>2, <1>3, <1>4, TableIds

\* The list is ordered: of two rows one comes first.
LEMMA PlaceOrder ==
    ASSUME TableOK, NEW i \in Ids, NEW j \in Ids, Precedes(i, j)
    PROVE  Place(i) < Place(j)
<1>1. \A k \in Ids : trades[k].day \in Nat /\ k \in Nat
  BY TableIds
<1>2. j \notin UpTo(i) /\ j \in UpTo(j)
  BY <1>1 DEF UpTo, Precedes
<1>3. ASSUME NEW k \in UpTo(i)
      PROVE  k \in UpTo(j)
  BY <1>1 DEF UpTo, Precedes
<1>4. UpTo(i) \in SUBSET UpTo(j) /\ UpTo(i) # UpTo(j)
  BY <1>2, <1>3
<1>5. /\ Place(i) \in Nat /\ Place(i) = Cardinality(UpTo(i))
      /\ Place(j) \in Nat /\ Place(j) = Cardinality(UpTo(j))
      /\ IsFiniteSet(UpTo(j))
  BY PlaceType, TableIds
<1>6. /\ Cardinality(UpTo(i)) <= Cardinality(UpTo(j))
      /\ Cardinality(UpTo(i)) # Cardinality(UpTo(j))
  BY <1>4, <1>5, FS_Subset
<1> QED
  BY <1>5, <1>6

\* No two rows share a place.
LEMMA PlaceDistinct ==
    ASSUME TableOK, NEW i \in Ids, NEW j \in Ids, Place(i) = Place(j)
    PROVE  i = j
<1> SUFFICES ASSUME i # j PROVE FALSE
  OBVIOUS
<1>1. /\ trades[i].day \in Nat /\ trades[j].day \in Nat
      /\ i \in Nat /\ j \in Nat
  BY TableIds
<1>2. Precedes(i, j) \/ Precedes(j, i)
  BY <1>1 DEF Precedes
<1>3. Place(i) \in Nat /\ Place(j) \in Nat
  BY PlaceType, TableIds
<1> QED
  BY <1>2, <1>3, PlaceOrder

\* Listed is the table in the order of places: as many places as rows, so
\* none is free.
LEMMA ListedRows ==
    ASSUME TableOK
    PROVE  /\ Listed \in Seq(Ids) /\ Len(Listed) = Len(trades)
           /\ \A k \in Ids : Place(Listed[k]) = k
           /\ \A i \in Ids : Listed[Place(i)] = i
<1> DEFINE f == [i \in Ids |-> Place(i)]
<1>1. \A i \in Ids : Place(i) \in Ids
  BY PlaceType, TableIds
<1>2. f \in Injection(Ids, Ids)
  BY <1>1, PlaceDistinct DEF Injection, IsInjective
<1>3. f \in Surjection(Ids, Ids)
  BY <1>2, TableIds, FS_Injection
<1>4. \A k \in Ids : \E i \in Ids : Place(i) = k
  BY <1>3 DEF Surjection
<1>5. \A k \in Ids : Listed[k] \in Ids /\ Place(Listed[k]) = k
  BY <1>4 DEF Listed
<1>6. Listed = [k \in 1..Len(trades) |-> Listed[k]]
  BY TableIds DEF Listed
<1>7. Listed \in Seq(Ids) /\ Len(Listed) = Len(trades)
  BY <1>5, <1>6, TableIds
<1>8. \A i \in Ids : Listed[Place(i)] = i
  BY <1>1, <1>5, PlaceDistinct
<1> QED
  BY <1>5, <1>7, <1>8

\* A page holds the rows of its places, and is cut off where the list ends.
LEMMA PageRows ==
    ASSUME TableOK, NEW l \in Nat \ {0}, NEW o \in Nat, o <= Len(trades)
    PROVE  LET p == Page(l, o) IN
             /\ p \in Seq(Ids) /\ Len(p) <= l /\ o + Len(p) <= Len(trades)
             /\ p = << >> => o = Len(trades)
             /\ \A i \in Ids : Place(i) > o /\ Place(i) <= o + Len(p)
                  => \E k \in 1..Len(p) : p[k] = i
<1> DEFINE n == Len(trades)
           h == Lesser(o + l, n)
           p == Page(l, o)
<1>1. n \in Nat /\ Listed \in Seq(Ids) /\ Len(Listed) = n
  BY TableIds, ListedRows
<1>2. /\ h \in Nat /\ o <= h /\ h <= n /\ h <= o + l
      /\ o = h => o = n
  BY <1>1 DEF Lesser
<1>3. p = SubSeq(Listed, o + 1, h)
  BY DEF Page
<1> HIDE DEF h, p
<1>4. /\ p \in Seq(Ids) /\ Len(p) = h - o
      /\ \A k \in 1..(h - o) : p[k] = Listed[o + k]
  BY <1>1, <1>2, <1>3
<1>5. ASSUME NEW i \in Ids, Place(i) > o, Place(i) <= h
      PROVE  \E k \in 1..Len(p) : p[k] = i
  <2>1. Place(i) \in Nat /\ Listed[Place(i)] = i
    BY PlaceType, ListedRows, TableIds
  <2>2. Place(i) - o \in 1..(h - o) /\ o + (Place(i) - o) = Place(i)
    BY <1>2, <1>5, <2>1
  <2> QED
    BY <1>4, <2>1, <2>2
<1>6. p = << >> => o = n
  BY <1>2, <1>4
<1>7. Len(p) <= l /\ o + Len(p) = h
  BY <1>1, <1>2, <1>4
<1> QED
  BY <1>2, <1>4, <1>5, <1>6, <1>7 DEF p

\* As the table grows, no row moves towards the start.
LEMMA PlaceGrows ==
    ASSUME TableOK, TableOK', Grew, NEW i \in Ids
    PROVE  i \in Ids' /\ Place(i) <= Place(i)'
<1>1. /\ Ids = 1..Len(trades) /\ Len(trades) \in Nat
  BY TableIds
<1>2. Ids' = 1..Len(trades') /\ Len(trades') \in Nat
  BY DEF TableOK, Ids
<1>3. Ids \subseteq Ids' /\ \A j \in Ids : trades'[j] = trades[j]
  BY <1>1, <1>2 DEF Grew
<1>4. IsFiniteSet(Ids')
  BY <1>2, FS_Interval
<1> DEFINE U == {j \in Ids' : j = i \/ Precedes(j, i)'}
<1>5. Place(i)' = Cardinality(U)
  BY DEF Place
<1>6. IsFiniteSet(U)
  BY <1>4, FS_Subset
<1>7. ASSUME NEW j \in UpTo(i)
      PROVE  j \in U
  BY <1>3 DEF UpTo, Precedes
<1>8. UpTo(i) \in SUBSET U
  BY <1>7
<1> HIDE DEF U
<1>9. Cardinality(UpTo(i)) <= Cardinality(U)
  BY <1>6, <1>8, FS_Subset
<1> QED
  BY <1>3, <1>5, <1>9, PlaceType

-----------------------------------------------------------------------------
(* The calls.  A figure read by the first query bounds what the second can *)
(* read; a client that pages has every wanted row up to its offset.        *)

Calls == [kind : Kinds, step : {"second", "done"}, rows : Seq(Nat),
          since : Nat, day : Nat, first : Nat, second : Nat]
Pagers == [wanted : SUBSET Nat, seen : SUBSET Nat, offset : Nat,
           done : BOOLEAN]

\* Only a process that serves has calls.
CallsServed == proc # "serving" => call = NoCall /\ pager = NoPager

PagerOK ==
    pager # NoPager =>
        /\ pager \in Pagers
        /\ pager.wanted \subseteq Ids /\ pager.seen \subseteq Ids
        /\ pager.offset <= Len(trades)

CallOK ==
    call # NoCall =>
        /\ call \in Calls /\ Len(call.rows) <= MaxLimit
        /\ \A k \in 1..Len(call.rows) : call.rows[k] \in Ids
        /\ call.since <= Len(trades)
        /\ day = call.day \/ day = call.day + 1
        /\ call.kind = "page" => pager # NoPager

\* The successes of day d.
OfDay(d) == {i \in Ids : Succeeded(trades[i]) /\ trades[i].day = d}

\* What the first figure is, as the table grows.
FirstFigure ==
    call # NoCall =>
        /\ call.kind = "pnl" => call.first <= Cardinality(OfDay(call.day))
        /\ call.kind \in {"gas", "opportunities"} => call.first = call.since
        /\ call.kind = "page" => call.first <= Len(trades)

\* What the second figure is, once it is read.
SecondFigure ==
    call # NoCall /\ call.step = "done" =>
        /\ call.kind \in {"pnl", "page"} => call.first <= call.second
        /\ call.kind \in {"gas", "opportunities"} =>
             call.second <= call.first + (Len(trades) - call.since)

\* What a client that pages has received, and will have with this answer.
Received == {call.rows[k] : k \in 1..Len(call.rows)}
WantedUpTo(o) == {i \in pager.wanted : Place(i) <= o}
PagesCover ==
    pager # NoPager =>
        /\ WantedUpTo(pager.offset) \subseteq pager.seen
        /\ pager.done => pager.wanted \subseteq pager.seen
        /\ call # NoCall =>
             /\ WantedUpTo(call.first) \subseteq pager.seen \cup Received
             /\ call.rows = << >> => pager.wanted \subseteq pager.seen
             /\ call.step = "done" /\ call.first >= call.second =>
                  pager.wanted \subseteq pager.seen \cup Received
        /\ call # NoCall => call.kind = "page"

DashboardInv ==
    /\ CallsServed /\ PagerOK /\ CallOK /\ FirstFigure /\ SecondFigure
    /\ PagesCover

\* Counts are numbers of rows.
LEMMA CountBounds ==
    ASSUME TableOK, NEW S \in SUBSET Ids
    PROVE  /\ IsFiniteSet(S) /\ Cardinality(S) \in Nat
           /\ Cardinality(S) <= Len(trades)
BY TableIds, FS_Subset, FS_CardinalityType

\* A step beside the calls keeps DashboardInv, if the table only grows and
\* the day of a call does not end twice.
LEMMA DashboardFrame ==
    ASSUME DashboardInv, TableOK, TableOK', Grew, UNCHANGED <<call, pager>>,
           proc' = "serving",
           call # NoCall => day' = call.day \/ day' = call.day + 1
    PROVE  DashboardInv'
<1> USE DEF DashboardInv
<1>1. /\ Len(trades) \in Nat /\ Len(trades') \in Nat
      /\ Len(trades) <= Len(trades') /\ Ids \subseteq Ids'
      /\ \A i \in Ids : /\ trades'[i] = trades[i]
                        /\ Place(i) <= Place(i)'
  BY TableIds, PlaceGrows DEF Grew, TableOK
<1>2. CallsServed'
  BY DEF CallsServed
<1>3. PagerOK'
  BY <1>1 DEF PagerOK, Pagers
<1>4. CallOK'
  BY <1>1 DEF CallOK, Calls
<1>5. FirstFigure'
  <2>1. ASSUME call # NoCall, call.kind = "pnl"
        PROVE  call.first <= Cardinality(OfDay(call.day)')
    <3>1. OfDay(call.day) \in SUBSET (OfDay(call.day)')
      BY <1>1 DEF OfDay, Succeeded
    <3>2. IsFiniteSet(Ids')
      <4>1. Ids' = 1..Len(trades')
        BY DEF TableOK, Ids
      <4>2. 1 \in Int /\ Len(trades') \in Int
        BY <1>1
      <4>3. IsFiniteSet(1..Len(trades'))
        BY <4>2, FS_Interval
      <4> QED
        BY <4>1, <4>3
    <3>3. IsFiniteSet(OfDay(call.day)')
      <4>1. OfDay(call.day)' \in SUBSET Ids'
        BY DEF OfDay
      <4> QED
        BY <3>2, <4>1, FS_Subset
    <3>4. Cardinality(OfDay(call.day)) <= Cardinality(OfDay(call.day)')
          /\ IsFiniteSet(OfDay(call.day))
      BY <3>1, <3>3, FS_Subset
    <3>5. Cardinality(OfDay(call.day)) \in Nat
          /\ Cardinality(OfDay(call.day)') \in Nat
      BY <3>3, <3>4, FS_CardinalityType
    <3>6. call.first \in Nat /\ call.first <= Cardinality(OfDay(call.day))
      BY <2>1 DEF CallOK, Calls, FirstFigure
    <3> QED
      BY <3>4, <3>5, <3>6
  <2>2. ASSUME call # NoCall, call.kind = "page"
        PROVE  call.first <= Len(trades')
    BY <1>1, <2>2 DEF CallOK, Calls, FirstFigure
  <2> QED
    BY <2>1, <2>2 DEF FirstFigure
<1>6. SecondFigure'
  BY <1>1 DEF SecondFigure, CallOK, Calls
<1>7. PagesCover'
  <2> SUFFICES ASSUME pager # NoPager
               PROVE  /\ WantedUpTo(pager.offset)' \subseteq pager.seen
                      /\ call # NoCall => WantedUpTo(call.first)'
                           \subseteq pager.seen \cup Received
    BY DEF PagesCover, Received
  <2>1. ASSUME NEW o \in Nat
        PROVE  WantedUpTo(o)' \subseteq WantedUpTo(o)
    <3> SUFFICES ASSUME NEW i \in pager.wanted, Place(i)' <= o
                 PROVE  Place(i) <= o
      BY DEF WantedUpTo
    <3>1. i \in Ids
      BY DEF PagerOK
    <3>2. Place(i) <= Place(i)'
      BY <1>1, <3>1
    <3>3. Place(i) \in Nat
      BY <3>1, PlaceType, TableIds
    <3>4. Place(i)' \in Nat
      <4>1. i \in Ids'
        BY <1>1, <3>1
      <4>2. {j \in Ids' : j = i \/ Precedes(j, i)'}
              \in SUBSET (1..Len(trades'))
        BY DEF TableOK, Ids
      <4>3. IsFiniteSet(1..Len(trades'))
        <5>1. 1 \in Int /\ Len(trades') \in Int
          BY <1>1
        <5> QED
          BY <5>1, FS_Interval
      <4>4. IsFiniteSet({j \in Ids' : j = i \/ Precedes(j, i)'})
        BY <4>2, <4>3, FS_Subset
      <4> QED
        BY <4>4, FS_CardinalityType DEF Place
    <3> QED
      BY <3>2, <3>3, <3>4
  <2>2. pager.offset \in Nat
    BY DEF PagerOK, Pagers
  <2>3. WantedUpTo(pager.offset)' \subseteq pager.seen
    <3>1. WantedUpTo(pager.offset)' \subseteq WantedUpTo(pager.offset)
      BY <2>1, <2>2 DEF WantedUpTo
    <3> QED
      BY <3>1 DEF PagesCover
  <2>4. ASSUME call # NoCall
        PROVE  WantedUpTo(call.first)' \subseteq pager.seen \cup Received
    <3>1. call.first \in Nat
      BY <2>4 DEF CallOK, Calls
    <3>2. WantedUpTo(call.first)' \subseteq WantedUpTo(call.first)
      BY <2>1, <3>1 DEF WantedUpTo
    <3> QED
      BY <2>4, <3>2 DEF PagesCover
  <2> QED
    BY <2>3, <2>4
<1> QED
  BY <1>2, <1>3, <1>4, <1>5, <1>6, <1>7

\* What the first query of each handler returns.
LEMMA FirstQueryIs ==
    ASSUME TableOK, NEW r
    PROVE  /\ FirstQuery("pnl", r) = Cardinality(OfDay(day))
           /\ FirstQuery("gas", r) = Len(trades)
           /\ FirstQuery("opportunities", r) = Len(trades)
           /\ FirstQuery("page", r) = pager.offset + Len(r)
<1>1. Count(Today) = Cardinality(OfDay(day))
  BY DEF Count, Today, OfDay
<1>2. FirstQuery("pnl", r) = Count(Today)
  BY DEF FirstQuery
<1> QED
  BY <1>1, <1>2 DEF FirstQuery

\* What the second query returns: within the week there are the successes of
\* its last two days, at midnight too.
LEMMA SecondQueryIs ==
    ASSUME TableOK, NEW d \in Nat, day = d \/ day = d + 1, NEW k
    PROVE  /\ SecondQuery("pnl", k) \in Nat
           /\ Cardinality(OfDay(d)) <= SecondQuery("pnl", k)
           /\ SecondQuery("gas", k) \in 0..Len(trades)
           /\ SecondQuery("opportunities", k) \in 0..Len(trades)
           /\ SecondQuery("page", k) = Len(trades)
<1> DEFINE W == {i \in Ids : ThisWeek(i, k)}
           S == {i \in Ids : Succeeded(trades[i])}
<1>1. W \in SUBSET Ids /\ S \in SUBSET Ids
  OBVIOUS
<1>2. /\ IsFiniteSet(W) /\ Cardinality(W) \in Nat
      /\ Cardinality(S) \in Nat /\ Cardinality(S) <= Len(trades)
      /\ Len(trades) \in Nat
  BY <1>1, CountBounds, TableIds
<1>3. OfDay(d) \in SUBSET W
  <2> SUFFICES ASSUME NEW i \in OfDay(d) PROVE i \in W
    OBVIOUS
  <2>1. i \in Ids /\ Succeeded(trades[i]) /\ trades[i].day = d
    BY DEF OfDay
  <2>2. d + Week > day
    BY ServerAssumption
  <2> QED
    BY <2>1, <2>2 DEF ThisWeek
<1>4. Cardinality(OfDay(d)) <= Cardinality(W)
  BY <1>2, <1>3, FS_Subset
<1>5. WeekTrades(k) = Cardinality(W) /\ Count(Succeeded) = Cardinality(S)
  BY DEF Count, WeekTrades
<1> HIDE DEF W, S
<1>6. SecondQuery("pnl", k) = Cardinality(W)
  BY <1>5 DEF SecondQuery
<1>7. SecondQuery("gas", k) = Len(trades) - Cardinality(S)
  BY <1>5 DEF SecondQuery
<1>8. SecondQuery("opportunities", k) = Cardinality(S)
  BY <1>5 DEF SecondQuery
<1>9. SecondQuery("page", k) = Len(trades)
  BY DEF SecondQuery
<1> QED
  BY <1>2, <1>4, <1>6, <1>7, <1>8, <1>9

\* A call has its first figure.
LEMMA CalledIs ==
    ASSUME TableOK, NEW kind \in Kinds, NEW r \in Seq(Ids),
           kind = "page" => pager.offset \in Nat
    PROVE  LET c == Called(kind, r) IN
             /\ c \in Calls /\ c.kind = kind /\ c.step = "second"
             /\ c.rows = r /\ c.since = Len(trades) /\ c.day = day
             /\ kind = "pnl" => c.first = Cardinality(OfDay(day))
             /\ kind \in {"gas", "opportunities"} => c.first = Len(trades)
             /\ kind = "page" => c.first = pager.offset + Len(r)
<1>1. Len(trades) \in Nat /\ day \in Nat /\ Ids \subseteq Nat
  BY TableIds, ServerAssumption DEF TableOK
<1>2. OfDay(day) \in SUBSET Ids
  BY DEF OfDay
<1>3. Cardinality(OfDay(day)) \in Nat
  BY <1>2, CountBounds
<1>4. r \in Seq(Nat) /\ Len(r) \in Nat
  <2>1. Len(r) \in Nat /\ \A k \in 1..Len(r) : r[k] \in Ids
    OBVIOUS
  <2>2. r = [k \in 1..Len(r) |-> r[k]]
    OBVIOUS
  <2>3. \A k \in 1..Len(r) : r[k] \in Nat
    BY <1>1, <2>1
  <2> QED
    BY <2>1, <2>2, <2>3
<1>5. FirstQuery(kind, r) \in Nat
  BY <1>1, <1>3, <1>4, FirstQueryIs DEF Kinds
<1>6. Called(kind, r) \in Calls
  BY <1>1, <1>4, <1>5 DEF Called, Calls
<1> QED
  BY <1>6, FirstQueryIs DEF Called

\* Every step of a call and of a client that pages keeps DashboardInv.
LEMMA DashboardStepKeeps ==
    ASSUME DashboardInv, TableOK, DashboardStep, proc = "serving",
           UNCHANGED <<proc, trades, day>>
    PROVE  DashboardInv'
<1> USE DEF DashboardInv
<1>1. /\ Len(trades) \in Nat /\ Ids = 1..Len(trades) /\ day \in Nat
      /\ Ids' = Ids /\ Len(trades') = Len(trades)
      /\ \A i : Place(i)' = Place(i)
      /\ \A d : OfDay(d)' = OfDay(d)
  BY TableIds, ServerAssumption
     DEF Place, Precedes, OfDay, Succeeded, Ids, TableOK
<1>2. CallsServed'
  BY DEF CallsServed
<1>3. ASSUME NEW kind \in Kinds \ {"page"}, Stats(kind)
      PROVE  DashboardInv'
  <2>1. /\ call' = Called(kind, << >>) /\ pager' = pager /\ pager = NoPager
        /\ << >> \in Seq(Ids) /\ Len(<< >>) = 0
    BY <1>3 DEF Stats
  <2>2. /\ call' \in Calls /\ call'.kind = kind /\ call'.step = "second"
        /\ call'.rows = << >> /\ call'.since = Len(trades)
        /\ call'.day = day
        /\ kind = "pnl" => call'.first = Cardinality(OfDay(day))
        /\ kind \in {"gas", "opportunities"} => call'.first = Len(trades)
    BY <2>1, CalledIs
  <2>3. Cardinality(OfDay(day)) \in Nat
    <3>1. OfDay(day) \in SUBSET Ids
      BY DEF OfDay
    <3> QED
      BY <3>1, CountBounds
  <2>4. CallOK'
    BY <1>1, <2>1, <2>2, ServerAssumption DEF CallOK
  <2>5. FirstFigure'
    BY <1>1, <2>2, <2>3 DEF FirstFigure
  <2>6. SecondFigure'
    BY <2>2 DEF SecondFigure
  <2> QED
    BY <1>2, <2>1, <2>4, <2>5, <2>6 DEF PagerOK, PagesCover
<1>4. CASE BeginPaging
  <2> DEFINE p == [wanted |-> Ids, seen |-> {}, offset |-> 0, done |-> FALSE]
  <2>1. call' = NoCall /\ pager' = p
    BY <1>4 DEF BeginPaging
  <2>2. /\ p \in Pagers /\ p.wanted = Ids /\ p.seen = {} /\ p.offset = 0
        /\ p.done = FALSE
    BY <1>1 DEF Pagers
  <2> HIDE DEF p
  <2>3. PagerOK'
    BY <1>1, <2>1, <2>2 DEF PagerOK
  <2>4. \A i \in Ids : ~(Place(i) <= 0)
    BY <1>1, PlaceType
  <2>5. WantedUpTo(pager.offset)' = {}
    BY <1>1, <2>1, <2>2, <2>4 DEF WantedUpTo
  <2>6. PagesCover'
    BY <2>1, <2>2, <2>5 DEF PagesCover
  <2> QED
    BY <1>2, <2>1, <2>3, <2>6 DEF CallOK, FirstFigure, SecondFigure
<1>5. ASSUME NEW limit \in Limits, TradesList(limit)
      PROVE  DashboardInv'
  <2> DEFINE l == Lesser(limit, MaxLimit)
             o == pager.offset
             r == Page(l, o)
  <2>1. /\ call' = Called("page", r) /\ pager' = pager /\ pager # NoPager
        /\ call = NoCall
    BY <1>5 DEF TradesList
  <2>2. l \in Nat \ {0} /\ l <= MaxLimit /\ MaxLimit \in Nat
    BY ServerAssumption DEF Lesser
  <2>3. o \in Nat /\ o <= Len(trades)
    BY <2>1 DEF PagerOK, Pagers
  <2> HIDE DEF l, o
  <2>4. /\ r \in Seq(Ids) /\ Len(r) <= l /\ o + Len(r) <= Len(trades)
        /\ r = << >> => o = Len(trades)
        /\ \A i \in Ids : Place(i) > o /\ Place(i) <= o + Len(r)
             => \E k \in 1..Len(r) : r[k] = i
    BY <2>2, <2>3, PageRows
  <2>5. /\ call' \in Calls /\ call'.kind = "page" /\ call'.step = "second"
        /\ call'.rows = r /\ call'.since = Len(trades)
        /\ call'.day = day /\ call'.first = o + Len(r)
    BY <2>1, <2>3, <2>4, CalledIs DEF Kinds, o
  <2> USE DEF o
  <2> HIDE DEF r
  <2>6. CallOK'
    <3>1. Len(r) \in Nat /\ \A k \in 1..Len(r) : r[k] \in Ids
      BY <2>4
    <3> QED
      BY <1>1, <2>1, <2>2, <2>4, <2>5, <3>1 DEF CallOK
  <2>7. FirstFigure' /\ SecondFigure'
    BY <1>1, <2>4, <2>5 DEF FirstFigure, SecondFigure
  <2>8. pager.wanted \subseteq Ids /\ WantedUpTo(o) \subseteq pager.seen
    BY <2>1 DEF PagerOK, PagesCover
  <2>9. ASSUME NEW i \in pager.wanted, Place(i) <= o + Len(r)
        PROVE  i \in pager.seen \cup Received'
    <3>1. i \in Ids /\ Place(i) \in Nat
      BY <1>1, <2>8, PlaceType
    <3>2. CASE Place(i) <= o
      BY <2>8, <3>2 DEF WantedUpTo
    <3>3. CASE Place(i) > o
      <4>1. PICK k \in 1..Len(r) : r[k] = i
        BY <2>4, <2>9, <3>1, <3>3
      <4> QED
        BY <2>5, <4>1 DEF Received
    <3> QED
      BY <2>3, <3>1, <3>2, <3>3
  <2>10. r = << >> => pager.wanted \subseteq pager.seen
    <3> SUFFICES ASSUME r = << >>, NEW i \in pager.wanted
                 PROVE  i \in pager.seen
      OBVIOUS
    <3>1. i \in Ids /\ Place(i) <= Len(trades)
      BY <1>1, <2>8, PlaceType
    <3>2. i \in WantedUpTo(o)
      BY <2>4, <3>1 DEF WantedUpTo
    <3> QED
      BY <2>8, <3>2
  <2>11. PagesCover'
    <3>1. WantedUpTo(call.first)' \subseteq pager.seen \cup Received'
      BY <1>1, <2>1, <2>5, <2>9 DEF WantedUpTo
    <3>2. WantedUpTo(pager.offset)' \subseteq pager.seen
      BY <1>1, <2>1, <2>8 DEF WantedUpTo
    <3> QED
      BY <2>1, <2>5, <2>10, <3>1, <3>2 DEF PagesCover
  <2> QED
    BY <1>1, <1>2, <2>1, <2>6, <2>7, <2>11 DEF PagerOK
<1>6. CASE Reread
  <2>0. PICK k \in 0..Len(trades) :
          call' = [call EXCEPT !.step = "done",
                               !.second = SecondQuery(call.kind, k)]
    BY <1>6 DEF Reread
  <2> DEFINE s == SecondQuery(call.kind, k)
  <2>1. /\ call # NoCall /\ call.step = "second" /\ pager' = pager
        /\ call' = [call EXCEPT !.step = "done", !.second = s]
    BY <1>6, <2>0 DEF Reread
  <2>2. /\ call \in Calls /\ call.day \in Nat /\ call.kind \in Kinds
        /\ call.first \in Nat /\ call.since \in Nat
        /\ call.since <= Len(trades)
        /\ day = call.day \/ day = call.day + 1
    BY <2>1 DEF CallOK, Calls
  <2>3. /\ SecondQuery("pnl", k) \in Nat
        /\ Cardinality(OfDay(call.day)) <= SecondQuery("pnl", k)
        /\ SecondQuery("gas", k) \in 0..Len(trades)
        /\ SecondQuery("opportunities", k) \in 0..Len(trades)
        /\ SecondQuery("page", k) = Len(trades)
    BY <2>2, SecondQueryIs
  <2>4. s \in Nat
    BY <1>1, <2>2, <2>3 DEF Kinds
  <2> HIDE DEF s
  <2>5. /\ call' \in Calls /\ call'.step = "done" /\ call'.second = s
        /\ call'.kind = call.kind /\ call'.rows = call.rows
        /\ call'.since = call.since /\ call'.day = call.day
        /\ call'.first = call.first
    BY <2>1, <2>2, <2>4 DEF Calls
  <2>6. CallOK'
    BY <1>1, <2>1, <2>5 DEF CallOK
  <2>7. FirstFigure'
    BY <1>1, <2>1, <2>5 DEF FirstFigure
  <2>8. Cardinality(OfDay(call.day)) \in Nat
    <3>1. OfDay(call.day) \in SUBSET Ids
      BY DEF OfDay
    <3> QED
      BY <3>1, CountBounds
  <2>9. SecondFigure'
    <3>1. call.kind = "pnl" => call.first <= s
      BY <2>1, <2>2, <2>3, <2>8 DEF FirstFigure, s
    <3>2. call.kind = "page" => call.first <= s
      BY <2>1, <2>2, <2>3 DEF FirstFigure, s
    <3>3. call.kind \in {"gas", "opportunities"} =>
            s <= call.first + (Len(trades) - call.since)
      BY <1>1, <2>1, <2>2, <2>3 DEF FirstFigure, s
    <3> QED
      BY <1>1, <2>5, <3>1, <3>2, <3>3 DEF SecondFigure
  <2>10. PagesCover'
    <3> SUFFICES ASSUME pager # NoPager
                 PROVE  PagesCover'
      BY <2>1 DEF PagesCover
    <3>1. /\ Received' = Received
          /\ WantedUpTo(pager.offset)' = WantedUpTo(pager.offset)
          /\ WantedUpTo(call.first)' = WantedUpTo(call.first)
      BY <1>1, <2>1, <2>5 DEF Received, WantedUpTo
    <3>2. call.kind = "page" /\ pager.wanted \subseteq Ids
      BY <2>1 DEF PagesCover, PagerOK
    <3>3. ASSUME call.first >= s, NEW i \in pager.wanted
          PROVE  i \in pager.seen \cup Received
      <4>1. i \in Ids /\ Place(i) \in Nat /\ Place(i) <= Len(trades)
        BY <1>1, <3>2, PlaceType
      <4>2. Place(i) <= call.first
        BY <1>1, <2>2, <2>3, <3>2, <3>3, <4>1 DEF s
      <4>3. i \in WantedUpTo(call.first)
        BY <4>2 DEF WantedUpTo
      <4> QED
        BY <2>1, <4>3 DEF PagesCover
    <3> QED
      BY <2>1, <2>5, <3>1, <3>3 DEF PagesCover
  <2> QED
    BY <1>1, <1>2, <2>1, <2>6, <2>7, <2>9, <2>10 DEF PagerOK
<1>7. CASE Answer
  <2>1. call # NoCall /\ call.step = "done" /\ call' = NoCall
    BY <1>7 DEF Answer
  <2>2. CallOK' /\ FirstFigure' /\ SecondFigure'
    BY <2>1 DEF CallOK, FirstFigure, SecondFigure
  <2>3. CASE call.kind # "page"
    <3>1. pager' = pager /\ pager = NoPager
      BY <1>7, <2>1, <2>3 DEF Answer, PagesCover
    <3> QED
      BY <1>2, <2>2, <3>1 DEF PagerOK, PagesCover
  <2>4. CASE call.kind = "page"
    <3>1. /\ pager # NoPager /\ pager \in Pagers
          /\ pager.wanted \subseteq Ids /\ pager.seen \subseteq Ids
          /\ call \in Calls /\ call.first \in Nat /\ call.rows \in Seq(Nat)
          /\ call.second \in Nat
          /\ \A k \in 1..Len(call.rows) : call.rows[k] \in Ids
          /\ call.first <= Len(trades)
      BY <2>1, <2>4 DEF CallOK, PagerOK, Calls, FirstFigure
    <3>2. Received = {call.rows[i] : i \in DOMAIN call.rows}
      BY <3>1 DEF Received
    <3>3. Received \subseteq Ids
      BY <3>1 DEF Received
    <3> DEFINE d == call.rows = << >> \/ call.first >= call.second
               S == pager.seen \cup Received
    <3>4. pager' = [pager EXCEPT !.seen = S, !.offset = call.first,
                                 !.done = d]
      BY <1>7, <2>4, <3>2 DEF Answer
    <3>5. /\ pager' \in Pagers /\ pager'.wanted = pager.wanted
          /\ pager'.seen = S /\ pager'.offset = call.first
          /\ pager'.done = d
      <4>1. d \in BOOLEAN
        OBVIOUS
      <4>2. S \in SUBSET Nat
        <5>1. Ids \subseteq Nat
          BY <1>1
        <5>2. S \subseteq Ids
          BY <3>1, <3>3
        <5> QED
          BY <5>1, <5>2
      <4> HIDE DEF d, S
      <4> QED
        BY <3>1, <3>4, <4>1, <4>2 DEF Pagers
    <3>6. PagerOK'
      BY <1>1, <3>1, <3>3, <3>5 DEF PagerOK
    <3>7. WantedUpTo(pager.offset)' = WantedUpTo(call.first)
      BY <1>1, <3>5 DEF WantedUpTo
    <3>8. PagesCover'
      BY <2>1, <3>1, <3>5, <3>7 DEF PagesCover
    <3> QED
      BY <1>2, <2>2, <3>6, <3>8
  <2> QED
    BY <2>3, <2>4
<1>8. CASE EndPaging
  BY <1>2, <1>8 DEF EndPaging, PagerOK, CallOK, FirstFigure, SecondFigure,
     PagesCover
<1>9. CASE Fail
  <2>1. call' = NoCall /\ pager' = pager
    BY <1>9 DEF Fail
  <2>2. WantedUpTo(pager.offset)' = WantedUpTo(pager.offset)
    BY <1>1, <2>1 DEF WantedUpTo
  <2> QED
    BY <1>1, <1>2, <2>1, <2>2 DEF PagerOK, CallOK, FirstFigure,
       SecondFigure, PagesCover
<1> QED
  BY <1>3, <1>4, <1>5, <1>6, <1>7, <1>8, <1>9 DEF DashboardStep

\* No call outlives the process, and the start of one finds none.
LEMMA DashboardInvStep ==
    StartInv /\ DashboardInv /\ [ServerNext]_serverVars => DashboardInv'
<1> SUFFICES ASSUME StartInv, DashboardInv, [ServerNext]_serverVars
             PROVE  DashboardInv'
  OBVIOUS
<1>1. TableOK /\ TableOK'
  BY StartInvStep DEF StartInv
<1>2. CASE InCall
  BY <1>1, <1>2, DashboardStepKeeps DEF InCall, startVars
<1>3. ASSUME call' = NoCall, pager' = NoPager
      PROVE  DashboardInv'
  BY <1>3 DEF DashboardInv, CallsServed, PagerOK, CallOK, FirstFigure,
     SecondFigure, PagesCover
<1>4. CASE Stops
  BY <1>3, <1>4 DEF Stops
<1>5. CASE UNCHANGED viewVars /\ ~ Stops
  <2>1. UNCHANGED <<call, pager>>
    BY <1>5 DEF viewVars
  <2>2. CASE proc # "serving"
    <3>1. call = NoCall /\ pager = NoPager
      BY <2>2 DEF DashboardInv, CallsServed
    <3> QED
      BY <1>3, <2>1, <3>1
  <2>3. CASE proc = "serving"
    <3>1. proc' = "serving"
      BY <1>5, <2>3 DEF ServerNext, Starts, StartStep, Load, Connect,
         Migrate, CopyTrades, DropTrades, RenameTrades, MigrationsDone,
         FetchPoolMetadata, SetBotState, SpawnFeeds, SpawnScanner, Bind,
         NewDay, InCall, InSession, InsertTrade, serverVars, startVars
    <3>2. Grew
      BY <2>3, <3>1, TableGrows
    <3>3. \/ day' = day
          \/ day' = day + 1 /\ (call # NoCall => day = call.day)
      BY <1>5 DEF ServerNext, Starts, NewDay, InCall, InSession,
         InsertTrade, serverVars
    <3>4. call # NoCall => day' = call.day \/ day' = call.day + 1
      BY <3>3 DEF DashboardInv, CallOK
    <3> QED
      BY <1>1, <2>1, <3>1, <3>2, <3>4, DashboardFrame
  <2> QED
    BY <2>2, <2>3
<1> QED
  BY <1>2, <1>4, <1>5 DEF ServerNext, Starts, NewDay, InSession,
     InsertTrade, serverVars

\* There is no call at the start.
LEMMA DashboardStarts == ServerInit => DashboardInv
BY DEF ServerInit, DashboardInit, DashboardInv, CallsServed, PagerOK,
   CallOK, FirstFigure, SecondFigure, PagesCover

\* A client that pages to the end of the list has every trade it set out
\* for: rows recorded meanwhile push others behind its offset, never before.
THEOREM PagingIsComplete == ServerSpec => []PagingMissesNothing
<1>1. DashboardInv => PagingMissesNothing
  BY DEF DashboardInv, PagesCover, PagingMissesNothing
<1> QED
  BY <1>1, StartStarts, StartInvStep, DashboardStarts, DashboardInvStep, PTL
     DEF ServerSpec

\* Two queries of one handler, with trades recorded and a midnight between
\* them, give figures that fit as far as AnswersAreConsistent says.
THEOREM AnswersConsistent == ServerSpec => []AnswersAreConsistent
<1>1. DashboardInv => AnswersAreConsistent
  BY DEF DashboardInv, CallOK, Calls, Kinds, SecondFigure,
     AnswersAreConsistent
<1> QED
  BY <1>1, StartStarts, StartInvStep, DashboardStarts, DashboardInvStep, PTL
     DEF ServerSpec

\* The process, its session and its calls keep their types: no push exceeds
\* Batch rows and no page MaxLimit, and only ids of the table are listed.
THEOREM ServerTypeCorrect == ServerSpec => []ServerTypeOK
<1>1. DashboardInv => DashboardTypeOK
  BY DEF DashboardInv, PagerOK, Pagers, CallOK, Calls, DashboardTypeOK
<1>2. StartInv /\ SessionInv /\ DashboardInv => ServerTypeOK
  BY <1>1 DEF StartInv, TableOK, SessionInv, ServerTypeOK
<1> QED
  BY <1>2, StartStarts, StartInvStep, SessionStarts, SessionInvStep,
     DashboardStarts, DashboardInvStep, PTL DEF ServerSpec

=============================================================================
