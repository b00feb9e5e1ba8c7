------------------------------ MODULE Startup -------------------------------
(***************************************************************************)
(* The start of the process (zelvex-bin/src/main.rs): configuration from a *)
(* file and the environment (zelvex-config/src/lib.rs), the migrations of  *)
(* the database (zelvex-db), the rows of bot_state that the API shows, the *)
(* executor, the listener.  Everything may fail, and the process may end,  *)
(* at any step; the database outlives it.                                  *)
(*                                                                         *)
(* sqlx runs a migration in a transaction, with foreign keys enforced: the *)
(* PRAGMA of 0006 has no effect inside one.  A transaction that is not     *)
(* committed is undone by SQLite, at the latest when the file is opened    *)
(* again.                                                                  *)
(***************************************************************************)
EXTENDS Naturals, Sequences

CONSTANTS ShownKeys,   \* keys of bot_state main writes, in order
          Values,      \* values a setting can have
          Default,     \* what migration 0005 inserts
          Unset, Bad,  \* a variable that is not set; one that does not parse
          NoConfig, NoMigration

VARIABLES proc,        \* where main is
          config,      \* settings in force, none while it is down
          written,     \* rows of bot_state written by this start
          schema,      \* migrations applied, 0 to 6
          migration,   \* the open transaction of migration 0006
          trades,      \* table trades
          linked,      \* an opportunity refers to a row of trades
          botState,    \* rows of bot_state, Unset before 0005
          recorded     \* all trades ever recorded (history)

Keys == {ShownKeys[i] : i \in DOMAIN ShownKeys}
Settings == [Keys -> Values]
Procs == {"down", "connect", "migrate", "metadata", "state", "executor",
          "bind", "serving"}

StartTypeOK ==
    /\ proc \in Procs
    /\ config \in Settings \cup {NoConfig}
    /\ written \in 0..Len(ShownKeys)
    /\ schema \in 0..6
    /\ migration # NoMigration => proc = "migrate" /\ schema = 5
    /\ linked \in BOOLEAN
    /\ botState \in [Keys -> Values \cup {Default, Unset}]
    /\ Len(recorded) >= Len(trades)

\* A machine without a database, or with one of an older release (`old` is
\* its table trades, `links` whether opportunities refer to it).
StartInit(old, links) ==
    /\ proc = "down"
    /\ config = NoConfig
    /\ written = 0
    /\ schema = IF old = << >> THEN 0 ELSE 5
    /\ migration = NoMigration
    /\ trades = old
    /\ linked = links
    /\ botState = [k \in Keys |-> IF old = << >> THEN Unset ELSE Default]
    /\ recorded = old

-----------------------------------------------------------------------------
\* apply_env_overrides: a variable that is set replaces the file's value.
ApplyEnvOverrides(file, env) ==
    [k \in Keys |-> IF env[k] = Unset THEN file[k] ELSE env[k]]

\* The file is read and parsed; one bad variable ends the start.
Load(file, env) ==
    /\ proc = "down"
    /\ \A k \in Keys : env[k] # Bad
    /\ config' = ApplyEnvOverrides(file, env)
    /\ proc' = "connect"
    /\ UNCHANGED <<written, schema, migration, trades, linked, botState,
                   recorded>>

Connect ==
    /\ proc = "connect"
    /\ proc' = "migrate"
    /\ UNCHANGED <<config, written, schema, migration, trades, linked,
                   botState, recorded>>

\* Migrations 0001 to 0005 create tables; 0005 fills bot_state.
Migrate ==
    /\ proc = "migrate"
    /\ schema < 5
    /\ schema' = schema + 1
    /\ botState' = IF schema' = 5 THEN [k \in Keys |-> Default] ELSE botState
    /\ UNCHANGED <<proc, config, written, migration, trades, linked,
                   recorded>>

\* 0006 rebuilds trades: the rows are copied to trades_new ...
CopyTrades ==
    /\ proc = "migrate"
    /\ schema = 5
    /\ migration = NoMigration
    /\ migration' = [step |-> "copied", copy |-> trades, before |-> trades]
    /\ UNCHANGED <<proc, config, written, schema, trades, linked, botState,
                   recorded>>

\* ... trades is dropped, which the foreign key of opportunities forbids
\* while a row of it refers to one of trades (then only Exit is left) ...
DropTrades ==
    /\ migration # NoMigration
    /\ migration.step = "copied"
    /\ ~ linked
    /\ trades' = << >>
    /\ migration' = [migration EXCEPT !.step = "dropped"]
    /\ UNCHANGED <<proc, config, written, schema, linked, botState, recorded>>

\* ... and trades_new takes its name; the commit records version 6.
RenameTrades ==
    /\ migration # NoMigration
    /\ migration.step = "dropped"
    /\ trades' = migration.copy
    /\ migration' = NoMigration
    /\ schema' = 6
    /\ UNCHANGED <<proc, config, written, linked, botState, recorded>>

MigrationsDone ==
    /\ proc = "migrate"
    /\ schema = 6
    /\ proc' = "metadata"
    /\ UNCHANGED <<config, written, schema, migration, trades, linked,
                   botState, recorded>>

\* The signer's key, the pools' addresses and, from the node, their tokens.
FetchPoolMetadata ==
    /\ proc = "metadata"
    /\ proc' = "state"
    /\ UNCHANGED <<config, written, schema, migration, trades, linked,
                   botState, recorded>>

\* Mutant: a key that has a row keeps it.
SetBotState_OrIgnore ==
    /\ proc = "state"
    /\ written < Len(ShownKeys)
    /\ written' = written + 1
    /\ LET k == ShownKeys[written + 1] IN
         botState' = [botState EXCEPT ![k] =
                        IF @ = Default THEN config[k] ELSE @]
    /\ UNCHANGED <<proc, config, schema, migration, trades, linked, recorded>>

\* INSERT OR REPLACE, one key at a time.
SetBotState ==
    /\ proc = "state"
    /\ written < Len(ShownKeys)
    /\ written' = written + 1
    /\ LET k == ShownKeys[written + 1] IN
         botState' = [botState EXCEPT ![k] = config[k]]
    /\ UNCHANGED <<proc, config, schema, migration, trades, linked, recorded>>

\* Gas sampler and subscription are started.
SpawnFeeds ==
    /\ proc = "state"
    /\ written = Len(ShownKeys)
    /\ proc' = "executor"
    /\ UNCHANGED <<config, written, schema, migration, trades, linked,
                   botState, recorded>>

\* The executor is connected and the scanner started: from here on trades are
\* recorded, although nobody can reach the API yet.
SpawnScanner ==
    /\ proc = "executor"
    /\ proc' = "bind"
    /\ UNCHANGED <<config, written, schema, migration, trades, linked,
                   botState, recorded>>

Bind ==
    /\ proc = "bind"
    /\ proc' = "serving"
    /\ UNCHANGED <<config, written, schema, migration, trades, linked,
                   botState, recorded>>

\* Mutant: what a migration did before it failed stays.
Exit_NoRollback ==
    /\ proc # "down"
    /\ proc' = "down"
    /\ config' = NoConfig
    /\ written' = 0
    /\ migration' = NoMigration
    /\ UNCHANGED <<schema, trades, linked, botState, recorded>>

\* A step of main fails, or the process is killed.
Exit ==
    /\ proc # "down"
    /\ proc' = "down"
    /\ trades' = IF migration = NoMigration THEN trades ELSE migration.before
    /\ config' = NoConfig
    /\ written' = 0
    /\ migration' = NoMigration
    /\ UNCHANGED <<schema, linked, botState, recorded>>

StartStep ==
    \/ \E file \in Settings, env \in [Keys -> Values \cup {Unset, Bad}] :
         Load(file, env)
    \/ Connect \/ Migrate \/ CopyTrades \/ DropTrades \/ RenameTrades
    \/ MigrationsDone \/ FetchPoolMetadata \/ SetBotState \/ SpawnFeeds
    \/ SpawnScanner \/ Bind

-----------------------------------------------------------------------------
(* Properties.                                                             *)

\* An upgrade that goes through keeps every trade under its id, and one that
\* fails or is interrupted, at whatever statement of 0006, leaves the table
\* as it was: outside its transaction no row is missing.
UpgradeKeepsRows == migration = NoMigration => trades = recorded

\* What the API shows as pools monitored and as profit gate is what the tasks
\* of this process were configured with, after every sequence of starts
\* with other files and variables that failed between the writes.
ShownConfigIsInForce ==
    proc = "serving" => \A k \in Keys : botState[k] = config[k]

=============================================================================
