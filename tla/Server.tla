------------------------------- MODULE Server -------------------------------
(***************************************************************************)
(* The process as its clients meet it: Startup, then the WebSocket session *)
(* of WsSession and the read handlers of Dashboard, on one database in     *)
(* which the scanner goes on recording trades.  When the process ends,     *)
(* sessions and calls end with it, and the database stays.                 *)
(*                                                                         *)
(* One client at a time: it has a session or makes calls.  Sessions and    *)
(* read handlers share nothing but tables that neither of them writes, so  *)
(* the two need not be interleaved with each other.                        *)
(***************************************************************************)
EXTENDS WsSession

CONSTANTS ShownKeys, Values, Default, Unset, Bad, NoConfig,
          NoMigration,                                          \* Startup
          Limits, MaxLimit, Week, NoCall, NoPager,              \* Dashboard
          MaxDay,      \* bound: days
          OldTables    \* tables trades of older releases

VARIABLES proc, config, written, schema, migration, linked, botState,
          recorded,          \* Startup
          day, call, pager   \* Dashboard

INSTANCE Startup
INSTANCE Dashboard

startVars == <<proc, config, written, schema, migration, linked, botState>>
viewVars == <<call, pager>>
serverVars == <<startVars, sessionVars, viewVars, trades, recorded, day>>

\* "failed" stands for every status that is not "success".
Rows == [status : {"success", "failed"}, day : 0..MaxDay]

Migrations ==
    [step : {"copied", "dropped"}, copy : Seq(Rows), before : Seq(Rows)]

\* A page has a row, a week a day; a client that pages asks for rows.
ASSUME ServerAssumption ==
    /\ ShownKeys \in Seq(Keys)
    /\ \A old \in OldTables : old \in Seq(Rows) /\ Len(old) <= MaxTrades
    /\ Limits \subseteq Nat \ {0}
    /\ MaxLimit \in Nat \ {0}
    /\ Week \in Nat \ {0, 1}
    /\ MaxDay \in Nat
    /\ NoMigration \notin Migrations

\* Every variable has its type; a push holds no more than Batch rows.
ServerTypeOK ==
    /\ SessionTypeOK /\ StartTypeOK /\ DashboardTypeOK
    /\ trades \in Seq(Rows)
    /\ day \in 0..MaxDay

ServerInit ==
    /\ \E old \in OldTables, links \in BOOLEAN :
         /\ old = << >> => ~ links
         /\ StartInit(old, links)
    /\ SessionInit
    /\ DashboardInit
    /\ day = 0

Starts ==
    /\ StartStep
    /\ UNCHANGED <<sessionVars, viewVars, day>>

\* The tasks of the process end with it.
Stops ==
    /\ Exit
    /\ SessionEnds
    /\ call' = NoCall
    /\ pager' = NoPager
    /\ UNCHANGED day

\* The executor records a trade, as soon as the scanner is started.
InsertTrade(status) ==
    /\ proc \in {"bind", "serving"}
    /\ Len(trades) < MaxTrades
    /\ trades' = Append(trades, [status |-> status, day |-> day])
    /\ recorded' = Append(recorded, [status |-> status, day |-> day])
    /\ UNCHANGED <<startVars, sessionVars, viewVars, day>>

\* A call lasts less than a day.  Sessions and starts do not read the clock,
\* and are spared the step.
NewDay ==
    /\ day < MaxDay
    /\ proc = "serving" /\ phase = "closed"
    /\ call # NoCall => day = call.day
    /\ day' = day + 1
    /\ UNCHANGED <<startVars, sessionVars, viewVars, trades, recorded>>

InSession(A) ==
    /\ proc = "serving"
    /\ call = NoCall /\ pager = NoPager
    /\ A
    /\ UNCHANGED <<startVars, viewVars, trades, recorded, day>>

InCall ==
    /\ proc = "serving"
    /\ phase = "closed"
    /\ DashboardStep
    /\ UNCHANGED <<startVars, sessionVars, trades, recorded, day>>

ServerNext ==
    \/ Starts \/ Stops \/ NewDay \/ InCall \/ InSession(SessionStep)
    \/ \E status \in {"success", "failed"} : InsertTrade(status)

\* The session's task runs when it can, and its query returns; select! polls
\* its branches in random order, so a client that keeps sending does not
\* starve the ticker.  Nothing is assumed of the steps that send: PushStatus
\* and SendRow.
ServerSpec == ServerInit /\ [][ServerNext]_serverVars
ServerFairSpec ==
    /\ ServerSpec
    /\ WF_serverVars(InSession(FetchRows))
    /\ WF_serverVars(InSession(PushDone))
    /\ SF_serverVars(InSession(Tick))
=============================================================================
