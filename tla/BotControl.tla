----------------------------- MODULE BotControl -----------------------------
(***************************************************************************)
(* Executor together with the switch that the API offers its users:        *)
(* bot_start, bot_stop and the two WebSocket commands write the row        *)
(* `running` of bot_state (zelvex-api/src/lib.rs), from which the status   *)
(* shown is read.                                                          *)
(***************************************************************************)
EXTENDS Executor

VARIABLE running    \* bot_state "running"

controlVars == <<vars, running>>

\* Migration 0005 inserts 'false'.
ControlInit == Init /\ running = FALSE

\* set_bot_state, from either API; a failed write changes nothing.
SetRunning(value) ==
    /\ running' = value
    /\ UNCHANGED vars

ControlNext ==
    \/ Next /\ UNCHANGED running
    \/ \E value \in BOOLEAN : SetRunning(value)

ControlSpec == ControlInit /\ [][ControlNext]_controlVars

\* A bot that answers "stopped" takes up no opportunity for execution.  (One
\* already taken up when the bot is stopped may still be finished.)
StoppedBotTakesNothingUp ==
    [][pc = "idle" /\ pc' = "block" => running]_controlVars

=============================================================================
