----------------------------- MODULE WsSession ------------------------------
(***************************************************************************)
(* One WebSocket session (handle_ws and push_ws_updates in zelvex-api/src/ *)
(* lib.rs): authentication, then a loop that serves the client's commands  *)
(* and, every second, pushes the state of the bot and the trades recorded  *)
(* since the last push.  Trade ids are 1, 2, ... as trades(id) is          *)
(* AUTOINCREMENT and rows are never deleted; Server has the executor add   *)
(* rows between any two steps of the session.                              *)
(***************************************************************************)
EXTENDS Naturals, Sequences

CONSTANTS Batch,       \* rows of one push, 50
          MaxTrades    \* bound: rows of the table trades

ASSUME SessionAssumption == Batch \in Nat \ {0} /\ MaxTrades \in Nat

VARIABLES trades,      \* rows of trades, in the order of their ids
          running,     \* bot_state "running"
          phase,       \* where the session is
          valid,       \* the client presented a token that decodes
          lastTradeId, \* last_trade_id
          rows,        \* ids fetched and not yet sent
          since,       \* last_trade_id as the session began (history)
          pushed       \* ids sent to the client (history)

pushVars == <<lastTradeId, rows, since, pushed>>
sessionVars == <<running, phase, valid, pushVars>>

SessionTypeOK ==
    /\ Len(trades) <= MaxTrades
    /\ running \in BOOLEAN
    /\ phase \in {"auth", "max_id", "select", "status", "fetch", "send",
                  "closed"}
    /\ valid \in BOOLEAN
    /\ lastTradeId \in 0..MaxTrades
    /\ rows \in Seq(1..MaxTrades) /\ Len(rows) <= Batch
    /\ since \in 0..MaxTrades
    /\ pushed \in Seq(1..MaxTrades)

SessionInit ==
    /\ running = FALSE
    /\ phase = "closed"
    /\ valid = FALSE
    /\ lastTradeId = 0
    /\ rows = << >>
    /\ since = 0
    /\ pushed = << >>

\* ws_handler: a client connects, with a token that decodes or another one.
Upgrade ==
    /\ phase = "closed"
    /\ phase' = "auth"
    /\ valid' \in BOOLEAN
    /\ UNCHANGED <<running, pushVars>>

\* The first message is an "auth" with a token that decodes.
Authenticate ==
    /\ phase = "auth"
    /\ valid
    /\ phase' = "max_id"
    /\ UNCHANGED <<running, valid, pushVars>>

\* SELECT MAX(id): a query that fails counts as an empty table, and the
\* session then starts with the whole history.
ReadMaxId ==
    /\ phase = "max_id"
    /\ \E id \in {Len(trades), 0} : lastTradeId' = id /\ since' = id
    /\ phase' = "select"
    /\ UNCHANGED <<running, valid, rows, pushed>>

\* start_bot, stop_bot; other messages, and a write that fails, do nothing.
Command ==
    /\ phase = "select"
    /\ running' \in BOOLEAN
    /\ UNCHANGED <<phase, valid, pushVars>>

\* The ticker.
Tick ==
    /\ phase = "select"
    /\ phase' = "status"
    /\ UNCHANGED <<running, valid, pushVars>>

\* block_update, bot_status, gas_update and opportunity_scan are sent.
PushStatus ==
    /\ phase = "status"
    /\ phase' = "fetch"
    /\ UNCHANGED <<running, valid, pushVars>>

\* Mutant: newest first, as the list of trades is served.
FetchRows_Newest ==
    /\ phase = "fetch"
    /\ LET k == IF Len(trades) - lastTradeId < Batch
                THEN Len(trades) - lastTradeId ELSE Batch
       IN rows' = [i \in 1..k |-> Len(trades) - k + i]
    /\ phase' = "send"
    /\ UNCHANGED <<running, valid, lastTradeId, since, pushed>>

\* Mutant: all new rows at once.
FetchRows_NoLimit ==
    /\ phase = "fetch"
    /\ rows' = [i \in 1..(Len(trades) - lastTradeId) |-> lastTradeId + i]
    /\ phase' = "send"
    /\ UNCHANGED <<running, valid, lastTradeId, since, pushed>>

\* WHERE id > last_trade_id ORDER BY id ASC LIMIT 50
FetchRows ==
    /\ phase = "fetch"
    /\ LET k == IF Len(trades) - lastTradeId < Batch
                THEN Len(trades) - lastTradeId ELSE Batch
       IN rows' = [i \in 1..k |-> lastTradeId + i]
    /\ phase' = "send"
    /\ UNCHANGED <<running, valid, lastTradeId, since, pushed>>

SendRow ==
    /\ phase = "send"
    /\ rows # << >>
    /\ lastTradeId' = Head(rows)
    /\ pushed' = Append(pushed, Head(rows))
    /\ rows' = Tail(rows)
    /\ UNCHANGED <<running, phase, valid, since>>

PushDone ==
    /\ phase = "send"
    /\ rows = << >>
    /\ phase' = "select"
    /\ UNCHANGED <<running, valid, pushVars>>

\* The socket is closed and the session's locals are gone.
SessionEnds ==
    /\ phase' = "closed"
    /\ valid' = FALSE
    /\ lastTradeId' = 0
    /\ rows' = << >>
    /\ since' = 0
    /\ pushed' = << >>
    /\ UNCHANGED running

\* No valid token in 5 seconds, a Close message, or a push of which a query
\* or a message fails.
Close ==
    /\ phase \in {"auth", "select", "status", "fetch", "send"}
    /\ SessionEnds

Push == PushStatus \/ FetchRows \/ SendRow \/ PushDone

SessionStep ==
    Upgrade \/ Authenticate \/ ReadMaxId \/ Command \/ Tick \/ Push \/ Close

-----------------------------------------------------------------------------
(* Properties.                                                             *)

\* The client is sent every trade after the one the session began with, in
\* the order of the ids, none twice and none left out, whatever is recorded
\* while a push is under way and however many pushes it takes.
PushedInOrder ==
    pushed = [i \in 1..(lastTradeId - since) |-> since + i]

\* ws_send of a trade is under way.
Sending(id) == phase = "send" /\ rows # << >> /\ Head(rows) = id

\* No single ws_send hangs for good, as it does, without a timeout, when the
\* client stops reading.
SendsReturn ==
    /\ []<>(phase # "status")
    /\ \A id \in 1..MaxTrades : []<>~ Sending(id)

\* If sends return, a trade recorded while a session is open reaches the
\* client, or the session is closed: a client that keeps sending commands
\* does not hold it back, nor do the trades of earlier pushes.
TradesReachClient ==
    SendsReturn =>
      \A id \in 1..MaxTrades :
        (phase = "select" /\ lastTradeId < id /\ id <= Len(trades))
            ~> (phase = "closed" \/ \E i \in DOMAIN pushed : pushed[i] = id)

=============================================================================
