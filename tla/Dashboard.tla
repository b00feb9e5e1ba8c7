----------------------------- MODULE Dashboard ------------------------------
(***************************************************************************)
(* The handlers of zelvex-api/src/lib.rs that read the table trades:       *)
(* stats_pnl, stats_gas, stats_opportunities and trades_list.  Each makes  *)
(* two queries that belong together, outside a transaction: the executor   *)
(* may record a trade, and the day may end, between them.                  *)
(*                                                                         *)
(* Only what relates the two queries is kept: counts of rows.  Every row   *)
(* has one unit of gas cost; net_profit_usd is NULL in all rows the        *)
(* executor writes, so the sums and profitable_total are 0.  The client    *)
(* that pages through the list is external.                                *)
(***************************************************************************)
EXTENDS Naturals, Sequences, FiniteSets

CONSTANTS Limits,     \* values of `limit` a client asks for
          MaxLimit,   \* largest page, 200
          Week,       \* days week_trades looks back, 7
          NoCall, NoPager

VARIABLES trades,     \* rows of trades, in the order of their ids
          day,        \* today
          call,       \* the call being served
          pager       \* a client on its way through the list

Kinds == {"pnl", "gas", "opportunities", "page"}
Ids == DOMAIN trades

DashboardTypeOK ==
    /\ call # NoCall =>
         /\ call.kind \in Kinds
         /\ call.step \in {"second", "done"}
         /\ Len(call.rows) <= MaxLimit
    /\ pager # NoPager =>
         /\ pager.offset \in Nat
         /\ pager.seen \subseteq Ids

DashboardInit == call = NoCall /\ pager = NoPager

Count(P(_)) == Cardinality({i \in Ids : P(trades[i])})
Succeeded(t) == t.status = "success"
Today(t) == Succeeded(t) /\ t.day = day

\* timestamp >= unixepoch('now','-7 day'): the cutoff falls within the day
\* Week days ago, at the hour it is now.  Of that day only the rows behind
\* some row k are counted.
ThisWeek(i, k) ==
    /\ Succeeded(trades[i])
    /\ \/ trades[i].day + Week > day
       \/ trades[i].day + Week = day /\ i > k

WeekTrades(k) == Cardinality({i \in Ids : ThisWeek(i, k)})

Lesser(m, n) == IF m < n THEN m ELSE n

\* ORDER BY timestamp DESC; the index keeps rows of one time by id.
Precedes(i, j) ==
    \/ trades[i].day > trades[j].day
    \/ trades[i].day = trades[j].day /\ i < j

\* The place of a row in the list, from 1.
Place(i) == Cardinality({j \in Ids : j = i \/ Precedes(j, i)})

Listed == [k \in Ids |-> CHOOSE i \in Ids : Place(i) = k]

\* Mutant: the offset counts pages.
Page_ByNumber(limit, offset) ==
    SubSeq(Listed, offset * limit + 1,
           Lesser(offset * limit + limit, Len(trades)))

\* LIMIT ? OFFSET ?
Page(limit, offset) ==
    SubSeq(Listed, offset + 1, Lesser(offset + limit, Len(trades)))

\* The first query of each handler.
FirstQuery(kind, rows) ==
    CASE kind = "pnl"           -> Count(Today)
      [] kind = "gas"           -> Len(trades)
      [] kind = "opportunities" -> Len(trades)
      [] kind = "page"          -> pager.offset + Len(rows)

\* And the second: week_trades, what was spent on trades that did not
\* succeed, success_total, and the total beside a page.
SecondQuery(kind, k) ==
    CASE kind = "pnl"           -> WeekTrades(k)
      [] kind = "gas"           -> Len(trades) - Count(Succeeded)
      [] kind = "opportunities" -> Count(Succeeded)
      [] kind = "page"          -> Len(trades)

Called(kind, rows) ==
    [kind |-> kind, step |-> "second", rows |-> rows, since |-> Len(trades),
     day |-> day, first |-> FirstQuery(kind, rows), second |-> 0]

-----------------------------------------------------------------------------
Stats(kind) ==
    /\ call = NoCall
    /\ pager = NoPager
    /\ call' = Called(kind, << >>)
    /\ UNCHANGED pager

\* A client begins to read the list, and wants the trades there are.
BeginPaging ==
    /\ call = NoCall
    /\ pager = NoPager
    /\ pager' = [wanted |-> Ids, seen |-> {}, offset |-> 0, done |-> FALSE]
    /\ UNCHANGED call

TradesList(limit) ==
    /\ call = NoCall
    /\ pager # NoPager
    /\ ~ pager.done
    /\ call' = Called("page", Page(Lesser(limit, MaxLimit), pager.offset))
    /\ UNCHANGED pager

\* Mutant: the total is counted before the page is read.
Reread_TotalFirst ==
    /\ call # NoCall
    /\ call.step = "second"
    /\ LET rows == Page(MaxLimit, pager.offset) IN
         call' = IF call.kind = "page"
                 THEN [call EXCEPT !.step = "done", !.rows = rows,
                                   !.first = FirstQuery("page", rows),
                                   !.second = call.since]
                 ELSE [call EXCEPT !.step = "done",
                                   !.second = SecondQuery(call.kind, 0)]
    /\ UNCHANGED pager

Reread ==
    /\ call # NoCall
    /\ call.step = "second"
    /\ \E k \in 0..Len(trades) :
         call' = [call EXCEPT !.step = "done",
                              !.second = SecondQuery(call.kind, k)]
    /\ UNCHANGED pager

\* The answer arrives.  The client goes on behind the rows it has received,
\* until it has as many as the total says.
Answer ==
    /\ call # NoCall
    /\ call.step = "done"
    /\ call' = NoCall
    /\ IF call.kind = "page"
       THEN pager' = [pager EXCEPT
              !.seen = @ \cup {call.rows[i] : i \in DOMAIN call.rows},
              !.offset = call.first,
              !.done = call.rows = << >> \/ call.first >= call.second]
       ELSE UNCHANGED pager

EndPaging ==
    /\ pager # NoPager
    /\ call = NoCall
    /\ pager' = NoPager
    /\ UNCHANGED call

\* A query fails and the answer is 500; a client asks for the page again.
Fail ==
    /\ call # NoCall
    /\ call' = NoCall
    /\ UNCHANGED pager

DashboardStep ==
    \/ \E kind \in Kinds \ {"page"} : Stats(kind)
    \/ \E limit \in Limits : TradesList(limit)
    \/ BeginPaging \/ Reread \/ Answer \/ EndPaging \/ Fail

-----------------------------------------------------------------------------
(* Properties.                                                             *)

\* A client that pages to the end has received every trade there was when it
\* began, although new rows shift the list under it and the total moves.
PagingMissesNothing ==
    pager # NoPager => (pager.done => pager.wanted \subseteq pager.seen)

\* The two figures of an answer fit together: no page reaches beyond its
\* total and no more trades were made today than this week, whatever was
\* recorded between the queries and even at midnight.  The gas of failed
\* trades and the successes are read after the figure they are part of, and
\* may exceed it, but by no more than what was recorded in between.
AnswersAreConsistent ==
    call # NoCall /\ call.step = "done" =>
        CASE call.kind \in {"pnl", "page"} ->
               call.first <= call.second
          [] call.kind \in {"gas", "opportunities"} ->
               call.second <= call.first + (Len(trades) - call.since)

=============================================================================
