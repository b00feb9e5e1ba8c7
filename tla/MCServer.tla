------------------------------ MODULE MCServer ------------------------------
(* Server with pages and pushes of two rows, and a release to upgrade from. *)
EXTENDS Server

MCKeys == <<"pools_monitored", "min_profit_usd">>
MCTables == {<< >>, << [status |-> "success", day |-> 0] >>}
=============================================================================
