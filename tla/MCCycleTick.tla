----------------------------- MODULE MCCycleTick -----------------------------
(* Small plans for CycleTick: a deep grid, a shallow one, a single leg with   *)
(* a stop within the disaster floor.                                          *)
EXTENDS CycleTick

MCPrice == {6, 12, 18, 24, 30, 36, 42}

MCPlan == {[entry |-> 30, tp |-> 42, sl |-> 6, legs |-> {18, 24}],
           [entry |-> 24, tp |-> 42, sl |-> 6, legs |-> {12}],
           [entry |-> 18, tp |-> 42, sl |-> 12, legs |-> {}]}

MCRules == {{"server"}, {"hard_sl", "marked", "si_trail"}}

=============================================================================
