------------------------------ MODULE MCBarFlow ------------------------------
(* Two days of trades: one with two trades in a minute, one with a gap.       *)
EXTENDS BarFlow

MCMinute == 1..5
MCTapes == {<<1, 1, 2, 2, 3, 4, 5>>, <<1, 2, 2, 4, 5>>}

=============================================================================
