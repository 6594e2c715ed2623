------------------------------- MODULE MCDecide -------------------------------
(* Model values for Decide.  Requests, and the two sides, are interchangeable. *)
EXTENDS Decide, TLC

Losses == {-1}
LossesAndGains == {-1, 1}

Symmetric == Permutations(Thread) \cup Permutations(Side)

=============================================================================
