---------------------------- MODULE MCGridLifecycle ----------------------------
(* Model values for GridStores.  The two directions are interchangeable:     *)
(* prices are abstracted, so no step tells a long grid from a short one.     *)
(* So are the handlers where each serves both /ingest and /decide.           *)
EXTENDS GridStores, TLC

Directions == Permutations(Side)
Alike == Permutations(Side) \cup Permutations(Thread)

\* Bound: only the first position has further legs.
FirstLegs == \A t \in Thread : task'[t].pc = "orders" /\ task'[t].pid # 1 => task'[t].todo = {}
BoundedSpec == StoresInit /\ [][StoresNext /\ FirstLegs]_storeVars

=============================================================================
