------------------------------ MODULE GridStores ------------------------------
(***************************************************************************)
(* What the three stores of a grid say about each other, beside            *)
(* GridLifecycle.  The handlers write them one after the other without a   *)
(* common lock, so some interleavings leave them at odds for good.  The    *)
(* history variable disturbed collects the positions of which a step did   *)
(* one of three things:                                                    *)
(*   - an exit closed it while the handler that opened it was still        *)
(*     writing its orders and its cycle;                                   *)
(*   - a fill pass filled an order of it that another pass had filled, or  *)
(*     was filling, since it was listed, or that belongs to another scope; *)
(*   - the server stopped between two writes of a handler about it.        *)
(* Nothing else may disturb one: the others agree, whatever interleaves.   *)
(***************************************************************************)
EXTENDS GridLifecycle

VARIABLE disturbed

storeVars == <<pos, order, cycle, task, disturbed>>

-----------------------------------------------------------------------------
Placing(T, p) == T.pc = "orders" /\ T.pid = p
Filling(T, p) == T.pc = "mark" /\ T.pid = p
Marking(T, o) == T.pc = "mark" /\ o = <<T.pid, Least(T.todo)>>
Cancelling(T, p) == T.pc \in {"check_cancel", "manage_cancel"} /\ T.pid = p
Mirroring(T, p) == p \in T.exits

\* A handler still has to write about the position.
Owes(T, p) == Placing(T, p) \/ Filling(T, p) \/ Cancelling(T, p) \/ Mirroring(T, p)

ClosedWhilePlaced ==
    { p \in Pid : /\ IsOpen(p) /\ pos'[p].status = "closed"
                  /\ \E t \in Thread : Placing(task[t], p) }

\* A pass fills an order of an open position, from a list it read before.
FilledAmiss ==
    { p \in Pid : /\ IsOpen(p)
                  /\ \E t \in Thread, o \in Order :
                        /\ o[1] = p
                        /\ ~Marking(task[t], o) /\ Marking(task'[t], o)
                        /\ \/ pos[p].scope # task[t].scope
                           \/ order[o] # "open"
                           \/ \E u \in Thread : Marking(task[u], o) }

CutShort == { p \in Pid : \E t \in Thread : Owes(task[t], p) }

StoresInit == Init /\ disturbed = {}
Served == Serve /\ disturbed' = disturbed \cup ClosedWhilePlaced \cup FilledAmiss
Restarted == Restart /\ disturbed' = disturbed \cup CutShort
StoresNext == Served \/ Restarted
StoresSpec == StoresInit /\ [][StoresNext]_storeVars

-----------------------------------------------------------------------------
(* Properties *)

\* Every filled order of an open position became exactly one leg of it.
LegsAreFills(p) ==
    (IsOpen(p) /\ \A t \in Thread : ~Filling(task[t], p)) =>
        pos[p].legs = 1 + Cardinality(Filled(p))

\* A position that left through an exit that cancels has no order that could still fill.
NoOrderLeft(p) ==
    (/\ pos[p].status = "closed" /\ pos[p].via \in {"tp_hit", "cycle_manager"}
     /\ \A t \in Thread : ~Cancelling(task[t], p)) =>
        \A o \in OpenOrders : o[1] # p

\* An exit of _check_positions closed the cycle too.
CycleClosed(p) ==
    (/\ pos[p].status = "closed" /\ pos[p].via \in MirroredExit
     /\ \A t \in Thread : ~Mirroring(task[t], p)) =>
        cycle[p] = "closed"

\* The three stores agree about every position that was not disturbed, as soon as no
\* handler still has to write about it: "fills the leg via position_store.add_leg() and
\* removes the pending" (pending_orders.py:4-5), an exit leaves nothing that could fill,
\* "Mirror position close -> cycle close".  Whatever the fills, exits, entries and
\* restarts of any number of handlers interleave with.
StoresAgree ==
    \A p \in Pid \ disturbed : LegsAreFills(p) /\ NoOrderLeft(p) /\ CycleClosed(p)
=============================================================================
