---------------------------- MODULE GridLifecycle ----------------------------
(***************************************************************************)
(* The life of paper grids on one symbol: PaperExecutor.submit_grid, the   *)
(* exit checks of /ingest, the fill pass and exits of cycle_manager, and   *)
(* the strategy manager's fan-out, run by the threads of the Flask server. *)
(*                                                                         *)
(* A grid is three records in three stores, each with its own lock and     *)
(* file: the position, one pending order per further leg, and the cycle.   *)
(* No lock spans them, so each access to a store is a step of its own and  *)
(* the threads interleave between the steps.                               *)
(*                                                                         *)
(* Scope 0 is the server's own position store; scopes 1..Strategies are    *)
(* the strategies', selected by StrategyContext.scope().  The pending      *)
(* store is global.  Prices are abstracted: a bar may cross any set of     *)
(* limit prices and may trigger any exit.                                  *)
(***************************************************************************)
EXTENDS Integers, FiniteSets

CONSTANTS
    Ingest,         \* threads serving /ingest
    Decide,         \* threads serving /decide and its relatives
    Side,           \* directions of a grid: long, short
    NoSide,         \* no direction (none is said)
    MaxPos,         \* bound: positions ever opened
    MaxLegs,        \* bound: legs of a grid
    Strategies,     \* number of strategies that trade the symbol
    Restarts        \* TRUE if the server may be restarted at any moment

ASSUME GridAssumption ==
    /\ NoSide \notin Side
    /\ MaxPos \in Nat \ {0}
    /\ MaxLegs \in Nat \ {0}
    /\ Strategies \in Nat
    /\ Restarts \in BOOLEAN

Thread == Ingest \cup Decide
Scope == 0..Strategies
Pid == 1..MaxPos            \* in the order of opening, as in the store's dict
Slot == 2..MaxLegs          \* leg_idx of the pending orders
Order == Pid \X Slot

VARIABLES
    pos,        \* the position stores
    order,      \* the pending store: state of each order
    cycle,      \* the cycle stores: status of the cycle linked to a position
    task        \* what each thread is doing

vars == <<pos, order, cycle, task>>

-----------------------------------------------------------------------------

\* Exits made by _check_positions; tp_absorption does what sl_hit does.
MirroredExit == {"sl_hit", "tp_hit"}
Via == MirroredExit \cup {"cycle_manager"}

Position == [status : {"none", "open", "closed"}, scope : Scope, side : Side \cup {NoSide},
             legs : 0..(MaxLegs + 1), via : Via \cup {""}]

NoPosition == [status |-> "none", scope |-> 0, side |-> NoSide, legs |-> 0, via |-> ""]

IsOpen(p) == pos[p].status = "open"
OpenIn(s) == { p \in Pid : IsOpen(p) /\ pos[p].scope = s }
OpenOrders == { o \in Order : order[o] = "open" }
Least(S) == CHOOSE x \in S : \A y \in S : x <= y

Pc == {"idle", "guard", "open", "orders",                   \* submit_grid
       "positions", "check", "check_cancel",                \* _check_positions
       "list", "fill", "mark", "manage", "manage_cancel",   \* on_bar_close
       "enter"}                                             \* StrategyManager

\* pid is the position at hand; todo the legs still to place or the positions
\* still to check; fills the orders the fill pass read; exits the exit events
\* to mirror; then the pc to continue at when submit_grid returns; synth the
\* entry tick on a synthetic bar, which runs before the checks of the bar.
Task == [pc : Pc, scope : Scope, side : Side \cup {NoSide}, pid : 0..MaxPos,
         todo : SUBSET (1..(MaxPos + MaxLegs)), fills : SUBSET Order,
         exits : SUBSET Pid, then : {"idle", "next"}, synth : BOOLEAN]

Idle == [pc |-> "idle", scope |-> 0, side |-> NoSide, pid |-> 0, todo |-> {},
         fills |-> {}, exits |-> {}, then |-> "idle", synth |-> FALSE]

At(t, pc) == task[t].pc = pc
Goto(t, new) == task' = [task EXCEPT ![t] = new]

\* The fan-out runs the strategies in turn; the tick on a synthetic bar comes
\* first, then the bar's own checks and cycle tick, then the fan-out for it.
NextScope(T) ==
    LET next == [Idle EXCEPT !.pc = "list", !.scope = T.scope + 1, !.synth = T.synth]
    IN  IF T.scope < Strategies THEN next
        ELSE IF T.synth THEN [Idle EXCEPT !.pc = "positions"] ELSE Idle

Resume(T) == IF T.then = "next" THEN NextScope(T) ELSE Idle

-----------------------------------------------------------------------------
(* Entries: dispatch, dispatch_grid, PaperExecutor.submit_grid.            *)

\* dispatch: skip if any open position has the decision's side, unless the decision
\* adds to it.
RouterGuard(t, d) ==
    /\ At(t, "idle")
    /\ \E adds \in BOOLEAN : adds \/ \A p \in OpenIn(0) : pos[p].side # d
    /\ Goto(t, [Idle EXCEPT !.pc = "guard", !.side = d])
    /\ UNCHANGED <<pos, order, cycle>>

\* /decide with a grid decision calls dispatch_grid, which has no guard.
DirectGrid(t, d) ==
    /\ At(t, "idle")
    /\ Goto(t, [Idle EXCEPT !.pc = "guard", !.side = d])
    /\ UNCHANGED <<pos, order, cycle>>

Fresh == { p \in Pid : pos[p].status = "none" }

\* submit_grid's own guard looks at the first open position only.
SubmitGuard(t) ==
    LET T == task[t]
        open == OpenIn(T.scope)
    IN  /\ At(t, "guard")
        /\ \/ /\ Fresh # {}        \* bound, as in OutOfIds
              /\ open # {} => pos[Least(open)].side # T.side
              /\ Goto(t, [T EXCEPT !.pc = "open"])
           \/ Goto(t, Resume(T))   \* same direction, or a degenerate target
        /\ UNCHANGED <<pos, order, cycle>>

SubmitOpen(t) ==
    LET T == task[t]
        p == Least(Fresh)
    IN  /\ At(t, "open")
        /\ Fresh # {}
        /\ \E n \in 1..MaxLegs :
              /\ pos' = [pos EXCEPT ![p] =
                            [status |-> "open", scope |-> T.scope, side |-> T.side,
                             legs |-> 1, via |-> ""]]
              /\ Goto(t, [T EXCEPT !.pc = "orders", !.pid = p, !.todo = 2..n])
        /\ UNCHANGED <<order, cycle>>

\* Bound: another thread took the last id, the grid is not opened.
OutOfIds(t) ==
    /\ At(t, "open")
    /\ Fresh = {}
    /\ Goto(t, Resume(task[t]))
    /\ UNCHANGED <<pos, order, cycle>>

SubmitOrder(t) ==
    LET T == task[t]
        i == Least(T.todo)
    IN  /\ At(t, "orders")
        /\ T.todo # {}
        /\ order' = [order EXCEPT ![<<T.pid, i>>] = "open"]
        /\ Goto(t, [T EXCEPT !.todo = @ \ {i}])
        /\ UNCHANGED <<pos, cycle>>

SubmitCycle(t) ==
    LET T == task[t]
    IN  /\ At(t, "orders")
        /\ T.todo = {}
        /\ cycle' = [cycle EXCEPT ![T.pid] = "active"]
        /\ Goto(t, Resume(T))
        /\ UNCHANGED <<pos, order>>

-----------------------------------------------------------------------------
(* The stores' operations the exits use.                                   *)

\* close_position: refused, under the lock, unless the position is open.
Close(p, via) ==
    pos' = IF IsOpen(p)
           THEN [pos EXCEPT ![p].status = "closed", ![p].via = via] ELSE pos

\* cancel_for_position: the open orders of the position, in one locked pass.
CancelOrders(p) ==
    order' = [o \in Order |-> IF o[1] = p /\ order[o] = "open" THEN "cancelled" ELSE order[o]]

-----------------------------------------------------------------------------
(* /ingest: the tick on a synthetic bar, _check_positions, the cycle tick  *)
(* of the server's own scope, the fan-out.                                 *)

BeginBar(t, synth) ==
    /\ At(t, "idle")
    /\ synth => Strategies > 0
    /\ Goto(t, IF synth THEN [Idle EXCEPT !.pc = "list", !.scope = 1, !.synth = TRUE]
                        ELSE [Idle EXCEPT !.pc = "positions"])
    /\ UNCHANGED <<pos, order, cycle>>

ListPositions(t) ==
    /\ At(t, "positions")
    /\ Goto(t, [task[t] EXCEPT !.pc = "check", !.todo = OpenIn(0)])
    /\ UNCHANGED <<pos, order, cycle>>

\* Mutant: an exit is recorded for a position that stays open.
PassPositionRecordsExit(t) ==
    LET T == task[t]
        p == Least(T.todo)
    IN  /\ At(t, "check")
        /\ T.todo # {}
        /\ Goto(t, [T EXCEPT !.todo = @ \ {p}, !.exits = @ \cup {p}])
        /\ UNCHANGED <<pos, order, cycle>>

PassPosition(t) ==
    LET T == task[t]
    IN  /\ At(t, "check")
        /\ T.todo # {}
        /\ Goto(t, [T EXCEPT !.todo = @ \ {Least(T.todo)}])
        /\ UNCHANGED <<pos, order, cycle>>

\* The result of close_position is ignored: the exit is recorded, and the
\* orders cancelled, even if another thread closed the position first.
ExitPosition(t, via) ==
    LET T == task[t]
        p == Least(T.todo)
    IN  /\ At(t, "check")
        /\ T.todo # {}
        /\ Close(p, via)
        /\ Goto(t, [T EXCEPT !.pc = IF via = "tp_hit" THEN "check_cancel" ELSE "check",
                             !.pid = IF via = "tp_hit" THEN p ELSE 0,
                             !.todo = @ \ {p},
                             !.exits = @ \cup {p}])
        /\ UNCHANGED <<order, cycle>>

\* Only the target branch cancels.
CancelAfterTarget(t) ==
    /\ At(t, "check_cancel")
    /\ CancelOrders(task[t].pid)
    /\ Goto(t, [task[t] EXCEPT !.pc = "check", !.pid = 0])
    /\ UNCHANGED <<pos, cycle>>

\* _close_cycles_for_exits.
MirrorCycle(t) ==
    LET T == task[t]
        p == Least(T.exits)
    IN  /\ At(t, "check")
        /\ T.todo = {}
        /\ T.exits # {}
        /\ cycle' = [cycle EXCEPT ![p] = IF @ = "active" THEN "closed" ELSE @]
        /\ Goto(t, [T EXCEPT !.exits = @ \ {p}])
        /\ UNCHANGED <<pos, order>>

EndCheck(t) ==
    LET T == task[t]
    IN  /\ At(t, "check")
        /\ T.todo = {}
        /\ T.exits = {}
        /\ Goto(t, [T EXCEPT !.pc = "list"])
        /\ UNCHANGED <<pos, order, cycle>>

-----------------------------------------------------------------------------
(* cycle_manager.on_bar_close in the scope of the task.                    *)

\* _fill_pending_legs reads the open orders of the symbol, whoever placed them.
ListOrders(t) ==
    /\ At(t, "list")
    /\ \E crossed \in SUBSET OpenOrders :
          Goto(t, [task[t] EXCEPT !.pc = "fill", !.fills = crossed])
    /\ UNCHANGED <<pos, order, cycle>>

\* Mutant: the leg is added whatever the status of the position.
AddLegAnyStatus(p, s) ==
    pos' = IF pos[p].scope = s /\ pos[p].legs <= MaxLegs
           THEN [pos EXCEPT ![p].legs = @ + 1] ELSE pos

\* Mutant: the leg is added to a position of another scope.
AddLegAnyScope(p, s) ==
    pos' = IF IsOpen(p) /\ pos[p].legs <= MaxLegs
           THEN [pos EXCEPT ![p].legs = @ + 1] ELSE pos

\* add_leg on the scope's store: a no-op unless it knows the position as open.
\* Bound: the number of legs saturates one above the planned maximum.
AddLeg(p, s) ==
    pos' = IF p \in OpenIn(s) /\ pos[p].legs <= MaxLegs
           THEN [pos EXCEPT ![p].legs = @ + 1] ELSE pos

FillLeg(t) ==
    LET T == task[t]
    IN  /\ At(t, "fill")
        /\ \E o \in T.fills :
              /\ AddLeg(o[1], T.scope)
              /\ Goto(t, [T EXCEPT !.pc = "mark", !.fills = @ \ {o},
                                   !.pid = o[1], !.todo = {o[2]}])
        /\ UNCHANGED <<order, cycle>>

\* mark_filled, whatever add_leg did and whatever state the order is in.
MarkFilled(t) ==
    LET T == task[t]
    IN  /\ At(t, "mark")
        /\ order' = [order EXCEPT ![<<T.pid, Least(T.todo)>>] = "filled"]
        /\ Goto(t, [T EXCEPT !.pc = "fill", !.pid = 0, !.todo = {}])
        /\ UNCHANGED <<pos, cycle>>

EndFills(t) ==
    /\ At(t, "fill")
    /\ task[t].fills = {}
    /\ Goto(t, [task[t] EXCEPT !.pc = "manage"])
    /\ UNCHANGED <<pos, order, cycle>>

\* Target, hard stop, flip, divergence and trend-escape exits: each closes,
\* and if it was the one that closed, cancels.  None closes the cycle.
ManageExit(t, p) ==
    LET T == task[t]
    IN  /\ At(t, "manage")
        /\ p \in OpenIn(T.scope)
        /\ Close(p, "cycle_manager")
        /\ Goto(t, [T EXCEPT !.pc = "manage_cancel", !.pid = p])
        /\ UNCHANGED <<order, cycle>>

\* Mutant: the exit closes without cancelling.
CancelAfterExitForgets(t) ==
    /\ At(t, "manage_cancel")
    /\ Goto(t, [task[t] EXCEPT !.pc = "manage", !.pid = 0])
    /\ UNCHANGED <<pos, order, cycle>>

CancelAfterExit(t) ==
    /\ At(t, "manage_cancel")
    /\ CancelOrders(task[t].pid)
    /\ Goto(t, [task[t] EXCEPT !.pc = "manage", !.pid = 0])
    /\ UNCHANGED <<pos, cycle>>

\* An invalidated cycle of the server's scope may fire a grid the other way.
HedgeGrid(t, p) ==
    LET T == task[t]
    IN  /\ At(t, "manage")
        /\ T.scope = 0
        /\ p \in OpenIn(0)
        /\ \E d \in Side \ {pos[p].side} :
              Goto(t, [T EXCEPT !.pc = "guard", !.side = d, !.then = "next"])
        /\ UNCHANGED <<pos, order, cycle>>

ManageDone(t) ==
    LET T == task[t]
    IN  /\ At(t, "manage")
        /\ Goto(t, IF T.synth THEN [T EXCEPT !.pc = "enter"] ELSE NextScope(T))
        /\ UNCHANGED <<pos, order, cycle>>

\* Mutant: the strategy enters although it has an open position.
EnterStrategyAlways(t) ==
    LET T == task[t]
    IN  /\ At(t, "enter")
        /\ \/ \E d \in Side :
                 Goto(t, [T EXCEPT !.pc = "guard", !.side = d, !.then = "next"])
           \/ Goto(t, NextScope(T))
        /\ UNCHANGED <<pos, order, cycle>>

\* StrategyManager._run_one: enter only if the strategy has no open position.
EnterStrategy(t) ==
    LET T == task[t]
    IN  /\ At(t, "enter")
        /\ \/ /\ OpenIn(T.scope) = {}
              /\ \E d \in Side :
                    Goto(t, [T EXCEPT !.pc = "guard", !.side = d, !.then = "next"])
           \/ Goto(t, NextScope(T))
        /\ UNCHANGED <<pos, order, cycle>>

-----------------------------------------------------------------------------

\* The stores are on disk, the threads are not.
Restart ==
    /\ Restarts
    /\ task' = [t \in Thread |-> Idle]
    /\ UNCHANGED <<pos, order, cycle>>

Init ==
    /\ pos = [p \in Pid |-> NoPosition]
    /\ order = [o \in Order |-> "none"]
    /\ cycle = [p \in Pid |-> "none"]
    /\ task = [t \in Thread |-> Idle]

Submit(t) ==
    SubmitGuard(t) \/ SubmitOpen(t) \/ OutOfIds(t) \/ SubmitOrder(t) \/ SubmitCycle(t)

CheckPositions(t) ==
    \/ ListPositions(t) \/ PassPosition(t)
    \/ \E via \in MirroredExit : ExitPosition(t, via)
    \/ CancelAfterTarget(t) \/ MirrorCycle(t) \/ EndCheck(t)

OnBarClose(t) ==
    \/ ListOrders(t) \/ FillLeg(t) \/ MarkFilled(t) \/ EndFills(t)
    \/ \E p \in Pid : ManageExit(t, p) \/ HedgeGrid(t, p)
    \/ CancelAfterExit(t) \/ ManageDone(t) \/ EnterStrategy(t)

Serve ==
    \/ \E t \in Decide, d \in Side : RouterGuard(t, d) \/ DirectGrid(t, d)
    \/ \E t \in Ingest, synth \in BOOLEAN : BeginBar(t, synth)
    \/ \E t \in Thread : Submit(t) \/ CheckPositions(t) \/ OnBarClose(t)

Next == Serve \/ Restart

Spec == Init /\ [][Next]_vars

-----------------------------------------------------------------------------
(* Properties.                                                             *)

TypeOK ==
    /\ pos \in [Pid -> Position]
    /\ order \in [Order -> {"none", "open", "filled", "cancelled"}]
    /\ cycle \in [Pid -> {"none", "active", "closed"}]
    /\ task \in [Thread -> Task]

Filled(p) == { o \in Order : o[1] = p /\ order[o] = "filled" }

\* Every filled order of an open position became exactly one leg of it: no leg
\* is lost and none is counted twice ("when price crosses limit_price, fills
\* the leg via position_store.add_leg() and removes the pending",
\* pending_orders.py:4-5).
FilledIsLeg ==
    (\A t \in Thread : ~At(t, "mark")) =>
        \A p \in Pid : IsOpen(p) => pos[p].legs = 1 + Cardinality(Filled(p))

\* "ENTER - one cycle per symbol at a time" (manager.py).  The gate of _run_one and
\* the entry behind it are not one step: two ticks that overlap both pass it.  So a
\* strategy has as many open positions, and entries on their way past the gate, as
\* /ingest has handlers, and one at a time only where there is one handler.
Entering(s) == { t \in Thread : task[t].scope = s /\ task[t].pc \in {"guard", "open"} }
OneCyclePerHandler ==
    \A s \in Scope \ {0} :
        Cardinality(OpenIn(s)) + Cardinality(Entering(s)) <= Cardinality(Ingest)

\* A closed position is frozen: a fill, exit or retry of a handler that read it
\* while it was open changes neither its legs nor the exit that closed it.
ClosedIsFrozen ==
    [][\A p \in Pid : pos[p].status = "closed" => pos'[p] = pos[p]]_vars

\* The stores are written one after the other, by several threads and across
\* restarts; even so no cycle is closed before its position is.
CycleClosesLast == \A p \in Pid : cycle[p] = "closed" => pos[p].status = "closed"

\* "All reads/writes land in per-strategy stores" (ingest.py:520-522), for the
\* positions: one changes only in a step of a thread working in its scope.
ScopedWrites ==
    [][\A p \in Pid :
          pos[p].status # "none" /\ pos'[p] # pos[p] =>
              \E t \in Thread : task'[t] # task[t] /\ task[t].scope = pos[p].scope]_vars

=============================================================================
