-------------------------- MODULE GridLifecycleProofs --------------------------
(***************************************************************************)
(* Proofs about GridLifecycle and GridStores for any number of handlers,   *)
(* positions, legs and strategies, restarts included: a closed position is *)
(* frozen, no cycle is closed before its position, a position changes only *)
(* under a thread of its scope; a strategy has no more open positions than *)
(* /ingest has handlers; and the three stores agree about every position   *)
(* that was not disturbed.                                                 *)
(*                                                                         *)
(* Threads act on lists they read earlier.  What makes that harmless is    *)
(* that positions only move on (Onward): one that was read as open exists  *)
(* for ever, in the scope it was opened in, and a closed one never changes.*)
(***************************************************************************)
EXTENDS GridStores, FiniteInduction, TLAPS

Status == {"none", "active", "closed"}
OrderStatus == {"none", "open", "filled", "cancelled"}

\* A position never becomes a new one, changes scope or leaves its exit.
Onward ==
    \A p \in Pid :
        /\ pos[p].status # "none" => pos'[p].status # "none" /\ pos'[p].scope = pos[p].scope
        /\ pos[p].status = "closed" => pos'[p] = pos[p]

\* What a thread carries from step to step: the checks are in the server's
\* scope, their list holds positions of that scope, an exit to mirror is that
\* of a closed position, and what an action is about to touch exists.
TaskOf(T) ==
    /\ T.pc \in {"positions", "check", "check_cancel"} => T.scope = 0
    /\ T.pc \in {"check", "check_cancel"} =>
          \A p \in T.todo : p \in Pid /\ pos[p].status # "none" /\ pos[p].scope = 0
    /\ T.pc \in {"orders", "mark", "check_cancel", "manage_cancel"} => T.pid \in Pid
    /\ T.pc = "orders" => T.todo \subseteq Slot
    /\ T.pc = "mark" => \E i \in Slot : T.todo = {i}
    /\ \A p \in T.exits : pos[p].status = "closed"

TaskInv == \A t \in Thread : TaskOf(task[t])

IInv == TypeOK /\ TaskInv /\ CycleClosesLast

-----------------------------------------------------------------------------

\* Least picks a member.
LEMMA LeastIsMember ==
  ASSUME NEW S \in SUBSET Nat, S # {} PROVE Least(S) \in S
  BY LeastExists DEF Least

\* Positions and legs are numbered.
LEMMA Numbers ==
  /\ Pid \in SUBSET Nat /\ Slot \in SUBSET Nat
  /\ Pid \subseteq 1..(MaxPos + MaxLegs) /\ Slot \subseteq 1..(MaxPos + MaxLegs)
  /\ Pid \subseteq 0..MaxPos /\ 0 \in 0..MaxPos
  /\ 0 \in Scope
  BY GridAssumption DEF Pid, Slot, Scope

\* The first state satisfies the inductive invariant.
LEMMA InitIInv == Init => IInv
<1> SUFFICES ASSUME Init PROVE IInv
  OBVIOUS
<1>1. Idle \in Task
  BY Numbers DEF Task, Idle, Pc
<1>2. NoPosition \in Position
  BY Numbers, GridAssumption DEF Position, NoPosition
<1>3. TypeOK
  BY <1>1, <1>2 DEF Init, TypeOK
<1>4. TaskInv
  BY DEF Init, TaskInv, TaskOf, Idle
<1>5. CycleClosesLast
  BY DEF Init, CycleClosesLast
<1> QED
  BY <1>3, <1>4, <1>5 DEF IInv

\* A thread moves on while positions do: what the other threads carry stays true.
LEMMA MoveKeeps ==
  ASSUME IInv, NEW t \in Thread, NEW new \in Task, Goto(t, new),
         pos' \in [Pid -> Position], order' \in [Order -> OrderStatus], cycle' \in [Pid -> Status],
         Onward, TaskOf(new)', CycleClosesLast'
  PROVE  IInv'
<1>1. TypeOK'
  BY DEF IInv, TypeOK, Goto, Status, OrderStatus
<1>2. \A s \in Thread : task'[s] = IF s = t THEN new ELSE task[s]
  BY DEF IInv, TypeOK, Goto
<1>3. TaskInv'
  <2>1. ASSUME NEW s \in Thread, s # t PROVE TaskOf(task[s])'
    <3>1. /\ TaskOf(task[s])
          /\ task'[s] = task[s]
          /\ task[s].exits \subseteq Pid
      BY <1>2, <2>1 DEF IInv, TypeOK, TaskInv, Task
    <3> QED
      BY <3>1 DEF TaskOf, Onward
  <2>2. TaskOf(task[t])'
    BY <1>2 DEF TaskOf
  <2> QED
    BY <2>1, <2>2 DEF TaskInv
<1> QED
  BY <1>1, <1>3 DEF IInv

\* A step that moves a thread on and leaves positions and cycles alone.
LEMMA QuietMoveKeeps ==
  ASSUME IInv, NEW t \in Thread, NEW new \in Task, Goto(t, new),
         UNCHANGED <<pos, cycle>>, order' \in [Order -> OrderStatus], TaskOf(new)
  PROVE  IInv'
<1>1. pos \in [Pid -> Position] /\ cycle \in [Pid -> Status]
  BY DEF IInv, TypeOK, Status
<1>2. Onward
  BY DEF Onward
<1>3. TaskOf(new)'
  BY DEF TaskOf
<1>4. CycleClosesLast'
  BY DEF IInv, CycleClosesLast
<1> QED
  BY <1>1, <1>2, <1>3, <1>4, MoveKeeps

\* A step that moves positions on and leaves the cycles alone.
LEMMA PositionMoveKeeps ==
  ASSUME IInv, NEW t \in Thread, NEW new \in Task, Goto(t, new),
         pos' \in [Pid -> Position], Onward, UNCHANGED <<order, cycle>>, TaskOf(new)'
  PROVE  IInv'
<1>1. order \in [Order -> OrderStatus] /\ cycle \in [Pid -> Status]
  BY DEF IInv, TypeOK, Status, OrderStatus
<1>2. CycleClosesLast'
  BY DEF IInv, CycleClosesLast, Onward
<1> QED
  BY <1>1, <1>2, MoveKeeps

\* A thread at rest, or at a place to which it carries only its scope.
Free == {"idle", "guard", "open", "list", "fill", "manage", "enter"}

LEMMA FreeKeeps ==
  ASSUME IInv, NEW t \in Thread, NEW new \in Task, Goto(t, new),
         UNCHANGED <<pos, cycle>>, order' \in [Order -> OrderStatus],
         new.pc \in Free \/ (new.pc = "positions" /\ new.scope = 0),
         new.exits \subseteq task[t].exits
  PROVE  IInv'
<1>1. \A p \in task[t].exits : pos[p].status = "closed"
  BY DEF IInv, TaskInv, TaskOf
<1>2. TaskOf(new)
  BY <1>1 DEF TaskOf, Free
<1> QED
  BY <1>2, QuietMoveKeeps

\* What follows a grid or a scope: the next scope, the checks, or rest.
LEMMA Following ==
  ASSUME NEW T \in Task
  PROVE  \A new \in {NextScope(T), Resume(T), Idle} :
            /\ new \in Task
            /\ new.pc \in Free \/ (new.pc = "positions" /\ new.scope = 0)
            /\ new.exits = {}
<1>1. Idle \in Task
  BY Numbers DEF Task, Idle, Pc
<1>2. T.scope < Strategies => T.scope + 1 \in Scope
  BY GridAssumption DEF Task, Scope
<1>3. T.scope < Strategies =>
         [Idle EXCEPT !.pc = "list", !.scope = T.scope + 1, !.synth = T.synth] \in Task
  BY <1>1, <1>2 DEF Task, Pc
<1>4. [Idle EXCEPT !.pc = "positions"] \in Task
  BY <1>1 DEF Task, Pc
<1>5. /\ NextScope(T) \in Task
      /\ NextScope(T).pc \in Free \/ (NextScope(T).pc = "positions" /\ NextScope(T).scope = 0)
      /\ NextScope(T).exits = {}
  BY <1>1, <1>3, <1>4 DEF NextScope, Idle, Free
<1>6. Resume(T) \in {NextScope(T), Idle}
  BY DEF Resume
<1>7. Idle.pc \in Free /\ Idle.exits = {}
  BY DEF Idle, Free
<1> QED
  BY <1>1, <1>5, <1>6, <1>7

\* What the invariant says of one thread.
LEMMA Carried ==
  ASSUME IInv, NEW t \in Thread
  PROVE  /\ task[t] \in Task
         /\ TaskOf(task[t])
         /\ order \in [Order -> OrderStatus]
         /\ pos \in [Pid -> Position]
         /\ cycle \in [Pid -> Status]
  BY DEF IInv, TypeOK, TaskInv, OrderStatus, Status

-----------------------------------------------------------------------------
(* Entries.                                                                *)

\* The guards of the router let a decision through.
LEMMA GuardKeeps ==
  ASSUME IInv, NEW t \in Thread, NEW d \in Side, RouterGuard(t, d) \/ DirectGrid(t, d)
  PROVE  IInv'
<1> DEFINE new == [Idle EXCEPT !.pc = "guard", !.side = d]
<1>1. UNCHANGED <<pos, order, cycle>> /\ Goto(t, new)
  BY DEF RouterGuard, DirectGrid
<1>2. Idle \in Task
  BY Following, Carried
<1>3. new \in Task
  BY <1>2 DEF Task, Pc
<1>4. new.pc \in Free /\ new.exits = {}
  BY DEF Idle, Free
<1> HIDE DEF new
<1> QED
  BY <1>1, <1>3, <1>4, Carried, FreeKeeps

\* submit_grid's guard, and a grid that is given up.
LEMMA SubmitGuardKeeps ==
  ASSUME IInv, NEW t \in Thread, SubmitGuard(t) \/ OutOfIds(t) PROVE IInv'
<1> DEFINE new == [task[t] EXCEPT !.pc = "open"]
<1>1. UNCHANGED <<pos, order, cycle>>
  BY DEF SubmitGuard, OutOfIds
<1>2. Goto(t, new) \/ Goto(t, Resume(task[t]))
  BY DEF SubmitGuard, OutOfIds
<1>3. new \in Task
  BY Carried DEF Task, Pc
<1>4. new.pc \in Free /\ new.exits = task[t].exits
  BY Carried DEF Task, Free
<1> HIDE DEF new
<1>5. CASE Goto(t, new)
  BY <1>1, <1>3, <1>4, <1>5, Carried, FreeKeeps
<1>6. CASE Goto(t, Resume(task[t]))
  BY <1>1, <1>6, Carried, Following, FreeKeeps
<1> QED
  BY <1>2, <1>5, <1>6

\* A new position takes an id nobody has used.
LEMMA SubmitOpenKeeps ==
  ASSUME IInv, NEW t \in Thread, SubmitOpen(t) PROVE IInv'
<1> DEFINE p == Least(Fresh)
           new(n) == [task[t] EXCEPT !.pc = "orders", !.pid = p, !.todo = 2..n]
           opened == [status |-> "open", scope |-> task[t].scope, side |-> task[t].side,
                      legs |-> 1, via |-> ""]
<1>1. p \in Pid /\ pos[p].status = "none"
  <2>1. Fresh \in SUBSET Nat /\ Fresh # {}
    BY Numbers DEF Fresh, SubmitOpen
  <2> QED
    BY <2>1, LeastIsMember DEF Fresh
<1>2. task[t].pc = "open" /\ pos' = [pos EXCEPT ![p] = opened] /\ UNCHANGED <<order, cycle>>
  BY DEF SubmitOpen, At
<1>3. PICK n \in 1..MaxLegs : Goto(t, new(n))
  BY DEF SubmitOpen
<1> HIDE DEF p
<1>4. opened \in Position
  <2>1. task[t].scope \in Scope /\ task[t].side \in Side \cup {NoSide}
    BY Carried DEF Task
  <2>2. 1 \in 0..(MaxLegs + 1)
    BY GridAssumption
  <2> QED
    BY <2>1, <2>2 DEF Position
<1> HIDE DEF opened
<1>5. pos' \in [Pid -> Position] /\ Onward
  BY <1>1, <1>2, <1>4, Carried DEF Onward
<1>6. 2..n \subseteq Slot
  BY <1>3, GridAssumption DEF Slot
<1>7. new(n) \in Task
  BY <1>1, <1>6, Carried, Numbers DEF Task, Pc
<1>8. /\ new(n).pc = "orders" /\ new(n).pid = p /\ new(n).todo = 2..n
      /\ new(n).exits = task[t].exits
  BY Carried DEF Task
<1>9. task[t].exits \subseteq Pid /\ \A q \in task[t].exits : pos[q].status = "closed"
  BY Carried DEF Task, TaskOf
<1>10. PICK T \in Task : T = new(n)
  BY <1>7
<1> HIDE DEF new
<1>11. TaskOf(T)'
  BY <1>1, <1>5, <1>6, <1>8, <1>9, <1>10 DEF TaskOf, Onward
<1> QED
  BY <1>2, <1>3, <1>5, <1>10, <1>11, PositionMoveKeeps

\* The legs of the grid.
LEMMA SubmitOrderKeeps ==
  ASSUME IInv, NEW t \in Thread, SubmitOrder(t) PROVE IInv'
<1> DEFINE i == Least(task[t].todo)
           new == [task[t] EXCEPT !.todo = @ \ {i}]
<1>1. task[t].pc = "orders" /\ Goto(t, new) /\ UNCHANGED <<pos, cycle>>
  BY DEF SubmitOrder, At
<1>2. order' \in [Order -> OrderStatus]
  BY Carried DEF SubmitOrder, OrderStatus
<1> HIDE DEF i
<1>3. new \in Task
  BY Carried DEF Task
<1>4. /\ new.pc = "orders" /\ new.pid = task[t].pid /\ new.todo \subseteq task[t].todo
      /\ new.exits = task[t].exits
  BY <1>1, Carried DEF Task
<1> HIDE DEF new
<1>5. TaskOf(new)
  BY <1>1, <1>4, Carried DEF TaskOf
<1> QED
  BY <1>1, <1>2, <1>3, <1>5, QuietMoveKeeps

\* The cycle is opened last.
LEMMA SubmitCycleKeeps ==
  ASSUME IInv, NEW t \in Thread, SubmitCycle(t) PROVE IInv'
<1> DEFINE new == Resume(task[t])
<1>1. Goto(t, new) /\ UNCHANGED <<pos, order>>
  BY DEF SubmitCycle
<1>2. cycle' = [cycle EXCEPT ![task[t].pid] = "active"]
  BY DEF SubmitCycle
<1>3. cycle' \in [Pid -> Status] /\ CycleClosesLast'
  BY <1>1, <1>2, Carried DEF Status, IInv, CycleClosesLast
<1>4. PICK T \in Task :
         /\ T = new
         /\ T.pc \in Free \/ (T.pc = "positions" /\ T.scope = 0)
         /\ T.exits = {}
  BY Carried, Following
<1> HIDE DEF new
<1>5. TaskOf(T)'
  BY <1>4 DEF TaskOf, Free
<1>6. Onward
  BY <1>1 DEF Onward
<1> QED
  BY <1>1, <1>3, <1>4, <1>5, <1>6, Carried, MoveKeeps

-----------------------------------------------------------------------------
(* What the stores promise.                                                *)

\* close_position, on a position that exists: it is closed afterwards.
LEMMA CloseEffect ==
  ASSUME pos \in [Pid -> Position], NEW p \in Pid, NEW via \in Via, Close(p, via)
  PROVE  /\ pos' \in [Pid -> Position]
         /\ Onward
         /\ pos[p].status # "none" => pos'[p].status = "closed"
         /\ \A q \in Pid : q # p => pos'[q] = pos[q]
<1>1. CASE ~IsOpen(p)
  BY <1>1 DEF Close, Onward, Position, IsOpen
<1>2. CASE IsOpen(p)
  <2>1. pos' = [pos EXCEPT ![p] = [pos[p] EXCEPT !.status = "closed", !.via = via]]
    BY <1>2 DEF Close
  <2>2. pos[p].status = "open" /\ pos[p] \in Position
    BY <1>2 DEF IsOpen
  <2>3. /\ [pos[p] EXCEPT !.status = "closed", !.via = via] \in Position
        /\ [pos[p] EXCEPT !.status = "closed", !.via = via].status = "closed"
        /\ [pos[p] EXCEPT !.status = "closed", !.via = via].scope = pos[p].scope
    BY <2>2 DEF Position
  <2> QED
    BY <2>1, <2>2, <2>3 DEF Onward
<1> QED
  BY <1>1, <1>2

\* add_leg: an open position of the scope gains a leg, or nothing happens.
LEMMA AddLegEffect ==
  ASSUME pos \in [Pid -> Position], NEW p \in Pid, NEW s \in Scope, AddLeg(p, s)
  PROVE  /\ pos' \in [Pid -> Position]
         /\ Onward
         /\ \A q \in Pid : pos'[q] # pos[q] => q = p /\ pos[q].scope = s /\ IsOpen(q)
         /\ \A q \in Pid : pos'[q].status = pos[q].status
<1>1. CASE ~(p \in OpenIn(s) /\ pos[p].legs <= MaxLegs)
  BY <1>1 DEF AddLeg, Onward
<1>2. CASE p \in OpenIn(s) /\ pos[p].legs <= MaxLegs
  <2>1. pos' = [pos EXCEPT ![p] = [pos[p] EXCEPT !.legs = pos[p].legs + 1]]
    BY <1>2 DEF AddLeg
  <2>2. IsOpen(p) /\ pos[p].scope = s /\ pos[p] \in Position /\ pos[p].status = "open"
    BY <1>2 DEF OpenIn, IsOpen
  <2>3. /\ [pos[p] EXCEPT !.legs = pos[p].legs + 1] \in Position
        /\ [pos[p] EXCEPT !.legs = pos[p].legs + 1].status = "open"
        /\ [pos[p] EXCEPT !.legs = pos[p].legs + 1].scope = pos[p].scope
    <3>1. pos[p].legs \in 0..(MaxLegs + 1)
      BY <2>2 DEF Position
    <3>2. pos[p].legs + 1 \in 0..(MaxLegs + 1)
      BY <1>2, <3>1, GridAssumption
    <3> QED
      BY <2>2, <3>2 DEF Position
  <2> QED
    BY <2>1, <2>2, <2>3 DEF Onward
<1> QED
  BY <1>1, <1>2

\* cancel_for_position leaves an order store.
LEMMA CancelEffect ==
  ASSUME order \in [Order -> OrderStatus], NEW p, CancelOrders(p)
  PROVE  order' \in [Order -> OrderStatus]
  BY DEF CancelOrders, OrderStatus

-----------------------------------------------------------------------------
(* The exit checks of /ingest.                                             *)

\* A bar begins; the positions of the server's scope are read.
LEMMA BeginKeeps ==
  ASSUME IInv, NEW t \in Thread, NEW synth \in BOOLEAN, BeginBar(t, synth) PROVE IInv'
<1>1. UNCHANGED <<pos, order, cycle>>
  BY DEF BeginBar
<1>2. Idle \in Task
  BY Following, Carried
<1>3. CASE synth
  <2> DEFINE new == [Idle EXCEPT !.pc = "list", !.scope = 1, !.synth = TRUE]
  <2>1. 1 \in Scope
    BY <1>3, GridAssumption DEF BeginBar, Scope
  <2>2. new \in Task
    BY <1>2, <2>1 DEF Task, Pc
  <2>3. new.pc \in Free /\ new.exits = {}
    BY DEF Idle, Free
  <2>4. Goto(t, new)
    BY <1>3 DEF BeginBar
  <2> HIDE DEF new
  <2> QED
    BY <1>1, <2>2, <2>3, <2>4, Carried, FreeKeeps
<1>4. CASE ~synth
  <2> DEFINE new == [Idle EXCEPT !.pc = "positions"]
  <2>1. new \in Task
    BY <1>2 DEF Task, Pc
  <2>2. new.pc = "positions" /\ new.scope = 0 /\ new.exits = {}
    BY DEF Idle
  <2>3. Goto(t, new)
    BY <1>4 DEF BeginBar
  <2> HIDE DEF new
  <2> QED
    BY <1>1, <2>1, <2>2, <2>3, Carried, FreeKeeps
<1> QED
  BY <1>3, <1>4

LEMMA ListPositionsKeeps ==
  ASSUME IInv, NEW t \in Thread, ListPositions(t) PROVE IInv'
<1> DEFINE new == [task[t] EXCEPT !.pc = "check", !.todo = OpenIn(0)]
<1>1. task[t].pc = "positions" /\ Goto(t, new) /\ UNCHANGED <<pos, order, cycle>>
  BY DEF ListPositions, At
<1>2. OpenIn(0) \subseteq 1..(MaxPos + MaxLegs)
  BY Numbers DEF OpenIn
<1>3. new \in Task
  BY <1>2, Carried DEF Task, Pc
<1>4. /\ new.pc = "check" /\ new.todo = OpenIn(0) /\ new.scope = task[t].scope
      /\ new.exits = task[t].exits
  BY Carried DEF Task
<1> HIDE DEF new
<1>5. TaskOf(new)
  BY <1>1, <1>4, Carried DEF TaskOf, OpenIn, IsOpen
<1> QED
  BY <1>1, <1>3, <1>5, Carried, QuietMoveKeeps

\* The next position of the list, crossed or not.
LEMMA PassKeeps ==
  ASSUME IInv, NEW t \in Thread, PassPosition(t) PROVE IInv'
<1> DEFINE p == Least(task[t].todo)
           new == [task[t] EXCEPT !.todo = @ \ {p}]
<1>1. task[t].pc = "check" /\ Goto(t, new) /\ UNCHANGED <<pos, order, cycle>>
  BY DEF PassPosition, At
<1> HIDE DEF p
<1>2. new \in Task
  BY Carried DEF Task
<1>3. /\ new.pc = "check" /\ new.todo \subseteq task[t].todo /\ new.scope = task[t].scope
      /\ new.exits = task[t].exits
  BY <1>1, Carried DEF Task
<1> HIDE DEF new
<1>4. TaskOf(new)
  BY <1>1, <1>3, Carried DEF TaskOf
<1> QED
  BY <1>1, <1>2, <1>4, Carried, QuietMoveKeeps

\* The position that is checked next is one of the list, of the server's scope.
LEMMA CheckedPosition ==
  ASSUME IInv, NEW t \in Thread, At(t, "check"), task[t].todo # {}
  PROVE  LET p == Least(task[t].todo)
         IN  p \in Pid /\ p \in task[t].todo /\ pos[p].status # "none" /\ pos[p].scope = 0
<1>1. \A p \in task[t].todo : p \in Pid /\ pos[p].status # "none" /\ pos[p].scope = 0
  BY Carried DEF TaskOf, At
<1>2. task[t].todo \in SUBSET Nat
  BY <1>1, Numbers
<1>3. Least(task[t].todo) \in task[t].todo
  BY <1>2, LeastIsMember
<1> QED
  BY <1>1, <1>3

\* The exit is recorded whether or not another thread was first: either way the
\* position is closed.
LEMMA ExitKeeps ==
  ASSUME IInv, NEW t \in Thread, NEW via \in MirroredExit, ExitPosition(t, via) PROVE IInv'
<1> DEFINE p == Least(task[t].todo)
           new == [task[t] EXCEPT !.pc = IF via = "tp_hit" THEN "check_cancel" ELSE "check",
                                  !.pid = IF via = "tp_hit" THEN p ELSE 0,
                                  !.todo = @ \ {p},
                                  !.exits = @ \cup {p}]
<1>1. task[t].pc = "check" /\ Goto(t, new) /\ Close(p, via) /\ UNCHANGED <<order, cycle>>
  BY DEF ExitPosition, At
<1>2. p \in Pid /\ pos[p].status # "none"
  BY CheckedPosition DEF ExitPosition
<1>3. pos' \in [Pid -> Position] /\ Onward /\ pos'[p].status = "closed"
  BY <1>1, <1>2, Carried, CloseEffect DEF Via
<1> HIDE DEF p
<1>4. new \in Task
  <2>1. (IF via = "tp_hit" THEN p ELSE 0) \in 0..MaxPos
    BY <1>2, Numbers
  <2>2. (IF via = "tp_hit" THEN "check_cancel" ELSE "check") \in Pc
    BY DEF Pc
  <2> QED
    BY <1>2, <2>1, <2>2, Carried DEF Task
<1>5. /\ new.pc \in {"check", "check_cancel"} /\ (new.pc = "check_cancel" => new.pid = p)
      /\ new.todo \subseteq task[t].todo /\ new.scope = task[t].scope
      /\ new.exits = task[t].exits \cup {p}
  BY Carried DEF Task
<1>6. PICK T \in Task : T = new
  BY <1>4
<1> HIDE DEF new
<1>7. /\ task[t].exits \subseteq Pid
      /\ \A q \in task[t].exits : pos[q].status = "closed"
      /\ task[t].scope = 0
      /\ \A q \in task[t].todo : q \in Pid /\ pos[q].status # "none" /\ pos[q].scope = 0
  BY <1>1, Carried DEF Task, TaskOf
<1>8. TaskOf(T)'
  <2>1. \A q \in T.exits : pos'[q].status = "closed"
    BY <1>3, <1>5, <1>6, <1>7 DEF Onward
  <2>2. \A q \in T.todo : q \in Pid /\ pos'[q].status # "none" /\ pos'[q].scope = 0
    BY <1>3, <1>5, <1>6, <1>7 DEF Onward
  <2> QED
    BY <1>2, <1>5, <1>6, <1>7, <2>1, <2>2 DEF TaskOf
<1> QED
  BY <1>1, <1>3, <1>6, <1>8, PositionMoveKeeps

LEMMA CancelAfterTargetKeeps ==
  ASSUME IInv, NEW t \in Thread, CancelAfterTarget(t) PROVE IInv'
<1> DEFINE new == [task[t] EXCEPT !.pc = "check", !.pid = 0]
<1>1. task[t].pc = "check_cancel" /\ Goto(t, new) /\ UNCHANGED <<pos, cycle>>
  BY DEF CancelAfterTarget, At
<1>2. order' \in [Order -> OrderStatus]
  BY Carried, CancelEffect DEF CancelAfterTarget
<1>3. new \in Task
  BY Carried, Numbers DEF Task, Pc
<1>4. /\ new.pc = "check" /\ new.todo = task[t].todo /\ new.scope = task[t].scope
      /\ new.exits = task[t].exits
  BY Carried DEF Task
<1> HIDE DEF new
<1>5. TaskOf(new)
  BY <1>1, <1>4, Carried DEF TaskOf
<1> QED
  BY <1>1, <1>2, <1>3, <1>5, QuietMoveKeeps

\* Only the cycle of a closed position is mirrored.
LEMMA MirrorKeeps ==
  ASSUME IInv, NEW t \in Thread, MirrorCycle(t) PROVE IInv'
<1> DEFINE p == Least(task[t].exits)
           new == [task[t] EXCEPT !.exits = @ \ {p}]
<1>1. /\ task[t].pc = "check" /\ task[t].todo = {} /\ task[t].exits # {}
      /\ Goto(t, new) /\ UNCHANGED <<pos, order>>
      /\ cycle' = [cycle EXCEPT ![p] = IF @ = "active" THEN "closed" ELSE @]
  BY DEF MirrorCycle, At
<1>2. p \in Pid /\ pos[p].status = "closed"
  <2>1. task[t].exits \subseteq Pid /\ \A q \in task[t].exits : pos[q].status = "closed"
    BY Carried DEF Task, TaskOf
  <2>2. p \in task[t].exits
    BY <1>1, <2>1, Numbers, LeastIsMember
  <2> QED
    BY <2>1, <2>2
<1> HIDE DEF p
<1>3. cycle' \in [Pid -> Status]
  BY <1>1, <1>2, Carried DEF Status
<1>4. CycleClosesLast'
  BY <1>1, <1>2, Carried DEF IInv, CycleClosesLast
<1>5. Onward
  BY <1>1 DEF Onward
<1>6. new \in Task
  BY Carried DEF Task
<1>7. /\ new.pc = "check" /\ new.todo = {} /\ new.scope = task[t].scope
      /\ new.exits \subseteq task[t].exits
  BY <1>1, Carried DEF Task
<1>8. PICK T \in Task : T = new
  BY <1>6
<1> HIDE DEF new
<1>9. TaskOf(T)'
  <2>1. task[t].scope = 0 /\ \A q \in task[t].exits : pos[q].status = "closed"
    BY <1>1, Carried DEF TaskOf
  <2> QED
    BY <1>1, <1>7, <1>8, <2>1 DEF TaskOf
<1> QED
  BY <1>1, <1>3, <1>4, <1>5, <1>8, <1>9, Carried, MoveKeeps

LEMMA EndCheckKeeps ==
  ASSUME IInv, NEW t \in Thread, EndCheck(t) PROVE IInv'
<1> DEFINE new == [task[t] EXCEPT !.pc = "list"]
<1>1. Goto(t, new) /\ UNCHANGED <<pos, order, cycle>>
  BY DEF EndCheck
<1>2. new \in Task
  BY Carried DEF Task, Pc
<1>3. new.pc \in Free /\ new.exits = task[t].exits
  BY Carried DEF Task, Free
<1> HIDE DEF new
<1> QED
  BY <1>1, <1>2, <1>3, Carried, FreeKeeps

-----------------------------------------------------------------------------
(* cycle_manager.on_bar_close.                                             *)

\* Reading the orders, and the ends of the passes.
LEMMA PassesKeep ==
  ASSUME IInv, NEW t \in Thread, ListOrders(t) \/ EndFills(t) \/ ManageDone(t) PROVE IInv'
<1> DEFINE T == task[t]
<1>1. UNCHANGED <<pos, order, cycle>>
  BY DEF ListOrders, EndFills, ManageDone
<1>2. CASE ListOrders(t)
  <2>1. PICK crossed \in SUBSET OpenOrders : Goto(t, [T EXCEPT !.pc = "fill", !.fills = crossed])
    BY <1>2 DEF ListOrders
  <2> DEFINE new == [T EXCEPT !.pc = "fill", !.fills = crossed]
  <2>2. new \in Task
    BY Carried DEF Task, Pc, OpenOrders
  <2>3. new.pc \in Free /\ new.exits = T.exits
    BY Carried DEF Task, Free
  <2> HIDE DEF new
  <2> QED
    BY <1>1, <2>1, <2>2, <2>3, Carried, FreeKeeps DEF new
<1>3. CASE EndFills(t)
  <2> DEFINE new == [T EXCEPT !.pc = "manage"]
  <2>1. new \in Task
    BY Carried DEF Task, Pc
  <2>2. new.pc \in Free /\ new.exits = T.exits
    BY Carried DEF Task, Free
  <2>3. Goto(t, new)
    BY <1>3 DEF EndFills
  <2> HIDE DEF new
  <2> QED
    BY <1>1, <2>1, <2>2, <2>3, Carried, FreeKeeps
<1>4. CASE ManageDone(t)
  <2> DEFINE new == [T EXCEPT !.pc = "enter"]
  <2>1. new \in Task
    BY Carried DEF Task, Pc
  <2>2. new.pc \in Free /\ new.exits = T.exits
    BY Carried DEF Task, Free
  <2>3. Goto(t, new) \/ Goto(t, NextScope(T))
    BY <1>4 DEF ManageDone
  <2> HIDE DEF new
  <2>4. CASE Goto(t, new)
    BY <1>1, <2>1, <2>2, <2>4, Carried, FreeKeeps
  <2>5. CASE Goto(t, NextScope(T))
    BY <1>1, <2>5, Carried, Following, FreeKeeps
  <2> QED
    BY <2>3, <2>4, <2>5
<1> QED
  BY <1>2, <1>3, <1>4

\* A fill adds a leg to a position of the scope, if it is still open.
LEMMA FillKeeps ==
  ASSUME IInv, NEW t \in Thread, FillLeg(t) PROVE IInv'
<1> DEFINE T == task[t]
           new(o) == [T EXCEPT !.pc = "mark", !.fills = @ \ {o}, !.pid = o[1], !.todo = {o[2]}]
<1>1. PICK o \in T.fills : AddLeg(o[1], T.scope) /\ Goto(t, new(o))
  BY DEF FillLeg
<1>2. UNCHANGED <<order, cycle>>
  BY DEF FillLeg
<1>3. o[1] \in Pid /\ o[2] \in Slot
  BY <1>1, Carried DEF Task, Order
<1>4. T.scope \in Scope
  BY Carried DEF Task
<1>5. pos' \in [Pid -> Position] /\ Onward
  BY <1>1, <1>3, <1>4, Carried, AddLegEffect
<1>6. new(o) \in Task
  <2>1. o[1] \in 0..MaxPos /\ {o[2]} \in SUBSET (1..(MaxPos + MaxLegs))
    BY <1>3, Numbers
  <2>2. T \in Task /\ "mark" \in Pc
    BY Carried DEF Pc
  <2> QED
    BY <2>1, <2>2 DEF Task
<1>7. /\ new(o).pc = "mark" /\ new(o).pid = o[1] /\ new(o).todo = {o[2]}
      /\ new(o).exits = T.exits
  BY Carried DEF Task
<1>8. PICK N \in Task : N = new(o)
  BY <1>6
<1> HIDE DEF new
<1>9. T.exits \subseteq Pid /\ \A q \in T.exits : pos[q].status = "closed"
  BY Carried DEF Task, TaskOf
<1>10. TaskOf(N)'
  BY <1>3, <1>5, <1>7, <1>8, <1>9 DEF TaskOf, Onward
<1> QED
  BY <1>1, <1>2, <1>5, <1>8, <1>10, PositionMoveKeeps

LEMMA MarkKeeps ==
  ASSUME IInv, NEW t \in Thread, MarkFilled(t) PROVE IInv'
<1> DEFINE new == [task[t] EXCEPT !.pc = "fill", !.pid = 0, !.todo = {}]
<1>1. Goto(t, new) /\ UNCHANGED <<pos, cycle>>
  BY DEF MarkFilled
<1>2. order' \in [Order -> OrderStatus]
  BY Carried DEF MarkFilled, OrderStatus
<1>3. new \in Task
  BY Carried, Numbers DEF Task, Pc
<1>4. new.pc \in Free /\ new.exits = task[t].exits
  BY Carried DEF Task, Free
<1> HIDE DEF new
<1> QED
  BY <1>1, <1>2, <1>3, <1>4, FreeKeeps

\* An exit closes a position of the scope.
LEMMA ManageExitKeeps ==
  ASSUME IInv, NEW t \in Thread, NEW p \in Pid, ManageExit(t, p) PROVE IInv'
<1> DEFINE new == [task[t] EXCEPT !.pc = "manage_cancel", !.pid = p]
<1>1. Goto(t, new) /\ Close(p, "cycle_manager") /\ UNCHANGED <<order, cycle>>
  BY DEF ManageExit
<1>2. pos' \in [Pid -> Position] /\ Onward
  BY <1>1, Carried, CloseEffect DEF Via
<1>3. new \in Task
  BY Carried, Numbers DEF Task, Pc
<1>4. new.pc = "manage_cancel" /\ new.pid = p /\ new.exits = task[t].exits
  BY Carried DEF Task
<1>5. PICK T \in Task : T = new
  BY <1>3
<1> HIDE DEF new
<1>6. task[t].exits \subseteq Pid /\ \A q \in task[t].exits : pos[q].status = "closed"
  BY Carried DEF Task, TaskOf
<1>7. TaskOf(T)'
  BY <1>2, <1>4, <1>5, <1>6 DEF TaskOf, Onward
<1> QED
  BY <1>1, <1>2, <1>5, <1>7, PositionMoveKeeps

LEMMA CancelAfterExitKeeps ==
  ASSUME IInv, NEW t \in Thread, CancelAfterExit(t) PROVE IInv'
<1> DEFINE new == [task[t] EXCEPT !.pc = "manage", !.pid = 0]
<1>1. Goto(t, new) /\ UNCHANGED <<pos, cycle>>
  BY DEF CancelAfterExit
<1>2. order' \in [Order -> OrderStatus]
  BY Carried, CancelEffect DEF CancelAfterExit
<1>3. new \in Task
  BY Carried, Numbers DEF Task, Pc
<1>4. new.pc \in Free /\ new.exits = task[t].exits
  BY Carried DEF Task, Free
<1> HIDE DEF new
<1> QED
  BY <1>1, <1>2, <1>3, <1>4, FreeKeeps

\* A hedge grid or a strategy's entry goes through the guard of submit_grid.
LEMMA EnterKeeps ==
  ASSUME IInv, NEW t \in Thread, NEW p \in Pid, HedgeGrid(t, p) \/ EnterStrategy(t) PROVE IInv'
<1> DEFINE new(d) == [task[t] EXCEPT !.pc = "guard", !.side = d, !.then = "next"]
<1>1. UNCHANGED <<pos, order, cycle>>
  BY DEF HedgeGrid, EnterStrategy
<1>2. ASSUME NEW d \in Side, Goto(t, new(d)) PROVE IInv'
  <2>1. new(d) \in Task
    BY Carried DEF Task, Pc
  <2>2. new(d).pc \in Free /\ new(d).exits = task[t].exits
    BY Carried DEF Task, Free
  <2> HIDE DEF new
  <2> QED
    BY <1>1, <1>2, <2>1, <2>2, Carried, FreeKeeps
<1>3. CASE Goto(t, NextScope(task[t]))
  BY <1>1, <1>3, Carried, Following, FreeKeeps
<1>4. (\E d \in Side : Goto(t, new(d))) \/ Goto(t, NextScope(task[t]))
  BY DEF HedgeGrid, EnterStrategy
<1> HIDE DEF new
<1> QED
  BY <1>2, <1>3, <1>4

-----------------------------------------------------------------------------

\* A restart forgets what the threads carried; the stores are on disk.
LEMMA RestartKeeps ==
  ASSUME IInv, Restart PROVE IInv'
<1>1. Idle \in Task
  BY Numbers DEF Task, Idle, Pc
<1>2. TypeOK'
  BY <1>1 DEF IInv, TypeOK, Restart
<1>3. TaskInv'
  BY DEF Restart, TaskInv, TaskOf, Idle
<1>4. CycleClosesLast'
  BY DEF IInv, Restart, CycleClosesLast
<1> QED
  BY <1>2, <1>3, <1>4 DEF IInv

\* Nothing happens.
LEMMA StutterKeeps ==
  ASSUME IInv, UNCHANGED vars PROVE IInv'
  BY DEF IInv, TypeOK, TaskInv, TaskOf, CycleClosesLast, vars

\* Some position exists, so that the lemmas about one have an instance.
LEMMA SomePid == 1 \in Pid
  BY GridAssumption DEF Pid

\* Every step keeps the inductive invariant.
LEMMA NextKeeps == IInv /\ [Next]_vars => IInv'
<1> SUFFICES ASSUME IInv, [Next]_vars PROVE IInv'
  OBVIOUS
<1>1. ASSUME NEW t \in Decide, NEW d \in Side, RouterGuard(t, d) \/ DirectGrid(t, d) PROVE IInv'
  BY <1>1, GuardKeeps DEF Thread
<1>2. ASSUME NEW t \in Ingest, NEW synth \in BOOLEAN, BeginBar(t, synth) PROVE IInv'
  BY <1>2, BeginKeeps DEF Thread
<1>3. ASSUME NEW t \in Thread, Submit(t) PROVE IInv'
  BY <1>3, SubmitGuardKeeps, SubmitOpenKeeps, SubmitOrderKeeps, SubmitCycleKeeps DEF Submit
<1>4. ASSUME NEW t \in Thread, CheckPositions(t) PROVE IInv'
  BY <1>4, ListPositionsKeeps, PassKeeps, ExitKeeps, CancelAfterTargetKeeps, MirrorKeeps,
     EndCheckKeeps DEF CheckPositions
<1>5. ASSUME NEW t \in Thread, OnBarClose(t) PROVE IInv'
  BY <1>5, SomePid, PassesKeep, FillKeeps, MarkKeeps, ManageExitKeeps, CancelAfterExitKeeps,
     EnterKeeps DEF OnBarClose
<1> QED
  BY <1>1, <1>2, <1>3, <1>4, <1>5, RestartKeeps, StutterKeeps DEF Next, Serve

\* The inductive invariant holds in every reachable state.
THEOREM InvHolds == Spec => []IInv
  BY InitIInv, NextKeeps, PTL DEF Spec

\* Stores and threads always have the values they are meant to have: no list a
\* handler carries, however stale, makes it touch a position that never was.
THEOREM TypeCorrect == Spec => []TypeOK
  BY InvHolds, PTL DEF IInv

\* No cycle is closed before its position is, though no lock spans the stores
\* (_close_cycles_for_exits trusts the list of exits of its own handler).
THEOREM NoCycleClosesFirst == Spec => []CycleClosesLast
  BY InvHolds, PTL DEF IInv

\* Which steps touch a position, and how.
LEMMA PositionSteps ==
  ASSUME IInv, [Next]_vars, pos' # pos
  PROVE  \E t \in Thread :
            \/ SubmitOpen(t)
            \/ \E via \in MirroredExit : ExitPosition(t, via)
            \/ FillLeg(t)
            \/ \E p \in Pid : ManageExit(t, p)
  BY DEF Next, Serve, vars, Submit, CheckPositions, OnBarClose, RouterGuard, DirectGrid, BeginBar,
         SubmitGuard, OutOfIds, SubmitOrder, SubmitCycle, ListPositions, PassPosition,
         CancelAfterTarget, MirrorCycle, EndCheck, ListOrders, MarkFilled, EndFills,
         CancelAfterExit, HedgeGrid, ManageDone, EnterStrategy, Restart

\* A step that opens a position leaves the others alone.
LEMMA SubmitOpenEffect ==
  ASSUME IInv, NEW t \in Thread, SubmitOpen(t)
  PROVE  \E p \in Pid :
            /\ pos[p].status = "none"
            /\ pos'[p].status = "open" /\ pos'[p].scope = task[t].scope
            /\ \A q \in Pid \ {p} : pos'[q] = pos[q]
<1> DEFINE p == Least(Fresh)
<1>1. Fresh \in SUBSET Nat /\ Fresh # {}
  BY Numbers DEF Fresh, SubmitOpen
<1>2. p \in Pid /\ pos[p].status = "none"
  BY <1>1, LeastIsMember DEF Fresh
<1>3. pos' = [pos EXCEPT ![p] = [status |-> "open", scope |-> task[t].scope,
                                 side |-> task[t].side, legs |-> 1, via |-> ""]]
  BY DEF SubmitOpen
<1> HIDE DEF p
<1> QED
  BY <1>2, <1>3, Carried

\* A step that closes, or fills a leg, changes one position of the thread's scope,
\* which is open, and moves the thread on.
LEMMA WriteEffect ==
  ASSUME IInv, NEW t \in Thread,
         \/ \E via \in MirroredExit : ExitPosition(t, via)
         \/ FillLeg(t)
         \/ \E p \in Pid : ManageExit(t, p)
  PROVE  \A p \in Pid : pos'[p] # pos[p] =>
            IsOpen(p) /\ pos[p].scope = task[t].scope /\ task'[t] # task[t]
<1>1. ASSUME NEW p \in Pid, NEW via \in Via, Close(p, via)
      PROVE  \A q \in Pid : pos'[q] # pos[q] => q = p /\ IsOpen(q)
  BY <1>1, Carried, CloseEffect DEF Close
<1>2. ASSUME NEW via \in MirroredExit, ExitPosition(t, via),
             NEW q \in Pid, pos'[q] # pos[q]
      PROVE  IsOpen(q) /\ pos[q].scope = task[t].scope /\ task'[t] # task[t]
  <2> DEFINE p == Least(task[t].todo)
  <2>1. /\ At(t, "check") /\ task[t].todo # {} /\ Close(p, via)
        /\ task'[t].todo = task[t].todo \ {p}
    BY <1>2, Carried DEF ExitPosition, Goto, IInv, TypeOK, Task
  <2>2. p \in Pid /\ p \in task[t].todo /\ pos[p].scope = 0
    BY <2>1, CheckedPosition
  <2>3. task[t].scope = 0
    BY <2>1, Carried DEF TaskOf, At
  <2> HIDE DEF p
  <2>4. q = p /\ IsOpen(q)
    BY <1>1, <1>2, <2>1, <2>2 DEF Via
  <2> QED
    BY <2>1, <2>2, <2>3, <2>4
<1>3. ASSUME FillLeg(t), NEW q \in Pid, pos'[q] # pos[q]
      PROVE  IsOpen(q) /\ pos[q].scope = task[t].scope /\ task'[t] # task[t]
  <2>1. PICK o \in task[t].fills : AddLeg(o[1], task[t].scope)
    BY <1>3 DEF FillLeg
  <2>2. o[1] \in Pid /\ task[t].scope \in Scope
    BY <2>1, Carried DEF Task, Order
  <2>3. IsOpen(q) /\ pos[q].scope = task[t].scope
    BY <1>3, <2>1, <2>2, Carried, AddLegEffect
  <2>4. task[t].pc = "fill" /\ task'[t].pc = "mark"
    BY <1>3, Carried DEF FillLeg, Goto, At, IInv, TypeOK, Task
  <2> QED
    BY <2>3, <2>4
<1>4. ASSUME NEW p \in Pid, ManageExit(t, p), NEW q \in Pid, pos'[q] # pos[q]
      PROVE  IsOpen(q) /\ pos[q].scope = task[t].scope /\ task'[t] # task[t]
  <2>1. p \in OpenIn(task[t].scope) /\ Close(p, "cycle_manager")
    BY <1>4 DEF ManageExit
  <2>2. q = p /\ IsOpen(q)
    BY <1>1, <1>4, <2>1 DEF Via
  <2>3. task[t].pc = "manage" /\ task'[t].pc = "manage_cancel"
    BY <1>4, Carried DEF ManageExit, Goto, At, IInv, TypeOK, Task
  <2> QED
    BY <2>1, <2>2, <2>3 DEF OpenIn
<1> QED
  BY <1>2, <1>3, <1>4

FrozenStep == \A p \in Pid : pos[p].status = "closed" => pos'[p] = pos[p]

\* A closed position is never changed: not by a fill, not by a second exit, not by
\* a handler that read it before (add_leg and close_position ask for an open one).
THEOREM ClosedStaysFrozen == Spec => ClosedIsFrozen
<1>1. IInv /\ [Next]_vars => [FrozenStep]_vars
  <2> SUFFICES ASSUME IInv, [Next]_vars, NEW p \in Pid, pos[p].status = "closed",
                      pos'[p] # pos[p]
               PROVE  FALSE
    BY DEF FrozenStep
  <2>1. pos' # pos
    OBVIOUS
  <2> QED
    BY <2>1, PositionSteps, SubmitOpenEffect, WriteEffect DEF IsOpen
<1> QED
  BY <1>1, InvHolds, PTL DEF Spec, ClosedIsFrozen, FrozenStep

ScopedStep ==
    \A p \in Pid :
        pos[p].status # "none" /\ pos'[p] # pos[p] =>
            \E t \in Thread : task'[t] # task[t] /\ task[t].scope = pos[p].scope

\* A position changes only in a step of a thread that works in its scope
\* (StrategyContext.scope() selects the store; the server's checks are in its own).
THEOREM WritesStayInScope == Spec => ScopedWrites
<1>1. IInv /\ [Next]_vars => [ScopedStep]_vars
  <2> SUFFICES ASSUME IInv, [Next]_vars, NEW p \in Pid, pos[p].status # "none",
                      pos'[p] # pos[p]
               PROVE  \E t \in Thread : task'[t] # task[t] /\ task[t].scope = pos[p].scope
    BY DEF ScopedStep
  <2>1. pos' # pos
    OBVIOUS
  <2> QED
    BY <2>1, PositionSteps, SubmitOpenEffect, WriteEffect
<1> QED
  BY <1>1, InvHolds, PTL DEF Spec, ScopedWrites, ScopedStep

-----------------------------------------------------------------------------
(* As many positions for each strategy as /ingest has handlers.            *)

Entrance == {"guard", "open"}

\* A thread of /decide only submits grids, in the server's scope.
DecideInv ==
    \A t \in Thread \ Ingest :
        /\ task[t].pc \in {"idle", "guard", "open", "orders"}
        /\ task[t].then = "idle"
        /\ task[t].scope = 0

CountInv == DecideInv /\ OneCyclePerHandler

\* Where a thread goes when a grid or a scope is done.
LEMMA FollowingPc ==
  ASSUME NEW T \in Task
  PROVE  /\ NextScope(T).pc \notin Entrance /\ Resume(T).pc \notin Entrance
         /\ Idle.pc \notin Entrance
         /\ T.then = "idle" => Resume(T) = Idle
  BY DEF NextScope, Resume, Idle, Entrance, Task

\* A step that opens no position leads up to the opening only from the gate or
\* in the server's scope.
LEMMA GateSteps ==
  ASSUME IInv, NEW t \in Thread,
         \/ \E d \in Side : RouterGuard(t, d) \/ DirectGrid(t, d)
         \/ \E synth \in BOOLEAN : BeginBar(t, synth)
         \/ SubmitGuard(t) \/ OutOfIds(t) \/ SubmitOrder(t) \/ SubmitCycle(t)
         \/ CheckPositions(t) \/ OnBarClose(t)
  PROVE  /\ \A u \in Thread \ {t} : task'[u] = task[u]
         /\ task'[t].pc \in Entrance /\ task'[t].scope # 0 =>
               \/ task[t].pc = "guard" /\ task[t].scope = task'[t].scope
               \/ OpenIn(task'[t].scope) = {}
<1>0. task \in [Thread -> Task] /\ task[t] \in Task
  BY DEF IInv, TypeOK
<1> USE <1>0 DEF Goto, At, Entrance
<1>1. ASSUME NEW d \in Side, RouterGuard(t, d) \/ DirectGrid(t, d)
      PROVE  (\A u \in Thread \ {t} : task'[u] = task[u]) /\ task'[t].scope = 0
  <2>1. Goto(t, [Idle EXCEPT !.pc = "guard", !.side = d])
    BY <1>1 DEF RouterGuard, DirectGrid
  <2> QED
    BY <2>1 DEF Idle
<1>2. ASSUME NEW synth \in BOOLEAN, BeginBar(t, synth)
      PROVE  (\A u \in Thread \ {t} : task'[u] = task[u]) /\ task'[t].pc \notin Entrance
  <2>1. CASE Goto(t, [Idle EXCEPT !.pc = "list", !.scope = 1, !.synth = TRUE])
    BY <2>1 DEF Idle
  <2>2. CASE Goto(t, [Idle EXCEPT !.pc = "positions"])
    BY <2>2 DEF Idle
  <2> QED
    BY <1>2, <2>1, <2>2 DEF BeginBar
<1>3. ASSUME SubmitGuard(t)
      PROVE  /\ \A u \in Thread \ {t} : task'[u] = task[u]
             /\ task'[t].pc \in Entrance =>
                   task[t].pc = "guard" /\ task[t].scope = task'[t].scope
  <2>1. CASE Goto(t, [task[t] EXCEPT !.pc = "open"])
    BY <1>3, <2>1 DEF SubmitGuard, Task
  <2>2. CASE Goto(t, Resume(task[t]))
    BY <2>2, FollowingPc
  <2> QED
    BY <1>3, <2>1, <2>2 DEF SubmitGuard
<1>4. ASSUME OutOfIds(t) \/ SubmitOrder(t) \/ SubmitCycle(t)
      PROVE  (\A u \in Thread \ {t} : task'[u] = task[u]) /\ task'[t].pc \notin Entrance
  <2>1. CASE Goto(t, Resume(task[t]))
    BY <2>1, FollowingPc
  <2>2. CASE SubmitOrder(t)
    BY <2>2 DEF SubmitOrder, Task
  <2> QED
    BY <1>4, <2>1, <2>2 DEF OutOfIds, SubmitCycle
<1>5. ASSUME CheckPositions(t)
      PROVE  (\A u \in Thread \ {t} : task'[u] = task[u]) /\ task'[t].pc \notin Entrance
  <2>1. CASE ListPositions(t)
    BY <2>1 DEF ListPositions, Task
  <2>2. CASE PassPosition(t) \/ MirrorCycle(t)
    BY <2>2 DEF PassPosition, MirrorCycle, Task
  <2>3. ASSUME NEW via \in MirroredExit, ExitPosition(t, via)
        PROVE  (\A u \in Thread \ {t} : task'[u] = task[u]) /\ task'[t].pc \notin Entrance
    <3>1. PICK pc \in {"check", "check_cancel"} : \E i, S, X :
             task' = [task EXCEPT ![t] =
                        [task[t] EXCEPT !.pc = pc, !.pid = i, !.todo = S, !.exits = X]]
      BY <2>3 DEF ExitPosition
    <3>2. \A i, S, X :
              [task[t] EXCEPT !.pc = pc, !.pid = i, !.todo = S, !.exits = X].pc = pc
      BY DEF Task
    <3> QED
      BY <3>1, <3>2
  <2>4. CASE CancelAfterTarget(t)
    <3>1. task' = [task EXCEPT ![t] = [task[t] EXCEPT !.pc = "check", !.pid = 0]]
      BY <2>4 DEF CancelAfterTarget
    <3> QED
      BY <3>1 DEF Task
  <2>5. CASE EndCheck(t)
    <3>1. task' = [task EXCEPT ![t] = [task[t] EXCEPT !.pc = "list"]]
      BY <2>5 DEF EndCheck
    <3> QED
      BY <3>1 DEF Task
  <2> QED
    BY <1>5, <2>1, <2>2, <2>3, <2>4, <2>5 DEF CheckPositions
<1>6. ASSUME OnBarClose(t)
      PROVE  /\ \A u \in Thread \ {t} : task'[u] = task[u]
             /\ task'[t].pc \in Entrance /\ task'[t].scope # 0 => OpenIn(task'[t].scope) = {}
  <2>1. CASE ListOrders(t)
    <3>1. PICK X : task' = [task EXCEPT ![t] = [task[t] EXCEPT !.pc = "fill", !.fills = X]]
      BY <2>1 DEF ListOrders
    <3> QED
      BY <3>1 DEF Task
  <2>2. CASE MarkFilled(t) \/ EndFills(t) \/ CancelAfterExit(t) \/ FillLeg(t)
    <3>1. PICK pc \in {"fill", "mark", "manage"} : \E i, S, X :
             task' = [task EXCEPT ![t] =
                        [task[t] EXCEPT !.pc = pc, !.fills = X, !.pid = i, !.todo = S]]
      <4>1. CASE MarkFilled(t)
        <5>1. task' = [task EXCEPT ![t] = [task[t] EXCEPT !.pc = "fill", !.fills = task[t].fills,
                                                          !.pid = 0, !.todo = {}]]
          BY <4>1 DEF MarkFilled, Task
        <5> QED
          BY <5>1
      <4>2. CASE EndFills(t)
        <5>1. task' = [task EXCEPT ![t] = [task[t] EXCEPT !.pc = "manage", !.fills = task[t].fills,
                                              !.pid = task[t].pid, !.todo = task[t].todo]]
          BY <4>2 DEF EndFills, Task
        <5> QED
          BY <5>1
      <4>3. CASE CancelAfterExit(t)
        <5>1. task' = [task EXCEPT ![t] = [task[t] EXCEPT !.pc = "manage", !.fills = task[t].fills,
                                                          !.pid = 0, !.todo = task[t].todo]]
          BY <4>3 DEF CancelAfterExit, Task
        <5> QED
          BY <5>1
      <4>4. CASE FillLeg(t)
        <5>1. PICK o \in task[t].fills :
                 task' = [task EXCEPT ![t] =
                            [task[t] EXCEPT !.pc = "mark", !.fills = task[t].fills \ {o},
                                            !.pid = o[1], !.todo = {o[2]}]]
          BY <4>4 DEF FillLeg
        <5> QED
          BY <5>1
      <4> QED
        BY <2>2, <4>1, <4>2, <4>3, <4>4
    <3>2. \A i, S, X : [task[t] EXCEPT !.pc = pc, !.fills = X, !.pid = i, !.todo = S].pc = pc
      BY DEF Task
    <3> QED
      BY <3>1, <3>2
  <2>3. ASSUME NEW p \in Pid, ManageExit(t, p)
        PROVE  (\A u \in Thread \ {t} : task'[u] = task[u]) /\ task'[t].pc \notin Entrance
    BY <2>3 DEF ManageExit, Task
  <2>4. ASSUME NEW p \in Pid, HedgeGrid(t, p)
        PROVE  (\A u \in Thread \ {t} : task'[u] = task[u]) /\ task'[t].scope = 0
    BY <2>4 DEF HedgeGrid, Task
  <2>5. CASE ManageDone(t)
    <3>1. CASE Goto(t, [task[t] EXCEPT !.pc = "enter"])
      BY <3>1 DEF Task
    <3>2. CASE Goto(t, NextScope(task[t]))
      BY <3>2, FollowingPc
    <3> QED
      BY <2>5, <3>1, <3>2 DEF ManageDone
  <2>6. CASE EnterStrategy(t)
    <3>1. ASSUME NEW d \in Side, OpenIn(task[t].scope) = {},
                 Goto(t, [task[t] EXCEPT !.pc = "guard", !.side = d, !.then = "next"])
          PROVE  /\ \A u \in Thread \ {t} : task'[u] = task[u]
                 /\ OpenIn(task'[t].scope) = {}
      <4>1. task'[t].scope = task[t].scope
        BY <3>1 DEF Task
      <4> QED
        BY <3>1, <4>1
    <3>2. CASE Goto(t, NextScope(task[t]))
      BY <3>2, FollowingPc
    <3> QED
      BY <2>6, <3>1, <3>2 DEF EnterStrategy
  <2> QED
    BY <1>6, <2>1, <2>2, <2>3, <2>4, <2>5, <2>6 DEF OnBarClose
<1> QED
  BY <1>1, <1>2, <1>3, <1>4, <1>5, <1>6

\* Closing, and filling a leg, leave the scope of an open position.
LEMMA ScopeKept ==
  ASSUME IInv, NEW t \in Thread,
         \/ \E via \in MirroredExit : ExitPosition(t, via)
         \/ FillLeg(t)
         \/ \E p \in Pid : ManageExit(t, p)
  PROVE  \A p \in Pid : IsOpen(p) => pos'[p].scope = pos[p].scope
<1>0. pos \in [Pid -> Position]
  BY DEF IInv, TypeOK
<1>1. ASSUME NEW p, NEW via, Close(p, via)
      PROVE  \A q \in Pid : pos'[q].scope = pos[q].scope
  BY <1>0, <1>1 DEF Close, Position
<1>2. ASSUME NEW p, NEW s, AddLeg(p, s)
      PROVE  \A q \in Pid : pos'[q].scope = pos[q].scope
  BY <1>0, <1>2 DEF AddLeg, Position
<1> QED
  BY <1>1, <1>2 DEF ExitPosition, FillLeg, ManageExit

\* Only the opening of a grid adds to what is open in a scope.
LEMMA OpenShrinks ==
  ASSUME IInv, [Next]_vars, \A t \in Thread : ~SubmitOpen(t)
  PROVE  \A s \in Scope : OpenIn(s)' \subseteq OpenIn(s)
<1>1. CASE pos' = pos
  BY <1>1 DEF OpenIn, IsOpen
<1>2. CASE pos' # pos
  <2>1. PICK t \in Thread :
           \/ \E via \in MirroredExit : ExitPosition(t, via)
           \/ FillLeg(t)
           \/ \E p \in Pid : ManageExit(t, p)
    BY <1>2, PositionSteps
  <2>2. \A p \in Pid : pos'[p] # pos[p] => IsOpen(p)
    BY <2>1, WriteEffect
  <2>3. \A p \in Pid : IsOpen(p) => pos'[p].scope = pos[p].scope
    BY <2>1, ScopeKept
  <2> QED
    BY <2>2, <2>3 DEF OpenIn, IsOpen
<1> QED
  BY <1>1, <1>2

\* A thread of /decide starts grids in the server's scope and nothing else.
LEMMA DecideKeeps ==
  ASSUME IInv, DecideInv, [Next]_vars PROVE DecideInv'
<1> SUFFICES ASSUME NEW t \in Thread \ Ingest, task'[t] # task[t]
             PROVE  /\ task'[t].pc \in {"idle", "guard", "open", "orders"}
                    /\ task'[t].then = "idle"
                    /\ task'[t].scope = 0
  BY DEF DecideInv
<1>0. /\ task \in [Thread -> Task] /\ task[t] \in Task
      /\ task[t].pc \in {"idle", "guard", "open", "orders"}
      /\ task[t].then = "idle" /\ task[t].scope = 0
  BY DEF IInv, TypeOK, DecideInv
<1>1. CASE Restart
  BY <1>1 DEF Restart, Idle
<1>2. ASSUME NEW u \in Thread, NEW d \in Side, RouterGuard(u, d) \/ DirectGrid(u, d) PROVE
         task'[t] = [Idle EXCEPT !.pc = "guard", !.side = d]
  BY <1>0, <1>2 DEF RouterGuard, DirectGrid, Goto
<1>3. ASSUME NEW u \in Ingest, NEW synth \in BOOLEAN, BeginBar(u, synth) PROVE FALSE
  BY <1>0, <1>3 DEF BeginBar, Goto, Thread
<1>4. ASSUME NEW u \in Thread, CheckPositions(u) \/ OnBarClose(u) PROVE FALSE
  <2>1. t = u
    BY <1>0, <1>4, GateSteps
  <2> QED
    BY <1>0, <1>4, <2>1 DEF CheckPositions, OnBarClose, At, ListPositions, PassPosition,
       ExitPosition, CancelAfterTarget, MirrorCycle, EndCheck, ListOrders, FillLeg, MarkFilled,
       EndFills, ManageExit, HedgeGrid, CancelAfterExit, ManageDone, EnterStrategy
<1>5. ASSUME NEW u \in Thread, Submit(u)
      PROVE  \/ task'[t] = Idle
             \/ task'[t] = [task[t] EXCEPT !.pc = "open"]
             \/ \E i, S : task'[t] = [task[t] EXCEPT !.pc = "orders", !.pid = i, !.todo = S]
  <2>1. Resume(task[t]) = Idle
    BY <1>0, FollowingPc
  <2>2. CASE SubmitGuard(u)
    BY <1>0, <2>1, <2>2 DEF SubmitGuard, Goto
  <2>3. CASE SubmitOpen(u)
    <3>1. PICK i, S : task' = [task EXCEPT ![u] = [task[u] EXCEPT !.pc = "orders", !.pid = i, !.todo = S]]
      BY <2>3 DEF SubmitOpen, Goto
    <3> QED
      BY <1>0, <3>1
  <2>4. CASE OutOfIds(u) \/ SubmitCycle(u)
    BY <1>0, <2>1, <2>4 DEF OutOfIds, SubmitCycle, Goto
  <2>5. CASE SubmitOrder(u)
    <3>1. t = u /\ task[t].pc = "orders"
      BY <1>0, <2>5 DEF SubmitOrder, Goto, At
    <3>2. PICK S : task' = [task EXCEPT ![t] = [task[t] EXCEPT !.todo = S]]
      BY <2>5, <3>1 DEF SubmitOrder, Goto
    <3>3. [task[t] EXCEPT !.todo = S] =
             [task[t] EXCEPT !.pc = "orders", !.pid = task[t].pid, !.todo = S]
      BY <1>0, <3>1 DEF Task
    <3> QED
      BY <1>0, <3>2, <3>3
  <2> QED
    BY <1>5, <2>2, <2>3, <2>4, <2>5 DEF Submit
<1>6. ASSUME NEW u \in Thread, Submit(u)
      PROVE  /\ task'[t].pc \in {"idle", "guard", "open", "orders"}
             /\ task'[t].then = "idle"
             /\ task'[t].scope = 0
  <2>1. CASE task'[t] = Idle
    BY <2>1 DEF Idle
  <2>2. CASE task'[t] = [task[t] EXCEPT !.pc = "open"]
    BY <1>0, <2>2 DEF Task
  <2>3. ASSUME NEW i, NEW S, task'[t] = [task[t] EXCEPT !.pc = "orders", !.pid = i, !.todo = S]
        PROVE  task'[t].pc = "orders" /\ task'[t].then = "idle" /\ task'[t].scope = 0
    BY <1>0, <2>3 DEF Task
  <2> QED
    BY <1>5, <1>6, <2>1, <2>2, <2>3
<1>7. ASSUME NEW u \in Thread, NEW d \in Side, RouterGuard(u, d) \/ DirectGrid(u, d)
      PROVE  /\ task'[t].pc \in {"idle", "guard", "open", "orders"}
             /\ task'[t].then = "idle"
             /\ task'[t].scope = 0
  BY <1>2, <1>7 DEF Idle
<1> QED
  BY <1>1, <1>3, <1>4, <1>6, <1>7 DEF Next, Serve, vars, Thread

\* Who is on the way to an opening in a strategy's scope is a handler of /ingest.
LEMMA OnlyHandlersEnter ==
  ASSUME DecideInv, NEW s \in Scope \ {0} PROVE Entering(s) \subseteq Ingest
  BY DEF DecideInv, Entering

\* The positions open in a scope are finitely many.
LEMMA FewOpen == ASSUME NEW s PROVE IsFiniteSet(OpenIn(s))
<1>1. IsFiniteSet(Pid)
  BY GridAssumption, FS_Interval DEF Pid
<1> QED
  BY <1>1, FS_Subset DEF OpenIn

\* One position more for one entrant less.
LEMMA Exchange ==
  ASSUME NEW O, NEW E, IsFiniteSet(O), IsFiniteSet(E), NEW t \in E, NEW p,
         NEW U \in SUBSET (O \cup {p}), NEW F \in SUBSET (E \ {t})
  PROVE  Cardinality(U) + Cardinality(F) <= Cardinality(O) + Cardinality(E)
<1>1. /\ IsFiniteSet(O \cup {p})
      /\ Cardinality(O \cup {p}) <= Cardinality(O) + 1
  <2>1. /\ IsFiniteSet(O \cup {p})
        /\ Cardinality(O \cup {p}) = IF p \in O THEN Cardinality(O) ELSE Cardinality(O) + 1
    BY FS_AddElement
  <2>2. Cardinality(O) \in Nat
    BY FS_CardinalityType
  <2> QED
    BY <2>1, <2>2
<1>2. IsFiniteSet(E \ {t}) /\ Cardinality(E \ {t}) = Cardinality(E) - 1
  BY FS_RemoveElement
<1>3. IsFiniteSet(U) /\ Cardinality(U) <= Cardinality(O \cup {p})
  BY <1>1, FS_Subset
<1>4. IsFiniteSet(F) /\ Cardinality(F) <= Cardinality(E \ {t})
  BY <1>2, FS_Subset
<1>5. /\ Cardinality(O) \in Nat /\ Cardinality(E) \in Nat /\ Cardinality(U) \in Nat
      /\ Cardinality(F) \in Nat /\ Cardinality(O \cup {p}) \in Nat
  BY <1>1, <1>3, <1>4, FS_CardinalityType
<1> QED
  BY <1>1, <1>2, <1>3, <1>4, <1>5

\* Nobody new.
LEMMA NobodyNew ==
  ASSUME NEW O, NEW E, IsFiniteSet(O), IsFiniteSet(E), NEW U \in SUBSET O, NEW F \in SUBSET E
  PROVE  Cardinality(U) + Cardinality(F) <= Cardinality(O) + Cardinality(E)
<1>1. /\ Cardinality(U) <= Cardinality(O) /\ Cardinality(F) <= Cardinality(E)
      /\ IsFiniteSet(U) /\ IsFiniteSet(F)
  BY FS_Subset
<1>2. /\ Cardinality(O) \in Nat /\ Cardinality(E) \in Nat
      /\ Cardinality(U) \in Nat /\ Cardinality(F) \in Nat
  BY <1>1, FS_CardinalityType
<1> QED
  BY <1>1, <1>2

\* The opening of a grid takes its handler out of the entrance.
LEMMA OpeningCounts ==
  ASSUME IsFiniteSet(Ingest), IInv, CountInv, NEW t \in Thread, SubmitOpen(t),
         NEW s \in Scope \ {0}
  PROVE  Cardinality(OpenIn(s)') + Cardinality(Entering(s)')
            <= Cardinality(OpenIn(s)) + Cardinality(Entering(s))
<1>1. PICK p \in Pid : /\ pos[p].status = "none"
                       /\ pos'[p].status = "open" /\ pos'[p].scope = task[t].scope
                       /\ \A q \in Pid \ {p} : pos'[q] = pos[q]
  BY SubmitOpenEffect
<1>2. /\ task[t].pc = "open" /\ task'[t].pc = "orders"
      /\ \A u \in Thread \ {t} : task'[u] = task[u]
  <2>1. PICK i, S : task' = [task EXCEPT ![t] = [task[t] EXCEPT !.pc = "orders", !.pid = i, !.todo = S]]
    BY DEF SubmitOpen, Goto
  <2>2. [task[t] EXCEPT !.pc = "orders", !.pid = i, !.todo = S].pc = "orders"
    BY Carried DEF Task
  <2>3. task \in [Thread -> Task]
    BY DEF IInv, TypeOK
  <2> QED
    BY <2>1, <2>2, <2>3 DEF SubmitOpen, At
<1>3. Entering(s)' \subseteq Entering(s) \ {t}
  BY <1>2 DEF Entering
<1>4. IsFiniteSet(OpenIn(s)) /\ IsFiniteSet(Entering(s))
  BY FewOpen, OnlyHandlersEnter, FS_Subset DEF CountInv
<1>5. CASE task[t].scope = s
  <2>1. OpenIn(s)' \subseteq OpenIn(s) \cup {p}
    BY <1>1 DEF OpenIn, IsOpen
  <2>2. t \in Entering(s)
    BY <1>2, <1>5 DEF Entering
  <2> QED
    BY <1>3, <1>4, <2>1, <2>2, Exchange
<1>6. CASE task[t].scope # s
  <2>1. OpenIn(s)' \subseteq OpenIn(s)
    BY <1>1, <1>6 DEF OpenIn, IsOpen
  <2> QED
    BY <1>3, <1>4, <2>1, NobodyNew
<1> QED
  BY <1>5, <1>6

\* Where nothing is opened, an entrant is new only in a scope with nothing open.
LEMMA NewEntrants ==
  ASSUME IInv, [Next]_vars, \A t \in Thread : ~SubmitOpen(t), NEW s \in Scope \ {0}
  PROVE  OpenIn(s) = {} \/ Entering(s)' \subseteq Entering(s)
<1> SUFFICES ASSUME NEW u \in Thread, task'[u].scope = s, task'[u].pc \in Entrance,
                    OpenIn(s) # {}
             PROVE  task[u].scope = s /\ task[u].pc \in Entrance
  BY DEF Entering, Entrance
<1>1. CASE task'[u] = task[u]
  BY <1>1
<1>2. CASE task'[u] # task[u] /\ ~Restart
  <2>1. PICK t \in Thread :
           \/ \E d \in Side : RouterGuard(t, d) \/ DirectGrid(t, d)
           \/ \E synth \in BOOLEAN : BeginBar(t, synth)
           \/ SubmitGuard(t) \/ OutOfIds(t) \/ SubmitOrder(t) \/ SubmitCycle(t)
           \/ CheckPositions(t) \/ OnBarClose(t)
    BY <1>2 DEF Next, Serve, vars, Submit, Thread
  <2>2. u = t
    BY <1>2, <2>1, GateSteps
  <2>3. \/ task[u].pc = "guard" /\ task[u].scope = task'[u].scope
        \/ OpenIn(task'[u].scope) = {}
    BY <2>1, <2>2, GateSteps
  <2> QED
    BY <2>3 DEF Entrance
<1>3. CASE Restart
  BY <1>3 DEF Restart, Idle, Entrance
<1> QED
  BY <1>1, <1>2, <1>3

\* Every step keeps the count.
LEMMA CountKeeps ==
  ASSUME IsFiniteSet(Ingest), IInv, CountInv, [Next]_vars PROVE CountInv'
<1>1. DecideInv'
  BY DecideKeeps DEF CountInv
<1>2. ASSUME NEW s \in Scope \ {0}
      PROVE  Cardinality(OpenIn(s)') + Cardinality(Entering(s)') <= Cardinality(Ingest)
  <2>1. Cardinality(OpenIn(s)) + Cardinality(Entering(s)) <= Cardinality(Ingest)
    BY DEF CountInv, OneCyclePerHandler
  <2>2. IsFiniteSet(OpenIn(s)) /\ IsFiniteSet(Entering(s)) /\ IsFiniteSet(OpenIn(s)')
    <3>1. IsFiniteSet(OpenIn(s)) /\ IsFiniteSet(Entering(s))
      BY FewOpen, OnlyHandlersEnter, FS_Subset DEF CountInv
    <3>2. IsFiniteSet(Pid) /\ OpenIn(s)' \subseteq Pid
      BY GridAssumption, FS_Interval DEF Pid, OpenIn
    <3> QED
      BY <3>1, <3>2, FS_Subset
  <2>3. Entering(s)' \subseteq Ingest
    BY <1>1 DEF DecideInv, Entering
  <2>4. /\ Cardinality(OpenIn(s)) \in Nat /\ Cardinality(Entering(s)) \in Nat
        /\ Cardinality(OpenIn(s)') \in Nat /\ Cardinality(Entering(s)') \in Nat
        /\ Cardinality(Ingest) \in Nat
        /\ Cardinality(Entering(s)') <= Cardinality(Ingest)
    BY <2>2, <2>3, FS_Subset, FS_CardinalityType
  <2>5. CASE \E t \in Thread : SubmitOpen(t)
    <3>1. Cardinality(OpenIn(s)') + Cardinality(Entering(s)')
             <= Cardinality(OpenIn(s)) + Cardinality(Entering(s))
      BY <2>5, OpeningCounts
    <3> QED
      BY <2>1, <2>4, <3>1
  <2>6. CASE \A t \in Thread : ~SubmitOpen(t)
    <3>1. OpenIn(s)' \subseteq OpenIn(s)
      BY <2>6, OpenShrinks
    <3>2. CASE OpenIn(s) = {}
      <4>1. OpenIn(s)' = {}
        BY <3>1, <3>2
      <4>2. Cardinality(OpenIn(s)') = 0
        BY <4>1, FS_EmptySet
      <4> QED
        BY <2>4, <4>2
    <3>3. CASE Entering(s)' \subseteq Entering(s)
      <4>1. Cardinality(OpenIn(s)') + Cardinality(Entering(s)')
               <= Cardinality(OpenIn(s)) + Cardinality(Entering(s))
        BY <2>2, <3>1, <3>3, NobodyNew
      <4> QED
        BY <2>1, <2>4, <4>1
    <3> QED
      BY <2>6, <3>2, <3>3, NewEntrants
  <2> QED
    BY <2>5, <2>6
<1> QED
  BY <1>1, <1>2 DEF CountInv, OneCyclePerHandler

\* A strategy has at most as many open positions, and entries on their way past its
\* gate, as /ingest has handlers: StrategyManager._run_one asks open_for and enters in
\* two steps, and that a later tick sees the position is what bounds the overlaps.
THEOREM OpensBoundedByHandlers ==
  ASSUME IsFiniteSet(Ingest) PROVE Spec => []OneCyclePerHandler
<1>1. Init => CountInv
  <2> SUFFICES ASSUME Init PROVE CountInv
    OBVIOUS
  <2>1. \A t \in Thread : task[t] = Idle
    BY DEF Init
  <2>2. DecideInv
    BY <2>1 DEF DecideInv, Idle
  <2>3. ASSUME NEW s \in Scope \ {0}
        PROVE  Cardinality(OpenIn(s)) + Cardinality(Entering(s)) <= Cardinality(Ingest)
    <3>1. OpenIn(s) = {}
      BY DEF Init, IsOpen, NoPosition, OpenIn
    <3>2. Entering(s) = {}
      BY <2>1 DEF Entering, Idle
    <3> QED
      BY <3>1, <3>2, FS_EmptySet, FS_CardinalityType
  <2> QED
    BY <2>2, <2>3 DEF CountInv, OneCyclePerHandler
<1>2. IInv /\ CountInv /\ [Next]_vars => CountInv'
  BY CountKeeps
<1>3. CountInv => OneCyclePerHandler
  BY DEF CountInv
<1> QED
  BY <1>1, <1>2, <1>3, InvHolds, PTL DEF Spec

-----------------------------------------------------------------------------
(***************************************************************************)
(* The three stores.  What they disagree about lies in the hands of some   *)
(* handler: a grid whose orders or cycle are not yet written, a leg whose  *)
(* order is not yet marked, an exit whose orders are not yet cancelled or  *)
(* whose cycle is not yet closed.                                          *)
(***************************************************************************)
BeingPlaced(p) == \E t \in Thread : Placing(task[t], p)
BeingMarked(p) == { o \in Order : o[1] = p /\ \E t \in Thread : Marking(task[t], o) }

\* One handler places the orders of a position, which exists; what it has still to
\* place was never placed.  An order exists for a position that does, and so does an
\* order that a fill pass has read.  Only the checks carry exits.
OnePlacer ==
    \A t, u \in Thread, p \in Pid : Placing(task[t], p) /\ Placing(task[u], p) => t = u
PlacedIsNew ==
    \A t \in Thread, p \in Pid :
        Placing(task[t], p) =>
            pos[p].status # "none" /\ \A i \in task[t].todo : order[<<p, i>>] = "none"
OrdersOfPositions == \A o \in Order : order[o] # "none" => pos[o[1]].status # "none"
ReadOrdersExist ==
    \A t \in Thread, o \in Order :
        o \in task[t].fills \/ Marking(task[t], o) => order[o] # "none"
ExitsInChecks == \A t \in Thread : task[t].exits # {} => task[t].pc \in {"check", "check_cancel"}

HandsInv == OnePlacer /\ PlacedIsNew /\ OrdersOfPositions /\ ReadOrdersExist /\ ExitsInChecks

\* The stores agree about a position, up to what the handlers have in hand.
Agreed(p) ==
    /\ BeingPlaced(p) => IsOpen(p)
    /\ pos[p].status # "none" /\ ~BeingPlaced(p) => cycle[p] # "none"
    /\ CycleClosed(p)
    /\ NoOrderLeft(p)
    /\ IsOpen(p) => pos[p].legs = 1 + Cardinality(Filled(p) \cup BeingMarked(p))

KeepsAgreed ==
    \A p \in Pid \ (ClosedWhilePlaced \cup FilledAmiss) : Agreed(p) => Agreed(p)'

\* Where a handler has something in hand.
Busy == {"orders", "mark", "check_cancel", "manage_cancel"}

\* One thread moves, the others stay.
LEMMA Moved ==
  ASSUME IInv, NEW t \in Thread, NEW N, Goto(t, N)
  PROVE  task'[t] = N /\ \A u \in Thread \ {t} : task'[u] = task[u]
  BY DEF IInv, TypeOK, Goto

\* A thread moves without taking a new grid in hand.
LEMMA HandsMove ==
  ASSUME IInv, HandsInv, NEW t \in Thread, NEW N, Goto(t, N),
         \A p \in Pid : pos'[p].status = "none" <=> pos[p].status = "none",
         \A o \in Order : order'[o] = "none" <=> order[o] = "none",
         \A p \in Pid : Placing(N, p) => Placing(task[t], p) /\ N.todo \subseteq task[t].todo,
         \A o \in Order : o \in N.fills \/ Marking(N, o) => order[o] # "none",
         N.exits # {} => N.pc \in {"check", "check_cancel"}
  PROVE  HandsInv'
<1>1. task'[t] = N /\ \A u \in Thread \ {t} : task'[u] = task[u]
  BY Moved
<1>2. \A u \in Thread, p \in Pid :
         Placing(task'[u], p) => Placing(task[u], p) /\ task'[u].todo \subseteq task[u].todo
  BY <1>1
<1>3. OnePlacer'
  BY <1>2 DEF HandsInv, OnePlacer
<1>4. PlacedIsNew'
  <2> SUFFICES ASSUME NEW u \in Thread, NEW p \in Pid, Placing(task'[u], p)
               PROVE  pos'[p].status # "none" /\ \A i \in task'[u].todo : order'[<<p, i>>] = "none"
    BY DEF PlacedIsNew
  <2>1. Placing(task[u], p) /\ task'[u].todo \subseteq task[u].todo
    BY <1>2
  <2>2. task[u].todo \subseteq Slot
    BY <2>1, Carried DEF TaskOf, Placing
  <2>3. \A i \in task[u].todo : <<p, i>> \in Order
    BY <2>2 DEF Order
  <2> QED
    BY <2>1, <2>3 DEF HandsInv, PlacedIsNew
<1>5. OrdersOfPositions'
  <2>1. \A o \in Order : o[1] \in Pid
    BY DEF Order
  <2> QED
    BY <2>1 DEF HandsInv, OrdersOfPositions
<1>6. ReadOrdersExist'
  BY <1>1 DEF HandsInv, ReadOrdersExist
<1>7. ExitsInChecks'
  BY <1>1 DEF HandsInv, ExitsInChecks
<1> QED
  BY <1>3, <1>4, <1>5, <1>6, <1>7 DEF HandsInv

\* What the hands hold of a position, when one thread moves.
LEMMA HandsAfter ==
  ASSUME IInv, NEW t \in Thread, NEW N, Goto(t, N), NEW p \in Pid,
         Placing(N, p) <=> Placing(task[t], p),
         \A o \in Order : o[1] = p => (Marking(N, o) <=> Marking(task[t], o))
  PROVE  (BeingPlaced(p)' <=> BeingPlaced(p)) /\ BeingMarked(p)' = BeingMarked(p)
<1>1. task'[t] = N /\ \A u \in Thread \ {t} : task'[u] = task[u]
  BY Moved
<1>2. BeingPlaced(p)' <=> BeingPlaced(p)
  BY <1>1 DEF BeingPlaced
<1>3. \A o \in Order : o[1] = p =>
         ((\E u \in Thread : Marking(task'[u], o)) <=> (\E u \in Thread : Marking(task[u], o)))
  BY <1>1
<1> QED
  BY <1>2, <1>3 DEF BeingMarked

\* A step that leaves what the stores say of a position.
LEMMA AgreedStays ==
  ASSUME IInv, NEW t \in Thread, NEW N, Goto(t, N), NEW p \in Pid, Agreed(p),
         pos'[p] = pos[p], cycle'[p] = cycle[p],
         \A o \in Order : o[1] = p => order'[o] = order[o],
         Placing(N, p) <=> Placing(task[t], p),
         \A o \in Order : o[1] = p => (Marking(N, o) <=> Marking(task[t], o)),
         Cancelling(task[t], p) => Cancelling(N, p),
         Mirroring(task[t], p) => Mirroring(N, p)
  PROVE  Agreed(p)'
<1>1. task'[t] = N /\ \A u \in Thread \ {t} : task'[u] = task[u]
  BY Moved
<1>2. (BeingPlaced(p)' <=> BeingPlaced(p)) /\ BeingMarked(p)' = BeingMarked(p)
  BY HandsAfter
<1>3. Filled(p)' = Filled(p)
  BY DEF Filled
<1>4. (\A u \in Thread : ~Cancelling(task'[u], p)) => (\A u \in Thread : ~Cancelling(task[u], p))
  BY <1>1
<1>5. (\A u \in Thread : ~Mirroring(task'[u], p)) => (\A u \in Thread : ~Mirroring(task[u], p))
  BY <1>1
<1>6. CycleClosed(p)'
  BY <1>5 DEF Agreed, CycleClosed
<1>7. NoOrderLeft(p)'
  BY <1>4 DEF Agreed, NoOrderLeft, OpenOrders
<1>8. IsOpen(p)' <=> IsOpen(p)
  BY DEF IsOpen
<1> QED
  BY <1>2, <1>3, <1>6, <1>7, <1>8 DEF Agreed

\* A step of a thread that has nothing in hand but exits to mirror.
LEMMA QuietAgrees ==
  ASSUME IInv, HandsInv, NEW t \in Thread, NEW N, Goto(t, N), UNCHANGED <<pos, order, cycle>>,
         task[t].pc \notin Busy, N.pc \notin Busy,
         N.exits = task[t].exits, N.exits # {} => N.pc = "check",
         \A o \in Order : o \in N.fills => order[o] # "none"
  PROVE  HandsInv' /\ KeepsAgreed
<1>1. \A p \in Pid : ~Placing(N, p) /\ ~Placing(task[t], p)
  BY DEF Placing, Busy
<1>2. \A o \in Order : ~Marking(N, o) /\ ~Marking(task[t], o)
  BY DEF Marking, Busy
<1>3. \A p \in Pid : ~Cancelling(task[t], p)
  BY DEF Cancelling, Busy
<1>4. \A p \in Pid : Mirroring(task[t], p) => Mirroring(N, p)
  BY DEF Mirroring
<1>5. HandsInv'
  BY <1>1, <1>2, HandsMove
<1>6. ASSUME NEW p \in Pid, Agreed(p) PROVE Agreed(p)'
  BY <1>1, <1>2, <1>3, <1>4, <1>6, AgreedStays
<1> QED
  BY <1>5, <1>6 DEF KeepsAgreed

\* Outside the checks a thread has no exits to mirror.
LEMMA NoExits ==
  ASSUME HandsInv, NEW t \in Thread, task[t].pc \notin {"check", "check_cancel"}
  PROVE  task[t].exits = {}
  BY DEF HandsInv, ExitsInChecks

\* The orders a fill pass has read exist.
LEMMA FillsExist ==
  ASSUME HandsInv, NEW t \in Thread
  PROVE  \A o \in Order : o \in task[t].fills => order[o] # "none"
  BY DEF HandsInv, ReadOrdersExist

\* Where a thread goes when a grid or a scope is done, it has nothing in hand.
LEMMA FollowingIdle ==
  ASSUME NEW T \in Task
  PROVE  \A new \in {NextScope(T), Resume(T), Idle} :
            new.pc \notin Busy /\ new.exits = {} /\ new.fills = {}
<1>1. Idle.pc \notin Busy /\ Idle.exits = {} /\ Idle.fills = {}
  BY DEF Idle, Busy
<1>2. LET next == [Idle EXCEPT !.pc = "list", !.scope = T.scope + 1, !.synth = T.synth]
      IN  next.pc \notin Busy /\ next.exits = {} /\ next.fills = {}
  BY DEF Idle, Busy
<1>3. LET next == [Idle EXCEPT !.pc = "positions"]
      IN  next.pc \notin Busy /\ next.exits = {} /\ next.fills = {}
  BY DEF Idle, Busy
<1>4. NextScope(T).pc \notin Busy /\ NextScope(T).exits = {} /\ NextScope(T).fills = {}
  BY <1>1, <1>2, <1>3 DEF NextScope
<1>5. Resume(T) \in {NextScope(T), Idle}
  BY DEF Resume
<1> QED
  BY <1>1, <1>4, <1>5

\* Decisions of the router, and submit_grid's guard.
LEMMA QuietEntries ==
  ASSUME IInv, HandsInv, NEW t \in Thread,
         \/ \E d \in Side : RouterGuard(t, d) \/ DirectGrid(t, d)
         \/ SubmitGuard(t) \/ OutOfIds(t)
  PROVE  HandsInv' /\ KeepsAgreed
<1>1. /\ UNCHANGED <<pos, order, cycle>>
      /\ task[t].pc \in {"idle", "guard", "open"}
  BY DEF RouterGuard, DirectGrid, SubmitGuard, OutOfIds, At
<1>2. task[t].exits = {} /\ task[t].pc \notin Busy
  BY <1>1, NoExits DEF Busy
<1>3. \/ \E d \in Side : Goto(t, [Idle EXCEPT !.pc = "guard", !.side = d])
      \/ Goto(t, [task[t] EXCEPT !.pc = "open"])
      \/ Goto(t, Resume(task[t]))
  BY DEF RouterGuard, DirectGrid, SubmitGuard, OutOfIds
<1>4. ASSUME NEW d \in Side, Goto(t, [Idle EXCEPT !.pc = "guard", !.side = d])
      PROVE  HandsInv' /\ KeepsAgreed
  <2> DEFINE new == [Idle EXCEPT !.pc = "guard", !.side = d]
  <2>1. Goto(t, new) /\ new.pc = "guard" /\ new.exits = {} /\ new.fills = {}
    BY <1>4 DEF Idle
  <2> HIDE DEF new
  <2> QED
    BY <1>1, <1>2, <2>1, QuietAgrees DEF Busy
<1>5. CASE Goto(t, [task[t] EXCEPT !.pc = "open"])
  <2> DEFINE new == [task[t] EXCEPT !.pc = "open"]
  <2>1. /\ Goto(t, new)
        /\ new.pc = "open" /\ new.exits = task[t].exits /\ new.fills = task[t].fills
    BY <1>5, Carried DEF Task
  <2> HIDE DEF new
  <2> QED
    BY <1>1, <1>2, <2>1, FillsExist, QuietAgrees DEF Busy
<1>6. CASE Goto(t, Resume(task[t]))
  BY <1>1, <1>2, <1>6, Carried, FollowingIdle, QuietAgrees
<1> QED
  BY <1>3, <1>4, <1>5, <1>6

\* The beginning and the end of the checks, and a position that is passed.
LEMMA QuietChecks ==
  ASSUME IInv, HandsInv, NEW t \in Thread,
         \/ \E synth \in BOOLEAN : BeginBar(t, synth)
         \/ ListPositions(t) \/ PassPosition(t) \/ EndCheck(t)
  PROVE  HandsInv' /\ KeepsAgreed
<1>1. UNCHANGED <<pos, order, cycle>>
  BY DEF BeginBar, ListPositions, PassPosition, EndCheck
<1>2. ASSUME NEW N, Goto(t, N), task[t].pc \in {"idle", "positions", "check"},
             N.pc \in {"list", "positions", "check"}, N.exits = task[t].exits,
             N.exits # {} => N.pc = "check",
             N.fills \in {{}, task[t].fills}
      PROVE  HandsInv' /\ KeepsAgreed
  BY <1>1, <1>2, FillsExist, QuietAgrees DEF Busy
<1>3. ASSUME NEW synth \in BOOLEAN, BeginBar(t, synth) PROVE HandsInv' /\ KeepsAgreed
  <2>1. task[t].pc = "idle" /\ task[t].exits = {}
    BY <1>3, NoExits DEF BeginBar, At
  <2>2. PICK N : /\ Goto(t, N)
                 /\ N \in {[Idle EXCEPT !.pc = "list", !.scope = 1, !.synth = TRUE],
                           [Idle EXCEPT !.pc = "positions"]}
    BY <1>3 DEF BeginBar
  <2>3. N.pc \in {"list", "positions"} /\ N.exits = {} /\ N.fills = {}
    BY <2>2 DEF Idle
  <2> QED
    BY <1>2, <2>1, <2>2, <2>3
<1>4. CASE ListPositions(t)
  <2>1. task[t].pc = "positions" /\ task[t].exits = {}
    BY <1>4, NoExits DEF ListPositions, At
  <2> DEFINE new == [task[t] EXCEPT !.pc = "check", !.todo = OpenIn(0)]
  <2>2. /\ Goto(t, new)
        /\ new.pc = "check" /\ new.exits = task[t].exits /\ new.fills = task[t].fills
    BY <1>4, Carried DEF ListPositions, Task
  <2> HIDE DEF new
  <2> QED
    BY <1>2, <2>1, <2>2
<1>5. CASE PassPosition(t)
  <2>1. task[t].pc = "check"
    BY <1>5 DEF PassPosition, At
  <2> DEFINE new == [task[t] EXCEPT !.todo = @ \ {Least(task[t].todo)}]
  <2>2. /\ Goto(t, new)
        /\ new.pc = task[t].pc /\ new.exits = task[t].exits /\ new.fills = task[t].fills
    BY <1>5, Carried DEF PassPosition, Task
  <2> HIDE DEF new
  <2> QED
    BY <1>2, <2>1, <2>2
<1>6. CASE EndCheck(t)
  <2>1. task[t].pc = "check" /\ task[t].exits = {}
    BY <1>6 DEF EndCheck, At
  <2> DEFINE new == [task[t] EXCEPT !.pc = "list"]
  <2>2. /\ Goto(t, new)
        /\ new.pc = "list" /\ new.exits = task[t].exits /\ new.fills = task[t].fills
    BY <1>6, Carried DEF EndCheck, Task
  <2> HIDE DEF new
  <2> QED
    BY <1>2, <2>1, <2>2
<1> QED
  BY <1>3, <1>4, <1>5, <1>6

\* The fill pass, the management of what is open, and the entries after it.
LEMMA QuietPasses ==
  ASSUME IInv, HandsInv, NEW t \in Thread, NEW p \in Pid,
         \/ ListOrders(t) \/ EndFills(t) \/ HedgeGrid(t, p)
         \/ ManageDone(t) \/ EnterStrategy(t)
  PROVE  HandsInv' /\ KeepsAgreed
<1>1. /\ UNCHANGED <<pos, order, cycle>>
      /\ task[t].pc \in {"list", "fill", "manage", "enter"}
  BY DEF ListOrders, EndFills, HedgeGrid, ManageDone, EnterStrategy, At
<1>2. task[t].exits = {} /\ task[t].pc \notin Busy
  BY <1>1, NoExits DEF Busy
<1>3. CASE ListOrders(t)
  <2>1. PICK crossed \in SUBSET OpenOrders :
           Goto(t, [task[t] EXCEPT !.pc = "fill", !.fills = crossed])
    BY <1>3 DEF ListOrders
  <2> DEFINE new == [task[t] EXCEPT !.pc = "fill", !.fills = crossed]
  <2>2. Goto(t, new) /\ new.pc = "fill" /\ new.exits = task[t].exits /\ new.fills = crossed
    BY <2>1, Carried DEF Task
  <2>3. \A o \in crossed : order[o] # "none"
    BY DEF OpenOrders
  <2> HIDE DEF new
  <2> QED
    BY <1>1, <1>2, <2>2, <2>3, QuietAgrees DEF Busy
<1>4. ASSUME NEW N, Goto(t, N), N.pc \notin Busy, N.exits = task[t].exits,
             N.fills \in {{}, task[t].fills}
      PROVE  HandsInv' /\ KeepsAgreed
  BY <1>1, <1>2, <1>4, FillsExist, QuietAgrees
<1>5. CASE EndFills(t)
  <2> DEFINE new == [task[t] EXCEPT !.pc = "manage"]
  <2>1. /\ Goto(t, new)
        /\ new.pc = "manage" /\ new.exits = task[t].exits /\ new.fills = task[t].fills
    BY <1>5, Carried DEF EndFills, Task
  <2> HIDE DEF new
  <2> QED
    BY <1>4, <2>1 DEF Busy
<1>6. ASSUME NEW d \in Side,
             Goto(t, [task[t] EXCEPT !.pc = "guard", !.side = d, !.then = "next"])
      PROVE  HandsInv' /\ KeepsAgreed
  <2> DEFINE new == [task[t] EXCEPT !.pc = "guard", !.side = d, !.then = "next"]
  <2>1. /\ Goto(t, new)
        /\ new.pc = "guard" /\ new.exits = task[t].exits /\ new.fills = task[t].fills
    BY <1>6, Carried DEF Task
  <2> HIDE DEF new
  <2> QED
    BY <1>4, <2>1 DEF Busy
<1>7. CASE Goto(t, NextScope(task[t]))
  BY <1>2, <1>4, <1>7, Carried, FollowingIdle
<1>8. CASE Goto(t, [task[t] EXCEPT !.pc = "enter"])
  <2> DEFINE new == [task[t] EXCEPT !.pc = "enter"]
  <2>1. /\ Goto(t, new)
        /\ new.pc = "enter" /\ new.exits = task[t].exits /\ new.fills = task[t].fills
    BY <1>8, Carried DEF Task
  <2> HIDE DEF new
  <2> QED
    BY <1>4, <2>1 DEF Busy
<1> QED
  BY <1>3, <1>5, <1>6, <1>7, <1>8 DEF HedgeGrid, ManageDone, EnterStrategy

-----------------------------------------------------------------------------
(* The grid being opened.                                                  *)

\* A new position has one leg, no order and no fill at hand.
LEMMA OpenAgrees ==
  ASSUME IInv, HandsInv, NEW t \in Thread, SubmitOpen(t) PROVE HandsInv' /\ KeepsAgreed
<1>1. PICK q \in Pid : q = Least(Fresh) /\ pos[q].status = "none"
  <2>1. Fresh \in SUBSET Nat /\ Fresh # {}
    BY Numbers DEF Fresh, SubmitOpen
  <2> QED
    BY <2>1, LeastIsMember DEF Fresh
<1> DEFINE new(n) == [task[t] EXCEPT !.pc = "orders", !.pid = q, !.todo = 2..n]
           opened == [status |-> "open", scope |-> task[t].scope, side |-> task[t].side,
                      legs |-> 1, via |-> ""]
<1>2. task[t].pc = "open" /\ pos' = [pos EXCEPT ![q] = opened] /\ UNCHANGED <<order, cycle>>
  BY <1>1 DEF SubmitOpen, At
<1>3. PICK n \in 1..MaxLegs : Goto(t, new(n))
  BY <1>1 DEF SubmitOpen
<1>4. /\ pos'[q].status = "open" /\ pos'[q].legs = 1
      /\ \A p \in Pid \ {q} : pos'[p] = pos[p]
  BY <1>1, <1>2, Carried
<1>5. /\ new(n).pc = "orders" /\ new(n).pid = q /\ new(n).todo = 2..n
      /\ new(n).exits = task[t].exits /\ new(n).fills = task[t].fills
  BY Carried DEF Task
<1>6. 2..n \subseteq Slot
  BY <1>3, GridAssumption DEF Slot
<1>7. PICK N : /\ Goto(t, N) /\ N.pc = "orders" /\ N.pid = q /\ N.todo \subseteq Slot
               /\ N.exits = {} /\ N.fills = task[t].fills
  BY <1>2, <1>3, <1>5, <1>6, NoExits
<1> HIDE DEF new, opened
<1>8. task'[t] = N /\ \A u \in Thread \ {t} : task'[u] = task[u]
  BY <1>7, Moved
<1>9. \A u \in Thread : ~Placing(task[u], q)
  BY <1>1 DEF HandsInv, PlacedIsNew
<1>10. \A o \in Order : o[1] = q => order[o] = "none"
  BY <1>1 DEF HandsInv, OrdersOfPositions
<1>11. HandsInv'
  <2>1. \A u \in Thread, p \in Pid :
           Placing(task'[u], p) => (u = t /\ p = q) \/ (u # t /\ p # q /\ Placing(task[u], p))
    BY <1>2, <1>7, <1>8, <1>9 DEF Placing
  <2>2. OnePlacer'
    BY <2>1 DEF HandsInv, OnePlacer
  <2>3. PlacedIsNew'
    <3> SUFFICES ASSUME NEW u \in Thread, NEW p \in Pid, Placing(task'[u], p)
                 PROVE  /\ pos'[p].status # "none"
                        /\ \A i \in task'[u].todo : order'[<<p, i>>] = "none"
      BY DEF PlacedIsNew
    <3>1. CASE u = t /\ p = q
      <4>1. \A i \in N.todo : <<q, i>> \in Order /\ <<q, i>>[1] = q
        BY <1>1, <1>7 DEF Order
      <4> QED
        BY <1>2, <1>4, <1>8, <1>10, <3>1, <4>1
    <3>2. CASE u # t /\ p # q /\ Placing(task[u], p)
      BY <1>2, <1>4, <1>8, <3>2 DEF HandsInv, PlacedIsNew
    <3> QED
      BY <2>1, <3>1, <3>2
  <2>4. OrdersOfPositions'
    <3>1. \A o \in Order : o[1] \in Pid
      BY DEF Order
    <3> QED
      BY <1>2, <1>4, <3>1 DEF HandsInv, OrdersOfPositions
  <2>5. ReadOrdersExist'
    BY <1>2, <1>7, <1>8 DEF HandsInv, ReadOrdersExist, Marking
  <2>6. ExitsInChecks'
    BY <1>7, <1>8 DEF HandsInv, ExitsInChecks
  <2> QED
    BY <2>2, <2>3, <2>4, <2>5, <2>6 DEF HandsInv
<1>12. ASSUME NEW p \in Pid, Agreed(p) PROVE Agreed(p)'
  <2>1. CASE p = q
    <3>1. BeingPlaced(q)'
      BY <1>7, <1>8 DEF BeingPlaced, Placing
    <3>2. IsOpen(q)' /\ pos'[q].status # "closed"
      BY <1>4 DEF IsOpen
    <3>3. Filled(q)' = {}
      BY <1>2, <1>10 DEF Filled
    <3>4. BeingMarked(q)' = {}
      <4>1. \A o \in Order, u \in Thread : Marking(task'[u], o) => Marking(task[u], o)
        BY <1>7, <1>8 DEF Marking
      <4>2. \A o \in Order, u \in Thread : o[1] = q => ~Marking(task[u], o)
        BY <1>10 DEF HandsInv, ReadOrdersExist
      <4> QED
        BY <4>1, <4>2 DEF BeingMarked
    <3>5. pos'[q].legs = 1 + Cardinality(Filled(q)' \cup BeingMarked(q)')
      <4>1. Cardinality({}) = 0
        BY FS_EmptySet
      <4>2. Filled(q)' \cup BeingMarked(q)' = {}
        BY <3>3, <3>4
      <4> QED
        BY <1>4, <4>1, <4>2
    <3>6. CycleClosed(q)' /\ NoOrderLeft(q)'
      BY <3>2 DEF CycleClosed, NoOrderLeft
    <3> QED
      BY <2>1, <3>1, <3>2, <3>5, <3>6 DEF Agreed
  <2>2. CASE p # q
    <3>1. ~Placing(N, p) /\ ~Placing(task[t], p)
      BY <1>2, <1>7, <2>2 DEF Placing
    <3>2. \A o \in Order : ~Marking(N, o) /\ ~Marking(task[t], o)
      BY <1>2, <1>7 DEF Marking
    <3>3. ~Cancelling(task[t], p) /\ ~Mirroring(task[t], p)
      BY <1>2, NoExits DEF Cancelling, Mirroring
    <3>4. pos'[p] = pos[p]
      BY <1>4, <2>2
    <3> QED
      BY <1>2, <1>7, <1>12, <3>1, <3>2, <3>3, <3>4, AgreedStays
  <2> QED
    BY <2>1, <2>2
<1> QED
  BY <1>11, <1>12 DEF KeepsAgreed

\* An order of it, open.
LEMMA OrderAgrees ==
  ASSUME IInv, HandsInv, NEW t \in Thread, SubmitOrder(t) PROVE HandsInv' /\ KeepsAgreed
<1>0. PICK q, i : q = task[t].pid /\ i = Least(task[t].todo)
  OBVIOUS
<1> DEFINE new == [task[t] EXCEPT !.todo = @ \ {i}]
<1>1. /\ task[t].pc = "orders" /\ task[t].todo # {} /\ Goto(t, new)
      /\ order' = [order EXCEPT ![<<q, i>>] = "open"] /\ UNCHANGED <<pos, cycle>>
  BY <1>0 DEF SubmitOrder, At
<1>2. q \in Pid /\ task[t].todo \subseteq Slot
  BY <1>0, <1>1, Carried DEF TaskOf
<1>3. i \in task[t].todo
  <2>1. task[t].todo \in SUBSET Nat
    BY <1>2, Numbers
  <2> QED
    BY <1>0, <1>1, <2>1, LeastIsMember
<1>4. /\ new.pc = "orders" /\ new.pid = q /\ new.todo = task[t].todo \ {i}
      /\ new.exits = task[t].exits /\ new.fills = task[t].fills
  BY <1>0, <1>1, Carried DEF Task
<1>5. PICK N : /\ Goto(t, N) /\ N.pc = "orders" /\ N.pid = q /\ N.todo = task[t].todo \ {i}
               /\ N.exits = {} /\ N.fills = task[t].fills
  BY <1>1, <1>4, NoExits
<1> HIDE DEF new
<1>6. task'[t] = N /\ \A u \in Thread \ {t} : task'[u] = task[u]
  BY <1>5, Moved
<1>7. Placing(task[t], q)
  BY <1>0, <1>1 DEF Placing
<1>8. /\ <<q, i>> \in Order /\ order[<<q, i>>] = "none" /\ pos[q].status # "none"
  BY <1>2, <1>3, <1>7 DEF HandsInv, PlacedIsNew, Order
<1>9. \A o \in Order : order'[o] = IF o = <<q, i>> THEN "open" ELSE order[o]
  BY <1>1, <1>8, Carried
<1>10. \A u \in Thread, p \in Pid : Placing(task'[u], p) <=> Placing(task[u], p)
  <2>1. \A p \in Pid : Placing(N, p) <=> Placing(task[t], p)
    BY <1>0, <1>1, <1>5 DEF Placing
  <2> QED
    BY <1>6, <2>1
<1>11. HandsInv'
  <2>1. OnePlacer'
    BY <1>10 DEF HandsInv, OnePlacer
  <2>2. PlacedIsNew'
    <3> SUFFICES ASSUME NEW u \in Thread, NEW p \in Pid, Placing(task'[u], p),
                        NEW j \in task'[u].todo
                 PROVE  pos'[p].status # "none" /\ order'[<<p, j>>] = "none"
      BY <1>1, <1>10 DEF PlacedIsNew, HandsInv
    <3>1. Placing(task[u], p)
      BY <1>10
    <3>2. j \in task[u].todo /\ (u = t => j # i)
      BY <1>5, <1>6
    <3>3. <<p, j>> \in Order
      BY <3>1, <3>2, Carried DEF TaskOf, Placing, Order
    <3>4. pos[p].status # "none" /\ order[<<p, j>>] = "none"
      BY <3>1, <3>2 DEF HandsInv, PlacedIsNew
    <3>5. <<p, j>> # <<q, i>>
      BY <1>2, <1>7, <3>1, <3>2 DEF HandsInv, OnePlacer
    <3> QED
      BY <1>1, <1>9, <3>3, <3>4, <3>5
  <2>3. OrdersOfPositions'
    BY <1>1, <1>8, <1>9 DEF HandsInv, OrdersOfPositions
  <2>4. ReadOrdersExist'
    <3>1. \A o \in Order, u \in Thread :
             o \in task'[u].fills \/ Marking(task'[u], o)
                => o \in task[u].fills \/ Marking(task[u], o)
      BY <1>5, <1>6 DEF Marking
    <3> QED
      BY <1>9, <3>1 DEF HandsInv, ReadOrdersExist
  <2>5. ExitsInChecks'
    BY <1>5, <1>6 DEF HandsInv, ExitsInChecks
  <2> QED
    BY <2>1, <2>2, <2>3, <2>4, <2>5 DEF HandsInv
<1>12. ASSUME NEW p \in Pid, Agreed(p) PROVE Agreed(p)'
  <2>0. /\ \A o \in Order : ~Marking(N, o) /\ ~Marking(task[t], o)
        /\ Placing(N, p) <=> Placing(task[t], p)
    BY <1>1, <1>5, <1>6, <1>10 DEF Marking
  <2>1. CASE p = q
    <3>1. BeingPlaced(q)'
      BY <1>6, <1>7, <1>10, <1>2 DEF BeingPlaced
    <3>2. IsOpen(q)
      BY <1>7, <1>12, <2>1 DEF Agreed, BeingPlaced
    <3>3. Filled(q)' = Filled(q)
      BY <1>8, <1>9 DEF Filled
    <3>4. BeingMarked(q)' = BeingMarked(q)
      BY <1>2, <1>5, <2>0, <2>1, HandsAfter
    <3>5. CycleClosed(q)' /\ NoOrderLeft(q)'
      BY <1>1, <3>2 DEF IsOpen, CycleClosed, NoOrderLeft
    <3>6. IsOpen(q)' /\ pos'[q].legs = pos[q].legs
      BY <1>1, <3>2 DEF IsOpen
    <3> QED
      BY <1>12, <2>1, <3>1, <3>2, <3>3, <3>4, <3>5, <3>6 DEF Agreed
  <2>2. CASE p # q
    <3>1. ~Cancelling(task[t], p) /\ ~Mirroring(task[t], p)
      BY <1>1, NoExits DEF Cancelling, Mirroring
    <3>2. \A o \in Order : o[1] = p => order'[o] = order[o]
      BY <1>9, <2>2
    <3> QED
      BY <1>1, <1>5, <1>12, <2>0, <3>1, <3>2, AgreedStays
  <2> QED
    BY <2>1, <2>2
<1> QED
  BY <1>11, <1>12 DEF KeepsAgreed

\* The cycle of it, last.
LEMMA CycleAgrees ==
  ASSUME IInv, HandsInv, NEW t \in Thread, SubmitCycle(t) PROVE HandsInv' /\ KeepsAgreed
<1>0. PICK q : q = task[t].pid
  OBVIOUS
<1>1. /\ task[t].pc = "orders" /\ Goto(t, Resume(task[t]))
      /\ cycle' = [cycle EXCEPT ![q] = "active"] /\ UNCHANGED <<pos, order>>
  BY <1>0 DEF SubmitCycle, At
<1>2. q \in Pid
  BY <1>0, <1>1, Carried DEF TaskOf
<1>3. PICK N : Goto(t, N) /\ N.pc \notin Busy /\ N.exits = {} /\ N.fills = {}
  BY <1>1, Carried, FollowingIdle
<1>4. task'[t] = N /\ \A u \in Thread \ {t} : task'[u] = task[u]
  BY <1>3, Moved
<1>5. /\ \A p : ~Placing(N, p)
      /\ \A o : ~Marking(N, o) /\ ~Marking(task[t], o)
  BY <1>1, <1>3 DEF Placing, Marking, Busy
<1>6. Placing(task[t], q)
  BY <1>0, <1>1 DEF Placing
<1>7. cycle'[q] = "active" /\ \A p \in Pid \ {q} : cycle'[p] = cycle[p]
  BY <1>1, <1>2, Carried
<1>8. HandsInv'
  BY <1>1, <1>3, <1>5, HandsMove
<1>9. \A p \in Pid : p # q => ~Placing(task[t], p)
  BY <1>0 DEF Placing
<1>10. ASSUME NEW p \in Pid, Agreed(p) PROVE Agreed(p)'
  <2>1. CASE p = q
    <3>1. ~BeingPlaced(q)'
      <4>1. ASSUME NEW u \in Thread, Placing(task'[u], q) PROVE FALSE
        <5>1. u # t /\ Placing(task[u], q)
          BY <1>4, <1>5, <4>1
        <5> QED
          BY <1>2, <1>6, <5>1 DEF HandsInv, OnePlacer
      <4> QED
        BY <4>1 DEF BeingPlaced
    <3>2. IsOpen(q)
      BY <1>6, <1>10, <2>1 DEF Agreed, BeingPlaced
    <3>3. Filled(q)' = Filled(q)
      BY <1>1 DEF Filled
    <3>4. BeingMarked(q)' = BeingMarked(q)
      <4>1. \A o \in Order, u \in Thread : Marking(task'[u], o) <=> Marking(task[u], o)
        BY <1>4, <1>5
      <4> QED
        BY <4>1 DEF BeingMarked
    <3>5. CycleClosed(q)' /\ NoOrderLeft(q)'
      BY <1>1, <3>2 DEF IsOpen, CycleClosed, NoOrderLeft
    <3>6. IsOpen(q)' /\ pos'[q].legs = pos[q].legs /\ cycle'[q] # "none"
      BY <1>1, <1>7, <3>2 DEF IsOpen
    <3> QED
      BY <1>10, <2>1, <3>1, <3>2, <3>3, <3>4, <3>5, <3>6 DEF Agreed
  <2>2. CASE p # q
    <3>1. ~Cancelling(task[t], p) /\ ~Mirroring(task[t], p)
      BY <1>1, NoExits DEF Cancelling, Mirroring
    <3>2. cycle'[p] = cycle[p]
      BY <1>7, <2>2
    <3> QED
      BY <1>1, <1>3, <1>5, <1>9, <1>10, <2>2, <3>1, <3>2, AgreedStays
  <2> QED
    BY <2>1, <2>2
<1> QED
  BY <1>8, <1>10 DEF KeepsAgreed

-----------------------------------------------------------------------------
(* Exits.                                                                  *)

\* A position that a thread closes, and a cancel or a mirror that it owes for it.
LEMMA CloseAgrees ==
  ASSUME IInv, HandsInv, NEW t \in Thread, NEW N, Goto(t, N), UNCHANGED <<order, cycle>>,
         NEW q \in Pid, NEW via \in Via, Close(q, via), pos[q].status # "none",
         task[t].pc \in {"check", "manage"},
         N.pc \in {"check", "check_cancel", "manage_cancel"},
         N.fills = task[t].fills, task[t].exits \subseteq N.exits,
         N.exits # {} => N.pc \in {"check", "check_cancel"},
         via \in {"tp_hit", "cycle_manager"} => Cancelling(N, q),
         via \in MirroredExit => Mirroring(N, q)
  PROVE  HandsInv' /\ KeepsAgreed
<1>1. \A p \in Pid : ~Placing(N, p) /\ ~Placing(task[t], p)
  BY DEF Placing
<1>2. \A o \in Order : ~Marking(N, o) /\ ~Marking(task[t], o)
  BY DEF Marking
<1>3. \A p \in Pid : ~Cancelling(task[t], p) /\ (Mirroring(task[t], p) => Mirroring(N, p))
  BY DEF Cancelling, Mirroring
<1>4. /\ \A p \in Pid : p # q => pos'[p] = pos[p]
      /\ pos'[q].status = "closed"
      /\ IsOpen(q) => pos'[q].via = via
      /\ ~IsOpen(q) => pos'[q] = pos[q]
  <2>1. CASE ~IsOpen(q)
    BY <2>1, Carried, CloseEffect DEF Close
  <2>2. CASE IsOpen(q)
    <3>1. pos' = [pos EXCEPT ![q] = [pos[q] EXCEPT !.status = "closed", !.via = via]]
      BY <2>2 DEF Close
    <3>2. pos[q] \in Position /\ pos \in [Pid -> Position]
      BY Carried
    <3>3. /\ [pos[q] EXCEPT !.status = "closed", !.via = via].status = "closed"
          /\ [pos[q] EXCEPT !.status = "closed", !.via = via].via = via
      BY <3>2 DEF Position
    <3> QED
      BY <2>2, <3>1, <3>2, <3>3
  <2> QED
    BY <2>1, <2>2
<1>5. HandsInv'
  <2>1. \A p \in Pid : pos'[p].status = "none" <=> pos[p].status = "none"
    BY <1>4
  <2>2. \A o \in Order : o \in N.fills \/ Marking(N, o) => order[o] # "none"
    BY <1>2, FillsExist
  <2> QED
    BY <1>1, <2>1, <2>2, HandsMove
<1>6. ASSUME NEW p \in Pid, Agreed(p), p # q \/ ~IsOpen(q) PROVE Agreed(p)'
  <2>1. pos'[p] = pos[p]
    BY <1>4, <1>6
  <2> QED
    BY <1>1, <1>2, <1>3, <1>6, <2>1, AgreedStays
<1>7. ASSUME Agreed(q), q \notin ClosedWhilePlaced, IsOpen(q) PROVE Agreed(q)'
  <2>0. task'[t] = N
    BY Moved
  <2>1. ~BeingPlaced(q)
    BY <1>4, <1>7 DEF ClosedWhilePlaced, BeingPlaced
  <2>2. ~BeingPlaced(q)'
    BY <1>1, <1>2, <2>1, HandsAfter
  <2>3. cycle'[q] # "none" /\ ~IsOpen(q)'
    BY <1>4, <1>7, <2>1 DEF Agreed, IsOpen
  <2>4. CycleClosed(q)'
    <3>1. CASE via \in MirroredExit
      BY <2>0, <3>1 DEF CycleClosed
    <3>2. CASE via \notin MirroredExit
      BY <1>4, <1>7, <3>2 DEF CycleClosed
    <3> QED
      BY <3>1, <3>2
  <2>5. NoOrderLeft(q)'
    <3>1. CASE via \in {"tp_hit", "cycle_manager"}
      BY <2>0, <3>1 DEF NoOrderLeft
    <3>2. CASE via \notin {"tp_hit", "cycle_manager"}
      BY <1>4, <1>7, <3>2 DEF NoOrderLeft
    <3> QED
      BY <3>1, <3>2
  <2> QED
    BY <2>2, <2>3, <2>4, <2>5 DEF Agreed
<1> QED
  BY <1>5, <1>6, <1>7 DEF KeepsAgreed

\* The exits of the checks.
LEMMA ExitAgrees ==
  ASSUME IInv, HandsInv, NEW t \in Thread, NEW via \in MirroredExit, ExitPosition(t, via)
  PROVE  HandsInv' /\ KeepsAgreed
<1>1. PICK q : q = Least(task[t].todo)
  OBVIOUS
<1> DEFINE pc == IF via = "tp_hit" THEN "check_cancel" ELSE "check"
           pid == IF via = "tp_hit" THEN q ELSE 0
           new == [task[t] EXCEPT !.pc = pc, !.pid = pid, !.todo = @ \ {q},
                                  !.exits = @ \cup {q}]
<1>2. task[t].pc = "check" /\ Goto(t, new) /\ Close(q, via) /\ UNCHANGED <<order, cycle>>
  BY <1>1 DEF ExitPosition, At
<1>3. q \in Pid /\ pos[q].status # "none"
  BY <1>1, CheckedPosition DEF ExitPosition
<1>4. /\ new.pc = pc /\ new.pid = pid
      /\ new.fills = task[t].fills /\ new.exits = task[t].exits \cup {q}
  BY Carried DEF Task
<1>5. PICK N : N = new
  OBVIOUS
<1> HIDE DEF new
<1>6. /\ via = "tp_hit" => N.pc = "check_cancel" /\ N.pid = q
      /\ N.pc \in {"check", "check_cancel"}
      /\ N.fills = task[t].fills /\ N.exits = task[t].exits \cup {q}
  BY <1>4, <1>5
<1> HIDE DEF pc, pid
<1>7. via \in {"tp_hit", "cycle_manager"} => Cancelling(N, q)
  BY <1>6 DEF Cancelling, MirroredExit
<1>8. Mirroring(N, q) /\ via \in Via
  BY <1>6 DEF Mirroring, Via
<1> QED
  BY <1>2, <1>3, <1>5, <1>6, <1>7, <1>8, CloseAgrees

\* The exits of the cycle tick.
LEMMA ManageExitAgrees ==
  ASSUME IInv, HandsInv, NEW t \in Thread, NEW q \in Pid, ManageExit(t, q)
  PROVE  HandsInv' /\ KeepsAgreed
<1> DEFINE new == [task[t] EXCEPT !.pc = "manage_cancel", !.pid = q]
<1>1. /\ task[t].pc = "manage" /\ Goto(t, new) /\ Close(q, "cycle_manager")
      /\ UNCHANGED <<order, cycle>> /\ pos[q].status # "none"
  BY DEF ManageExit, At, OpenIn, IsOpen
<1>2. /\ new.pc = "manage_cancel" /\ new.pid = q
      /\ new.fills = task[t].fills /\ new.exits = task[t].exits
  BY Carried DEF Task
<1>3. PICK N : N = new
  OBVIOUS
<1> HIDE DEF new
<1>4. task[t].exits = {}
  BY <1>1, NoExits
<1>5. Cancelling(N, q)
  BY <1>2, <1>3 DEF Cancelling
<1>6. "cycle_manager" \notin MirroredExit /\ "cycle_manager" \in Via
  BY DEF MirroredExit, Via
<1> QED
  BY <1>1, <1>2, <1>3, <1>4, <1>5, <1>6, CloseAgrees

\* The cancel that an exit owed.
LEMMA CancelAgrees ==
  ASSUME IInv, HandsInv, NEW t \in Thread, CancelAfterTarget(t) \/ CancelAfterExit(t)
  PROVE  HandsInv' /\ KeepsAgreed
<1>1. PICK q : q = task[t].pid
  OBVIOUS
<1>2. /\ task[t].pc \in {"check_cancel", "manage_cancel"} /\ CancelOrders(q)
      /\ UNCHANGED <<pos, cycle>>
  BY <1>1 DEF CancelAfterTarget, CancelAfterExit, At
<1>3. PICK N : /\ Goto(t, N)
               /\ N.pc = IF task[t].pc = "check_cancel" THEN "check" ELSE "manage"
               /\ N.exits = task[t].exits /\ N.fills = task[t].fills
  <2>1. CASE CancelAfterTarget(t)
    <3> DEFINE new == [task[t] EXCEPT !.pc = "check", !.pid = 0]
    <3>1. /\ Goto(t, new) /\ task[t].pc = "check_cancel" /\ new.pc = "check"
          /\ new.exits = task[t].exits /\ new.fills = task[t].fills
      BY <2>1, Carried DEF CancelAfterTarget, Task, At
    <3> HIDE DEF new
    <3> QED
      BY <3>1
  <2>2. CASE CancelAfterExit(t)
    <3> DEFINE new == [task[t] EXCEPT !.pc = "manage", !.pid = 0]
    <3>1. /\ Goto(t, new) /\ task[t].pc = "manage_cancel" /\ new.pc = "manage"
          /\ new.exits = task[t].exits /\ new.fills = task[t].fills
      BY <2>2, Carried DEF CancelAfterExit, Task, At
    <3> HIDE DEF new
    <3> QED
      BY <3>1
  <2> QED
    BY <2>1, <2>2
<1>4. /\ \A p \in Pid : ~Placing(N, p) /\ ~Placing(task[t], p)
      /\ \A o \in Order : ~Marking(N, o) /\ ~Marking(task[t], o)
      /\ \A p \in Pid : Mirroring(task[t], p) <=> Mirroring(N, p)
  BY <1>2, <1>3 DEF Placing, Marking, Mirroring
<1>5. \A o \in Order :
         order'[o] = IF o[1] = q /\ order[o] = "open" THEN "cancelled" ELSE order[o]
  BY <1>2 DEF CancelOrders
<1>6. HandsInv'
  <2>1. \A o \in Order : order'[o] = "none" <=> order[o] = "none"
    BY <1>5
  <2>2. \A o \in Order : o \in N.fills \/ Marking(N, o) => order[o] # "none"
    BY <1>3, <1>4, FillsExist
  <2>3. N.exits # {} => N.pc \in {"check", "check_cancel"}
    BY <1>2, <1>3, NoExits
  <2> QED
    BY <1>2, <1>3, <1>4, <2>1, <2>2, <2>3, HandsMove
<1>7. ASSUME NEW p \in Pid, Agreed(p) PROVE Agreed(p)'
  <2>1. CASE p = q
    <3>1. (BeingPlaced(p)' <=> BeingPlaced(p)) /\ BeingMarked(p)' = BeingMarked(p)
      BY <1>3, <1>4, HandsAfter
    <3>2. Filled(p)' = Filled(p)
      BY <1>5 DEF Filled
    <3>3. NoOrderLeft(p)'
      BY <1>5, <2>1 DEF NoOrderLeft, OpenOrders
    <3>4. CycleClosed(p)'
      <4>1. \A u \in Thread : Mirroring(task'[u], p) <=> Mirroring(task[u], p)
        BY <1>3, <1>4, Moved
      <4> QED
        BY <1>2, <1>7, <4>1 DEF Agreed, CycleClosed
    <3>5. IsOpen(p)' <=> IsOpen(p)
      BY <1>2 DEF IsOpen
    <3> QED
      BY <1>2, <1>7, <3>1, <3>2, <3>3, <3>4, <3>5 DEF Agreed
  <2>2. CASE p # q
    <3>1. ~Cancelling(task[t], p)
      BY <1>1, <2>2 DEF Cancelling
    <3>2. \A o \in Order : o[1] = p => order'[o] = order[o]
      BY <1>5, <2>2
    <3> QED
      BY <1>2, <1>3, <1>4, <1>7, <3>1, <3>2, AgreedStays
  <2> QED
    BY <2>1, <2>2
<1> QED
  BY <1>6, <1>7 DEF KeepsAgreed

\* The cycle that an exit of the checks owed.
LEMMA MirrorAgrees ==
  ASSUME IInv, HandsInv, NEW t \in Thread, MirrorCycle(t) PROVE HandsInv' /\ KeepsAgreed
<1>1. PICK q : q = Least(task[t].exits)
  OBVIOUS
<1> DEFINE new == [task[t] EXCEPT !.exits = @ \ {q}]
<1>2. /\ task[t].pc = "check" /\ task[t].exits # {} /\ Goto(t, new)
      /\ cycle' = [cycle EXCEPT ![q] = IF @ = "active" THEN "closed" ELSE @]
      /\ UNCHANGED <<pos, order>>
  BY <1>1 DEF MirrorCycle, At
<1>3. q \in Pid /\ pos[q].status = "closed"
  <2>1. task[t].exits \subseteq Pid
    BY Carried DEF Task
  <2>2. q \in task[t].exits
    BY <1>1, <1>2, <2>1, Numbers, LeastIsMember
  <2> QED
    BY <2>1, <2>2, Carried DEF TaskOf
<1>4. /\ new.pc = "check" /\ new.exits = task[t].exits \ {q} /\ new.fills = task[t].fills
  BY <1>2, Carried DEF Task
<1>5. PICK N : N = new
  OBVIOUS
<1> HIDE DEF new
<1>6. /\ \A p \in Pid : ~Placing(N, p) /\ ~Placing(task[t], p)
      /\ \A p \in Pid : ~Cancelling(N, p) /\ ~Cancelling(task[t], p)
      /\ \A o \in Order : ~Marking(N, o) /\ ~Marking(task[t], o)
      /\ \A p \in Pid : p # q /\ Mirroring(task[t], p) => Mirroring(N, p)
  BY <1>2, <1>4, <1>5 DEF Placing, Cancelling, Marking, Mirroring
<1>7. HandsInv'
  <2>1. \A o \in Order : o \in N.fills \/ Marking(N, o) => order[o] # "none"
    BY <1>4, <1>5, <1>6, FillsExist
  <2> QED
    BY <1>2, <1>4, <1>5, <1>6, <2>1, HandsMove
<1>8. /\ cycle[q] \in Status /\ cycle'[q] = IF cycle[q] = "active" THEN "closed" ELSE cycle[q]
      /\ \A p \in Pid : p # q => cycle'[p] = cycle[p]
  BY <1>2, <1>3, Carried
<1>9. ASSUME NEW p \in Pid, Agreed(p) PROVE Agreed(p)'
  <2>1. CASE p = q
    <3>1. (BeingPlaced(q)' <=> BeingPlaced(q)) /\ ~BeingPlaced(q)
      <4>1. ~BeingPlaced(q)
        BY <1>3, <1>9, <2>1 DEF Agreed, IsOpen
      <4> QED
        BY <1>2, <1>3, <1>5, <1>6, <4>1, HandsAfter
    <3>2. cycle'[q] = "closed"
      BY <1>3, <1>8, <1>9, <2>1, <3>1 DEF Agreed, Status
    <3>3. ~IsOpen(q)'
      BY <1>2, <1>3 DEF IsOpen
    <3>4. NoOrderLeft(q)'
      <4>1. \A u \in Thread : Cancelling(task'[u], q) <=> Cancelling(task[u], q)
        BY <1>2, <1>3, <1>5, <1>6, Moved
      <4> QED
        BY <1>2, <1>9, <2>1, <4>1 DEF Agreed, NoOrderLeft, OpenOrders
    <3> QED
      BY <2>1, <3>1, <3>2, <3>3, <3>4 DEF Agreed, CycleClosed
  <2>2. CASE p # q
    BY <1>2, <1>5, <1>6, <1>8, <1>9, <2>2, AgreedStays
  <2> QED
    BY <2>1, <2>2
<1> QED
  BY <1>7, <1>9 DEF KeepsAgreed

-----------------------------------------------------------------------------
(* Fills.                                                                  *)

\* A set of a position's orders leaves room for a leg as long as one is not in it.
LEMMA LegsFit ==
  ASSUME NEW q \in Pid, NEW U, U \subseteq { o \in Order : o[1] = q },
         NEW o \in Order, o[1] = q, o \notin U
  PROVE  /\ Cardinality(U) \in Nat /\ Cardinality(U) + 2 <= MaxLegs
         /\ Cardinality(U \cup {o}) = Cardinality(U) + 1
<1> DEFINE own == {q} \X Slot
<1>1. IsFiniteSet(Slot) /\ Cardinality(Slot) = MaxLegs - 1
  <2>1. MaxLegs \in Int /\ 2 \in Int /\ MaxLegs >= 1
    BY GridAssumption
  <2> QED
    BY <2>1, FS_Interval DEF Slot
<1>2. IsFiniteSet(own) /\ Cardinality(own) = MaxLegs - 1
  <2>1. IsFiniteSet({q}) /\ Cardinality({q}) = 1
    BY FS_Singleton
  <2>2. IsFiniteSet(own) /\ Cardinality(own) = 1 * (MaxLegs - 1)
    BY <1>1, <2>1, FS_Product
  <2>3. MaxLegs \in Int
    BY GridAssumption
  <2> QED
    BY <2>2, <2>3
<1>3. \A x \in Order : x[1] = q => x \in own
  BY DEF Order
<1>4. U \cup {o} \in SUBSET own
  BY <1>3
<1> HIDE DEF own
<1>5. IsFiniteSet(U)
  BY <1>2, <1>4, FS_Subset
<1>6. Cardinality(U \cup {o}) <= Cardinality(own)
  BY <1>2, <1>4, FS_Subset
<1>7. Cardinality(U \cup {o}) = Cardinality(U) + 1
  BY <1>5, FS_AddElement
<1>8. Cardinality(U) \in Nat
  BY <1>5, FS_CardinalityType
<1>9. MaxLegs \in Int
  BY GridAssumption
<1> QED
  BY <1>2, <1>6, <1>7, <1>8, <1>9

\* A leg, and then its order.
LEMMA FillAgrees ==
  ASSUME IInv, HandsInv, NEW t \in Thread, FillLeg(t) PROVE HandsInv' /\ KeepsAgreed
<1>1. PICK o \in task[t].fills :
         /\ AddLeg(o[1], task[t].scope)
         /\ Goto(t, [task[t] EXCEPT !.pc = "mark", !.fills = @ \ {o}, !.pid = o[1], !.todo = {o[2]}])
  BY DEF FillLeg
<1>2. task[t].pc = "fill" /\ UNCHANGED <<order, cycle>> /\ task[t].exits = {}
  BY NoExits DEF FillLeg, At
<1>3. /\ o \in Order /\ task[t].fills \subseteq Order
      /\ task[t].scope \in Scope
  BY <1>1, Carried DEF Task
<1>4. PICK q \in Pid : q = o[1] /\ o[2] \in Slot /\ o = <<q, o[2]>>
  BY <1>3 DEF Order
<1> DEFINE new == [task[t] EXCEPT !.pc = "mark", !.fills = @ \ {o}, !.pid = o[1], !.todo = {o[2]}]
<1>5. PICK N : /\ Goto(t, N) /\ N.pc = "mark" /\ N.pid = q /\ N.todo = {o[2]}
               /\ N.fills = task[t].fills \ {o} /\ N.exits = {}
  <2>1. /\ new.pc = "mark" /\ new.pid = q /\ new.todo = {o[2]}
        /\ new.fills = task[t].fills \ {o} /\ new.exits = {}
    BY <1>2, <1>4, Carried DEF Task
  <2>2. Goto(t, new)
    BY <1>1
  <2> HIDE DEF new
  <2> QED
    BY <2>1, <2>2
<1> HIDE DEF new
<1>6. task'[t] = N /\ \A u \in Thread \ {t} : task'[u] = task[u]
  BY <1>5, Moved
<1>7. \A x : Marking(N, x) <=> x = o
  <2>1. Least(N.todo) = o[2]
    <3>1. N.todo \in SUBSET Nat /\ N.todo # {}
      BY <1>4, <1>5, Numbers
    <3> QED
      BY <1>5, <3>1, LeastIsMember
  <2> QED
    BY <1>4, <1>5, <2>1 DEF Marking
<1>8. /\ \A x : ~Marking(task[t], x)
      /\ \A p \in Pid : /\ ~Placing(task[t], p) /\ ~Placing(N, p)
                        /\ ~Cancelling(task[t], p) /\ ~Mirroring(task[t], p)
  BY <1>2, <1>5 DEF Marking, Placing, Cancelling, Mirroring
<1>9. /\ \A p \in Pid : p # q => pos'[p] = pos[p]
      /\ \A p \in Pid : pos'[p].status = pos[p].status
      /\ ~IsOpen(q) => pos'[q] = pos[q]
  <2>1. /\ \A p \in Pid : pos'[p] # pos[p] => p = q /\ pos[p].scope = task[t].scope /\ IsOpen(p)
        /\ \A p \in Pid : pos'[p].status = pos[p].status
    BY <1>1, <1>3, <1>4, Carried, AddLegEffect
  <2> QED
    BY <2>1
<1>10. HandsInv'
  <2>1. \A x \in Order : x \in N.fills \/ Marking(N, x) => order[x] # "none"
    BY <1>1, <1>3, <1>5, <1>7, FillsExist
  <2> QED
    BY <1>2, <1>5, <1>8, <1>9, <2>1, HandsMove
<1>11. ASSUME NEW p \in Pid, Agreed(p), p # q PROVE Agreed(p)'
  <2>1. \A x \in Order : x[1] = p => (Marking(N, x) <=> Marking(task[t], x))
    BY <1>4, <1>7, <1>8, <1>11
  <2> QED
    BY <1>2, <1>5, <1>8, <1>9, <1>11, <2>1, AgreedStays
<1>12. ASSUME Agreed(q), q \notin FilledAmiss PROVE Agreed(q)'
  <2>1. BeingPlaced(q)' <=> BeingPlaced(q)
    <3>1. \A u \in Thread : Placing(task'[u], q) <=> Placing(task[u], q)
      BY <1>6, <1>8
    <3> QED
      BY <3>1 DEF BeingPlaced
  <2>2. BeingMarked(q)' = BeingMarked(q) \cup {o}
    <3>1. \A x \in Order : (\E u \in Thread : Marking(task'[u], x))
             <=> x = o \/ \E u \in Thread : Marking(task[u], x)
      BY <1>6, <1>7, <1>8
    <3> QED
      BY <1>3, <1>4, <3>1 DEF BeingMarked
  <2>3. Filled(q)' = Filled(q) /\ (IsOpen(q)' <=> IsOpen(q))
    BY <1>2, <1>9 DEF Filled, IsOpen
  <2>4. CycleClosed(q)' /\ NoOrderLeft(q)'
    <3>1. CASE IsOpen(q)
      BY <1>9, <3>1 DEF IsOpen, CycleClosed, NoOrderLeft
    <3>2. CASE ~IsOpen(q)
      <4>1. \A u \in Thread : /\ Cancelling(task[u], q) => Cancelling(task'[u], q)
                              /\ Mirroring(task[u], q) => Mirroring(task'[u], q)
        BY <1>6, <1>8
      <4>2. pos'[q] = pos[q]
        BY <1>9, <3>2
      <4> QED
        BY <1>2, <1>12, <4>1, <4>2 DEF Agreed, CycleClosed, NoOrderLeft, OpenOrders
    <3> QED
      BY <3>1, <3>2
  <2>5. ASSUME IsOpen(q)
        PROVE  pos'[q].legs = 1 + Cardinality(Filled(q)' \cup BeingMarked(q)')
    <3> DEFINE U == Filled(q) \cup BeingMarked(q)
    <3>1. /\ pos[q].scope = task[t].scope /\ order[o] = "open"
          /\ \A u \in Thread : ~Marking(task[u], o)
      BY <1>3, <1>4, <1>6, <1>7, <1>8, <1>12, <2>5 DEF FilledAmiss
    <3>2. U \subseteq { x \in Order : x[1] = q } /\ o \notin U
      BY <3>1 DEF Filled, BeingMarked
    <3>3. pos[q].legs = 1 + Cardinality(U)
      BY <1>12, <2>5 DEF Agreed
    <3>4. Filled(q)' \cup BeingMarked(q)' = U \cup {o}
      BY <2>2, <2>3
    <3> HIDE DEF U
    <3>5. /\ Cardinality(U) \in Nat /\ Cardinality(U) + 2 <= MaxLegs
          /\ Cardinality(U \cup {o}) = Cardinality(U) + 1
      BY <1>3, <1>4, <3>2, LegsFit
    <3>6. pos[q].legs <= MaxLegs
      BY <3>3, <3>5, GridAssumption
    <3>7. pos' = [pos EXCEPT ![q] = [pos[q] EXCEPT !.legs = pos[q].legs + 1]]
      BY <1>1, <1>4, <2>5, <3>1, <3>6 DEF AddLeg, OpenIn
    <3>8. pos[q] \in Position /\ pos \in [Pid -> Position]
      BY Carried
    <3>9. pos'[q].legs = pos[q].legs + 1
      <4>1. [pos[q] EXCEPT !.legs = pos[q].legs + 1].legs = pos[q].legs + 1
        BY <3>8 DEF Position
      <4> QED
        BY <3>7, <3>8, <4>1
    <3>10. pos'[q].legs = 1 + Cardinality(U \cup {o})
      BY <3>3, <3>5, <3>9
    <3> QED
      BY <3>4, <3>10
  <2> QED
    BY <1>2, <1>9, <1>12, <2>1, <2>3, <2>4, <2>5 DEF Agreed
<1> QED
  BY <1>10, <1>11, <1>12 DEF KeepsAgreed

\* The order of a leg, after it.
LEMMA MarkAgrees ==
  ASSUME IInv, HandsInv, NEW t \in Thread, MarkFilled(t) PROVE HandsInv' /\ KeepsAgreed
<1>1. PICK o, q : o = <<q, Least(task[t].todo)>> /\ q = task[t].pid
  OBVIOUS
<1> DEFINE new == [task[t] EXCEPT !.pc = "fill", !.pid = 0, !.todo = {}]
<1>2. /\ task[t].pc = "mark" /\ Goto(t, new) /\ UNCHANGED <<pos, cycle>>
      /\ order' = [order EXCEPT ![o] = "filled"]
  BY <1>1 DEF MarkFilled, At
<1>3. q \in Pid /\ o \in Order /\ o[1] = q
  <2>1. PICK i \in Slot : task[t].pid \in Pid /\ task[t].todo = {i}
    BY <1>2, Carried DEF TaskOf
  <2>2. task[t].todo \in SUBSET Nat /\ task[t].todo # {}
    BY <2>1, Numbers
  <2>3. Least(task[t].todo) \in Slot
    BY <2>1, <2>2, LeastIsMember
  <2> QED
    BY <1>1, <2>1, <2>3 DEF Order
<1>4. \A x : Marking(task[t], x) <=> x = o
  BY <1>1, <1>2 DEF Marking
<1>5. order[o] # "none"
  BY <1>3, <1>4 DEF HandsInv, ReadOrdersExist
<1>6. /\ new.pc = "fill" /\ new.exits = task[t].exits /\ new.fills = task[t].fills
  BY Carried DEF Task
<1>7. PICK N : Goto(t, N) /\ N.pc = "fill" /\ N.exits = {} /\ N.fills = task[t].fills
  BY <1>2, <1>6, NoExits
<1> HIDE DEF new
<1>8. task'[t] = N /\ \A u \in Thread \ {t} : task'[u] = task[u]
  BY <1>7, Moved
<1>9. /\ \A x : ~Marking(N, x)
      /\ \A p \in Pid : /\ ~Placing(task[t], p) /\ ~Placing(N, p)
                        /\ ~Cancelling(task[t], p) /\ ~Mirroring(task[t], p)
  BY <1>2, <1>7, NoExits DEF Marking, Placing, Cancelling, Mirroring
<1>10. \A x \in Order : order'[x] = IF x = o THEN "filled" ELSE order[x]
  BY <1>2, Carried
<1>11. HandsInv'
  <2>1. \A x \in Order : x \in N.fills \/ Marking(N, x) => order[x] # "none"
    BY <1>7, <1>9, FillsExist
  <2>2. \A x \in Order : order'[x] = "none" <=> order[x] = "none"
    BY <1>5, <1>10
  <2> QED
    BY <1>2, <1>7, <1>9, <2>1, <2>2, HandsMove
<1>12. ASSUME NEW p \in Pid, Agreed(p), p # q PROVE Agreed(p)'
  <2>1. \A x \in Order : x[1] = p => x # o
    BY <1>3, <1>12
  <2>2. \A x \in Order : x[1] = p =>
           order'[x] = order[x] /\ (Marking(N, x) <=> Marking(task[t], x))
    BY <1>4, <1>9, <1>10, <2>1
  <2> QED
    BY <1>2, <1>7, <1>9, <1>12, <2>2, AgreedStays
<1>13. ASSUME Agreed(q) PROVE Agreed(q)'
  <2>1. \A u \in Thread : /\ Placing(task'[u], q) <=> Placing(task[u], q)
                          /\ Cancelling(task[u], q) => Cancelling(task'[u], q)
                          /\ Mirroring(task[u], q) => Mirroring(task'[u], q)
    BY <1>3, <1>8, <1>9
  <2>2. BeingPlaced(q)' <=> BeingPlaced(q)
    BY <2>1 DEF BeingPlaced
  <2>3. Filled(q)' \cup BeingMarked(q)' = Filled(q) \cup BeingMarked(q)
    <3>1. \A x \in Order : x # o =>
             ((\E u \in Thread : Marking(task'[u], x)) <=> \E u \in Thread : Marking(task[u], x))
      BY <1>4, <1>8, <1>9
    <3>2. \A x \in Order : x # o =>
             /\ x \in Filled(q)' <=> x \in Filled(q)
             /\ x \in BeingMarked(q)' <=> x \in BeingMarked(q)
      BY <1>10, <3>1 DEF Filled, BeingMarked
    <3>3. o \in Filled(q)' /\ o \in BeingMarked(q)
      BY <1>3, <1>4, <1>10 DEF Filled, BeingMarked
    <3>4. /\ Filled(q) \subseteq Order /\ BeingMarked(q) \subseteq Order
          /\ Filled(q)' \subseteq Order /\ BeingMarked(q)' \subseteq Order
      BY DEF Filled, BeingMarked
    <3> QED
      BY <3>2, <3>3, <3>4
  <2>4. CycleClosed(q)'
    BY <1>2, <1>13, <2>1 DEF Agreed, CycleClosed
  <2>5. NoOrderLeft(q)'
    BY <1>2, <1>10, <1>13, <2>1 DEF Agreed, NoOrderLeft, OpenOrders
  <2>6. IsOpen(q)' <=> IsOpen(q)
    BY <1>2 DEF IsOpen
  <2> QED
    BY <1>2, <1>13, <2>2, <2>3, <2>4, <2>5, <2>6 DEF Agreed
<1> QED
  BY <1>11, <1>12, <1>13 DEF KeepsAgreed

-----------------------------------------------------------------------------
(* All steps.                                                              *)

\* A step of a handler.
LEMMA ServeAgrees == ASSUME IInv, HandsInv, Serve PROVE HandsInv' /\ KeepsAgreed
<1>1. ASSUME NEW t \in Decide, NEW d \in Side, RouterGuard(t, d) \/ DirectGrid(t, d)
      PROVE  HandsInv' /\ KeepsAgreed
  BY <1>1, QuietEntries DEF Thread
<1>2. ASSUME NEW t \in Ingest, NEW synth \in BOOLEAN, BeginBar(t, synth)
      PROVE  HandsInv' /\ KeepsAgreed
  BY <1>2, QuietChecks DEF Thread
<1>3. ASSUME NEW t \in Thread, Submit(t) PROVE HandsInv' /\ KeepsAgreed
  BY <1>3, QuietEntries, OpenAgrees, OrderAgrees, CycleAgrees DEF Submit
<1>4. ASSUME NEW t \in Thread, CheckPositions(t) PROVE HandsInv' /\ KeepsAgreed
  BY <1>4, QuietChecks, ExitAgrees, CancelAgrees, MirrorAgrees DEF CheckPositions
<1>5. ASSUME NEW t \in Thread, OnBarClose(t) PROVE HandsInv' /\ KeepsAgreed
  BY <1>5, SomePid, QuietPasses, FillAgrees, MarkAgrees, ManageExitAgrees, CancelAgrees
     DEF OnBarClose
<1> QED
  BY <1>1, <1>2, <1>3, <1>4, <1>5 DEF Serve

\* A restart empties the hands; it leaves in agreement what they did not hold.
LEMMA RestartAgrees ==
  ASSUME IInv, HandsInv, Restart
  PROVE  HandsInv' /\ \A p \in Pid \ CutShort : Agreed(p) => Agreed(p)'
<1>1. (\A t \in Thread : task'[t] = Idle) /\ UNCHANGED <<pos, order, cycle>>
  BY DEF Restart
<1>2. /\ \A p : ~Placing(Idle, p) /\ ~Mirroring(Idle, p) /\ ~Cancelling(Idle, p)
      /\ \A o : ~Marking(Idle, o)
      /\ Idle.fills = {} /\ Idle.exits = {}
  BY DEF Idle, Placing, Mirroring, Cancelling, Marking
<1>3. HandsInv'
  <2>1. OnePlacer' /\ PlacedIsNew' /\ ReadOrdersExist' /\ ExitsInChecks'
    BY <1>1, <1>2 DEF OnePlacer, PlacedIsNew, ReadOrdersExist, ExitsInChecks
  <2>2. OrdersOfPositions'
    BY <1>1 DEF HandsInv, OrdersOfPositions
  <2> QED
    BY <2>1, <2>2 DEF HandsInv
<1>4. ASSUME NEW p \in Pid \ CutShort, Agreed(p) PROVE Agreed(p)'
  <2>1. \A t \in Thread : /\ ~Placing(task[t], p) /\ ~Filling(task[t], p)
                          /\ ~Cancelling(task[t], p) /\ ~Mirroring(task[t], p)
    BY <1>4 DEF CutShort, Owes
  <2>2. ~BeingPlaced(p) /\ ~BeingPlaced(p)'
    BY <1>1, <1>2, <2>1 DEF BeingPlaced
  <2>3. BeingMarked(p) = {} /\ BeingMarked(p)' = {}
    <3>1. \A o \in Order, t \in Thread : o[1] = p => ~Marking(task[t], o)
      BY <2>1 DEF Filling, Marking
    <3>2. \A o \in Order, t \in Thread : ~Marking(task'[t], o)
      BY <1>1, <1>2
    <3> QED
      BY <3>1, <3>2 DEF BeingMarked
  <2>4. CycleClosed(p)' /\ NoOrderLeft(p)'
    BY <1>1, <1>4, <2>1 DEF Agreed, CycleClosed, NoOrderLeft, OpenOrders
  <2>5. Filled(p)' = Filled(p) /\ (IsOpen(p)' <=> IsOpen(p))
    BY <1>1 DEF Filled, IsOpen
  <2> QED
    BY <1>1, <1>4, <2>2, <2>3, <2>4, <2>5 DEF Agreed
<1> QED
  BY <1>3, <1>4

AgreedInv == \A p \in Pid \ disturbed : Agreed(p)
StoresInv == IInv /\ HandsInv /\ AgreedInv

LEMMA StoresStart == StoresInit => StoresInv
<1> SUFFICES ASSUME StoresInit PROVE StoresInv
  OBVIOUS
<1>1. Init
  BY DEF StoresInit
<1>2. (\A t \in Thread : task[t] = Idle) /\ (\A o \in Order : order[o] = "none")
  BY <1>1 DEF Init
<1>3. /\ \A p : ~Placing(Idle, p)
      /\ \A o : ~Marking(Idle, o)
      /\ Idle.fills = {} /\ Idle.exits = {}
  BY DEF Idle, Placing, Marking
<1>4. HandsInv
  BY <1>2, <1>3 DEF HandsInv, OnePlacer, PlacedIsNew, OrdersOfPositions, ReadOrdersExist,
     ExitsInChecks
<1>5. \A p \in Pid : pos[p].status = "none" /\ ~BeingPlaced(p)
  BY <1>1, <1>2, <1>3 DEF Init, NoPosition, BeingPlaced
<1>6. AgreedInv
  BY <1>5 DEF AgreedInv, Agreed, IsOpen, CycleClosed, NoOrderLeft
<1> QED
  BY <1>1, <1>4, <1>6, InitIInv DEF StoresInv

LEMMA StoresStep == StoresInv /\ [StoresNext]_storeVars => StoresInv'
<1> SUFFICES ASSUME StoresInv, [StoresNext]_storeVars PROVE StoresInv'
  OBVIOUS
<1>1. CASE Served
  <2>1. Serve /\ disturbed' = disturbed \cup ClosedWhilePlaced \cup FilledAmiss
    BY <1>1 DEF Served
  <2>2. IInv'
    BY <2>1, NextKeeps DEF StoresInv, Next
  <2>3. HandsInv' /\ KeepsAgreed
    BY <2>1, ServeAgrees DEF StoresInv
  <2>4. AgreedInv'
    BY <2>1, <2>3 DEF StoresInv, AgreedInv, KeepsAgreed
  <2> QED
    BY <2>2, <2>3, <2>4 DEF StoresInv
<1>2. CASE Restarted
  <2>1. Restart /\ disturbed' = disturbed \cup CutShort
    BY <1>2 DEF Restarted
  <2>2. IInv'
    BY <2>1, NextKeeps DEF StoresInv, Next
  <2>3. HandsInv' /\ \A p \in Pid \ CutShort : Agreed(p) => Agreed(p)'
    BY <2>1, RestartAgrees DEF StoresInv
  <2>4. AgreedInv'
    BY <2>1, <2>3 DEF StoresInv, AgreedInv
  <2> QED
    BY <2>2, <2>3, <2>4 DEF StoresInv
<1>3. CASE UNCHANGED storeVars
  <2>1. UNCHANGED vars
    BY <1>3 DEF storeVars, vars
  <2>2. IInv'
    BY <2>1, StutterKeeps DEF StoresInv
  <2>3. HandsInv'
    BY <1>3 DEF storeVars, StoresInv, HandsInv, OnePlacer, PlacedIsNew, OrdersOfPositions,
       ReadOrdersExist, ExitsInChecks
  <2>4. \A p \in Pid : Agreed(p) => Agreed(p)'
    BY <1>3 DEF storeVars, Agreed, BeingPlaced, BeingMarked, IsOpen, CycleClosed, NoOrderLeft,
       OpenOrders, Filled
  <2>5. AgreedInv'
    BY <1>3, <2>4 DEF storeVars, StoresInv, AgreedInv
  <2> QED
    BY <2>2, <2>3, <2>5 DEF StoresInv
<1> QED
  BY <1>1, <1>2, <1>3 DEF StoresNext

\* What is agreed up to the hands is agreed when they hold nothing.
LEMMA StoresAgreed == StoresInv => StoresAgree
<1> SUFFICES ASSUME AgreedInv, NEW p \in Pid \ disturbed
             PROVE  LegsAreFills(p) /\ NoOrderLeft(p) /\ CycleClosed(p)
  BY DEF StoresInv, StoresAgree
<1>1. Agreed(p)
  BY DEF AgreedInv
<1>2. LegsAreFills(p)
  <2> SUFFICES ASSUME IsOpen(p), \A t \in Thread : ~Filling(task[t], p)
               PROVE  pos[p].legs = 1 + Cardinality(Filled(p))
    BY DEF LegsAreFills
  <2>1. BeingMarked(p) = {}
    BY DEF BeingMarked, Marking, Filling
  <2>2. Filled(p) \cup BeingMarked(p) = Filled(p)
    BY <2>1
  <2> QED
    BY <1>1, <2>2 DEF Agreed
<1> QED
  BY <1>1, <1>2 DEF Agreed

\* Position, orders and cycle of a grid agree as soon as no handler still has to write
\* about it, for any number of handlers and strategies and through restarts, unless it
\* was disturbed: closed while it was being opened (paper.py submit_grid), filled from a
\* list that another pass had outdated (_fill_pending_legs), or cut short by a restart.
THEOREM DisturbancesAreAll == StoresSpec => []StoresAgree
  BY StoresStart, StoresStep, StoresAgreed, PTL DEF StoresSpec

=============================================================================
