--------------------------- MODULE LiveBrokerProofs ---------------------------
(***************************************************************************)
(* Proofs about LiveBroker for any number of entry threads, handlers,      *)
(* orders, legs and restarts: a record has a fill behind it, the first     *)
(* close of a record stands, and reconcile takes a held position for a     *)
(* closed one only after a failed query.                                   *)
(*                                                                         *)
(* The broker never takes a fill back, so what a handler read of it stays  *)
(* true for the orders it found filled: that is what ReconcileInv carries  *)
(* from the query to the close, while broker and store go on moving.       *)
(***************************************************************************)
EXTENDS LiveBroker, FiniteInduction, TLAPS

Filled(o) == broker[o] \in {"open", "closed"}
Recorded(o) == store[o].status # "none"

\* An open record carries no exit.
RecordInv ==
    \A o \in Order :
        /\ Recorded(o) => Filled(o)
        /\ store[o].status = "open" => store[o].via = ""

Entering == {"wait", "record"}
Closing == {"match", "deals", "mirror"}

\* An entry in progress has sent its market order, which has no record yet;
\* once it is to be recorded it is filled.
EntryOf(T) ==
    /\ T.pc \in Entering =>
          /\ T.order \in Order
          /\ broker[T.order] \notin {"none", "placing", "resting"}
          /\ ~Recorded(T.order)
    /\ T.pc = "record" => Filled(T.order)
    /\ T.pc \in {"cycle", "wait_leg", "check_mirror"} => T.order \in Order
    /\ T.pc \in {"leg", "wait_leg"} => T.legs # 0

\* No two entries carry the same order.
EntryInv ==
    /\ \A t \in Thread : EntryOf(task[t])
    /\ \A s, t \in Thread :
          s # t /\ task[s].pc \in Entering /\ task[t].pc \in Entering
              => task[s].order # task[t].order

\* A position that reconcile read as open was filled then; if the broker
\* answered and did not name it, the broker had closed it.
ReconcileOf(T) ==
    /\ T.pc = "query" => \A o \in T.todo : Recorded(o)
    /\ T.pc \in Closing /\ ~T.failed => \A o \in T.todo \ T.tickets : broker[o] = "closed"
    /\ T.pc \in {"deals", "mirror"} => T.order \in T.todo \ T.tickets

ReconcileInv == \A t \in Thread : ReconcileOf(task[t])

IInv == TypeOK /\ RecordInv /\ EntryInv /\ ReconcileInv

-----------------------------------------------------------------------------

\* Least picks a member.
LEMMA LeastIsMember ==
  ASSUME NEW S \in SUBSET Order, S # {} PROVE Least(S) \in S
<1>1. S \in SUBSET Nat
  BY LiveAssumption DEF Order
<1>2. \E x \in S : \A y \in S : x <= y
  BY <1>1, LeastExists
<1> QED
  BY <1>2 DEF Least

\* The tasks the actions build.
LEMMA TaskShapes ==
  /\ Idle \in Task
  /\ \A T \in Task, pc \in Pc : [T EXCEPT !.pc = pc] \in Task
  /\ \A T \in Task, pc \in Pc, o \in 0..MaxOrders : [T EXCEPT !.pc = pc, !.order = o] \in Task
  /\ \A T \in Task, S \in SUBSET Order : [T EXCEPT !.todo = S] \in Task
  /\ \A T \in Task, pc \in Pc, n \in 0..MaxLegs : [T EXCEPT !.pc = pc, !.legs = n] \in Task
  /\ \A T \in Task, pc \in Pc, S \in SUBSET Order : [T EXCEPT !.pc = pc, !.todo = S] \in Task
  /\ \A T \in Task, pc \in Pc, o \in 0..MaxOrders, S \in SUBSET Order :
        /\ [T EXCEPT !.todo = S, !.pc = pc, !.order = o] \in Task
        /\ [T EXCEPT !.pc = pc, !.order = o, !.todo = S] \in Task
        /\ [T EXCEPT !.pc = pc, !.todo = S, !.order = o] \in Task
<1>1. Idle \in Task
  BY LiveAssumption DEF Task, Idle, Pc
<1>2. \A T \in Task, pc \in Pc : [T EXCEPT !.pc = pc] \in Task
  BY DEF Task
<1>3. \A T \in Task, pc \in Pc, o \in 0..MaxOrders :
         [T EXCEPT !.pc = pc, !.order = o] \in Task
  BY DEF Task
<1>4. \A T \in Task, S \in SUBSET Order : [T EXCEPT !.todo = S] \in Task
  BY DEF Task
<1>5. \A T \in Task, pc \in Pc, n \in 0..MaxLegs : [T EXCEPT !.pc = pc, !.legs = n] \in Task
  BY DEF Task
<1>6. \A T \in Task, pc \in Pc, S \in SUBSET Order : [T EXCEPT !.pc = pc, !.todo = S] \in Task
  BY DEF Task
<1>7. \A T \in Task, pc \in Pc, o \in 0..MaxOrders, S \in SUBSET Order :
         /\ [T EXCEPT !.todo = S, !.pc = pc, !.order = o] \in Task
         /\ [T EXCEPT !.pc = pc, !.order = o, !.todo = S] \in Task
         /\ [T EXCEPT !.pc = pc, !.todo = S, !.order = o] \in Task
  BY DEF Task
<1> QED
  BY <1>1, <1>2, <1>3, <1>4, <1>5, <1>6, <1>7

\* The first state satisfies the inductive invariant.
LEMMA InitIInv == Init => IInv
<1> SUFFICES ASSUME Init PROVE IInv
  OBVIOUS
<1>0. restarts \in 0..MaxRestarts
  BY LiveAssumption DEF Init
<1> USE DEF Init, NoRecord
<1>1. TypeOK
  <2>1. broker \in [Order -> BrokerState]
    BY DEF BrokerState
  <2>2. store \in [Order -> Record] /\ cycle \in [Order -> {"none", "active", "closed"}]
    BY DEF Record
  <2>3. task \in [Thread -> Task]
    BY TaskShapes
  <2> QED
    BY <1>0, <2>1, <2>2, <2>3 DEF TypeOK
<1>2. RecordInv
  BY DEF RecordInv, Recorded
<1>3. EntryInv
  BY DEF EntryInv, EntryOf, Entering, Idle
<1>4. ReconcileInv
  BY DEF ReconcileInv, ReconcileOf, Closing, Idle
<1> QED
  BY <1>1, <1>2, <1>3, <1>4 DEF IInv

\* A step in which one thread moves on, to a task of which the invariants
\* hold, and nobody begins or records an entry.
LEMMA MoveKeeps ==
  ASSUME IInv, NEW t \in Thread, NEW new \in Task, Goto(t, new),
         UNCHANGED <<broker, store, restarts>>,
         cycle' \in [Order -> {"none", "active", "closed"}],
         EntryOf(new), ReconcileOf(new),
         new.pc \in Entering => task[t].pc \in Entering /\ new.order = task[t].order
  PROVE  IInv'
<1> USE DEF IInv, Goto, TypeOK
<1>1. TypeOK'
  OBVIOUS
<1>2. RecordInv'
  BY DEF RecordInv, Recorded, Filled
<1>3. EntryInv'
  BY DEF EntryInv, EntryOf, Recorded, Filled
<1>4. ReconcileInv'
  BY DEF ReconcileInv, ReconcileOf, Recorded
<1> QED
  BY <1>1, <1>2, <1>3, <1>4

\* A thread that ends its work, or is about to begin or continue it, carries
\* nothing the invariants speak of.
LEMMA FreeKeeps ==
  ASSUME IInv, NEW t \in Thread, NEW new \in Task, Goto(t, new),
         UNCHANGED <<broker, store, restarts>>,
         cycle' \in [Order -> {"none", "active", "closed"}],
         new.pc \in {"idle", "submit", "leg", "check"},
         new.pc = "leg" => new.legs # 0
  PROVE  IInv'
<1>1. EntryOf(new) /\ ReconcileOf(new) /\ new.pc \notin Entering
  BY DEF EntryOf, ReconcileOf, Entering, Closing
<1> QED
  BY <1>1, MoveKeeps

\* The broker moves an order on, and never takes a fill back.
LEMMA BrokerKeeps ==
  ASSUME IInv, Broker PROVE IInv'
<1> USE DEF Broker, IInv, Arrive, FillLimit, BrokerCloses
<1>1. PICK o \in Order :
         /\ broker' = [broker EXCEPT ![o] = broker'[o]]
         /\ \/ broker[o] = "sent" /\ broker'[o] \in {"open", "refused"}
            \/ broker[o] = "placing" /\ broker'[o] \in {"resting", "refused"}
            \/ broker[o] = "resting" /\ broker'[o] = "open"
            \/ broker[o] = "open" /\ broker'[o] = "closed"
  BY DEF TypeOK, OnTheWire
<1>2. TypeOK'
  BY <1>1 DEF TypeOK, BrokerState, OnTheWire
<1>3. RecordInv'
  BY <1>1 DEF RecordInv, TypeOK, Recorded, Filled
<1>4. EntryInv'
  BY <1>1 DEF EntryInv, EntryOf, Entering, TypeOK, Task, Recorded, Filled
<1>5. ReconcileInv'
  BY <1>1 DEF ReconcileInv, ReconcileOf, Closing, TypeOK, Task, Recorded
<1> QED
  BY <1>2, <1>3, <1>4, <1>5

-----------------------------------------------------------------------------
(* LiveExecutor.fire and dispatch_grid.                                    *)

\* The guards and refusals of an entry, and the end of one.
LEMMA EntryEnds ==
  ASSUME IInv, NEW t \in Thread,
         FireGuard(t) \/ GateRefuses(t) \/ Timeout(t) \/ OutOfOrders(t) \/ OpenCycle(t)
  PROVE  IInv'
<1>1. UNCHANGED <<broker, store, restarts>>
  BY DEF FireGuard, GateRefuses, Timeout, OutOfOrders, OpenCycle
<1>2. cycle' \in [Order -> {"none", "active", "closed"}]
  BY DEF FireGuard, GateRefuses, Timeout, OutOfOrders, OpenCycle, IInv, TypeOK
<1>3. PICK new \in {Idle, [Idle EXCEPT !.pc = "submit"]} : Goto(t, new)
  BY DEF FireGuard, GateRefuses, Timeout, OutOfOrders, OpenCycle
<1>4. new \in Task
  BY TaskShapes DEF Pc
<1>5. new.pc \in {"idle", "submit"}
  BY DEF Idle
<1> QED
  BY <1>1, <1>2, <1>3, <1>4, <1>5, FreeKeeps

\* The next leg of a grid.
LEMMA GridMoves ==
  ASSUME IInv, NEW t \in Thread, GridGuard(t) \/ LegAnswer(t) PROVE IInv'
<1>1. UNCHANGED <<broker, store, cycle, restarts>>
  BY DEF GridGuard, LegAnswer
<1> DEFINE NextLeg(n) == [Idle EXCEPT !.pc = "leg", !.legs = n]
<1>2. \A n \in 1..MaxLegs : NextLeg(n) \in Task /\ NextLeg(n).pc = "leg" /\ NextLeg(n).legs # 0
  <2>1. \A n \in 1..MaxLegs : NextLeg(n) \in Task
    <3>1. 1..MaxLegs \subseteq 0..MaxLegs
      BY LiveAssumption
    <3>2. "leg" \in Pc
      BY DEF Pc
    <3> QED
      BY <3>1, <3>2, TaskShapes
  <2>2. \A n \in 1..MaxLegs : n # 0
    BY LiveAssumption
  <2> QED
    BY <2>1, <2>2 DEF Idle
<1>3. PICK new \in Task :
         /\ Goto(t, new)
         /\ new.pc \in {"idle", "leg"}
         /\ new.pc = "leg" => new.legs # 0
  <2>1. CASE GridGuard(t)
    <3>1. PICK n \in 1..MaxLegs : Goto(t, NextLeg(n))
      BY <2>1 DEF GridGuard
    <3> HIDE DEF NextLeg
    <3> QED
      BY <3>1, <1>2
  <2>2. CASE LegAnswer(t)
    <3> DEFINE left == task[t].legs - 1
    <3>1. task[t] \in Task /\ task[t].legs # 0
      BY <2>2 DEF LegAnswer, IInv, TypeOK, EntryInv, EntryOf, At
    <3>2. left = 0 \/ left \in 1..MaxLegs
      BY <3>1, LiveAssumption DEF Task
    <3>3. CASE left = 0
      BY <2>2, <3>3, TaskShapes DEF LegAnswer, Idle
    <3>4. CASE left \in 1..MaxLegs
      <4>1. Goto(t, NextLeg(left))
        BY <2>2, <3>4 DEF LegAnswer
      <4> HIDE DEF NextLeg
      <4> QED
        BY <4>1, <3>4, <1>2
    <3> QED
      BY <3>2, <3>3, <3>4
  <2> QED
    BY <2>1, <2>2
<1> QED
  BY <1>1, <1>3, FreeKeeps DEF IInv, TypeOK

\* A market order goes out under a number nobody has used.
LEMMA SendMarketKeeps ==
  ASSUME IInv, NEW t \in Thread, SendMarket(t) PROVE IInv'
<1> DEFINE o == Least(Unsent)
           new == [task[t] EXCEPT !.pc = "wait", !.order = o]
<1>1. o \in Order /\ broker[o] = "none"
  BY LeastIsMember DEF SendMarket, Send, Unsent
<1>2. /\ broker' = [broker EXCEPT ![o] = "sent"]
      /\ Goto(t, new)
      /\ UNCHANGED <<store, cycle, restarts>>
  BY DEF SendMarket, Send
<1> HIDE DEF o
<1>3. new \in Task /\ new.pc = "wait" /\ new.order = o
  <2>1. task[t] \in Task /\ o \in 0..MaxOrders /\ "wait" \in Pc
    BY <1>1, LiveAssumption DEF IInv, TypeOK, Order, Pc
  <2>2. new.pc = "wait" /\ new.order = o
    BY <2>1 DEF Task
  <2> QED
    BY <2>1, <2>2, TaskShapes
<1> HIDE DEF new
<1> USE <1>1, <1>2, <1>3 DEF IInv, TypeOK, Goto
<1>4. TypeOK'
  BY DEF BrokerState, OnTheWire
<1>5. RecordInv'
  BY DEF RecordInv, Recorded, Filled
<1>6. EntryInv'
  <2>1. EntryOf(task[t])'
    BY DEF EntryInv, EntryOf, Entering, RecordInv, Recorded, Filled
  <2>2. ASSUME NEW s \in Thread, s # t
        PROVE  EntryOf(task[s])' /\ (task[s].pc \in Entering => task[s].order # o)
    BY <2>2 DEF EntryInv, EntryOf, Entering, Recorded, Filled
  <2> QED
    BY <2>1, <2>2 DEF EntryInv
<1>7. ReconcileInv'
  BY DEF ReconcileInv, ReconcileOf, Closing, Recorded, Task
<1> QED
  BY <1>4, <1>5, <1>6, <1>7

\* So does a leg of a grid.
LEMMA SendLegKeeps ==
  ASSUME IInv, NEW t \in Thread, SendLeg(t) PROVE IInv'
<1> DEFINE o == Least(Unsent)
           new == [task[t] EXCEPT !.pc = "wait_leg", !.order = o]
<1>1. o \in Order /\ broker[o] = "none"
  BY LeastIsMember DEF SendLeg, Send, Unsent
<1>2. /\ broker' = [broker EXCEPT ![o] = "placing"]
      /\ Goto(t, new)
      /\ UNCHANGED <<store, cycle, restarts>>
  BY DEF SendLeg, Send
<1> HIDE DEF o
<1>3. new \in Task /\ new.pc = "wait_leg" /\ new.order = o /\ new.legs # 0
  <2>1. task[t] \in Task /\ o \in 0..MaxOrders /\ "wait_leg" \in Pc
    BY <1>1, LiveAssumption DEF IInv, TypeOK, Order, Pc
  <2>2. task[t].legs # 0
    BY DEF SendLeg, IInv, EntryInv, EntryOf, At
  <2>3. new.pc = "wait_leg" /\ new.order = o /\ new.legs # 0
    BY <2>1, <2>2 DEF Task
  <2> QED
    BY <2>1, <2>3, TaskShapes
<1> HIDE DEF new
<1> USE <1>1, <1>2, <1>3 DEF IInv, TypeOK, Goto
<1>4. TypeOK'
  BY DEF BrokerState, OnTheWire
<1>5. RecordInv'
  BY DEF RecordInv, Recorded, Filled
<1>6. EntryInv'
  <2>1. EntryOf(task[t])'
    BY DEF EntryInv, EntryOf, Entering, RecordInv, Recorded, Filled
  <2>2. ASSUME NEW s \in Thread, s # t
        PROVE  EntryOf(task[s])'
    BY <2>2 DEF EntryInv, EntryOf, Entering, Recorded, Filled
  <2> QED
    BY <2>1, <2>2 DEF EntryInv, Entering
<1>7. ReconcileInv'
  BY DEF ReconcileInv, ReconcileOf, Closing, Recorded, Task
<1> QED
  BY <1>4, <1>5, <1>6, <1>7

\* An answer that is not a refusal comes from an order that was filled.
LEMMA AnswerKeeps ==
  ASSUME IInv, NEW t \in Thread, Answer(t) PROVE IInv'
<1> DEFINE new == [task[t] EXCEPT !.pc = "record"]
<1>1. UNCHANGED <<broker, store, cycle, restarts>>
      /\ cycle \in [Order -> {"none", "active", "closed"}]
  BY DEF Answer, IInv, TypeOK
<1>2. CASE Goto(t, Idle)
  BY <1>1, <1>2, TaskShapes, FreeKeeps DEF Idle
<1>3. CASE Goto(t, new) /\ broker[task[t].order] # "refused"
  <2>1. task[t] \in Task /\ EntryOf(task[t]) /\ task[t].pc = "wait"
    BY DEF IInv, TypeOK, EntryInv, Answer, At
  <2>2. new \in Task
    BY <2>1, TaskShapes DEF Pc
  <2>3. new.pc = "record" /\ new.order = task[t].order
    BY <2>1 DEF Task
  <2>4. Filled(task[t].order)
    BY <1>3, <2>1 DEF IInv, TypeOK, EntryOf, Entering, Answer, Filled, BrokerState, OnTheWire
  <2> HIDE DEF new
  <2>5. EntryOf(new)
    BY <2>1, <2>3, <2>4 DEF EntryOf, Entering
  <2>6. ReconcileOf(new)
    BY <2>3 DEF ReconcileOf, Closing
  <2> QED
    BY <1>1, <1>3, <2>1, <2>2, <2>3, <2>5, <2>6, MoveKeeps DEF Entering
<1> QED
  BY <1>2, <1>3 DEF Answer

\* A record is made of the order at hand only, and ends the entry.
LEMMA RecordFillKeeps ==
  ASSUME IInv, NEW t \in Thread, RecordFill(t) PROVE IInv'
<1> DEFINE o == task[t].order
           new == [task[t] EXCEPT !.pc = "cycle"]
<1>1. o \in Order /\ Filled(o) /\ ~Recorded(o) /\ task[t].pc = "record"
  BY DEF RecordFill, IInv, EntryInv, EntryOf, Entering, At
<1>2. CASE UNCHANGED store /\ Goto(t, Idle)
  BY <1>2, TaskShapes, FreeKeeps DEF RecordFill, IInv, TypeOK, Idle
<1>3. CASE /\ store' = [store EXCEPT ![o] = [status |-> "open", via |-> ""]]
           /\ Goto(t, new)
  <2>1. new \in Task /\ new.pc = "cycle" /\ new.order = o
    <3>1. task[t] \in Task
      BY DEF IInv, TypeOK
    <3>2. new.pc = "cycle" /\ new.order = o
      BY <3>1 DEF Task
    <3> QED
      BY <3>1, <3>2, TaskShapes DEF Pc
  <2>2. UNCHANGED <<broker, cycle, restarts>>
    BY DEF RecordFill
  <2>3. [status |-> "open", via |-> ""] \in Record
    BY DEF Record
  <2> HIDE DEF new
  <2> USE <1>1, <1>3, <2>1, <2>2, <2>3 DEF IInv, TypeOK, Goto
  <2>4. TypeOK'
    OBVIOUS
  <2>5. RecordInv'
    BY DEF RecordInv, Recorded, Filled
  <2>6. EntryInv'
    BY DEF EntryInv, EntryOf, Entering, Recorded, Filled
  <2>7. ReconcileInv'
    <3>1. \A x \in Order : Recorded(x) => Recorded(x)'
      BY DEF Recorded
    <3>2. \A s \in Thread : task[s].todo \subseteq Order
      BY DEF Task
    <3>3. ReconcileOf(task[t])'
      BY DEF ReconcileOf, Closing
    <3>4. ASSUME NEW s \in Thread, s # t PROVE ReconcileOf(task[s])'
      BY <3>1, <3>2, <3>4 DEF ReconcileInv, ReconcileOf
    <3> QED
      BY <3>3, <3>4 DEF ReconcileInv
  <2> QED
    BY <2>4, <2>5, <2>6, <2>7
<1> QED
  BY <1>2, <1>3 DEF RecordFill

-----------------------------------------------------------------------------
(* The bar checks and reconcile.                                           *)

\* A step in which one thread closes a record, or finds it closed.
LEMMA CloseKeeps ==
  ASSUME IInv, NEW t \in Thread, NEW new \in Task, NEW o \in Order, NEW via \in {"bar", "broker"},
         Goto(t, new), Close(o, via), UNCHANGED <<broker, cycle, restarts>>,
         EntryOf(new), ReconcileOf(new), new.pc \notin Entering
  PROVE  IInv'
<1>1. TypeOK'
  BY DEF Close, Record, IInv, Goto, TypeOK
<1>2. \A x \in Order :
         /\ (store'[x].status # "none") <=> (store[x].status # "none")
         /\ store'[x].status = "open" => store'[x] = store[x]
  BY DEF Close, Record, IInv, TypeOK
<1>3. RecordInv'
  <2>1. \A x \in Order :
           /\ store[x].status # "none" => broker'[x] \in {"open", "closed"}
           /\ store[x].status = "open" => store[x].via = ""
    BY DEF IInv, RecordInv, Filled, Recorded
  <2> QED
    BY <1>2, <2>1 DEF RecordInv, Filled, Recorded
<1>4. \A s \in Thread : task'[s] = IF s = t THEN new ELSE task[s]
  BY DEF Goto, IInv, TypeOK
<1>5. \A s \in Thread : task'[s].todo \subseteq Order
  BY <1>1 DEF TypeOK, Task
<1>6. EntryInv'
  <2>1. EntryOf(task[t])'
    BY <1>4 DEF EntryOf, Entering
  <2>2. ASSUME NEW s \in Thread, s # t PROVE EntryOf(task[s])'
    <3>1. EntryOf(task[s]) /\ task'[s] = task[s]
      BY <1>4, <2>2 DEF IInv, EntryInv
    <3> QED
      BY <1>2, <3>1 DEF EntryOf, Filled, Recorded
  <2>3. \A s, u \in Thread :
           s # u /\ task'[s].pc \in Entering /\ task'[u].pc \in Entering
              => task'[s].order # task'[u].order
    BY <1>4 DEF IInv, EntryInv
  <2> QED
    BY <2>1, <2>2, <2>3 DEF EntryInv, Entering
<1>7. ReconcileInv'
  <2>1. ReconcileOf(task[t])'
    <3>1. task'[t] = new /\ new.todo \subseteq Order
      BY <1>4, <1>5
    <3> QED
      BY <1>2, <3>1 DEF ReconcileOf, Closing, Recorded
  <2>2. ASSUME NEW s \in Thread, s # t PROVE ReconcileOf(task[s])'
    <3>1. ReconcileOf(task[s]) /\ task'[s] = task[s] /\ task[s].todo \subseteq Order
      BY <1>4, <1>5, <2>2 DEF IInv, ReconcileInv
    <3> QED
      BY <1>2, <3>1 DEF ReconcileOf, Closing, Recorded
  <2> QED
    BY <2>1, <2>2 DEF ReconcileInv
<1> QED
  BY <1>1, <1>3, <1>6, <1>7 DEF IInv

\* The bar checks: their snapshot may grow stale, which the close allows for.
LEMMA CheckKeeps ==
  ASSUME IInv, NEW t \in Thread, BeginBar(t) \/ PassPosition(t) \/ ExitPosition(t) \/ MirrorExit(t)
  PROVE  IInv'
<1>1. task[t] \in Task /\ task[t].todo \in SUBSET Order
  BY DEF IInv, TypeOK, Task
<1>2. cycle \in [Order -> {"none", "active", "closed"}]
  BY DEF IInv, TypeOK
<1>3. CASE BeginBar(t)
  <2> DEFINE new == [Idle EXCEPT !.pc = "check", !.todo = Tracked]
  <2>1. new \in Task
    <3>1. Tracked \in SUBSET Order /\ "check" \in Pc
      BY DEF Tracked, Pc
    <3> QED
      BY <3>1, TaskShapes
  <2>2. new.pc = "check"
    BY DEF Idle
  <2> HIDE DEF new
  <2>3. Goto(t, new) /\ UNCHANGED <<broker, store, cycle, restarts>>
    BY <1>3 DEF BeginBar, new
  <2> QED
    BY <1>2, <2>1, <2>2, <2>3, FreeKeeps
<1>4. CASE PassPosition(t)
  <2> DEFINE new == [task[t] EXCEPT !.todo = @ \ {Least(task[t].todo)}]
  <2>1. new \in Task /\ new.pc = "check"
    BY <1>1, <1>4 DEF PassPosition, At, Task
  <2> HIDE DEF new
  <2>2. Goto(t, new) /\ UNCHANGED <<broker, store, cycle, restarts>>
    BY <1>4 DEF PassPosition, new
  <2> QED
    BY <1>2, <2>1, <2>2, FreeKeeps
<1>5. CASE ExitPosition(t)
  <2> DEFINE o == Least(task[t].todo)
             new == [task[t] EXCEPT !.todo = @ \ {o}, !.pc = "check_mirror", !.order = o]
  <2>1. o \in Order
    BY <1>1, <1>5, LeastIsMember DEF ExitPosition
  <2> HIDE DEF o
  <2>2. new \in Task
    <3>1. task[t].todo \ {o} \in SUBSET Order /\ "check_mirror" \in Pc /\ o \in 0..MaxOrders
      BY <1>1, <2>1, LiveAssumption DEF Order, Pc
    <3> QED
      BY <1>1, <3>1, TaskShapes
  <2>3. new.pc = "check_mirror" /\ new.order = o
    BY <1>1, <2>1 DEF Task
  <2> HIDE DEF new
  <2>4. EntryOf(new) /\ ReconcileOf(new) /\ new.pc \notin Entering
    BY <2>1, <2>3 DEF EntryOf, ReconcileOf, Entering, Closing
  <2>5. Goto(t, new) /\ Close(o, "bar") /\ UNCHANGED <<broker, cycle, restarts>>
    BY <1>5 DEF ExitPosition, new, o
  <2> QED
    BY <2>1, <2>2, <2>4, <2>5, CloseKeeps
<1>6. CASE MirrorExit(t)
  <2> DEFINE new == [task[t] EXCEPT !.pc = "check", !.order = 0]
  <2>1. new \in Task
    <3>1. 0 \in 0..MaxOrders /\ "check" \in Pc
      BY LiveAssumption DEF Pc
    <3> QED
      BY <1>1, <3>1, TaskShapes
  <2>2. new.pc = "check"
    BY <1>1 DEF Task
  <2>3. cycle' \in [Order -> {"none", "active", "closed"}]
    BY <1>2, <1>6 DEF MirrorExit, CloseCycle
  <2> HIDE DEF new
  <2>4. Goto(t, new) /\ UNCHANGED <<broker, store, restarts>>
    BY <1>6 DEF MirrorExit, new
  <2> QED
    BY <2>1, <2>2, <2>3, <2>4, FreeKeeps
<1> QED
  BY <1>3, <1>4, <1>5, <1>6

\* Reconcile lists its records before it asks the broker.
LEMMA ListTrackedKeeps ==
  ASSUME IInv, NEW t \in Thread, ListTracked(t) PROVE IInv'
<1> DEFINE new == [Idle EXCEPT !.pc = "query", !.todo = Tracked]
<1>1. UNCHANGED <<broker, store, cycle, restarts>>
      /\ cycle \in [Order -> {"none", "active", "closed"}]
  BY DEF ListTracked, IInv, TypeOK
<1>2. CASE Goto(t, Idle)
  BY <1>1, <1>2, TaskShapes, FreeKeeps DEF Idle
<1>3. CASE Goto(t, new)
  <2>1. new \in Task
    <3>1. Tracked \in SUBSET Order /\ "query" \in Pc
      BY DEF Tracked, Pc
    <3> QED
      BY <3>1, TaskShapes
  <2>2. new.pc = "query" /\ new.todo = Tracked
    BY DEF Idle
  <2> HIDE DEF new
  <2>3. EntryOf(new) /\ ReconcileOf(new) /\ new.pc \notin Entering
    BY <2>2 DEF EntryOf, ReconcileOf, Entering, Closing, Tracked, Recorded
  <2> QED
    BY <1>1, <1>3, <2>1, <2>3, MoveKeeps
<1> QED
  BY <1>2, <1>3 DEF ListTracked

\* What the records had open was filled; what the broker does not name it closed.
LEMMA QueryKeeps ==
  ASSUME IInv, NEW t \in Thread, Query(t) \/ QueryFails(t) PROVE IInv'
<1>1. task[t] \in Task /\ ReconcileOf(task[t]) /\ RecordInv /\ broker \in [Order -> BrokerState]
      /\ cycle \in [Order -> {"none", "active", "closed"}]
  BY DEF IInv, TypeOK, ReconcileInv
<1>2. UNCHANGED <<broker, store, cycle, restarts>> /\ task[t].pc = "query"
  BY DEF Query, QueryFails, At
<1>3. \A o \in task[t].todo \ Held : broker[o] = "closed"
  BY <1>1, <1>2 DEF ReconcileOf, RecordInv, Filled, Held, Task
<1>4. CASE Query(t)
  <2> DEFINE new == [task[t] EXCEPT !.pc = "match", !.tickets = Held]
  <2>1. new \in Task
    BY <1>1 DEF Task, Pc, Held
  <2>2. new.pc = "match" /\ new.todo = task[t].todo /\ new.tickets = Held
    BY <1>1 DEF Task
  <2> HIDE DEF new
  <2>3. EntryOf(new) /\ ReconcileOf(new) /\ new.pc \notin Entering
    BY <1>3, <2>2 DEF EntryOf, ReconcileOf, Entering, Closing
  <2>4. Goto(t, new)
    BY <1>4 DEF Query, new
  <2> QED
    BY <1>1, <1>2, <2>1, <2>3, <2>4, MoveKeeps
<1>5. CASE QueryFails(t)
  <2> DEFINE new == [task[t] EXCEPT !.pc = "match", !.tickets = {}, !.failed = TRUE]
  <2>1. new \in Task
    BY <1>1 DEF Task, Pc
  <2>2. new.pc = "match" /\ new.failed = TRUE
    BY <1>1 DEF Task
  <2> HIDE DEF new
  <2>3. EntryOf(new) /\ ReconcileOf(new) /\ new.pc \notin Entering
    BY <2>2 DEF EntryOf, ReconcileOf, Entering, Closing
  <2>4. Goto(t, new)
    BY <1>5 DEF QueryFails, new
  <2> QED
    BY <1>1, <1>2, <2>1, <2>3, <2>4, MoveKeeps
<1> QED
  BY <1>4, <1>5

\* The records to close are those the answer does not name.
LEMMA MatchKeeps ==
  ASSUME IInv, NEW t \in Thread, Match(t) PROVE IInv'
<1> DEFINE T == task[t]
           todo == T.todo \ T.tickets
           new == [T EXCEPT !.pc = "deals", !.order = Least(todo), !.todo = todo]
<1>1. T \in Task /\ ReconcileOf(T) /\ T.pc = "match"
      /\ cycle \in [Order -> {"none", "active", "closed"}]
  BY DEF IInv, TypeOK, ReconcileInv, Match, At
<1>2. UNCHANGED <<broker, store, cycle, restarts>>
  BY DEF Match
<1>3. CASE Goto(t, Idle)
  BY <1>1, <1>2, <1>3, TaskShapes, FreeKeeps DEF Idle
<1>4. CASE todo # {} /\ Goto(t, new)
  <2>1. todo \in SUBSET Order /\ Least(todo) \in todo
    BY <1>1, <1>4, LeastIsMember DEF Task
  <2>2. new \in Task
    <3>1. "deals" \in Pc /\ Least(todo) \in 0..MaxOrders
      BY <2>1, LiveAssumption DEF Order, Pc
    <3> QED
      BY <1>1, <2>1, <3>1, TaskShapes
  <2>3. /\ new.pc = "deals" /\ new.order \in todo /\ new.todo = todo
        /\ new.tickets = T.tickets /\ new.failed = T.failed
    BY <1>1, <2>1 DEF Task
  <2> HIDE DEF new
  <2>4. EntryOf(new) /\ ReconcileOf(new) /\ new.pc \notin Entering
    BY <1>1, <2>3 DEF EntryOf, ReconcileOf, Entering, Closing
  <2> QED
    BY <1>1, <1>2, <1>4, <2>2, <2>4, MoveKeeps
<1> QED
  BY <1>3, <1>4 DEF Match

\* The close of an absent position, however long its deals took to fetch.
LEMMA CloseAbsentKeeps ==
  ASSUME IInv, NEW t \in Thread, CloseAbsent(t) PROVE IInv'
<1> DEFINE T == task[t]
           new == [T EXCEPT !.pc = "mirror"]
<1>1. T \in Task /\ ReconcileOf(T) /\ T.pc = "deals"
  BY DEF IInv, TypeOK, ReconcileInv, CloseAbsent, At
<1>2. T.order \in Order
  BY <1>1 DEF ReconcileOf, Task
<1>3. new \in Task
  BY <1>1, TaskShapes DEF Pc
<1>4. /\ new.pc = "mirror" /\ new.order = T.order /\ new.todo = T.todo
      /\ new.tickets = T.tickets /\ new.failed = T.failed
  BY <1>1 DEF Task
<1> HIDE DEF new
<1>5. EntryOf(new) /\ ReconcileOf(new) /\ new.pc \notin Entering
  BY <1>1, <1>4 DEF EntryOf, ReconcileOf, Entering, Closing
<1>6. Goto(t, new) /\ Close(T.order, "broker") /\ UNCHANGED <<broker, cycle, restarts>>
  BY DEF CloseAbsent, new
<1> QED
  BY <1>2, <1>3, <1>5, <1>6, CloseKeeps

\* On to the next absent position.
LEMMA MirrorAbsentKeeps ==
  ASSUME IInv, NEW t \in Thread, MirrorAbsent(t) PROVE IInv'
<1> DEFINE T == task[t]
           new == [T EXCEPT !.pc = "match", !.todo = @ \ {T.order}, !.order = 0]
<1>1. T \in Task /\ ReconcileOf(T) /\ T.pc = "mirror"
  BY DEF IInv, TypeOK, ReconcileInv, MirrorAbsent, At
<1>2. new \in Task
  <2>1. T.todo \ {T.order} \in SUBSET Order /\ "match" \in Pc /\ 0 \in 0..MaxOrders
    BY <1>1, LiveAssumption DEF Task, Pc
  <2> QED
    BY <1>1, <2>1, TaskShapes
<1>3. /\ new.pc = "match" /\ new.todo \subseteq T.todo
      /\ new.tickets = T.tickets /\ new.failed = T.failed
  BY <1>1 DEF Task
<1> HIDE DEF new
<1>4. EntryOf(new) /\ ReconcileOf(new) /\ new.pc \notin Entering
  BY <1>1, <1>3 DEF EntryOf, ReconcileOf, Entering, Closing
<1>5. Goto(t, new) /\ UNCHANGED <<broker, store, restarts>>
  BY DEF MirrorAbsent, new
<1>6. cycle' \in [Order -> {"none", "active", "closed"}]
  BY DEF MirrorAbsent, CloseCycle, IInv, TypeOK
<1> QED
  BY <1>2, <1>4, <1>5, <1>6, MoveKeeps

\* A restart frees every thread; orders and records are where they were.
LEMMA RestartKeeps ==
  ASSUME IInv, Restart PROVE IInv'
<1> USE DEF Restart, IInv
<1>1. restarts' \in 0..MaxRestarts
  BY LiveAssumption DEF TypeOK
<1>2. \A t \in Thread : task'[t] = Idle
  OBVIOUS
<1>3. TypeOK'
  BY <1>1, TaskShapes DEF TypeOK
<1>4. RecordInv'
  BY DEF RecordInv, Recorded, Filled
<1>5. EntryInv'
  BY <1>2 DEF EntryInv, EntryOf, Entering, Idle
<1>6. ReconcileInv'
  BY <1>2 DEF ReconcileInv, ReconcileOf, Closing, Idle
<1> QED
  BY <1>3, <1>4, <1>5, <1>6

\* Nothing happens.
LEMMA StutterKeeps ==
  ASSUME IInv, UNCHANGED vars PROVE IInv'
  BY DEF IInv, TypeOK, RecordInv, EntryInv, EntryOf, ReconcileInv, ReconcileOf, Recorded,
         Filled, vars

\* Every step keeps the inductive invariant.
LEMMA NextKeeps == IInv /\ [Next]_vars => IInv'
<1> SUFFICES ASSUME IInv, [Next]_vars PROVE IInv'
  OBVIOUS
<1>1. ASSUME NEW t \in Fire, Entry(t) PROVE IInv'
  BY <1>1, EntryEnds, GridMoves, SendMarketKeeps, SendLegKeeps, AnswerKeeps, RecordFillKeeps
     DEF Entry, Thread
<1>2. ASSUME NEW t \in Bars, Ingest(t) PROVE IInv'
  BY <1>2, CheckKeeps, ListTrackedKeeps, QueryKeeps, MatchKeeps, CloseAbsentKeeps,
     MirrorAbsentKeeps DEF Ingest, Thread
<1> QED
  BY <1>1, <1>2, BrokerKeeps, RestartKeeps, StutterKeeps DEF Next

\* The inductive invariant holds in every reachable state.
THEOREM InvHolds == Spec => []IInv
  BY InitIInv, NextKeeps, PTL DEF Spec

-----------------------------------------------------------------------------

\* Broker, records, cycles and threads always have the states they are meant to
\* have; in particular a grid stops placing legs when none is left.
THEOREM TypeCorrect == Spec => []TypeOK
  BY InvHolds, PTL DEF IInv

\* No record without a fill (LiveExecutor.fire records only a ticket the broker
\* gave), for any number of entries, handlers and restarts.
THEOREM NoRecordWithoutFill == Spec => []RecordsAreFills
<1>1. IInv => RecordsAreFills
  BY DEF IInv, RecordInv, RecordsAreFills, Recorded, Filled
<1> QED
  BY <1>1, InvHolds, PTL

FirstCloseStep == \A o \in Order : store[o].status = "closed" => store'[o] = store[o]

\* The first close of a record is never overwritten, whoever tries to
\* (close_position is write-once, and an order is recorded once).
THEOREM FirstCloseIsKept == Spec => FirstCloseStands
<1>1. IInv /\ [Next]_vars => [FirstCloseStep]_vars
  <2> SUFFICES ASSUME IInv, [Next]_vars PROVE FirstCloseStep
    OBVIOUS
  <2>1. UNCHANGED store => FirstCloseStep
    BY DEF FirstCloseStep
  <2>2. \A o \in Order, via \in {"bar", "broker"} : Close(o, via) => FirstCloseStep
    BY DEF IInv, TypeOK, Close, FirstCloseStep
  <2>3. ASSUME NEW t \in Fire, Entry(t) PROVE FirstCloseStep
    <3>1. CASE RecordFill(t)
      <4>1. t \in Thread /\ task[t].pc = "record"
        BY <3>1 DEF RecordFill, At, Thread
      <4>2. task[t].order \in Order /\ ~Recorded(task[t].order)
        BY <4>1 DEF IInv, EntryInv, EntryOf, Entering
      <4> QED
        BY <3>1, <4>2 DEF RecordFill, FirstCloseStep, IInv, TypeOK, Recorded
    <3>2. CASE ~RecordFill(t)
      BY <2>3, <3>2, <2>1 DEF Entry, FireGuard, GateRefuses, SendMarket, Answer, Timeout,
                              OpenCycle, GridGuard, SendLeg, LegAnswer, OutOfOrders
    <3> QED
      BY <3>1, <3>2
  <2>4. ASSUME NEW t \in Bars, Ingest(t) PROVE FirstCloseStep
    <3>1. t \in Thread /\ task[t] \in Task
      BY DEF IInv, TypeOK, Thread
    <3>2. CASE ExitPosition(t)
      <4>1. Least(task[t].todo) \in Order
        BY <3>1, <3>2, LeastIsMember DEF ExitPosition, Task
      <4> QED
        BY <2>2, <3>2, <4>1 DEF ExitPosition
    <3>3. CASE CloseAbsent(t)
      <4>1. task[t].order \in Order
        BY <3>1, <3>3 DEF CloseAbsent, At, IInv, ReconcileInv, ReconcileOf, Task
      <4> QED
        BY <2>2, <3>3, <4>1 DEF CloseAbsent
    <3>4. CASE ~ExitPosition(t) /\ ~CloseAbsent(t)
      BY <2>4, <3>4, <2>1 DEF Ingest, BeginBar, PassPosition, MirrorExit, ListTracked, Query,
                              QueryFails, Match, MirrorAbsent
    <3> QED
      BY <3>2, <3>3, <3>4
  <2> QED
    BY <2>1, <2>3, <2>4 DEF Next, Broker, Restart, vars
<1> QED
  BY <1>1, InvHolds, PTL DEF Spec, FirstCloseStands, FirstCloseStep

AbsentStep ==
    \A o \in Order :
        store[o].status = "open" /\ store'[o].via = "broker" /\ broker[o] = "open" =>
            \E t \in Bars : At(t, "deals") /\ task[t].order = o /\ task[t].failed

\* reconcile closes a position the broker still holds only in the wake of a
\* query that failed: it reads its records before it asks, so that a position
\* opened meanwhile is not among those it looks for (reconcile.py).
THEOREM HeldIsClosedAfterFailure == Spec => AbsentMeansClosed
<1>1. IInv /\ [Next]_vars => [AbsentStep]_vars
  <2> SUFFICES ASSUME IInv, [Next]_vars,
                      NEW o \in Order, store[o].status = "open", store'[o].via = "broker",
                      broker[o] = "open"
               PROVE  \E t \in Bars : At(t, "deals") /\ task[t].order = o /\ task[t].failed
    BY DEF AbsentStep
  <2>1. store[o].via = "" /\ store' # store
    BY DEF IInv, RecordInv
  <2>2. ASSUME NEW t \in Fire, Entry(t) PROVE FALSE
    <3>1. RecordFill(t)
      BY <2>1, <2>2 DEF Entry, FireGuard, GateRefuses, SendMarket, Answer, Timeout,
                        OpenCycle, GridGuard, SendLeg, LegAnswer, OutOfOrders
    <3>2. store' = [store EXCEPT ![task[t].order] = [status |-> "open", via |-> ""]]
      BY <2>1, <3>1 DEF RecordFill
    <3>3. store'[o].via = ""
      BY <2>1, <3>2 DEF IInv, TypeOK
    <3> QED
      BY <3>3
  <2>3. ASSUME NEW t \in Bars, Ingest(t)
        PROVE  At(t, "deals") /\ task[t].order = o /\ task[t].failed
    <3>1. ~ExitPosition(t)
      <4> SUFFICES ASSUME NEW p, Close(p, "bar") PROVE store'[o].via # "broker"
        BY DEF ExitPosition
      <4> QED
        BY <2>1 DEF Close, IInv, TypeOK
    <3>2. CloseAbsent(t)
      BY <2>1, <2>3, <3>1 DEF Ingest, BeginBar, PassPosition, MirrorExit, ListTracked, Query,
                              QueryFails, Match, MirrorAbsent
    <3>3. At(t, "deals") /\ task[t].order = o
      BY <2>1, <3>2 DEF CloseAbsent, Close, IInv, TypeOK
    <3>4. ReconcileOf(task[t]) /\ task[t].failed \in BOOLEAN
      BY DEF IInv, TypeOK, ReconcileInv, Thread, Task
    <3>5. CASE ~task[t].failed
      BY <3>3, <3>4, <3>5 DEF ReconcileOf, Closing, At
    <3> QED
      BY <3>3, <3>4, <3>5
  <2> QED
    BY <2>1, <2>2, <2>3 DEF Next, Broker, Restart, vars
<1> QED
  BY <1>1, InvHolds, PTL DEF Spec, AbsentMeansClosed, AbsentStep

=============================================================================
