------------------------------ MODULE LiveBroker ------------------------------
(***************************************************************************)
(* Live trading of one symbol: LiveExecutor.fire, dispatch_grid in live    *)
(* mode, MT5Adapter's calls and reconcile, against a broker that answers   *)
(* late, refuses, fills after the caller gave up, and closes positions on  *)
(* its own.                                                                *)
(*                                                                         *)
(* MT5Adapter._run waits for a coroutine of a shared loop and raises after *)
(* metaapi_timeout_s while the coroutine keeps running: an order whose     *)
(* caller reported an error may still be filled.  The position store knows *)
(* only the tickets LiveExecutor.fire recorded.                            *)
(*                                                                         *)
(* Prices are abstracted: the bar checks may close any position they see,  *)
(* and the broker any position it holds.                                   *)
(***************************************************************************)
EXTENDS Integers, FiniteSets

CONSTANTS
    Fire,           \* threads that dispatch live entries
    Bars,           \* threads serving /ingest
    MaxOrders,      \* bound: orders ever sent to the broker
    MaxLegs,        \* bound: legs of a grid
    MaxRestarts     \* bound: restarts of the server

ASSUME LiveAssumption ==
    /\ MaxOrders \in Nat \ {0}
    /\ MaxLegs \in Nat \ {0}
    /\ MaxRestarts \in Nat

Thread == Fire \cup Bars
Order == 1..MaxOrders       \* in the order of sending; its ticket, once it has one

VARIABLES
    broker,     \* what the broker did with each order
    store,      \* the position store's record of each ticket
    cycle,      \* the status of the cycle linked to that position
    task,       \* what each thread is doing
    restarts

vars == <<broker, store, cycle, task, restarts>>

\* "sent" is a market order on the wire, "placing" a limit order on the wire,
\* "resting" a limit order the broker holds.
OnTheWire == {"sent", "placing"}
BrokerState == {"none", "resting", "open", "closed", "refused"} \cup OnTheWire

\* via: who closed the position, the bar checks or reconcile.
Record == [status : {"none", "open", "closed"}, via : {"", "bar", "broker"}]

NoRecord == [status |-> "none", via |-> ""]

Pc == {"idle", "submit", "wait", "record", "cycle", "leg", "wait_leg",    \* entries
       "check", "check_mirror", "query", "match", "deals", "mirror"}      \* a bar

\* order is the order at hand; legs the legs still to place after it; todo
\* the positions still to check or to match; tickets the broker's answer to
\* the query; failed if there was no answer.
Task == [pc : Pc, order : 0..MaxOrders, legs : 0..MaxLegs, todo : SUBSET Order,
         tickets : SUBSET Order, failed : BOOLEAN]

Idle == [pc |-> "idle", order |-> 0, legs |-> 0, todo |-> {}, tickets |-> {},
         failed |-> FALSE]

At(t, pc) == task[t].pc = pc
Goto(t, new) == task' = [task EXCEPT ![t] = new]

Tracked == { o \in Order : store[o].status = "open" }
Held == { o \in Order : broker[o] = "open" }
Least(S) == CHOOSE x \in S : \A y \in S : x <= y
Unsent == { o \in Order : broker[o] = "none" }

-----------------------------------------------------------------------------
(* The broker, and the coroutines that talk to it.                         *)

Arrive(o) ==
    \/ broker[o] = "sent" /\ broker' = [broker EXCEPT ![o] = "open"]
    \/ broker[o] = "placing" /\ broker' = [broker EXCEPT ![o] = "resting"]
    \/ broker[o] \in OnTheWire /\ broker' = [broker EXCEPT ![o] = "refused"]

FillLimit(o) ==
    /\ broker[o] = "resting"
    /\ broker' = [broker EXCEPT ![o] = "open"]

\* Stop, target, stop-out or manual close at the broker.
BrokerCloses(o) ==
    /\ broker[o] = "open"
    /\ broker' = [broker EXCEPT ![o] = "closed"]

Broker ==
    /\ \E o \in Order : Arrive(o) \/ FillLimit(o) \/ BrokerCloses(o)
    /\ UNCHANGED <<store, cycle, task, restarts>>

-----------------------------------------------------------------------------
(* LiveExecutor.fire with MT5Adapter.submit_order.                         *)

\* The duplicate-entry guard, which a decision that adds to a position passes, then
\* the broker call: nothing is reserved.
FireGuard(t) ==
    /\ At(t, "idle")
    /\ \E adds \in BOOLEAN : adds \/ Tracked = {}
    /\ Goto(t, [Idle EXCEPT !.pc = "submit"])
    /\ UNCHANGED <<broker, store, cycle, restarts>>

\* News, spread or sizing refuse, or one of their own calls times out.
GateRefuses(t) ==
    /\ At(t, "submit")
    /\ Goto(t, Idle)
    /\ UNCHANGED <<broker, store, cycle, restarts>>

Send(t, kind, then) ==
    LET o == Least(Unsent)
    IN  /\ Unsent # {}
        /\ broker' = [broker EXCEPT ![o] = kind]
        /\ Goto(t, [task[t] EXCEPT !.pc = then, !.order = o])

SendMarket(t) ==
    /\ At(t, "submit")
    /\ Send(t, "sent", "wait")
    /\ UNCHANGED <<store, cycle, restarts>>

\* Mutant: the result of the broker is not looked at.
AnswerUnchecked(t) ==
    /\ At(t, "wait")
    /\ broker[task[t].order] \notin OnTheWire
    /\ Goto(t, [task[t] EXCEPT !.pc = "record"])
    /\ UNCHANGED <<broker, store, cycle, restarts>>

\* The answer carries a ticket, or the order was refused.
Answer(t) ==
    /\ At(t, "wait")
    /\ broker[task[t].order] \notin OnTheWire
    /\ Goto(t, IF broker[task[t].order] = "refused" THEN Idle
               ELSE [task[t] EXCEPT !.pc = "record"])
    /\ UNCHANGED <<broker, store, cycle, restarts>>

\* fut.result(timeout) raises; the caller returns an error without a ticket.
Timeout(t) ==
    /\ At(t, "wait") \/ At(t, "wait_leg")
    /\ Goto(t, Idle)
    /\ UNCHANGED <<broker, store, cycle, restarts>>

\* open_position; if it fails the error is logged and the fill stays unknown.
RecordFill(t) ==
    LET o == task[t].order
    IN  /\ At(t, "record")
        /\ \/ /\ store' = [store EXCEPT ![o] = [status |-> "open", via |-> ""]]
              /\ Goto(t, [task[t] EXCEPT !.pc = "cycle"])
           \/ UNCHANGED store /\ Goto(t, Idle)
        /\ UNCHANGED <<broker, cycle, restarts>>

OpenCycle(t) ==
    /\ At(t, "cycle")
    /\ cycle' = [cycle EXCEPT ![task[t].order] = "active"]
    /\ Goto(t, Idle)
    /\ UNCHANGED <<broker, store, restarts>>

-----------------------------------------------------------------------------
(* dispatch_grid in live mode with MT5Adapter.submit_grid.  The guard of   *)
(* dispatch reads the position store, to which a live grid writes nothing. *)

\* It refuses a grid on the side of a position, unless the decision adds to it; the
\* side is not kept here, so any of the positions may be on the grid's.
GridGuard(t) ==
    /\ At(t, "idle")
    /\ \E adds \in BOOLEAN, sameSide \in SUBSET Tracked : adds \/ sameSide = {}
    /\ \E n \in 1..MaxLegs : Goto(t, [Idle EXCEPT !.pc = "leg", !.legs = n])
    /\ UNCHANGED <<broker, store, cycle, restarts>>

SendLeg(t) ==
    /\ At(t, "leg")
    /\ Send(t, "placing", "wait_leg")
    /\ UNCHANGED <<store, cycle, restarts>>

\* An answer, refusals included, leads to the next leg.
LegAnswer(t) ==
    LET left == task[t].legs - 1
    IN  /\ At(t, "wait_leg")
        /\ broker[task[t].order] \notin OnTheWire
        /\ Goto(t, IF left = 0 THEN Idle ELSE [Idle EXCEPT !.pc = "leg", !.legs = left])
        /\ UNCHANGED <<broker, store, cycle, restarts>>

\* Bound: no order number is left, the entry is not attempted.
OutOfOrders(t) ==
    /\ At(t, "submit") \/ At(t, "leg")
    /\ Unsent = {}
    /\ Goto(t, Idle)
    /\ UNCHANGED <<broker, store, cycle, restarts>>

-----------------------------------------------------------------------------
(* /ingest: _check_positions, then reconcile.                              *)

BeginBar(t) ==
    /\ At(t, "idle")
    /\ Goto(t, [Idle EXCEPT !.pc = "check", !.todo = Tracked])
    /\ UNCHANGED <<broker, store, cycle, restarts>>

\* Mutant: the status is not looked at.
CloseAnyStatus(o, via) ==
    store' = [store EXCEPT ![o] = [status |-> "closed", via |-> via]]

\* close_position: refused unless the position is open.
Close(o, via) ==
    store' = IF store[o].status = "open"
             THEN [store EXCEPT ![o] = [status |-> "closed", via |-> via]]
             ELSE store

CloseCycle(o) ==
    cycle' = IF cycle[o] = "active" THEN [cycle EXCEPT ![o] = "closed"] ELSE cycle

\* The bar crossed no level of this position.
PassPosition(t) ==
    LET T == task[t]
    IN  /\ At(t, "check")
        /\ T.todo # {}
        /\ Goto(t, [T EXCEPT !.todo = @ \ {Least(T.todo)}])
        /\ UNCHANGED <<broker, store, cycle, restarts>>

\* The bar crossed one: the record is closed, the broker is not told.
ExitPosition(t) ==
    LET T == task[t]
        o == Least(T.todo)
    IN  /\ At(t, "check")
        /\ T.todo # {}
        /\ Close(o, "bar")
        /\ Goto(t, [T EXCEPT !.todo = @ \ {o}, !.pc = "check_mirror", !.order = o])
        /\ UNCHANGED <<broker, cycle, restarts>>

MirrorExit(t) ==
    /\ At(t, "check_mirror")
    /\ CloseCycle(task[t].order)
    /\ Goto(t, [task[t] EXCEPT !.pc = "check", !.order = 0])
    /\ UNCHANGED <<broker, store, restarts>>

\* reconcile reads its positions first; without any it does not ask.
ListTracked(t) ==
    /\ At(t, "check")
    /\ task[t].todo = {}
    /\ Goto(t, IF Tracked = {} THEN Idle
               ELSE [Idle EXCEPT !.pc = "query", !.todo = Tracked])
    /\ UNCHANGED <<broker, store, cycle, restarts>>

\* Mutant: an empty answer is taken for a failure and nothing is matched.
QueryDistrustsEmpty(t) ==
    /\ At(t, "query")
    /\ Goto(t, IF Held = {} THEN Idle
               ELSE [task[t] EXCEPT !.pc = "match", !.tickets = Held])
    /\ UNCHANGED <<broker, store, cycle, restarts>>

Query(t) ==
    /\ At(t, "query")
    /\ Goto(t, [task[t] EXCEPT !.pc = "match", !.tickets = Held])
    /\ UNCHANGED <<broker, store, cycle, restarts>>

\* get_open_positions catches every exception and returns no positions.
QueryFails(t) ==
    /\ At(t, "query")
    /\ Goto(t, [task[t] EXCEPT !.pc = "match", !.tickets = {}, !.failed = TRUE])
    /\ UNCHANGED <<broker, store, cycle, restarts>>

\* Mutant: the records are read after the broker's answer.
MatchRereads(t) ==
    LET T == task[t]
        todo == Tracked \ T.tickets
    IN  /\ At(t, "match")
        /\ Goto(t, IF todo = {} THEN Idle
                   ELSE [T EXCEPT !.pc = "deals", !.order = Least(todo), !.todo = todo])
        /\ UNCHANGED <<broker, store, cycle, restarts>>

Match(t) ==
    LET T == task[t]
        todo == T.todo \ T.tickets
    IN  /\ At(t, "match")
        /\ Goto(t, IF todo = {} THEN Idle
                   ELSE [T EXCEPT !.pc = "deals", !.order = Least(todo), !.todo = todo])
        /\ UNCHANGED <<broker, store, cycle, restarts>>

\* _fetch_close takes as long as the broker, then the record is closed.
CloseAbsent(t) ==
    LET T == task[t]
    IN  /\ At(t, "deals")
        /\ Close(T.order, "broker")
        /\ Goto(t, [T EXCEPT !.pc = "mirror"])
        /\ UNCHANGED <<broker, cycle, restarts>>

MirrorAbsent(t) ==
    LET T == task[t]
    IN  /\ At(t, "mirror")
        /\ CloseCycle(T.order)
        /\ Goto(t, [T EXCEPT !.pc = "match", !.todo = @ \ {T.order}, !.order = 0])
        /\ UNCHANGED <<broker, store, restarts>>

-----------------------------------------------------------------------------

\* The stores are on disk; orders on the wire may still arrive.
Restart ==
    /\ restarts < MaxRestarts
    /\ restarts' = restarts + 1
    /\ task' = [t \in Thread |-> Idle]
    /\ UNCHANGED <<broker, store, cycle>>

Init ==
    /\ broker = [o \in Order |-> "none"]
    /\ store = [o \in Order |-> NoRecord]
    /\ cycle = [o \in Order |-> "none"]
    /\ task = [t \in Thread |-> Idle]
    /\ restarts = 0

Entry(t) ==
    \/ FireGuard(t) \/ GateRefuses(t) \/ SendMarket(t) \/ Answer(t) \/ Timeout(t)
    \/ RecordFill(t) \/ OpenCycle(t)
    \/ GridGuard(t) \/ SendLeg(t) \/ LegAnswer(t) \/ OutOfOrders(t)

Ingest(t) ==
    \/ BeginBar(t) \/ PassPosition(t) \/ ExitPosition(t) \/ MirrorExit(t)
    \/ ListTracked(t) \/ Query(t) \/ QueryFails(t) \/ Match(t)
    \/ CloseAbsent(t) \/ MirrorAbsent(t)

Next ==
    \/ Broker
    \/ \E t \in Fire : Entry(t)
    \/ \E t \in Bars : Ingest(t)
    \/ Restart

\* The feed posts a bar every minute and a handler runs to its end: its calls
\* to the broker return or time out.  Nothing is assumed of the broker or of
\* the entries.
Fairness == \A t \in Bars : WF_vars(Ingest(t))

Spec == Init /\ [][Next]_vars /\ Fairness

-----------------------------------------------------------------------------
(* Properties.                                                             *)

TypeOK ==
    /\ broker \in [Order -> BrokerState]
    /\ store \in [Order -> Record]
    /\ cycle \in [Order -> {"none", "active", "closed"}]
    /\ task \in [Thread -> Task]
    /\ restarts \in 0..MaxRestarts

\* The position store never tracks a position the broker did not open: however
\* late the answer or the timeout, a record has a filled order behind it.
RecordsAreFills ==
    \A o \in Order : store[o].status # "none" => broker[o] \in {"open", "closed"}

\* "Idempotent - position_store.close_position is write-once" (reconcile.py:13):
\* reconcile and the bar checks of another handler may both decide to close a
\* position, in any order and across restarts; the first one is kept.
FirstCloseStands ==
    [][\A o \in Order : store[o].status = "closed" => store'[o] = store[o]]_vars

\* A position the broker still holds is closed by reconcile only in the wake of
\* a failed query: the records are read before the broker is asked, so one that
\* is opened meanwhile is not taken for a closed one.
AbsentMeansClosed ==
    [][\A o \in Order :
          store[o].status = "open" /\ store'[o].via = "broker" /\ broker[o] = "open" =>
              \E t \in Bars : At(t, "deals") /\ task[t].order = o /\ task[t].failed]_vars

\* A tracked position that the broker closed is closed in the store sooner or
\* later, so that the entry guard does not block the symbol for ever.
BrokerCloseIsNoticed ==
    \A o \in Order :
        (store[o].status = "open" /\ broker[o] = "closed") ~> (store[o].status = "closed")

=============================================================================
