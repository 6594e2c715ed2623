---------------------------- MODULE PositionStore ----------------------------
(***************************************************************************)
(* execution/position_store.py: the event-sourced store of grid positions. *)
(*                                                                         *)
(* One JSON line per event is appended to data/positions.jsonl and then    *)
(* applied to the in-memory dictionary; the constructor replays the file.  *)
(* The file is represented by what a replay of it yields (disk): appending *)
(* an event to the file extends the replay by that event.                  *)
(*                                                                         *)
(* Store is the set of PositionStore objects on one file: the server's     *)
(* singleton, the one the options monitor process builds, the one          *)
(* dashboard.reload_stores builds while a handler still holds the old one. *)
(* Each has a lock and a memory of its own, so an operation of one object  *)
(* is one step, and objects interleave.                                    *)
(***************************************************************************)
EXTENDS Integers, Sequences

CONSTANTS
    Store,          \* PositionStore objects sharing one log file
    Pid,            \* position ids (uuid4().hex[:12])
    Price,          \* stop-loss and take-profit levels
    RVal,           \* realized R of one close or one partial close
    Day,            \* IST calendar days, numbered
    MaxLegs,        \* bound: legs of a position (cycle.max_legs_per_cycle)
    TornWrites,     \* TRUE if an append may reach the disk in part
    ScaleOut        \* settings cycle.scale_out.enabled

SingleWriter == \A s, t \in Store : s = t

ASSUME StoreAssumption ==
    /\ Price \subseteq Int
    /\ RVal \subseteq Int
    /\ Day \subseteq Nat /\ 0 \in Day
    /\ MaxLegs \in Nat \ {0}
    /\ TornWrites \in BOOLEAN
    /\ ScaleOut \in BOOLEAN
    \* A scale_out line names the legs to drop by number; the model names
    \* the ones it keeps by position in the writer's memory, which is the
    \* same thing as long as the file and that memory agree.
    /\ ScaleOut => SingleWriter /\ ~TornWrites

VARIABLES
    disk,       \* what replaying the file yields
    glued,      \* the file ends in a partial line without its newline
    mem,        \* mem[s]: s._positions and s._daily_r_by_date
    up,         \* the objects that exist
    today       \* the IST calendar day

vars == <<disk, glued, mem, up, today>>

-----------------------------------------------------------------------------
(* The in-memory state: GridPosition records by id, realized R by day.     *)

Leg == [sl : Price, tp : Price]
Terminal == {"closed", "invalidated"}
Status == {"none", "open"} \cup Terminal    \* "none": the id is not a key

Position == [status : Status, legs : Seq(Leg), r : Int, scaled : BOOLEAN]
State == [pos : [Pid -> Position], daily : [Day -> Int]]

NoPosition == [status |-> "none", legs |-> <<>>, r |-> 0, scaled |-> FALSE]
EmptyState == [pos |-> [p \in Pid |-> NoPosition], daily |-> [d \in Day |-> 0]]

Known(st, p)  == st.pos[p].status # "none"
IsOpen(st, p) == st.pos[p].status = "open"

-----------------------------------------------------------------------------
(* _apply, one operator per event type.  Every type but "open" is ignored  *)
(* for an id that is not a key; no type looks at the status.               *)

SetPosition(st, p, new) == [st EXCEPT !.pos = [@ EXCEPT ![p] = new]]

\* Mutant: the bucket is overwritten.
CreditDayOverwrites(st, d, r) == [st EXCEPT !.daily = [st.daily EXCEPT ![d] = r]]

\* Add r to the bucket of the event's IST date.
CreditDay(st, d, r) == [st EXCEPT !.daily = [st.daily EXCEPT ![d] = @ + r]]

ApplyOpen(st, e) ==
    SetPosition(st, e.pid, [status |-> "open", legs |-> <<e.leg>>,
                            r |-> 0, scaled |-> FALSE])

ApplyAddLeg(st, e) ==
    LET P == st.pos[e.pid]
    IN  SetPosition(st, e.pid, [P EXCEPT !.legs = Append(P.legs, e.leg)])

\* realized_r is assigned, not added: a partial result banked before is lost.
ApplyClose(st, e) ==
    LET P == st.pos[e.pid]
    IN  CreditDay(SetPosition(st, e.pid, [P EXCEPT !.status = e.status, !.r = e.r]),
                  e.day, e.r)

\* keep lists, in order, the positions of the legs that are not dropped.
ApplyScaleOut(st, e) ==
    LET P == st.pos[e.pid]
        kept == [i \in 1..Len(e.keep) |-> [sl |-> e.sl, tp |-> P.legs[e.keep[i]].tp]]
    IN  CreditDay(SetPosition(st, e.pid,
                      [status |-> P.status, legs |-> kept,
                       r |-> P.r + e.r, scaled |-> TRUE]),
                  e.day, e.r)

\* Both adjustments touch the last leg only.
LastLegSet(P, leg) == [P EXCEPT !.legs = [@ EXCEPT ![Len(P.legs)] = leg]]

ApplySlAdjust(st, e) ==
    LET P == st.pos[e.pid]
    IN  SetPosition(st, e.pid,
            LastLegSet(P, [sl |-> e.price, tp |-> P.legs[Len(P.legs)].tp]))

ApplyTpAdjust(st, e) ==
    LET P == st.pos[e.pid]
    IN  SetPosition(st, e.pid,
            LastLegSet(P, [sl |-> P.legs[Len(P.legs)].sl, tp |-> e.price]))

Apply(st, e) ==
    CASE e.type = "open" -> ApplyOpen(st, e)
      [] e.type # "open" /\ ~Known(st, e.pid) -> st
      [] e.type = "add_leg" /\ Known(st, e.pid) -> ApplyAddLeg(st, e)
      [] e.type = "close" /\ Known(st, e.pid) -> ApplyClose(st, e)
      [] e.type = "scale_out" /\ Known(st, e.pid) -> ApplyScaleOut(st, e)
      [] e.type = "sl_adjust" /\ Known(st, e.pid) -> ApplySlAdjust(st, e)
      [] e.type = "tp_adjust" /\ Known(st, e.pid) -> ApplyTpAdjust(st, e)

-----------------------------------------------------------------------------
(* _write: append the line, then apply the event to this object's memory.  *)
(* A partial line is not terminated, so the next append is glued to it and *)
(* the replay's json.loads rejects both.                                   *)

\* Mutant: stop adjustments are kept in memory only.
AppendLineNotStops(e) ==
    /\ disk' = IF glued \/ e.type = "sl_adjust" THEN disk ELSE Apply(disk, e)
    /\ glued' = FALSE

AppendLine(e) ==
    /\ disk' = IF glued THEN disk ELSE Apply(disk, e)
    /\ glued' = FALSE

Drop(s) ==
    /\ up' = up \ {s}
    /\ mem' = [mem EXCEPT ![s] = EmptyState]

WriteDone(s, e) ==
    /\ AppendLine(e)
    /\ mem' = [mem EXCEPT ![s] = Apply(@, e)]
    /\ UNCHANGED up

\* The process dies after the append and before _apply.
WriteKilled(s, e) ==
    /\ AppendLine(e)
    /\ Drop(s)

\* The disk takes only part of the line and _write raises: nothing is applied.
WriteTorn(s) ==
    /\ TornWrites
    /\ glued' = TRUE
    /\ UNCHANGED <<disk, mem, up>>

Write(s, e) ==
    /\ UNCHANGED today
    /\ \/ WriteDone(s, e)
       \/ WriteKilled(s, e)
       \/ WriteTorn(s)

-----------------------------------------------------------------------------
(* The operations, each under the object's lock.                           *)

\* Ids come from uuid4: no object and no line of the file has seen this one.
Fresh(p) == ~Known(disk, p) /\ \A s \in Store : ~Known(mem[s], p)

OpenPosition(s, p) ==
    /\ Fresh(p)
    /\ \E l \in Leg : Write(s, [type |-> "open", pid |-> p, leg |-> l])

AddLeg(s, p) ==
    /\ IsOpen(mem[s], p)
    /\ Len(mem[s].pos[p].legs) < MaxLegs
    /\ Known(disk, p) => Len(disk.pos[p].legs) < MaxLegs
    /\ \E l \in Leg : Write(s, [type |-> "add_leg", pid |-> p, leg |-> l])

\* Mutant: the id is looked up, the status is not.
ClosePositionAnyStatus(s, p) ==
    /\ Known(mem[s], p)
    /\ \E r \in RVal :
          Write(s, [type |-> "close", pid |-> p, status |-> "closed",
                    r |-> r, day |-> today])

ClosePosition(s, p) ==
    /\ IsOpen(mem[s], p)
    /\ \E r \in RVal :
          Write(s, [type |-> "close", pid |-> p, status |-> "closed",
                    r |-> r, day |-> today])

\* Mutant: a status no reader of the store knows.
InvalidatePositionUnknownStatus(s, p) ==
    /\ IsOpen(mem[s], p)
    /\ Write(s, [type |-> "close", pid |-> p, status |-> "invalid",
                 r |-> -1, day |-> today])

\* invalidate_position books a fixed -1R.
InvalidatePosition(s, p) ==
    /\ IsOpen(mem[s], p)
    /\ Write(s, [type |-> "close", pid |-> p, status |-> "invalidated",
                 r |-> -1, day |-> today])

\* No check of the status: a caller that read the position before it was
\* closed still writes the event.
AdjustSl(s, p) ==
    /\ Known(mem[s], p)
    /\ \E x \in Price : Write(s, [type |-> "sl_adjust", pid |-> p, price |-> x])

AdjustTp(s, p) ==
    /\ Known(mem[s], p)
    /\ \E x \in Price : Write(s, [type |-> "tp_adjust", pid |-> p, price |-> x])

\* The ways to keep some, not all, of n legs: increasing sequences of indices.
Keeps(n) ==
    UNION { { f \in [1..k -> 1..n] : \A i, j \in 1..k : i < j => f[i] < f[j] }
            : k \in 1..(n - 1) }

\* Mutant: a position may be scaled out again.
ScaleOutPositionAgain(s, p) ==
    /\ ScaleOut
    /\ IsOpen(mem[s], p)
    /\ \E keep \in Keeps(Len(mem[s].pos[p].legs)), r \in RVal, x \in Price :
          Write(s, [type |-> "scale_out", pid |-> p, keep |-> keep,
                    r |-> r, sl |-> x, day |-> today])

\* Mutant: a position may be scaled out after its close.
ScaleOutPositionClosed(s, p) ==
    /\ ScaleOut
    /\ Known(mem[s], p)
    /\ ~mem[s].pos[p].scaled
    /\ \E keep \in Keeps(Len(mem[s].pos[p].legs)), r \in RVal, x \in Price :
          Write(s, [type |-> "scale_out", pid |-> p, keep |-> keep,
                    r |-> r, sl |-> x, day |-> today])

ScaleOutPosition(s, p) ==
    /\ ScaleOut
    /\ IsOpen(mem[s], p)
    /\ ~mem[s].pos[p].scaled
    /\ \E keep \in Keeps(Len(mem[s].pos[p].legs)), r \in RVal, x \in Price :
          Write(s, [type |-> "scale_out", pid |-> p, keep |-> keep,
                    r |-> r, sl |-> x, day |-> today])

-----------------------------------------------------------------------------

\* Mutant: only the open positions of the file are loaded.
LoadOpenOnly(s) ==
    /\ s \notin up
    /\ up' = up \cup {s}
    /\ mem' = [mem EXCEPT ![s] =
                 [disk EXCEPT !.pos =
                     [p \in Pid |-> IF IsOpen(disk, p) THEN disk.pos[p] ELSE NoPosition]]]
    /\ UNCHANGED <<disk, glued, today>>

\* PositionStore(): replay the file.
Load(s) ==
    /\ s \notin up
    /\ up' = up \cup {s}
    /\ mem' = [mem EXCEPT ![s] = disk]
    /\ UNCHANGED <<disk, glued, today>>

\* The process exits, or the object is dropped, between two operations.
Crash(s) ==
    /\ s \in up
    /\ Drop(s)
    /\ UNCHANGED <<disk, glued, today>>

Midnight ==
    /\ today + 1 \in Day
    /\ today' = today + 1
    /\ UNCHANGED <<disk, glued, mem, up>>

Init ==
    /\ disk = EmptyState
    /\ glued = FALSE
    /\ mem = [s \in Store |-> EmptyState]
    /\ up = {}
    /\ today = 0

Operation(s, p) ==
    \/ OpenPosition(s, p)
    \/ AddLeg(s, p)
    \/ ClosePosition(s, p)
    \/ InvalidatePosition(s, p)
    \/ AdjustSl(s, p)
    \/ AdjustTp(s, p)
    \/ ScaleOutPosition(s, p)

Next ==
    \/ \E s \in up, p \in Pid : Operation(s, p)
    \/ \E s \in Store : Load(s) \/ Crash(s)
    \/ Midnight

Spec == Init /\ [][Next]_vars

-----------------------------------------------------------------------------
(* Properties.                                                             *)

TypeOK ==
    /\ disk \in State
    /\ glued \in BOOLEAN
    /\ mem \in [Store -> State]
    /\ up \in SUBSET Store
    /\ today \in Day

\* "Persisted position state - survives Flask restarts" (line 1): at any
\* moment a restart rebuilds exactly the positions and the daily R that the
\* running object holds.
MemoryIsReplay == \A s \in up : mem[s] = disk

\* Whatever appends were torn, a restart may forget events but never invents
\* one: what the file books or closes, the running object booked or closed.
RestartInventsNothing ==
    \A s \in up, p \in Pid :
        /\ disk.pos[p].status \in Terminal =>
              mem[s].pos[p].status = disk.pos[p].status
        /\ disk.pos[p].scaled => mem[s].pos[p].scaled

\* A position leaves "open" once.  No later operation, crash, replay or second
\* object reopens it, closes it with another status or books another R.
ClosedIsFinal ==
    [][\A p \in Pid :
          disk.pos[p].status \in Terminal =>
              /\ disk'.pos[p].status = disk.pos[p].status
              /\ disk'.pos[p].r = disk.pos[p].r]_vars

\* The daily R, which the kill switch compares with max_dd_r, moves only today,
\* and only in a step that closes an open position or scales one out for the
\* first time: no position is booked twice (docstring of close_position).
BookedOnce ==
    [][\A d \in Day :
          disk'.daily[d] # disk.daily[d] =>
              /\ d = today
              /\ \E p \in Pid :
                    /\ IsOpen(disk, p)
                    /\ \/ disk'.pos[p].status \in Terminal
                       \/ ~disk.pos[p].scaled /\ disk'.pos[p].scaled]_vars

\* The store implements the ledger of PositionLedger: legs, stops, crashes,
\* reloads and torn lines are invisible there.
Ledger == INSTANCE PositionLedger WITH
    book <- [p \in Pid |-> IF disk.pos[p].status \in Terminal
                           THEN "settled" ELSE disk.pos[p].status],
    partial <- { p \in Pid : disk.pos[p].scaled },
    daily <- disk.daily

ImplementsLedger == Ledger!Spec

=============================================================================
