------------------------- MODULE PositionStoreProofs -------------------------
(***************************************************************************)
(* Proofs about PositionStore, for every set of ids, prices and days.      *)
(***************************************************************************)
EXTENDS MCPositionStore, FiniteInduction, SequenceTheorems, TLAPS

-----------------------------------------------------------------------------
(* The events an operation may write, and what Apply makes of each.        *)

OpenEvent   == [type : {"open"}, pid : Pid, leg : Leg]
LegEvent    == [type : {"add_leg"}, pid : Pid, leg : Leg]
CloseEvent  == [type : {"close"}, pid : Pid, status : Terminal,
                r : RVal \cup {-1}, day : Day]
SlEvent     == [type : {"sl_adjust"}, pid : Pid, price : Price]
TpEvent     == [type : {"tp_adjust"}, pid : Pid, price : Price]
ScaleEvent(n) ==
    { e \in [type : {"scale_out"}, pid : Pid, keep : Seq(Int), r : RVal,
             sl : Price, day : Day] :
        e.keep \in Seq(1..n) }

LEMMA EmptyType == EmptyState \in State
  BY StoreAssumption, EmptySeq DEF EmptyState, State, NoPosition, Position, Status

LEMMA SetPositionType ==
  ASSUME NEW st \in State, NEW p \in Pid, NEW q \in Position
  PROVE  /\ SetPosition(st, p, q) \in State
         /\ SetPosition(st, p, q).pos = [st.pos EXCEPT ![p] = q]
         /\ SetPosition(st, p, q).daily = st.daily
  BY DEF SetPosition, State

LEMMA CreditDayType ==
  ASSUME NEW st \in State, NEW d \in Day, NEW r \in Int
  PROVE  /\ CreditDay(st, d, r) \in State
         /\ CreditDay(st, d, r).pos = st.pos
         /\ CreditDay(st, d, r).daily = [st.daily EXCEPT ![d] = st.daily[d] + r]
<1>1. [st.daily EXCEPT ![d] = st.daily[d] + r] \in [Day -> Int]
  BY DEF State
<1> QED
  BY <1>1 DEF CreditDay, State

LEMMA LastLegSetType ==
  ASSUME NEW P \in Position, NEW leg,
         P.legs # <<>> => leg \in Leg
  PROVE  LastLegSet(P, leg) \in Position
<1>1. P.legs \in Seq(Leg)
  BY DEF Position
<1>2. [P.legs EXCEPT ![Len(P.legs)] = leg] \in Seq(Leg)
  <2>1. CASE P.legs = <<>>
    <3>1. [P.legs EXCEPT ![Len(P.legs)] = leg] = P.legs
      BY <1>1, <2>1
    <3> QED
      BY <3>1, <1>1
  <2>2. CASE P.legs # <<>>
    <3>1. Len(P.legs) \in 1..Len(P.legs)
      BY <1>1, <2>2, EmptySeq, LenProperties
    <3> QED
      BY <1>1, <2>2, <3>1, ExceptSeq
  <2> QED
    BY <2>1, <2>2
<1> QED
  BY <1>2 DEF LastLegSet, Position

-----------------------------------------------------------------------------
(* What each event does to the replayed state.                             *)

\* The part of a position the ledger depends on.
SameBooking(P, Q) == P.status = Q.status /\ P.r = Q.r /\ P.scaled = Q.scaled

LEMMA OpenEffect ==
  ASSUME NEW st \in State, NEW e \in OpenEvent
  PROVE  /\ Apply(st, e) \in State
         /\ Apply(st, e).daily = st.daily
         /\ \A q \in Pid : q # e.pid => Apply(st, e).pos[q] = st.pos[q]
         /\ Apply(st, e).pos[e.pid].status = "open"
         /\ Apply(st, e).pos[e.pid].scaled = FALSE
         /\ Apply(st, e).pos[e.pid].r = 0
<1> DEFINE new == [status |-> "open", legs |-> <<e.leg>>, r |-> 0, scaled |-> FALSE]
<1>1. new \in Position
  BY DEF Position, Status, OpenEvent
<1>2. e.pid \in Pid /\ Apply(st, e) = SetPosition(st, e.pid, new)
  BY DEF Apply, ApplyOpen, OpenEvent
<1>3. st.pos \in [Pid -> Position]
  BY DEF State
<1> HIDE DEF new
<1>4. /\ SetPosition(st, e.pid, new) \in State
      /\ SetPosition(st, e.pid, new).daily = st.daily
      /\ SetPosition(st, e.pid, new).pos = [st.pos EXCEPT ![e.pid] = new]
  BY <1>1, <1>2, SetPositionType
<1>5. /\ Apply(st, e) \in State /\ Apply(st, e).daily = st.daily
      /\ Apply(st, e).pos = [st.pos EXCEPT ![e.pid] = new]
  BY <1>2, <1>4
<1>6. new.status = "open" /\ new.scaled = FALSE /\ new.r = 0
  BY DEF new
<1> QED
  BY <1>2, <1>3, <1>5, <1>6

\* The events that add or adjust a leg leave the ledger alone.
QuietEvent == LegEvent \cup SlEvent \cup TpEvent

LEMMA QuietEffect ==
  ASSUME NEW st \in State, NEW e \in QuietEvent
  PROVE  /\ Apply(st, e) \in State
         /\ Apply(st, e).daily = st.daily
         /\ \A q \in Pid : SameBooking(Apply(st, e).pos[q], st.pos[q])
<1> DEFINE P == st.pos[e.pid]
<1>1. e.pid \in Pid /\ P \in Position /\ st.pos \in [Pid -> Position]
  BY DEF State, QuietEvent, LegEvent, SlEvent, TpEvent
<1>2. CASE ~Known(st, e.pid)
  <2>1. Apply(st, e) = st
    BY <1>2 DEF Apply, QuietEvent, LegEvent, SlEvent, TpEvent
  <2> QED
    BY <2>1 DEF SameBooking
<1>3. CASE Known(st, e.pid)
  <2>1. \E Q \in Position : /\ SameBooking(Q, P)
                            /\ Apply(st, e) = SetPosition(st, e.pid, Q)
    <3>1. CASE e \in LegEvent
      <4> DEFINE Q == [P EXCEPT !.legs = Append(P.legs, e.leg)]
      <4>1. Append(P.legs, e.leg) \in Seq(Leg)
        BY <1>1, <3>1, AppendProperties DEF Position, LegEvent
      <4>2. Q \in Position /\ SameBooking(Q, P)
        BY <1>1, <4>1 DEF Position, SameBooking
      <4>3. Apply(st, e) = SetPosition(st, e.pid, Q)
        BY <3>1, <1>3 DEF Apply, ApplyAddLeg, LegEvent
      <4> QED
        BY <4>2, <4>3
    <3>2. CASE e \in SlEvent
      <4> DEFINE leg == [sl |-> e.price, tp |-> P.legs[Len(P.legs)].tp]
                 Q == LastLegSet(P, leg)
      <4>1. P.legs # <<>> => P.legs[Len(P.legs)] \in Leg
        BY <1>1, EmptySeq, LenProperties, ElementOfSeq DEF Position
      <4>2. P.legs # <<>> => leg \in Leg
        BY <4>1, <3>2 DEF Leg, SlEvent
      <4>3. Q \in Position
        BY <1>1, <4>2, LastLegSetType
      <4>4. SameBooking(Q, P)
        BY <1>1 DEF LastLegSet, SameBooking, Position
      <4>5. Apply(st, e) = SetPosition(st, e.pid, Q)
        BY <3>2, <1>3 DEF Apply, ApplySlAdjust, SlEvent
      <4> QED
        BY <4>3, <4>4, <4>5
    <3>3. CASE e \in TpEvent
      <4> DEFINE leg == [sl |-> P.legs[Len(P.legs)].sl, tp |-> e.price]
                 Q == LastLegSet(P, leg)
      <4>1. P.legs # <<>> => P.legs[Len(P.legs)] \in Leg
        BY <1>1, EmptySeq, LenProperties, ElementOfSeq DEF Position
      <4>2. P.legs # <<>> => leg \in Leg
        BY <4>1, <3>3 DEF Leg, TpEvent
      <4>3. Q \in Position
        BY <1>1, <4>2, LastLegSetType
      <4>4. SameBooking(Q, P)
        BY <1>1 DEF LastLegSet, SameBooking, Position
      <4>5. Apply(st, e) = SetPosition(st, e.pid, Q)
        BY <3>3, <1>3 DEF Apply, ApplyTpAdjust, TpEvent
      <4> QED
        BY <4>3, <4>4, <4>5
    <3> QED
      BY <3>1, <3>2, <3>3 DEF QuietEvent
  <2>2. PICK Q \in Position : /\ SameBooking(Q, P)
                              /\ Apply(st, e) = SetPosition(st, e.pid, Q)
    BY <2>1
  <2>3. /\ Apply(st, e) \in State
        /\ Apply(st, e).daily = st.daily
        /\ Apply(st, e).pos = [st.pos EXCEPT ![e.pid] = Q]
    BY <1>1, <2>2, SetPositionType
  <2> QED
    BY <1>1, <2>2, <2>3 DEF SameBooking
<1> QED
  BY <1>2, <1>3

\* A close, or an invalidation, of a known position settles and credits it.
LEMMA CloseEffect ==
  ASSUME NEW st \in State, NEW e \in CloseEvent
  PROVE  /\ Apply(st, e) \in State
         /\ ~Known(st, e.pid) => Apply(st, e) = st
         /\ \A q \in Pid : q # e.pid => Apply(st, e).pos[q] = st.pos[q]
         /\ Known(st, e.pid) =>
               /\ Apply(st, e).pos[e.pid].status = e.status
               /\ Apply(st, e).pos[e.pid].scaled = st.pos[e.pid].scaled
               /\ Apply(st, e).pos[e.pid].r = e.r
               /\ Apply(st, e).daily =
                     [st.daily EXCEPT ![e.day] = st.daily[e.day] + e.r]
<1> DEFINE P == st.pos[e.pid]
           Q == [P EXCEPT !.status = e.status, !.r = e.r]
           mid == SetPosition(st, e.pid, Q)
<1>1. e.pid \in Pid /\ P \in Position /\ st.pos \in [Pid -> Position]
  BY DEF State, CloseEvent
<1>a. e.r \in Int /\ e.day \in Day /\ e.status \in Terminal
  <2>1. e.r \in RVal \cup {-1} /\ e.day \in Day /\ e.status \in Terminal
    BY DEF CloseEvent
  <2>2. \A x \in RVal \cup {-1} : x \in Int
    BY StoreAssumption
  <2> QED
    BY <2>1, <2>2
<1>2. CASE ~Known(st, e.pid)
  BY <1>2 DEF Apply, CloseEvent
<1>3. CASE Known(st, e.pid)
  <2>1. Q \in Position /\ Q.status = e.status /\ Q.scaled = P.scaled /\ Q.r = e.r
    BY <1>1, <1>a DEF Position, Status
  <2>2. Apply(st, e) = CreditDay(mid, e.day, e.r)
    BY <1>3 DEF Apply, ApplyClose, CloseEvent
  <2> HIDE DEF Q
  <2>3. /\ mid \in State /\ mid.daily = st.daily
        /\ mid.pos = [st.pos EXCEPT ![e.pid] = Q]
    BY <1>1, <2>1, SetPositionType
  <2> HIDE DEF mid
  <2>4. /\ Apply(st, e) \in State
        /\ Apply(st, e).pos = mid.pos
        /\ Apply(st, e).daily = [mid.daily EXCEPT ![e.day] = mid.daily[e.day] + e.r]
    BY <1>a, <2>2, <2>3, CreditDayType
  <2> QED
    BY <1>1, <1>3, <2>1, <2>3, <2>4
<1> QED
  BY <1>2, <1>3

\* A scale-out of a known position, computed from its own legs.
LEMMA ScaleEffect ==
  ASSUME NEW st \in State, NEW e, e.pid \in Pid,
         e \in ScaleEvent(Len(st.pos[e.pid].legs)), Known(st, e.pid)
  PROVE  /\ Apply(st, e) \in State
         /\ \A q \in Pid : q # e.pid => Apply(st, e).pos[q] = st.pos[q]
         /\ Apply(st, e).pos[e.pid].status = st.pos[e.pid].status
         /\ Apply(st, e).pos[e.pid].scaled = TRUE
         /\ Apply(st, e).daily = [st.daily EXCEPT ![e.day] = st.daily[e.day] + e.r]
<1> DEFINE P == st.pos[e.pid]
           kept == [i \in 1..Len(e.keep) |-> [sl |-> e.sl, tp |-> P.legs[e.keep[i]].tp]]
           Q == [status |-> P.status, legs |-> kept, r |-> P.r + e.r, scaled |-> TRUE]
           mid == SetPosition(st, e.pid, Q)
<1>1. /\ P \in Position /\ st.pos \in [Pid -> Position] /\ P.legs \in Seq(Leg)
      /\ P.r \in Int
  BY DEF State, Position
<1>2. /\ e.type = "scale_out" /\ e.keep \in Seq(1..Len(P.legs)) /\ e.sl \in Price
      /\ e.r \in Int /\ e.day \in Day
  BY StoreAssumption DEF ScaleEvent
<1>3. kept \in Seq(Leg)
  <2>1. Len(e.keep) \in Nat /\ \A i \in 1..Len(e.keep) : e.keep[i] \in 1..Len(P.legs)
    BY <1>2, LenProperties, ElementOfSeq
  <2>2. \A i \in 1..Len(e.keep) : P.legs[e.keep[i]] \in Leg
    BY <1>1, <2>1, ElementOfSeq
  <2>3. \A i \in 1..Len(e.keep) : [sl |-> e.sl, tp |-> P.legs[e.keep[i]].tp] \in Leg
    BY <1>2, <2>2 DEF Leg
  <2> QED
    BY <2>1, <2>3, IsASeq
<1> HIDE DEF kept
<1>4. Q \in Position /\ Q.status = P.status /\ Q.scaled = TRUE
  BY <1>1, <1>2, <1>3 DEF Position
<1>5. Apply(st, e) = CreditDay(mid, e.day, e.r)
  BY <1>2 DEF Apply, ApplyScaleOut, kept
<1> HIDE DEF Q
<1>6. /\ mid \in State /\ mid.daily = st.daily
      /\ mid.pos = [st.pos EXCEPT ![e.pid] = Q]
  BY <1>4, SetPositionType
<1> HIDE DEF mid
<1>7. /\ Apply(st, e) \in State
      /\ Apply(st, e).pos = mid.pos
      /\ Apply(st, e).daily = [mid.daily EXCEPT ![e.day] = mid.daily[e.day] + e.r]
  BY <1>2, <1>5, <1>6, CreditDayType
<1> QED
  BY <1>1, <1>4, <1>6, <1>7

-----------------------------------------------------------------------------
(* The event behind each operation.                                        *)

Booking(s, e) == IsOpen(mem[s], e.pid) /\ e.day = today

OperationEvent(s, e) ==
    \/ e \in OpenEvent /\ Fresh(e.pid)
    \/ e \in QuietEvent
    \/ e \in CloseEvent /\ Booking(s, e)
    \/ /\ ScaleOut
       /\ e.pid \in Pid
       /\ e \in ScaleEvent(Len(mem[s].pos[e.pid].legs))
       /\ Booking(s, e)
       /\ ~mem[s].pos[e.pid].scaled

LEMMA KeepsAreSeqs ==
  ASSUME NEW n \in Nat, NEW keep \in Keeps(n)
  PROVE  keep \in Seq(1..n) /\ keep \in Seq(Int)
<1>1. PICK k \in 1..(n - 1) : keep \in [1..k -> 1..n]
  BY DEF Keeps
<1>2. k \in Nat
  BY <1>1
<1>3. keep \in Seq(1..n)
  BY <1>1, <1>2, SeqDef
<1>4. keep \in [1..k -> Int]
  BY <1>1
<1> QED
  BY <1>2, <1>3, <1>4, SeqDef

LEMMA OperationWrites ==
  ASSUME TypeOK, NEW s \in up, NEW p \in Pid, Operation(s, p)
  PROVE  \E e : Write(s, e) /\ OperationEvent(s, e)
<1>0. s \in Store /\ mem[s] \in State /\ today \in Day
  BY DEF TypeOK
<1>1. CASE OpenPosition(s, p)
  <2>1. PICK l \in Leg : Write(s, [type |-> "open", pid |-> p, leg |-> l])
    BY <1>1 DEF OpenPosition
  <2>2. [type |-> "open", pid |-> p, leg |-> l] \in OpenEvent /\ Fresh(p)
    BY <1>1 DEF OpenEvent, OpenPosition
  <2> QED
    BY <2>1, <2>2 DEF OperationEvent
<1>2. CASE AddLeg(s, p)
  <2>1. PICK l \in Leg : Write(s, [type |-> "add_leg", pid |-> p, leg |-> l])
    BY <1>2 DEF AddLeg
  <2>2. [type |-> "add_leg", pid |-> p, leg |-> l] \in QuietEvent
    BY DEF QuietEvent, LegEvent
  <2> QED
    BY <2>1, <2>2 DEF OperationEvent
<1>3. CASE ClosePosition(s, p)
  <2>1. PICK r \in RVal :
           Write(s, [type |-> "close", pid |-> p, status |-> "closed",
                     r |-> r, day |-> today])
    BY <1>3 DEF ClosePosition
  <2> DEFINE e == [type |-> "close", pid |-> p, status |-> "closed",
                   r |-> r, day |-> today]
  <2>2. e \in CloseEvent /\ Booking(s, e)
    BY <1>0, <1>3, StoreAssumption DEF ClosePosition, CloseEvent, Terminal, Booking
  <2> QED
    BY <2>1, <2>2 DEF OperationEvent
<1>4. CASE InvalidatePosition(s, p)
  <2> DEFINE e == [type |-> "close", pid |-> p, status |-> "invalidated",
                   r |-> -1, day |-> today]
  <2>1. Write(s, e)
    BY <1>4 DEF InvalidatePosition
  <2>2. e \in CloseEvent /\ Booking(s, e)
    BY <1>0, <1>4 DEF InvalidatePosition, CloseEvent, Terminal, Booking
  <2> QED
    BY <2>1, <2>2 DEF OperationEvent
<1>5. CASE AdjustSl(s, p)
  <2>1. PICK x \in Price : Write(s, [type |-> "sl_adjust", pid |-> p, price |-> x])
    BY <1>5 DEF AdjustSl
  <2>2. [type |-> "sl_adjust", pid |-> p, price |-> x] \in QuietEvent
    BY DEF QuietEvent, SlEvent
  <2> QED
    BY <2>1, <2>2 DEF OperationEvent
<1>6. CASE AdjustTp(s, p)
  <2>1. PICK x \in Price : Write(s, [type |-> "tp_adjust", pid |-> p, price |-> x])
    BY <1>6 DEF AdjustTp
  <2>2. [type |-> "tp_adjust", pid |-> p, price |-> x] \in QuietEvent
    BY DEF QuietEvent, TpEvent
  <2> QED
    BY <2>1, <2>2 DEF OperationEvent
<1>7. CASE ScaleOutPosition(s, p)
  <2> DEFINE n == Len(mem[s].pos[p].legs)
  <2>1. PICK keep \in Keeps(n), r \in RVal, x \in Price :
           Write(s, [type |-> "scale_out", pid |-> p, keep |-> keep,
                     r |-> r, sl |-> x, day |-> today])
    BY <1>7 DEF ScaleOutPosition
  <2> DEFINE e == [type |-> "scale_out", pid |-> p, keep |-> keep,
                   r |-> r, sl |-> x, day |-> today]
  <2>2. n \in Nat
    BY <1>0, LenProperties DEF State, Position
  <2>3. e \in ScaleEvent(n)
    BY <1>0, <2>2, KeepsAreSeqs, StoreAssumption DEF ScaleEvent
  <2>4. ScaleOut /\ Booking(s, e) /\ ~mem[s].pos[p].scaled
    BY <1>7 DEF ScaleOutPosition, Booking
  <2> QED
    BY <2>1, <2>3, <2>4 DEF OperationEvent
<1> QED
  BY <1>1, <1>2, <1>3, <1>4, <1>5, <1>6, <1>7 DEF Operation

-----------------------------------------------------------------------------
(* Type correctness.  A scale_out line is well formed for the writer's own *)
(* legs, so its replay is well typed because file and memory agree.        *)

Agree ==
    (SingleWriter /\ ~TornWrites) => glued = FALSE /\ MemoryIsReplay

TypeInv == TypeOK /\ Agree

LEMMA InitTypeInv == Init => TypeInv
<1>1. Init => TypeOK
  BY EmptyType, StoreAssumption DEF Init, TypeOK
<1>2. Init => Agree
  BY DEF Init, Agree, MemoryIsReplay
<1> QED
  BY <1>1, <1>2 DEF TypeInv

\* Both replays of the event an operation writes are well typed.
LEMMA ReplaysType ==
  ASSUME TypeInv, NEW s \in up, NEW e, OperationEvent(s, e)
  PROVE  Apply(disk, e) \in State /\ Apply(mem[s], e) \in State
<1>1. s \in Store /\ mem[s] \in State /\ disk \in State
  BY DEF TypeInv, TypeOK
<1>2. CASE e \in OpenEvent
  BY <1>1, <1>2, OpenEffect
<1>3. CASE e \in QuietEvent
  BY <1>1, <1>3, QuietEffect
<1>4. CASE e \in CloseEvent
  BY <1>1, <1>4, CloseEffect
<1>5. CASE /\ ScaleOut /\ e.pid \in Pid
           /\ e \in ScaleEvent(Len(mem[s].pos[e.pid].legs))
           /\ Booking(s, e)
  <2>1. mem[s] = disk
    BY <1>5, StoreAssumption DEF TypeInv, Agree, MemoryIsReplay
  <2>2. Known(mem[s], e.pid)
    BY <1>5 DEF Booking, IsOpen, Known
  <2> QED
    BY <1>1, <1>5, <2>1, <2>2, ScaleEffect
<1> QED
  BY <1>2, <1>3, <1>4, <1>5 DEF OperationEvent

LEMMA WriteTypeInv ==
  ASSUME TypeInv, NEW s \in up, NEW e, Write(s, e),
         Apply(disk, e) \in State, Apply(mem[s], e) \in State
  PROVE  TypeInv'
<1>1. /\ s \in Store /\ up \in SUBSET Store /\ mem \in [Store -> State]
      /\ disk \in State /\ glued \in BOOLEAN /\ today \in Day /\ Agree
  BY DEF TypeInv, TypeOK
<1>2. today' = today
  BY DEF Write
<1>3. CASE WriteDone(s, e)
  <2>1. TypeOK'
    BY <1>1, <1>2, <1>3 DEF TypeOK, WriteDone, AppendLine
  <2>2. Agree'
    BY <1>1, <1>3 DEF Agree, MemoryIsReplay, SingleWriter, WriteDone, AppendLine
  <2> QED
    BY <2>1, <2>2 DEF TypeInv
<1>4. CASE WriteKilled(s, e)
  <2>1. TypeOK'
    BY <1>1, <1>2, <1>4, EmptyType DEF TypeOK, WriteKilled, AppendLine, Drop
  <2>2. Agree'
    BY <1>1, <1>4 DEF Agree, MemoryIsReplay, SingleWriter, WriteKilled, AppendLine, Drop
  <2> QED
    BY <2>1, <2>2 DEF TypeInv
<1>5. CASE WriteTorn(s)
  <2>1. TypeOK'
    BY <1>1, <1>2, <1>5 DEF TypeOK, WriteTorn
  <2>2. Agree'
    BY <1>5 DEF Agree, WriteTorn, SingleWriter
  <2> QED
    BY <2>1, <2>2 DEF TypeInv
<1> QED
  BY <1>3, <1>4, <1>5 DEF Write

LEMMA NextTypeInv == TypeInv /\ [Next]_vars => TypeInv'
<1> SUFFICES ASSUME TypeInv, [Next]_vars PROVE TypeInv'
  OBVIOUS
<1>0. /\ up \in SUBSET Store /\ mem \in [Store -> State]
      /\ disk \in State /\ glued \in BOOLEAN /\ today \in Day /\ TypeOK /\ Agree
  BY DEF TypeInv, TypeOK
<1>1. ASSUME NEW s \in up, NEW p \in Pid, Operation(s, p) PROVE TypeInv'
  <2>1. PICK e : Write(s, e) /\ OperationEvent(s, e)
    BY <1>0, <1>1, OperationWrites
  <2> QED
    BY <2>1, ReplaysType, WriteTypeInv
<1>2. ASSUME NEW s \in Store, Load(s) PROVE TypeInv'
  BY <1>0, <1>2 DEF TypeInv, TypeOK, Agree, MemoryIsReplay, SingleWriter, Load
<1>3. ASSUME NEW s \in Store, Crash(s) PROVE TypeInv'
  BY <1>0, <1>3, EmptyType
     DEF TypeInv, TypeOK, Agree, MemoryIsReplay, SingleWriter, Crash, Drop
<1>4. CASE Midnight
  BY <1>0, <1>4 DEF TypeInv, TypeOK, Agree, MemoryIsReplay, SingleWriter, Midnight
<1>5. CASE UNCHANGED vars
  BY <1>0, <1>5 DEF TypeInv, TypeOK, Agree, MemoryIsReplay, SingleWriter, vars
<1> QED
  BY <1>1, <1>2, <1>3, <1>4, <1>5 DEF Next

\* The store never leaves its type, however many objects share the file and
\* whatever is torn.
THEOREM TypeCorrect == Spec => []TypeOK
<1>1. TypeInv => TypeOK
  BY DEF TypeInv
<1> QED
  BY <1>1, InitTypeInv, NextTypeInv, PTL DEF Spec

\* "Survives Flask restarts": with one object on the file and appends that
\* reach the disk whole, a restart at any moment rebuilds the running state.
THEOREM RestartRebuilds ==
  ASSUME SingleWriter, ~TornWrites
  PROVE  Spec => []MemoryIsReplay
<1>1. TypeInv => MemoryIsReplay
  BY DEF TypeInv, Agree
<1> QED
  BY <1>1, InitTypeInv, NextTypeInv, PTL DEF Spec

-----------------------------------------------------------------------------
(* One writer, whose appends may be torn.  The file may lag behind the     *)
(* memory of the object but never runs ahead of it, so the status check    *)
(* under the lock, made in memory, also protects the file.                 *)

TornNeverScaled == TornWrites => \A p \in Pid : ~disk.pos[p].scaled

OneWriterInv == TypeInv /\ RestartInventsNothing /\ TornNeverScaled

\* What a step does to the file: nothing, or one event it may still take.
FileStep(e) ==
    \/ disk' = disk
    \/ /\ disk' = Apply(disk, e)
       /\ \/ e \in OpenEvent /\ ~Known(disk, e.pid)
          \/ e \in QuietEvent
          \/ /\ e \in CloseEvent
             /\ disk.pos[e.pid].status \notin Terminal
             /\ e.day = today
          \/ /\ ScaleOut
             /\ e.pid \in Pid
             /\ e \in ScaleEvent(Len(disk.pos[e.pid].legs))
             /\ IsOpen(disk, e.pid)
             /\ ~disk.pos[e.pid].scaled
             /\ e.day = today

LEMMA WriteFileStep ==
  ASSUME OneWriterInv, NEW s \in up, NEW e, OperationEvent(s, e), Write(s, e)
  PROVE  FileStep(e) /\ today' = today
<1>1. today' = today /\ (disk' = disk \/ disk' = Apply(disk, e))
  BY DEF Write, WriteDone, WriteKilled, WriteTorn, AppendLine
<1>2. ASSUME disk' = Apply(disk, e) PROVE FileStep(e)
  <2>1. CASE e \in OpenEvent /\ Fresh(e.pid)
    BY <1>2, <2>1 DEF FileStep, Fresh
  <2>2. CASE e \in QuietEvent
    BY <1>2, <2>2 DEF FileStep
  <2>3. CASE e \in CloseEvent /\ Booking(s, e)
    <3>1. e.pid \in Pid /\ mem[s].pos[e.pid].status = "open"
      BY <2>3 DEF CloseEvent, Booking, IsOpen
    <3>2. disk.pos[e.pid].status \notin Terminal
      BY <3>1 DEF OneWriterInv, RestartInventsNothing, Terminal
    <3> QED
      BY <1>2, <2>3, <3>2 DEF FileStep, Booking
  <2>4. CASE /\ ScaleOut /\ e.pid \in Pid
             /\ e \in ScaleEvent(Len(mem[s].pos[e.pid].legs))
             /\ Booking(s, e) /\ ~mem[s].pos[e.pid].scaled
    <3>1. mem[s] = disk
      BY <2>4, StoreAssumption DEF OneWriterInv, TypeInv, Agree, MemoryIsReplay
    <3> QED
      BY <1>2, <2>4, <3>1 DEF FileStep, Booking
  <2> QED
    BY <2>1, <2>2, <2>3, <2>4 DEF OperationEvent
<1> QED
  BY <1>1, <1>2 DEF FileStep

LEMMA OneWriterTypes ==
  ASSUME OneWriterInv
  PROVE  disk \in State /\ today \in Day /\ TypeInv
BY DEF OneWriterInv, TypeInv, TypeOK

\* A step of the file never touches a settled position.
LEMMA FileStepSettled ==
  ASSUME disk \in State, NEW e, FileStep(e), NEW q \in Pid,
         disk.pos[q].status \in Terminal
  PROVE  /\ disk'.pos[q].status = disk.pos[q].status
         /\ disk'.pos[q].r = disk.pos[q].r
<1>1. CASE disk' = disk
  BY <1>1
<1>2. CASE disk' = Apply(disk, e) /\ e \in OpenEvent /\ ~Known(disk, e.pid)
  <2>1. q # e.pid
    BY <1>2 DEF Known, Terminal
  <2> QED
    BY <1>2, <2>1, OpenEffect
<1>3. CASE disk' = Apply(disk, e) /\ e \in QuietEvent
  BY <1>3, QuietEffect DEF SameBooking
<1>4. CASE /\ disk' = Apply(disk, e) /\ e \in CloseEvent
           /\ disk.pos[e.pid].status \notin Terminal
  <2>1. q # e.pid
    BY <1>4
  <2>2. disk'.pos[q] = disk.pos[q]
    BY <1>4, <2>1, CloseEffect
  <2> QED
    BY <2>2
<1>5. CASE /\ disk' = Apply(disk, e) /\ e.pid \in Pid
           /\ e \in ScaleEvent(Len(disk.pos[e.pid].legs))
           /\ IsOpen(disk, e.pid)
  <2>1. q # e.pid /\ Known(disk, e.pid)
    BY <1>5 DEF IsOpen, Known, Terminal
  <2>2. \A x \in Pid : x # e.pid => Apply(disk, e).pos[x] = disk.pos[x]
    BY <1>5, <2>1, ScaleEffect
  <2> QED
    BY <1>5, <2>1, <2>2
<1> QED
  BY <1>1, <1>2, <1>3, <1>4, <1>5 DEF FileStep

\* A step of the file that moves a day's R settles or scales out an open
\* position, on the current day.
LEMMA FileStepDaily ==
  ASSUME disk \in State, NEW e, FileStep(e), NEW d \in Day,
         disk'.daily[d] # disk.daily[d]
  PROVE  /\ d = today
         /\ \E p \in Pid :
               /\ IsOpen(disk, p)
               /\ \/ disk'.pos[p].status \in Terminal
                  \/ ~disk.pos[p].scaled /\ disk'.pos[p].scaled
<1>1. ~(disk' = Apply(disk, e) /\ e \in OpenEvent)
  BY OpenEffect
<1>2. ~(disk' = Apply(disk, e) /\ e \in QuietEvent)
  BY QuietEffect
<1>3. CASE /\ disk' = Apply(disk, e) /\ e \in CloseEvent
           /\ disk.pos[e.pid].status \notin Terminal
           /\ e.day = today
  <2>1. Known(disk, e.pid)
    BY <1>3, CloseEffect
  <2>2. e.pid \in Pid /\ e.status \in Terminal /\ e.day \in Day
    BY <1>3 DEF CloseEvent
  <2>3. IsOpen(disk, e.pid)
    BY <1>3, <2>1, <2>2 DEF State, Position, Status, Known, IsOpen
  <2>4. /\ disk'.pos[e.pid].status = e.status
        /\ disk'.daily = [disk.daily EXCEPT ![e.day] = disk.daily[e.day] + e.r]
    BY <1>3, <2>1, CloseEffect
  <2>5. disk.daily \in [Day -> Int]
    BY DEF State
  <2>6. d = e.day
    BY <2>2, <2>4, <2>5
  <2> QED
    BY <1>3, <2>2, <2>3, <2>4, <2>6
<1>4. CASE /\ disk' = Apply(disk, e) /\ e.pid \in Pid
           /\ e \in ScaleEvent(Len(disk.pos[e.pid].legs))
           /\ IsOpen(disk, e.pid)
           /\ ~disk.pos[e.pid].scaled
           /\ e.day = today
  <2>1. Known(disk, e.pid) /\ e.day \in Day
    BY <1>4 DEF IsOpen, Known, ScaleEvent
  <2>2. /\ disk'.pos[e.pid].scaled = TRUE
        /\ disk'.daily = [disk.daily EXCEPT ![e.day] = disk.daily[e.day] + e.r]
    BY <1>4, <2>1, ScaleEffect
  <2>3. disk.daily \in [Day -> Int]
    BY DEF State
  <2>4. d = e.day
    BY <2>1, <2>2, <2>3
  <2> QED
    BY <1>4, <2>2, <2>4
<1> QED
  BY <1>1, <1>2, <1>3, <1>4 DEF FileStep

\* With appends that may be torn there is no scale-out.
PlainEvent(st, e) ==
    \/ e \in OpenEvent /\ ~Known(st, e.pid)
    \/ e \in QuietEvent
    \/ e \in CloseEvent /\ IsOpen(st, e.pid)

\* A plain event of the writer never takes back what its memory settled.
LEMMA MemoryKeepsSettled ==
  ASSUME NEW st \in State, NEW e, NEW q \in Pid, PlainEvent(st, e),
         st.pos[q].status \in Terminal
  PROVE  Apply(st, e).pos[q].status = st.pos[q].status
<1>1. CASE e \in OpenEvent /\ ~Known(st, e.pid)
  <2>1. q # e.pid
    BY <1>1 DEF Known, Terminal
  <2> QED
    BY <1>1, <2>1, OpenEffect
<1>2. CASE e \in QuietEvent
  BY <1>2, QuietEffect DEF SameBooking
<1>3. CASE e \in CloseEvent /\ IsOpen(st, e.pid)
  <2>1. q # e.pid
    BY <1>3 DEF IsOpen, Terminal
  <2>2. Apply(st, e).pos[q] = st.pos[q]
    BY <1>3, <2>1, CloseEffect
  <2> QED
    BY <2>2
<1> QED
  BY <1>1, <1>2, <1>3 DEF PlainEvent

\* What the file st settles by a plain event, the memory m settles too.
LEMMA FileSettlesLater ==
  ASSUME NEW st \in State, NEW m \in State, NEW e, NEW q \in Pid,
         PlainEvent(m, e),
         st.pos[q].status \in Terminal => m.pos[q].status = st.pos[q].status,
         Apply(st, e).pos[q].status \in Terminal
  PROVE  Apply(m, e).pos[q].status = Apply(st, e).pos[q].status
<1>1. CASE e \in OpenEvent /\ ~Known(m, e.pid)
  <2>1. q # e.pid
    BY <1>1, OpenEffect DEF Terminal
  <2> QED
    BY <1>1, <2>1, OpenEffect
<1>2. CASE e \in QuietEvent
  BY <1>2, QuietEffect DEF SameBooking
<1>3. CASE e \in CloseEvent /\ IsOpen(m, e.pid)
  <2>1. CASE q # e.pid
    <3>1. Apply(st, e).pos[q] = st.pos[q] /\ Apply(m, e).pos[q] = m.pos[q]
      BY <1>3, <2>1, CloseEffect
    <3> QED
      BY <3>1
  <2>2. CASE q = e.pid
    <3>1. Known(m, q) /\ Apply(m, e).pos[q].status = e.status
      BY <1>3, <2>2, CloseEffect DEF IsOpen, Known
    <3>2. Known(st, q)
      BY <1>3, <2>2, CloseEffect DEF Known, Terminal
    <3> QED
      BY <1>3, <2>2, <3>1, <3>2, CloseEffect
  <2> QED
    BY <2>1, <2>2
<1> QED
  BY <1>1, <1>2, <1>3 DEF PlainEvent

LEMMA PlainNeverScales ==
  ASSUME NEW st \in State, NEW e, NEW q \in Pid,
         e \in OpenEvent \cup QuietEvent \cup CloseEvent,
         ~st.pos[q].scaled
  PROVE  ~Apply(st, e).pos[q].scaled
<1>1. CASE e \in OpenEvent
  BY <1>1, OpenEffect
<1>2. CASE e \in QuietEvent
  BY <1>2, QuietEffect DEF SameBooking
<1>3. CASE e \in CloseEvent
  <2>1. CASE ~Known(st, e.pid)
    BY <1>3, <2>1, CloseEffect
  <2>2. CASE Known(st, e.pid)
    <3>1. Apply(st, e).pos[e.pid].scaled = st.pos[e.pid].scaled
      BY <1>3, <2>2, CloseEffect
    <3>2. q # e.pid => Apply(st, e).pos[q] = st.pos[q]
      BY <1>3, CloseEffect
    <3> QED
      BY <3>1, <3>2
  <2> QED
    BY <2>1, <2>2
<1> QED
  BY <1>1, <1>2, <1>3

\* The file stays behind the memory across a completed write.
LEMMA DoneKeepsBehind ==
  ASSUME SingleWriter, OneWriterInv, NEW s \in up, NEW e,
         OperationEvent(s, e), WriteDone(s, e)
  PROVE  RestartInventsNothing' /\ TornNeverScaled'
<1>1. /\ s \in Store /\ up = {s} /\ up' = up /\ mem \in [Store -> State]
      /\ disk \in State /\ mem[s] \in State
  BY DEF SingleWriter, OneWriterInv, TypeInv, TypeOK, WriteDone
<1>2. mem'[s] = Apply(mem[s], e)
  BY <1>1 DEF WriteDone
<1>3. CASE ~TornWrites
  <2>1. mem[s] = disk /\ glued = FALSE
    BY <1>3 DEF OneWriterInv, TypeInv, Agree, MemoryIsReplay
  <2>2. mem'[s] = disk'
    BY <1>2, <2>1 DEF WriteDone, AppendLine
  <2> QED
    BY <1>1, <1>3, <2>2 DEF RestartInventsNothing, TornNeverScaled
<1>4. CASE TornWrites
  <2>1. disk' = disk \/ disk' = Apply(disk, e)
    BY DEF WriteDone, AppendLine
  <2>2. ~ScaleOut
    BY <1>4, StoreAssumption
  <2>3. PlainEvent(mem[s], e)
    BY <1>1, <2>2 DEF OperationEvent, PlainEvent, Fresh, Booking
  <2>4. ASSUME NEW q \in Pid PROVE ~disk'.pos[q].scaled
    <3>1. ~disk.pos[q].scaled
      BY <1>4 DEF OneWriterInv, TornNeverScaled
    <3>2. e \in OpenEvent \cup QuietEvent \cup CloseEvent
      BY <2>3 DEF PlainEvent
    <3> QED
      BY <1>1, <2>1, <3>1, <3>2, PlainNeverScales
  <2>5. ASSUME NEW q \in Pid, disk'.pos[q].status \in Terminal
        PROVE  mem'[s].pos[q].status = disk'.pos[q].status
    <3>1. disk.pos[q].status \in Terminal =>
             mem[s].pos[q].status = disk.pos[q].status
      BY DEF OneWriterInv, RestartInventsNothing
    <3>2. CASE disk' = disk
      BY <1>1, <1>2, <2>3, <2>5, <3>1, <3>2, MemoryKeepsSettled
    <3>3. CASE disk' = Apply(disk, e)
      BY <1>1, <1>2, <2>3, <2>5, <3>1, <3>3, FileSettlesLater
    <3> QED
      BY <2>1, <3>2, <3>3
  <2> QED
    BY <1>1, <2>4, <2>5 DEF RestartInventsNothing, TornNeverScaled
<1> QED
  BY <1>3, <1>4

LEMMA WriteKeepsBehind ==
  ASSUME SingleWriter, OneWriterInv, NEW s \in up, NEW e,
         OperationEvent(s, e), Write(s, e)
  PROVE  RestartInventsNothing' /\ TornNeverScaled'
<1>1. s \in Store /\ up = {s} /\ disk \in State
  BY DEF SingleWriter, OneWriterInv, TypeInv, TypeOK
<1>2. CASE WriteDone(s, e)
  BY <1>2, DoneKeepsBehind
<1>3. CASE WriteKilled(s, e)
  <2>1. up' = {}
    BY <1>1, <1>3 DEF WriteKilled, Drop
  <2>2. RestartInventsNothing'
    BY <2>1 DEF RestartInventsNothing
  <2>3. ASSUME TornWrites, NEW q \in Pid PROVE ~disk'.pos[q].scaled
    <3>1. ~disk.pos[q].scaled
      BY <2>3 DEF OneWriterInv, TornNeverScaled
    <3>2. e \in OpenEvent \cup QuietEvent \cup CloseEvent
      BY <2>3, StoreAssumption DEF OperationEvent
    <3>3. disk' = disk \/ disk' = Apply(disk, e)
      BY <1>3 DEF WriteKilled, AppendLine
    <3> QED
      BY <1>1, <3>1, <3>2, <3>3, PlainNeverScales
  <2> QED
    BY <2>2, <2>3 DEF TornNeverScaled
<1>4. CASE WriteTorn(s)
  BY <1>4 DEF WriteTorn, OneWriterInv, RestartInventsNothing, TornNeverScaled
<1> QED
  BY <1>2, <1>3, <1>4 DEF Write

LEMMA InitOneWriterInv == Init => OneWriterInv
<1>1. Init => RestartInventsNothing
  BY DEF Init, RestartInventsNothing
<1>2. Init => TornNeverScaled
  BY DEF Init, TornNeverScaled, EmptyState, NoPosition
<1> QED
  BY <1>1, <1>2, InitTypeInv DEF OneWriterInv

LEMMA NextOneWriterInv ==
  ASSUME SingleWriter
  PROVE  OneWriterInv /\ [Next]_vars => OneWriterInv'
<1> SUFFICES ASSUME OneWriterInv, [Next]_vars PROVE OneWriterInv'
  OBVIOUS
<1>0. TypeOK /\ TypeInv' /\ RestartInventsNothing /\ TornNeverScaled
  BY NextTypeInv DEF OneWriterInv, TypeInv
<1>1. ASSUME NEW s \in up, NEW p \in Pid, Operation(s, p)
      PROVE  RestartInventsNothing' /\ TornNeverScaled'
  <2>1. PICK e : Write(s, e) /\ OperationEvent(s, e)
    BY <1>0, <1>1, OperationWrites
  <2> QED
    BY <2>1, WriteKeepsBehind
<1>2. ASSUME NEW s \in Store, Load(s)
      PROVE  RestartInventsNothing' /\ TornNeverScaled'
  BY <1>0, <1>2 DEF TypeOK, RestartInventsNothing, TornNeverScaled, Load, SingleWriter
<1>3. ASSUME NEW s \in Store, Crash(s)
      PROVE  RestartInventsNothing' /\ TornNeverScaled'
  BY <1>0, <1>3 DEF TypeOK, RestartInventsNothing, TornNeverScaled, Crash, Drop, SingleWriter
<1>4. Midnight => RestartInventsNothing' /\ TornNeverScaled'
  BY <1>0 DEF RestartInventsNothing, TornNeverScaled, Midnight
<1>5. UNCHANGED vars => RestartInventsNothing' /\ TornNeverScaled'
  BY <1>0 DEF RestartInventsNothing, TornNeverScaled, vars
<1> QED
  BY <1>0, <1>1, <1>2, <1>3, <1>4, <1>5 DEF Next, OneWriterInv

\* Every step of the specification either leaves the file alone or is a
\* FileStep that does not move the day.
LEMMA NextFileStep ==
  ASSUME OneWriterInv, [Next]_vars
  PROVE  disk' = disk \/ \E e : FileStep(e) /\ today' = today
<1>0. TypeOK
  BY DEF OneWriterInv, TypeInv
<1>1. ASSUME NEW s \in up, NEW p \in Pid, Operation(s, p)
      PROVE  \E e : FileStep(e) /\ today' = today
  BY <1>0, <1>1, OperationWrites, WriteFileStep
<1>2. ASSUME NEW s \in Store, Load(s) \/ Crash(s) PROVE disk' = disk
  BY <1>2 DEF Load, Crash
<1>3. Midnight \/ UNCHANGED vars => disk' = disk
  BY DEF Midnight, vars
<1> QED
  BY <1>1, <1>2, <1>3 DEF Next

\* With one object on the file, torn appends or not, a restart may forget
\* events but never invents one.
THEOREM RestartIsSafe ==
  ASSUME SingleWriter
  PROVE  Spec => []RestartInventsNothing
<1>1. OneWriterInv => RestartInventsNothing
  BY DEF OneWriterInv
<1> QED
  BY <1>1, InitOneWriterInv, NextOneWriterInv, PTL DEF Spec

\* With one object on the file, a settled position keeps its status and its R.
THEOREM SettledForGood ==
  ASSUME SingleWriter
  PROVE  Spec => ClosedIsFinal
<1> DEFINE Kept == \A p \in Pid :
                      disk.pos[p].status \in Terminal =>
                          /\ disk'.pos[p].status = disk.pos[p].status
                          /\ disk'.pos[p].r = disk.pos[p].r
<1>1. OneWriterInv /\ [Next]_vars => [Kept]_vars
  <2> SUFFICES ASSUME OneWriterInv, [Next]_vars PROVE Kept
    OBVIOUS
  <2>1. disk \in State
    BY OneWriterTypes
  <2>2. CASE disk' = disk
    BY <2>2
  <2>3. CASE \E e : FileStep(e) /\ today' = today
    BY <2>1, <2>3, FileStepSettled
  <2> QED
    BY <2>2, <2>3, NextFileStep
<1> QED
  BY <1>1, InitOneWriterInv, NextOneWriterInv, PTL DEF Spec, ClosedIsFinal

\* With one object on the file no result is booked twice, nor to another day.
THEOREM NothingBookedTwice ==
  ASSUME SingleWriter
  PROVE  Spec => BookedOnce
<1> DEFINE Booked == \A d \in Day :
                        disk'.daily[d] # disk.daily[d] =>
                          /\ d = today
                          /\ \E p \in Pid :
                                /\ IsOpen(disk, p)
                                /\ \/ disk'.pos[p].status \in Terminal
                                   \/ ~disk.pos[p].scaled /\ disk'.pos[p].scaled
<1>1. OneWriterInv /\ [Next]_vars => [Booked]_vars
  <2> SUFFICES ASSUME OneWriterInv, [Next]_vars PROVE Booked
    OBVIOUS
  <2>1. disk \in State
    BY OneWriterTypes
  <2>2. CASE disk' = disk
    BY <2>2
  <2>3. CASE \E e : FileStep(e) /\ today' = today
    BY <2>1, <2>3, FileStepDaily
  <2> QED
    BY <2>2, <2>3, NextFileStep
<1> QED
  BY <1>1, InitOneWriterInv, NextOneWriterInv, PTL DEF Spec, BookedOnce

-----------------------------------------------------------------------------
(* The books.  A position records no R before it is settled, and a settled *)
(* one never changes: what a close records is what it credits.             *)

UnsettledInv == \A p \in Pid : disk.pos[p].status \notin Terminal => disk.pos[p].r = 0

Recorded(st) == [p \in Pid |-> st.pos[p].r]

BooksInv == OneWriterInv /\ UnsettledInv /\ BooksBalance

LEMMA FileStepBalances ==
  ASSUME ~ScaleOut, IsFiniteSet(Pid), IsFiniteSet(Day),
         disk \in State, disk' \in State, UnsettledInv, BooksBalance, NEW e, FileStep(e)
  PROVE  UnsettledInv' /\ BooksBalance'
<1>0. /\ disk.daily \in [Day -> Int] /\ Recorded(disk) \in [Pid -> Int]
      /\ Total(disk.daily, Day) = Total(Recorded(disk), Pid)
  BY DEF State, Position, Recorded, BooksBalance
<1>t. \A f, S : Total(f, S) = SumOf(f, S)
  BY DEF Total, SumOf
<1>1. CASE disk' = disk
  BY <1>1 DEF UnsettledInv, BooksBalance
<1>a. ASSUME disk'.daily = disk.daily, \A p \in Pid : disk'.pos[p].r = disk.pos[p].r
      PROVE  BooksBalance'
  <2>1. Recorded(disk') = Recorded(disk)
    BY <1>a DEF Recorded
  <2> QED
    BY <1>0, <1>a, <2>1 DEF BooksBalance, Recorded
<1>2. CASE disk' = Apply(disk, e) /\ e \in OpenEvent /\ ~Known(disk, e.pid)
  <2>0. /\ e.pid \in Pid /\ disk'.pos[e.pid].r = 0 /\ disk'.pos[e.pid].status = "open"
        /\ \A q \in Pid : q # e.pid => disk'.pos[q] = disk.pos[q]
    BY <1>2, OpenEffect DEF OpenEvent
  <2>3. disk.pos[e.pid].r = 0
    BY <1>2, <2>0 DEF UnsettledInv, Known, Terminal
  <2>1. \A p \in Pid : disk'.pos[p].r = disk.pos[p].r
    BY <2>0, <2>3
  <2>2. UnsettledInv'
    BY <2>0 DEF UnsettledInv
  <2> QED
    BY <1>2, <1>a, <2>1, <2>2, OpenEffect
<1>3. CASE disk' = Apply(disk, e) /\ e \in QuietEvent
  <2>1. \A p \in Pid : SameBooking(disk'.pos[p], disk.pos[p])
    BY <1>3, QuietEffect
  <2> QED
    BY <1>3, <1>a, <2>1, QuietEffect DEF SameBooking, UnsettledInv
<1>4. CASE /\ disk' = Apply(disk, e) /\ e \in CloseEvent
           /\ disk.pos[e.pid].status \notin Terminal
  <2>0. /\ e.pid \in Pid /\ e.day \in Day /\ e.status \in Terminal /\ e.r \in Int
        /\ Recorded(disk)[e.pid] = 0
    <3>1. e.r \in RVal \cup {-1}
      BY <1>4 DEF CloseEvent
    <3>2. \A x \in RVal \cup {-1} : x \in Int
      BY StoreAssumption
    <3>3. e.pid \in Pid /\ e.day \in Day /\ e.status \in Terminal
      BY <1>4 DEF CloseEvent
    <3> QED
      BY <1>4, <3>1, <3>2, <3>3 DEF Recorded, UnsettledInv
  <2>1. CASE ~Known(disk, e.pid)
    BY <1>1, <1>4, <2>1, CloseEffect
  <2>2. CASE Known(disk, e.pid)
    <3>1. /\ \A q \in Pid : q # e.pid => disk'.pos[q] = disk.pos[q]
          /\ disk'.pos[e.pid].status = e.status /\ disk'.pos[e.pid].r = e.r
          /\ disk'.daily = [disk.daily EXCEPT ![e.day] = disk.daily[e.day] + e.r]
      BY <1>4, <2>2, CloseEffect
    <3>2. UnsettledInv'
      BY <2>0, <3>1 DEF UnsettledInv
    <3>3. Recorded(disk') = [Recorded(disk) EXCEPT ![e.pid] = e.r]
      BY <3>1 DEF Recorded
    <3>4. Total(Recorded(disk'), Pid) = Total(Recorded(disk), Pid) - 0 + e.r
      <4>1. Recorded(disk') \in [Pid -> Int] /\ Recorded(disk')[e.pid] = e.r
            /\ \A q \in Pid : q # e.pid => Recorded(disk')[q] = Recorded(disk)[q]
        BY <1>0, <2>0, <3>3
      <4> QED
        BY <1>0, <1>t, <2>0, <4>1, SumChanges
    <3>5. disk.daily[e.day] \in Int /\ disk.daily[e.day] + e.r \in Int
      BY <1>0, <2>0
    <3>6. Total(disk'.daily, Day) =
             Total(disk.daily, Day) - disk.daily[e.day] + (disk.daily[e.day] + e.r)
      <4>1. /\ disk'.daily \in [Day -> Int] /\ disk'.daily[e.day] = disk.daily[e.day] + e.r
            /\ \A d \in Day : d # e.day => disk'.daily[d] = disk.daily[d]
        BY <1>0, <2>0, <3>1, <3>5
      <4> QED
        BY <1>0, <1>t, <2>0, <4>1, SumChanges
    <3>7. Total(disk.daily, Day) \in Int
      BY <1>0, <1>t, SumTyped
    <3> QED
      BY <1>0, <2>0, <3>2, <3>4, <3>5, <3>6, <3>7 DEF BooksBalance, Recorded
  <2> QED
    BY <2>1, <2>2
<1> QED
  BY <1>1, <1>2, <1>3, <1>4 DEF FileStep

\* With one object on the file and no scaling out (as configured), torn appends or not, the
\* books balance: the R credited to the days is the R recorded on the positions.
THEOREM BooksStayBalanced ==
  ASSUME SingleWriter, ~ScaleOut, IsFiniteSet(Pid), IsFiniteSet(Day)
  PROVE  Spec => []BooksBalance
<1>1. Init => BooksInv
  <2> SUFFICES ASSUME Init PROVE UnsettledInv /\ BooksBalance
    BY InitOneWriterInv DEF BooksInv
  <2>1. disk = EmptyState
    BY DEF Init
  <2>2. /\ disk.daily \in [Day -> Int] /\ Recorded(disk) \in [Pid -> Int]
        /\ \A d \in Day : disk.daily[d] = 0
        /\ \A p \in Pid : Recorded(disk)[p] = 0
    BY <2>1 DEF EmptyState, NoPosition, Recorded
  <2>3. Total(disk.daily, Day) = 0 /\ Total(Recorded(disk), Pid) = 0
    BY <2>2, SumOfNothing DEF Total, SumOf
  <2> QED
    BY <2>1, <2>3 DEF UnsettledInv, BooksBalance, Recorded, EmptyState, NoPosition
<1>2. BooksInv /\ [Next]_vars => BooksInv'
  <2> SUFFICES ASSUME BooksInv, [Next]_vars PROVE UnsettledInv' /\ BooksBalance'
    BY NextOneWriterInv DEF BooksInv
  <2>1. disk \in State /\ disk' \in State
    BY NextOneWriterInv, OneWriterTypes DEF BooksInv, OneWriterInv, TypeInv, TypeOK
  <2>2. CASE disk' = disk
    BY <2>2 DEF BooksInv, UnsettledInv, BooksBalance
  <2>3. CASE \E e : FileStep(e) /\ today' = today
    BY <2>1, <2>3, FileStepBalances DEF BooksInv
  <2> QED
    BY <2>2, <2>3, NextFileStep DEF BooksInv
<1>3. BooksInv => BooksBalance
  BY DEF BooksInv
<1> QED
  BY <1>1, <1>2, <1>3, PTL DEF Spec

-----------------------------------------------------------------------------
(* The ledger.  Seen from it a step of the file opens an entry, banks a    *)
(* partial result, settles, or is nothing at all.                          *)

\* An id that is not a key carries nothing over to the position it becomes.
BlankInv == \A p \in Pid : ~Known(disk, p) => ~disk.pos[p].scaled

LedgerInv == OneWriterInv /\ BlankInv

Book(st) == [p \in Pid |-> IF st.pos[p].status \in Terminal THEN "settled" ELSE st.pos[p].status]
Partial(st) == { p \in Pid : st.pos[p].scaled }

\* The kinds of steps of the file, and what the ledger sees of each.
LEMMA FileStepBooks ==
  ASSUME disk \in State, disk' \in State, BlankInv, NEW e, FileStep(e), today \in Day
  PROVE  /\ BlankInv'
         /\ \/ /\ Book(disk') = Book(disk) /\ Partial(disk') = Partial(disk)
               /\ disk'.daily = disk.daily
            \/ \E p \in Pid :
                  /\ Book(disk)[p] = "none" /\ Book(disk') = [Book(disk) EXCEPT ![p] = "open"]
                  /\ Partial(disk') = Partial(disk) /\ disk'.daily = disk.daily
            \/ \E p \in Pid, r \in RVal \cup {-1} :
                  /\ Book(disk)[p] = "open" /\ Book(disk') = [Book(disk) EXCEPT ![p] = "settled"]
                  /\ Partial(disk') = Partial(disk)
                  /\ disk'.daily = [disk.daily EXCEPT ![today] = disk.daily[today] + r]
            \/ \E p \in Pid, r \in RVal :
                  /\ Book(disk)[p] = "open" /\ Book(disk') = Book(disk)
                  /\ p \notin Partial(disk) /\ Partial(disk') = Partial(disk) \cup {p}
                  /\ disk'.daily = [disk.daily EXCEPT ![today] = disk.daily[today] + r]
<1>0. \A p \in Pid : disk.pos[p].scaled \in BOOLEAN /\ disk'.pos[p].scaled \in BOOLEAN
  BY DEF State, Position
<1>1. CASE disk' = disk
  BY <1>1 DEF BlankInv
<1>2. CASE disk' = Apply(disk, e) /\ e \in OpenEvent /\ ~Known(disk, e.pid)
  <2>1. /\ e.pid \in Pid /\ disk.pos[e.pid].status = "none" /\ ~disk.pos[e.pid].scaled
        /\ disk'.daily = disk.daily
        /\ disk'.pos[e.pid].status = "open" /\ ~disk'.pos[e.pid].scaled
        /\ \A q \in Pid : q # e.pid => disk'.pos[q] = disk.pos[q]
    BY <1>2, OpenEffect DEF OpenEvent, Known, BlankInv
  <2>2. Book(disk)[e.pid] = "none" /\ Book(disk') = [Book(disk) EXCEPT ![e.pid] = "open"]
    BY <2>1 DEF Book, Terminal
  <2>3. Partial(disk') = Partial(disk)
    BY <2>1 DEF Partial
  <2>4. BlankInv'
    BY <2>1 DEF BlankInv, Known
  <2> QED
    BY <2>1, <2>2, <2>3, <2>4
<1>3. CASE disk' = Apply(disk, e) /\ e \in QuietEvent
  <2>1. disk'.daily = disk.daily /\ \A q \in Pid : SameBooking(disk'.pos[q], disk.pos[q])
    BY <1>3, QuietEffect
  <2> QED
    BY <2>1 DEF Book, Partial, BlankInv, Known, SameBooking
<1>4. CASE /\ disk' = Apply(disk, e) /\ e \in CloseEvent
           /\ disk.pos[e.pid].status \notin Terminal /\ e.day = today
           /\ Known(disk, e.pid)
  <2>1. /\ e.pid \in Pid /\ disk.pos[e.pid].status = "open" /\ e.r \in RVal \cup {-1}
        /\ e.status \in Terminal
    BY <1>4 DEF CloseEvent, Known, State, Position, Status
  <2>2. /\ disk'.pos[e.pid].status = e.status
        /\ disk'.pos[e.pid].scaled = disk.pos[e.pid].scaled
        /\ disk'.daily = [disk.daily EXCEPT ![today] = disk.daily[today] + e.r]
        /\ \A q \in Pid : q # e.pid => disk'.pos[q] = disk.pos[q]
    BY <1>4, CloseEffect
  <2>3. Book(disk)[e.pid] = "open" /\ Book(disk') = [Book(disk) EXCEPT ![e.pid] = "settled"]
    BY <2>1, <2>2 DEF Book, Terminal
  <2>4. Partial(disk') = Partial(disk)
    BY <2>2 DEF Partial
  <2>5. BlankInv'
    BY <2>1, <2>2 DEF BlankInv, Known, Terminal
  <2> QED
    BY <2>1, <2>2, <2>3, <2>4, <2>5
<1>5. CASE disk' = Apply(disk, e) /\ e \in CloseEvent /\ ~Known(disk, e.pid)
  <2>1. disk' = disk
    BY <1>5, CloseEffect
  <2> QED
    BY <1>1, <2>1
<1>6. CASE /\ disk' = Apply(disk, e) /\ e.pid \in Pid
           /\ e \in ScaleEvent(Len(disk.pos[e.pid].legs))
           /\ IsOpen(disk, e.pid) /\ ~disk.pos[e.pid].scaled /\ e.day = today
  <2>1. e.r \in RVal /\ disk.pos[e.pid].status = "open" /\ Known(disk, e.pid)
    BY <1>6 DEF ScaleEvent, IsOpen, Known
  <2>2. /\ disk'.pos[e.pid].status = "open" /\ disk'.pos[e.pid].scaled
        /\ disk'.daily = [disk.daily EXCEPT ![today] = disk.daily[today] + e.r]
        /\ \A q \in Pid : q # e.pid => disk'.pos[q] = disk.pos[q]
    BY <1>6, <2>1, ScaleEffect
  <2>3. Book(disk)[e.pid] = "open" /\ Book(disk') = Book(disk)
    BY <1>6, <2>1, <2>2 DEF Book, Terminal
  <2>4. e.pid \notin Partial(disk) /\ Partial(disk') = Partial(disk) \cup {e.pid}
    BY <1>6, <2>2 DEF Partial
  <2>5. BlankInv'
    BY <2>2 DEF BlankInv, Known
  <2> QED
    BY <1>6, <2>1, <2>2, <2>3, <2>4, <2>5
<1> QED
  BY <1>1, <1>2, <1>3, <1>4, <1>5, <1>6 DEF FileStep

LEMMA LedgerInvStep ==
  ASSUME SingleWriter PROVE LedgerInv /\ [Next]_vars => LedgerInv'
<1> SUFFICES ASSUME LedgerInv, [Next]_vars PROVE LedgerInv'
  OBVIOUS
<1>1. OneWriterInv /\ OneWriterInv' /\ disk \in State /\ disk' \in State /\ today \in Day
  BY NextOneWriterInv, OneWriterTypes DEF LedgerInv, OneWriterInv, TypeInv, TypeOK
<1>2. disk' = disk \/ \E e : FileStep(e)
  BY <1>1, NextFileStep
<1>3. BlankInv'
  BY <1>1, <1>2, FileStepBooks DEF LedgerInv, BlankInv
<1> QED
  BY <1>1, <1>3 DEF LedgerInv

\* A step of the store is a step of the ledger, or none.
LEMMA LedgerSteps ==
  ASSUME SingleWriter, LedgerInv, [Next]_vars PROVE [Ledger!Next]_(Ledger!vars)
<1>1. /\ disk \in State /\ disk' \in State /\ today \in Day /\ OneWriterInv /\ BlankInv
  BY NextOneWriterInv, OneWriterTypes DEF LedgerInv, OneWriterInv, TypeInv, TypeOK
<1>2. CASE Midnight
  BY <1>2 DEF Midnight, Ledger!Next, Ledger!NextDay
<1>3. CASE disk' = disk /\ today' = today
  BY <1>3 DEF Ledger!vars
<1>4. ASSUME NEW e, FileStep(e), today' = today PROVE [Ledger!Next]_(Ledger!vars)
  <2>1. \/ /\ Book(disk') = Book(disk) /\ Partial(disk') = Partial(disk)
           /\ disk'.daily = disk.daily
        \/ \E p \in Pid :
              /\ Book(disk)[p] = "none" /\ Book(disk') = [Book(disk) EXCEPT ![p] = "open"]
              /\ Partial(disk') = Partial(disk) /\ disk'.daily = disk.daily
        \/ \E p \in Pid, r \in RVal \cup {-1} :
              /\ Book(disk)[p] = "open" /\ Book(disk') = [Book(disk) EXCEPT ![p] = "settled"]
              /\ Partial(disk') = Partial(disk)
              /\ disk'.daily = [disk.daily EXCEPT ![today] = disk.daily[today] + r]
        \/ \E p \in Pid, r \in RVal :
              /\ Book(disk)[p] = "open" /\ Book(disk') = Book(disk)
              /\ p \notin Partial(disk) /\ Partial(disk') = Partial(disk) \cup {p}
              /\ disk'.daily = [disk.daily EXCEPT ![today] = disk.daily[today] + r]
    BY <1>1, <1>4, FileStepBooks
  <2>2. CASE /\ Book(disk') = Book(disk) /\ Partial(disk') = Partial(disk)
             /\ disk'.daily = disk.daily
    BY <1>4, <2>2 DEF Ledger!vars, Book, Partial
  <2>3. ASSUME NEW p \in Pid, Book(disk)[p] = "none",
               Book(disk') = [Book(disk) EXCEPT ![p] = "open"],
               Partial(disk') = Partial(disk), disk'.daily = disk.daily
        PROVE  Ledger!OpenEntry(p)
    BY <1>4, <2>3 DEF Ledger!OpenEntry, Book, Partial
  <2>4. ASSUME NEW p \in Pid, NEW r \in RVal \cup {-1}, Book(disk)[p] = "open",
               Book(disk') = [Book(disk) EXCEPT ![p] = "settled"],
               Partial(disk') = Partial(disk),
               disk'.daily = [disk.daily EXCEPT ![today] = disk.daily[today] + r]
        PROVE  Ledger!Settle(p, r)
    BY <1>4, <2>4 DEF Ledger!Settle, Ledger!Credit, Book, Partial
  <2>5. ASSUME NEW p \in Pid, NEW r \in RVal, Book(disk)[p] = "open", Book(disk') = Book(disk),
               p \notin Partial(disk), Partial(disk') = Partial(disk) \cup {p},
               disk'.daily = [disk.daily EXCEPT ![today] = disk.daily[today] + r]
        PROVE  Ledger!BankPartial(p, r)
    BY <1>4, <2>5 DEF Ledger!BankPartial, Ledger!Credit, Book, Partial
  <2> QED
    BY <2>1, <2>2, <2>3, <2>4, <2>5 DEF Ledger!Next
<1>5. ASSUME NEW s \in Store, Load(s) \/ Crash(s) PROVE disk' = disk /\ today' = today
  BY <1>5 DEF Load, Crash
<1>6. ASSUME NEW s \in up, NEW p \in Pid, Operation(s, p)
      PROVE  \E e : FileStep(e) /\ today' = today
  BY <1>1, <1>6, OperationWrites, WriteFileStep DEF OneWriterInv, TypeInv
<1> QED
  BY <1>2, <1>3, <1>4, <1>5, <1>6 DEF Next, vars

\* With one object on its file the store keeps the ledger its callers rely on:
\* a position is opened once, banks one partial result at most, is settled
\* once, and each result is credited to the day it is booked on (the docstrings
\* of close_position and scale_out_position).
THEOREM StoreKeepsLedger ==
  ASSUME SingleWriter PROVE Spec => ImplementsLedger
<1>1. Init => Ledger!Init
  <2> SUFFICES ASSUME Init PROVE Ledger!Init
    OBVIOUS
  <2>1. \A p \in Pid : disk.pos[p].status = "none" /\ ~disk.pos[p].scaled
    BY DEF Init, EmptyState, NoPosition
  <2>2. disk.daily = [d \in Day |-> 0] /\ today = 0
    BY DEF Init, EmptyState
  <2> QED
    BY <2>1, <2>2 DEF Ledger!Init, Terminal
<1>2. Init => LedgerInv
  <2>1. Init => BlankInv
    BY DEF Init, BlankInv, EmptyState, NoPosition
  <2> QED
    BY <2>1, InitOneWriterInv DEF LedgerInv
<1>3. LedgerInv /\ [Next]_vars => LedgerInv' /\ [Ledger!Next]_(Ledger!vars)
  BY LedgerInvStep, LedgerSteps
<1> QED
  BY <1>1, <1>2, <1>3, PTL DEF Spec, ImplementsLedger, Ledger!Spec

=============================================================================
