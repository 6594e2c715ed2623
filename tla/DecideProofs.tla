----------------------------- MODULE DecideProofs -----------------------------
(***************************************************************************)
(* Proofs about Decide, for any number of requests, sides and bounds.      *)
(* Types are inductive together with SideInv: by the time a request is     *)
(* dispatched it has a side.  The kill switch then needs no more than the  *)
(* type of req: of the three steps that bring a request to the executor    *)
(* one is a hedge, one is taken in grid mode only, and the third is Gate.  *)
(***************************************************************************)
EXTENDS Decide, FiniteSetTheorems, TLAPS

ReqOK == req \in [Thread -> Request]

-----------------------------------------------------------------------------
(* Types.                                                                  *)

\* A request that changes to a well-typed one keeps req well typed.
LEMMA BecomesType ==
    ASSUME NEW t \in Thread, ReqOK, NEW r \in Request, Becomes(t, r)
    PROVE  ReqOK'
  BY DEF ReqOK, Becomes

LEMMA IdleType == Idle \in Request
  BY DEF Idle, Request, Pc, Route

LEMMA GotoType ==
    ASSUME NEW t \in Thread, ReqOK, NEW p \in Pc, Goto(t, p)
    PROVE  ReqOK'
  <1>1. [req[t] EXCEPT !.pc = p] \in Request
    BY DEF ReqOK, Request
  <1> QED  BY <1>1, BecomesType DEF Goto

LEMMA DoneType ==
    ASSUME NEW t \in Thread, ReqOK, Done(t)
    PROVE  ReqOK'
  BY IdleType, BecomesType DEF Done

\* Logging one more decision keeps at most MaxLog of them.
LEMMA LoggedType ==
    ASSUME NEW s \in Side \cup {Flat}, log \in Seq(Side \cup {Flat}), Len(log) <= MaxLog, Logged(s)
    PROVE  log' \in Seq(Side \cup {Flat}) /\ Len(log') <= MaxLog
  <1> DEFINE longer == Append(log, s)
  <1>1. longer \in Seq(Side \cup {Flat}) /\ Len(longer) = Len(log) + 1
    OBVIOUS
  <1>2. Tail(longer) \in Seq(Side \cup {Flat}) /\ Len(Tail(longer)) = Len(log)
    BY <1>1
  <1>3. log' = IF Len(longer) > MaxLog THEN Tail(longer) ELSE longer
    BY DEF Logged
  <1> QED  BY <1>1, <1>2, <1>3, DecideAssumption

SideInv ==
    \A t \in Thread :
        req[t].pc \in {"gate", "guard", "open"} \/ req[t].via = "hedge" => req[t].side \in Side

TypeInv == TypeOK /\ SideInv

\* The step of one request leaves the others as they are.
LEMMA SideKept ==
    ASSUME NEW t \in Thread, ReqOK, SideInv, NEW r \in Request, Becomes(t, r),
           r.pc \in {"gate", "guard", "open"} \/ r.via = "hedge" => r.side \in Side
    PROVE  SideInv'
  BY DEF ReqOK, SideInv, Becomes

LEMMA SideKeptDone ==
    ASSUME NEW t \in Thread, ReqOK, SideInv, Done(t)
    PROVE  SideInv'
  BY IdleType, SideKept DEF Done, Idle

LEMMA SideKeptGoto ==
    ASSUME NEW t \in Thread, ReqOK, SideInv, NEW p \in Pc, Goto(t, p), req[t].side \in Side
    PROVE  SideInv'
  <1>1. [req[t] EXCEPT !.pc = p] \in Request /\ [req[t] EXCEPT !.pc = p].side = req[t].side
    BY DEF ReqOK, Request
  <1> QED  BY <1>1, SideKept DEF Goto

LEMMA InitTypeInv == Init => TypeInv
  <1> SUFFICES ASSUME Init PROVE TypeInv
    OBVIOUS
  <1>1. req \in [Thread -> Request]
    BY IdleType DEF Init
  <1>2. daily \in -MaxDaily..MaxDaily /\ 0 <= MaxLog /\ 0 <= MaxOpen
    BY DecideAssumption DEF Init
  <1>3. log \in Seq(Side \cup {Flat}) /\ Len(log) = 0 /\ open \in Seq(Side) /\ Len(open) = 0
    BY DEF Init
  <1>4. SideInv
    BY DEF Init, SideInv, Idle
  <1> QED  BY <1>1, <1>2, <1>3, <1>4 DEF Init, TypeOK, TypeInv

LEMMA StartKeeps ==
    ASSUME TypeInv, NEW t \in Thread, Start(t)
    PROVE  TypeInv'
  <1>1. ReqOK /\ SideInv
    BY DEF TypeInv, TypeOK, ReqOK
  <1>2. \A s \in Side \cup {Flat}, v \in Route :
            [pc |-> "asking", via |-> v, side |-> s, current |-> TRUE] \in Request
    BY DEF Request, Pc
  <1>3. ReqOK' /\ SideInv'
    <2>1. ASSUME StartDecide(t) PROVE ReqOK' /\ SideInv'
      BY <1>1, <1>2, <2>1, BecomesType, SideKept DEF StartDecide, Route
    <2>2. ASSUME StartMulti(t) PROVE ReqOK' /\ SideInv'
      BY <1>1, <1>2, <2>2, BecomesType, SideKept DEF StartMulti, Route
    <2>3. ASSUME NEW i \in 1..Len(open), StartHedge(t, i) PROVE ReqOK' /\ SideInv'
      <3>1. PICK s \in Side \ {open[i]} :
                Becomes(t, [pc |-> "asking", via |-> "hedge", side |-> s, current |-> TRUE])
        BY <2>3 DEF StartHedge
      <3> QED  BY <1>1, <1>2, <3>1, BecomesType, SideKept DEF Route
    <2> QED  BY <2>1, <2>2, <2>3 DEF Start
  <1>4. UNCHANGED <<mode, asked, log, open, daily>>
    BY DEF Start, StartDecide, StartMulti, StartHedge
  <1> QED  BY <1>3, <1>4 DEF TypeInv, TypeOK, ReqOK

LEMMA ServeKeeps ==
    ASSUME TypeInv, NEW t \in Thread, Serve(t)
    PROVE  TypeInv'
  <1>1. ReqOK /\ SideInv /\ req[t] \in Request
    BY DEF TypeInv, TypeOK, ReqOK
  <1>2. ASSUME Mark(t) PROVE asked' \in BOOLEAN
    BY <1>1, <1>2 DEF Mark, TypeInv, TypeOK, Request
  <1>3. ASSUME NoAnswer(t) PROVE TypeInv'
    <2>1. ReqOK' /\ SideInv'  BY <1>1, <1>3, DoneType, SideKeptDone DEF NoAnswer
    <2> QED  BY <1>3, <2>1 DEF NoAnswer, TypeInv, TypeOK, ReqOK
  <1>4. ASSUME Rejected(t) PROVE TypeInv'
    <2>1. ReqOK' /\ SideInv'  BY <1>1, <1>4, DoneType, SideKeptDone DEF Rejected
    <2> QED  BY <1>2, <1>4, <2>1 DEF Rejected, TypeInv, TypeOK, ReqOK
  <1>5. ASSUME HedgeConfirmed(t) PROVE TypeInv'
    <2>1. req[t].side \in Side  BY <1>1, <1>5 DEF HedgeConfirmed, SideInv
    <2>2. ReqOK' /\ SideInv'
      BY <1>1, <1>5, <2>1, GotoType, SideKeptGoto DEF HedgeConfirmed, Pc
    <2> QED  BY <1>5, <2>2 DEF HedgeConfirmed, TypeInv, TypeOK, ReqOK
  <1>6. ASSUME NEW s \in Side \cup {Flat}, Answer(t, s) PROVE TypeInv'
    <2>1. log' \in Seq(Side \cup {Flat}) /\ Len(log') <= MaxLog
      BY <1>6, LoggedType DEF Answer, TypeInv, TypeOK
    <2>2. asked' \in BOOLEAN
      BY <1>2, <1>6 DEF Answer
    <2> DEFINE r == [req[t] EXCEPT !.side = s, !.pc = IF mode = "grid" THEN "guard" ELSE "gate"]
    <2>3. r \in Request /\ r.side = s
      BY <1>1 DEF Request, Pc
    <2>4. ASSUME s = Flat PROVE ReqOK' /\ SideInv'
      BY <1>1, <1>6, <2>4, DoneType, SideKeptDone DEF Answer, Done
    <2>5. ASSUME s # Flat PROVE ReqOK' /\ SideInv'
      <3>1. Becomes(t, r)
        BY <1>6, <2>5 DEF Answer
      <3>2. r.side \in Side
        BY <2>3, <2>5
      <3> HIDE DEF r
      <3> QED  BY <1>1, <2>3, <3>1, <3>2, BecomesType, SideKept
    <2> QED  BY <1>6, <2>1, <2>2, <2>4, <2>5 DEF Answer, TypeInv, TypeOK, ReqOK
  <1>7. ASSUME Gate(t) PROVE TypeInv'
    <2>1. req[t].side \in Side  BY <1>1, <1>7 DEF Gate, At, SideInv
    <2>2. ReqOK' /\ SideInv'
      BY <1>1, <1>7, <2>1, GotoType, SideKeptGoto, DoneType, SideKeptDone DEF Gate, Pc
    <2> QED  BY <1>7, <2>2 DEF Gate, TypeInv, TypeOK, ReqOK
  <1>8. ASSUME Guard(t) PROVE TypeInv'
    <2>1. req[t].side \in Side  BY <1>1, <1>8 DEF Guard, At, SideInv
    <2>2. ReqOK' /\ SideInv'
      BY <1>1, <1>8, <2>1, GotoType, SideKeptGoto, DoneType, SideKeptDone DEF Guard, Pc
    <2> QED  BY <1>8, <2>2 DEF Guard, TypeInv, TypeOK, ReqOK
  <1>9. ASSUME Open(t) PROVE TypeInv'
    <2>1. req[t].side \in Side  BY <1>1, <1>9 DEF Open, At, SideInv
    <2>2. ReqOK' /\ SideInv'  BY <1>1, <1>9, DoneType, SideKeptDone DEF Open
    <2>3. open' \in Seq(Side) /\ Len(open') <= MaxOpen
      BY <1>9, <2>1, DecideAssumption DEF Open, TypeInv, TypeOK
    <2> QED  BY <1>9, <2>2, <2>3 DEF Open, TypeInv, TypeOK, ReqOK
  <1> QED  BY <1>3, <1>4, <1>5, <1>6, <1>7, <1>8, <1>9 DEF Serve

\* Booking an R, however large, leaves the daily R within its bound.
LEMMA BookType ==
    ASSUME NEW r \in Results, daily \in -MaxDaily..MaxDaily, Book(r)
    PROVE  daily' \in -MaxDaily..MaxDaily
  <1>1. r \in Int /\ MaxDaily \in Nat
    BY DecideAssumption
  <1> QED  BY <1>1 DEF Book

LEMMA CloseKeeps ==
    ASSUME TypeInv, NEW i \in 1..Len(open), Close(i)
    PROVE  TypeInv'
  <1>1. daily' \in -MaxDaily..MaxDaily
    BY BookType DEF Close, TypeInv, TypeOK
  <1> DEFINE rest == [j \in 1..(Len(open) - 1) |-> IF j < i THEN open[j] ELSE open[j + 1]]
  <1>2. rest \in Seq(Side) /\ Len(rest) <= MaxOpen
    <2>1. Len(open) - 1 \in Nat /\ Len(open) <= MaxOpen /\ open \in Seq(Side)
      BY DEF TypeInv, TypeOK
    <2>2. \A j \in 1..(Len(open) - 1) : (IF j < i THEN open[j] ELSE open[j + 1]) \in Side
      BY <2>1
    <2>3. rest \in [1..(Len(open) - 1) -> Side]
      BY <2>2
    <2> HIDE DEF rest
    <2>4. rest \in Seq(Side) /\ Len(rest) = Len(open) - 1
      BY <2>1, <2>3
    <2> QED  BY <2>1, <2>4, DecideAssumption
  <1>3. open' = rest /\ UNCHANGED <<mode, asked, log, req>>
    BY DEF Close
  <1> QED  BY <1>1, <1>2, <1>3 DEF TypeInv, TypeOK, SideInv

LEMMA NextKeeps == TypeInv /\ [Next]_vars => TypeInv'
  <1> SUFFICES ASSUME TypeInv, [Next]_vars PROVE TypeInv'
    OBVIOUS
  <1>1. ASSUME NewBar PROVE TypeInv'
    <2>1. req' \in [Thread -> Request]
      BY <1>1 DEF NewBar, TypeInv, TypeOK, Request
    <2>2. \A t \in Thread : /\ req'[t].pc = req[t].pc
                            /\ req'[t].via = req[t].via
                            /\ req'[t].side = req[t].side
      BY <1>1 DEF NewBar, TypeInv, TypeOK, Request
    <2>3. SideInv'
      BY <2>2 DEF SideInv, TypeInv
    <2> QED  BY <1>1, <2>1, <2>3 DEF NewBar, TypeInv, TypeOK
  <1>2. ASSUME Midnight PROVE TypeInv'
    BY <1>2, DecideAssumption DEF Midnight, TypeInv, TypeOK, SideInv
  <1>3. ASSUME Restart PROVE TypeInv'
    <2>1. SideInv'
      BY <1>3 DEF Restart, SideInv, Idle
    <2> QED  BY <1>3, <2>1, IdleType DEF Restart, TypeInv, TypeOK
  <1>4. ASSUME UNCHANGED vars PROVE TypeInv'
    BY <1>4 DEF vars, TypeInv, TypeOK, SideInv
  <1> QED  BY <1>1, <1>2, <1>3, <1>4, StartKeeps, ServeKeeps, CloseKeeps DEF Next

\* TypeOK holds for any number of requests, any settings and any bounds: no
\* request reaches the executor without a side, and the log, the positions and
\* the daily R stay within what the bounds say.
THEOREM TypeCorrect == Spec => []TypeOK
  <1>1. TypeInv => TypeOK
    BY DEF TypeInv
  <1> QED  BY <1>1, InitTypeInv, NextKeeps, PTL DEF Spec

-----------------------------------------------------------------------------
(* The kill switch.                                                        *)

\* A request that becomes r becomes dispatched only if r is.
LEMMA DispatchedBecomes ==
    ASSUME NEW t \in Thread, ReqOK, NEW r \in Request, Becomes(t, r),
           r.pc \in {"guard", "open"} /\ r.via # "hedge" => t \in Dispatched
    PROVE  Dispatched' \subseteq Dispatched
  BY DEF ReqOK, Becomes, Dispatched, Entering

LEMMA DispatchedDone ==
    ASSUME NEW t \in Thread, ReqOK, Done(t)
    PROVE  Dispatched' \subseteq Dispatched
  BY IdleType, DispatchedBecomes DEF Done, Idle

LEMMA HaltedStep ==
    TypeOK /\ [Next]_vars => (mode # "grid" /\ Halted => Dispatched' \subseteq Dispatched)
  <1> SUFFICES ASSUME TypeOK, [Next]_vars, mode # "grid", Halted
               PROVE  Dispatched' \subseteq Dispatched
    OBVIOUS
  <1>1. ReqOK
    BY DEF TypeOK, ReqOK
  <1>2. ASSUME NEW t \in Thread, Start(t) PROVE Dispatched' \subseteq Dispatched
    <2>1. PICK r \in [pc : {"asking"}, via : Route, side : Side \cup {Flat}, current : BOOLEAN] :
              Becomes(t, r)
      BY <1>2 DEF Start, StartDecide, StartMulti, StartHedge, Route
    <2>2. r \in Request /\ r.pc = "asking"
      BY DEF Request, Pc
    <2> QED  BY <1>1, <2>1, <2>2, DispatchedBecomes
  <1>3. ASSUME NEW t \in Thread, Serve(t) PROVE Dispatched' \subseteq Dispatched
    <2>1. req[t] \in Request
      BY <1>1 DEF ReqOK
    <2>2. ASSUME NoAnswer(t) \/ Rejected(t) \/ Open(t) PROVE Dispatched' \subseteq Dispatched
      BY <1>1, <2>2, DispatchedDone DEF NoAnswer, Rejected, Open
    <2>3. ASSUME HedgeConfirmed(t) PROVE Dispatched' \subseteq Dispatched
      <3>1. [req[t] EXCEPT !.pc = "guard"] \in Request /\ [req[t] EXCEPT !.pc = "guard"].via = "hedge"
        BY <2>1, <2>3 DEF HedgeConfirmed, Request, Pc
      <3> QED  BY <1>1, <2>3, <3>1, DispatchedBecomes DEF HedgeConfirmed, Goto
    <2>4. ASSUME NEW s \in Side \cup {Flat}, Answer(t, s) PROVE Dispatched' \subseteq Dispatched
      <3> DEFINE r == [req[t] EXCEPT !.side = s, !.pc = "gate"]
      <3>1. r \in Request /\ r.pc = "gate"
        BY <2>1 DEF Request, Pc
      <3>2. Becomes(t, r) \/ Done(t)
        BY <2>4 DEF Answer, Done
      <3> HIDE DEF r
      <3> QED  BY <1>1, <3>1, <3>2, DispatchedBecomes, DispatchedDone
    <2>5. ASSUME Gate(t) PROVE Dispatched' \subseteq Dispatched
      BY <1>1, <2>5, DispatchedDone DEF Gate
    <2>6. ASSUME Guard(t) PROVE Dispatched' \subseteq Dispatched
      <3> DEFINE r == [req[t] EXCEPT !.pc = "open"]
      <3>1. r \in Request /\ r.via = req[t].via
        BY <2>1 DEF Request, Pc
      <3>2. Becomes(t, r) \/ Done(t)
        BY <2>6 DEF Guard, Goto
      <3>3. r.via # "hedge" => t \in Dispatched
        BY <2>6, <3>1 DEF Guard, At, Dispatched, Entering
      <3> HIDE DEF r
      <3> QED  BY <1>1, <3>1, <3>2, <3>3, DispatchedBecomes, DispatchedDone
    <2> QED  BY <1>3, <2>2, <2>3, <2>4, <2>5, <2>6 DEF Serve
  <1>4. ASSUME NewBar PROVE Dispatched' \subseteq Dispatched
    BY <1>1, <1>4 DEF NewBar, Dispatched, Entering, ReqOK, Request
  <1>5. ASSUME Restart PROVE Dispatched' \subseteq Dispatched
    BY <1>5 DEF Restart, Dispatched, Entering, Idle
  <1>6. ASSUME Midnight \/ UNCHANGED vars PROVE Dispatched' \subseteq Dispatched
    BY <1>6 DEF Midnight, vars, Dispatched, Entering
  <1>7. ASSUME NEW i \in 1..Len(open), Close(i) PROVE Dispatched' \subseteq Dispatched
    BY <1>7 DEF Close, Dispatched, Entering
  <1> QED  BY <1>2, <1>3, <1>4, <1>5, <1>6, <1>7 DEF Next

\* Outside grid mode dispatch admits nobody below the daily floor, for any
\* number of requests and however exits, midnight and restarts interleave.
THEOREM KillSwitchHolds == Spec => HaltAdmitsNobody
  <1>1. TypeOK /\ [Next]_vars => [mode # "grid" /\ Halted => Dispatched' \subseteq Dispatched]_vars
    BY HaltedStep
  <1> QED  BY <1>1, TypeCorrect, PTL DEF Spec, HaltAdmitsNobody

-----------------------------------------------------------------------------
(* The cooldown.                                                           *)

N == Cardinality(Thread)

\* Requests that may still log a decision.
Asking == { t \in Thread : At(t, "asking") /\ req[t].via # "hedge" }

\* Decisions i to j of l have one side.
Run(l, i, j) == \A k \in i..j : l[k] = l[i] /\ l[k] # Flat

\* Once the last two decisions have one side no request starts: what makes the
\* run longer are the requests that were asking by then.
RunInv ==
    mode = "grid" =>
        /\ \A i, j \in 1..Len(log) : i <= j /\ Run(log, i, j) => j - i <= N
        /\ \A i \in 1..Len(log) :
              i < Len(log) /\ Run(log, i, Len(log))
                  => Len(log) - i + Cardinality(Asking) <= N

LEMMA AskingFinite ==
    /\ N \in Nat /\ IsFiniteSet(Asking)
    /\ Cardinality(Asking) \in Nat /\ Cardinality(Asking) <= N
  BY DecideAssumption, FS_Subset, FS_CardinalityType DEF N, Asking

\* A request that stops asking leaves the rest of them.
LEMMA StopsAsking ==
    ASSUME ReqOK, NEW t \in Thread, NEW r \in Request, Becomes(t, r),
           r.pc # "asking" \/ r.via = "hedge"
    PROVE  Asking' = Asking \ {t}
  BY DEF ReqOK, Becomes, Asking, At

LEMMA StopsAskingDone ==
    ASSUME ReqOK, NEW t \in Thread, Done(t)
    PROVE  Asking' = Asking \ {t}
  BY IdleType, StopsAsking DEF Done, Idle

LEMMA StopsAskingGoto ==
    ASSUME ReqOK, NEW t \in Thread, NEW p \in Pc \ {"asking"}, Goto(t, p)
    PROVE  Asking' = Asking \ {t}
  <1>1. [req[t] EXCEPT !.pc = p] \in Request /\ [req[t] EXCEPT !.pc = p].pc # "asking"
    BY DEF ReqOK, Request
  <1> QED  BY <1>1, StopsAsking DEF Goto

\* A step that logs nothing and lets nobody start.
LEMMA RunsKept ==
    ASSUME RunInv, UNCHANGED <<mode, log>>, Asking' \subseteq Asking, log \in Seq(Side \cup {Flat})
    PROVE  RunInv'
  <1>1. /\ N \in Nat /\ Cardinality(Asking) \in Nat /\ Cardinality(Asking') \in Nat
        /\ Cardinality(Asking') <= Cardinality(Asking)
    BY AskingFinite, FS_Subset, FS_CardinalityType
  <1>2. Cardinality(Asking)' = Cardinality(Asking')
    OBVIOUS
  <1>3. ASSUME mode = "grid", NEW i \in 1..Len(log), i < Len(log), Run(log, i, Len(log))
        PROVE  Len(log) - i + Cardinality(Asking') <= N
    <2>1. Len(log) - i + Cardinality(Asking) <= N /\ Len(log) \in Nat
      BY <1>3 DEF RunInv
    <2> QED  BY <1>1, <2>1
  <1> QED  BY <1>2, <1>3 DEF RunInv

\* While the last two decisions have one side the cooldown is on.
LEMMA RunCools ==
    ASSUME log \in Seq(Side \cup {Flat}), Cooldown >= 2,
           NEW i \in 1..Len(log), i < Len(log), Run(log, i, Len(log))
    PROVE  Cooling
  <1> DEFINE n == Len(log)
  <1>0. n \in Nat /\ Cooldown \in Nat
    BY DecideAssumption
  <1>1. n - 1 \in 1..n /\ n \in 1..n /\ n - 1 \in i..n /\ n \in i..n
    BY <1>0
  <1>2. log[n - 1] # Flat /\ log[n - 1] = log[n]
    BY <1>1 DEF Run
  <1>3. \A k \in ((n - 1) + 1)..n : k = n
    BY <1>0
  <1>4. n - Cooldown < n - 1 /\ n - 1 < n
    BY <1>0
  <1> QED  BY <1>1, <1>2, <1>3, <1>4 DEF Cooling

\* One more decision, of a request that was asking.
LEMMA RunsAnswer ==
    ASSUME TypeOK, RunInv, mode = "grid", mode' = mode, NEW t \in Asking,
           NEW s \in Side \cup {Flat}, Logged(s), Asking' = Asking \ {t}
    PROVE  RunInv'
  <1> DEFINE n == Len(log)
             longer == Append(log, s)
             a == Cardinality(Asking)
             b == Cardinality(Asking \ {t})
  <1>0. /\ log \in Seq(Side \cup {Flat}) /\ n \in Nat /\ MaxLog \in Nat /\ N \in Nat
        /\ a \in Nat /\ a <= N /\ b \in Nat /\ b = a - 1
    BY AskingFinite, DecideAssumption, FS_RemoveElement, FS_CardinalityType DEF TypeOK
  <1>1. /\ longer \in Seq(Side \cup {Flat}) /\ Len(longer) = n + 1
        /\ \A k \in 1..n : longer[k] = log[k]
    BY <1>0
  <1>2. /\ \A i, j \in 1..n : i <= j /\ Run(log, i, j) => j - i <= N
        /\ \A i \in 1..n : i < n /\ Run(log, i, n) => n - i + a <= N
    BY DEF RunInv
  <1>3. log' = IF Len(longer) > MaxLog THEN Tail(longer) ELSE longer
    BY DEF Logged
  <1> HIDE DEF longer
  <1>4. \A i, j \in 1..n : Run(longer, i, j) => Run(log, i, j)
    <2> SUFFICES ASSUME NEW i \in 1..n, NEW j \in 1..n, Run(longer, i, j), NEW k \in i..j
                 PROVE  log[k] = log[i] /\ log[k] # Flat
      BY DEF Run
    <2>1. k \in 1..n
      BY <1>0
    <2>2. longer[k] = longer[i] /\ longer[k] # Flat
      BY DEF Run
    <2> QED  BY <1>1, <2>1, <2>2
  <1>5. \A i \in 1..n : Run(longer, i, n + 1) => Run(longer, i, n)
    <2> SUFFICES ASSUME NEW i \in 1..n, Run(longer, i, n + 1), NEW k \in i..n
                 PROVE  longer[k] = longer[i] /\ longer[k] # Flat
      BY DEF Run
    <2>1. k \in i..(n + 1)
      BY <1>0
    <2> QED  BY <2>1 DEF Run
  <1> HIDE DEF n, a, b
  <1>6. ASSUME NEW i \in 1..n, Run(longer, i, n + 1) PROVE (n + 1) - i + b <= N
    <2>1. n \in 1..n /\ Run(log, i, n)
      BY <1>0, <1>4, <1>5, <1>6
    <2>2. CASE i < n
      <3>1. n - i + a <= N
        BY <1>2, <2>1, <2>2
      <3> QED  BY <1>0, <3>1
    <2>3. CASE i = n
      BY <1>0, <2>3
    <2> QED  BY <1>0, <2>2, <2>3
  <1>7. ASSUME NEW i \in 1..(n + 1), NEW j \in 1..(n + 1), i <= j, Run(longer, i, j)
        PROVE  j - i <= N
    <2>1. CASE j \in 1..n
      <3>1. i \in 1..n
        BY <1>0, <1>7, <2>1
      <3> QED  BY <1>2, <1>4, <1>7, <2>1, <3>1
    <2>2. CASE j = n + 1 /\ i \in 1..n
      <3>1. (n + 1) - i + b <= N
        BY <1>6, <1>7, <2>2
      <3> QED  BY <1>0, <2>2, <3>1
    <2>3. CASE i = n + 1
      BY <1>0, <1>7, <2>3
    <2> QED  BY <1>0, <2>1, <2>2, <2>3
  <1>8. Cardinality(Asking)' = b
    BY DEF b
  <1>9. CASE ~(Len(longer) > MaxLog)
    <2>1. log' = longer /\ Len(log') = n + 1
      BY <1>1, <1>3, <1>9
    <2>2. ASSUME NEW i \in 1..(n + 1), i < n + 1, Run(longer, i, n + 1)
          PROVE  (n + 1) - i + b <= N
      <3>1. i \in 1..n
        BY <1>0, <2>2
      <3> QED  BY <1>6, <2>2, <3>1
    <2> QED  BY <1>7, <1>8, <2>1, <2>2 DEF RunInv, Run
  <1>10. CASE Len(longer) > MaxLog
    <2>1. Len(log') = n /\ \A k \in 1..n : log'[k] = longer[k + 1]
      BY <1>0, <1>1, <1>3, <1>10
    <2>2. \A i, j \in 1..n : Run(log', i, j) => Run(longer, i + 1, j + 1)
      <3> SUFFICES ASSUME NEW i \in 1..n, NEW j \in 1..n, Run(log', i, j),
                          NEW k \in (i + 1)..(j + 1)
                   PROVE  longer[k] = longer[i + 1] /\ longer[k] # Flat
        BY DEF Run
      <3>1. k - 1 \in i..j /\ k - 1 \in 1..n /\ (k - 1) + 1 = k
        BY <1>0
      <3>2. log'[k - 1] = log'[i] /\ log'[k - 1] # Flat
        BY <3>1 DEF Run
      <3>3. log'[k - 1] = longer[k] /\ log'[i] = longer[i + 1]
        BY <2>1, <3>1
      <3> QED  BY <3>2, <3>3
    <2>3. ASSUME NEW i \in 1..n, NEW j \in 1..n, i <= j, Run(log', i, j) PROVE j - i <= N
      <3>1. i + 1 \in 1..(n + 1) /\ j + 1 \in 1..(n + 1) /\ i + 1 <= j + 1
        BY <1>0, <2>3
      <3>2. (j + 1) - (i + 1) <= N
        BY <1>7, <2>2, <2>3, <3>1
      <3> QED  BY <1>0, <3>2
    <2>4. ASSUME NEW i \in 1..n, i < n, Run(log', i, n) PROVE n - i + b <= N
      <3>1. i + 1 \in 1..n /\ n \in 1..n
        BY <1>0, <2>4
      <3>2. (n + 1) - (i + 1) + b <= N
        BY <1>6, <2>2, <2>4, <3>1
      <3> QED  BY <1>0, <3>2
    <2> QED  BY <1>8, <2>1, <2>3, <2>4 DEF RunInv, Run
  <1> QED  BY <1>9, <1>10

\* Every step keeps the runs short.
LEMMA RunsStep ==
    ASSUME TypeOK, RunInv, [Next]_vars, Cooldown >= 2
    PROVE  RunInv'
  <1>0. ReqOK /\ log \in Seq(Side \cup {Flat}) /\ \A t \in Thread : req[t] \in Request
    BY DEF TypeOK, ReqOK
  <1>1. mode' = mode
    BY DEF Next, vars, Start, Serve, StartDecide, StartMulti, StartHedge, NoAnswer, Rejected,
           HedgeConfirmed, Answer, Gate, Guard, Open, Close, NewBar, Midnight, Restart
  <1>2. CASE mode # "grid"
    BY <1>1, <1>2 DEF RunInv
  <1>3. ASSUME mode = "grid", NEW t \in Thread, StartDecide(t) PROVE RunInv'
    <2>1. ~Cooling /\ log' = log
      BY <1>3 DEF StartDecide
    <2>2. \A i \in 1..Len(log) : ~(i < Len(log) /\ Run(log, i, Len(log)))
      BY <1>0, <2>1, RunCools
    <2> QED  BY <2>1, <2>2, <1>1, <1>3 DEF RunInv, Run
  <1>4. ASSUME NEW t \in Thread, NEW i, StartHedge(t, i) PROVE Asking' \subseteq Asking /\ log' = log
    <2>1. PICK s \in Side \ {open[i]} :
              Becomes(t, [pc |-> "asking", via |-> "hedge", side |-> s, current |-> TRUE])
      BY <1>4 DEF StartHedge
    <2> DEFINE r == [pc |-> "asking", via |-> "hedge", side |-> s, current |-> TRUE]
    <2>2. r \in Request /\ r.via = "hedge" /\ Becomes(t, r)
      BY <2>1 DEF Request, Pc, Route
    <2> HIDE DEF r
    <2> QED  BY <1>0, <1>4, <2>2, StopsAsking DEF StartHedge
  <1>5. ASSUME NEW t \in Thread, NoAnswer(t) \/ Rejected(t) \/ HedgeConfirmed(t) \/ Gate(t)
                                 \/ Guard(t) \/ Open(t)
        PROVE  Asking' \subseteq Asking /\ log' = log
    <2>1. Done(t) \/ Goto(t, "guard") \/ Goto(t, "open")
      BY <1>5 DEF NoAnswer, Rejected, HedgeConfirmed, Gate, Guard, Open
    <2> QED
      BY <1>0, <1>5, <2>1, StopsAskingDone, StopsAskingGoto
         DEF NoAnswer, Rejected, HedgeConfirmed, Gate, Guard, Open, Pc
  <1>6. ASSUME mode = "grid", NEW t \in Thread, NEW s \in Side \cup {Flat}, Answer(t, s)
        PROVE  RunInv'
    <2>1. t \in Asking /\ Logged(s)
      BY <1>6 DEF Answer, Asking
    <2>2. [req[t] EXCEPT !.side = s, !.pc = "guard"] \in Request
      BY <1>0, <1>6 DEF Request, Pc
    <2>3. [req[t] EXCEPT !.side = s, !.pc = "guard"].pc = "guard"
      BY <1>0 DEF Request
    <2>4. Done(t) \/ Becomes(t, [req[t] EXCEPT !.side = s, !.pc = "guard"])
      BY <1>6 DEF Answer, Done
    <2>5. Asking' = Asking \ {t}
      BY <1>0, <2>2, <2>3, <2>4, StopsAsking, StopsAskingDone
    <2> QED  BY <1>1, <1>6, <2>1, <2>5, RunsAnswer
  <1>7. CASE NewBar
    BY <1>0, <1>7, RunsKept DEF NewBar, Asking, At, Request
  <1>8. CASE Restart
    BY <1>0, <1>8, RunsKept DEF Restart, Asking, At, Idle
  <1>9. CASE Midnight \/ UNCHANGED vars \/ \E i \in 1..Len(open) : Close(i)
    BY <1>0, <1>9, RunsKept DEF Midnight, vars, Close, Asking, At
  <1>10. ASSUME mode = "grid", NEW t \in Thread, Start(t) PROVE RunInv'
    BY <1>0, <1>1, <1>3, <1>4, <1>10, RunsKept DEF Start, StartMulti
  <1>11. ASSUME mode = "grid", NEW t \in Thread, Serve(t) PROVE RunInv'
    BY <1>0, <1>1, <1>5, <1>6, <1>11, RunsKept DEF Serve
  <1> QED  BY <1>2, <1>7, <1>8, <1>9, <1>10, <1>11 DEF Next

\* A run of decisions for one side is never longer than one plus the number of
\* requests that can overlap (_same_direction_cooldown, checked before the
\* model is asked).  It takes a cooldown of two decisions or more: with 0 the
\* filter is off, and with 1 it never finds a pair.
THEOREM RunsStayShort == ASSUME Cooldown >= 2 PROVE Spec => []RunsAreShort
  <1>1. Init => RunInv
    BY DEF Init, RunInv
  <1>2. TypeOK /\ RunInv /\ [Next]_vars => RunInv'
    BY RunsStep
  <1>3. TypeOK /\ RunInv => RunsAreShort
    <2> SUFFICES ASSUME TypeOK, RunInv, mode = "grid", NEW i \in 1..Len(log), i + N + 1 <= Len(log),
                        \A j \in i..(i + N + 1) : log[j] = log[i] /\ log[j] # Flat
                 PROVE  FALSE
      BY DEF RunsAreShort, N
    <2>1. N \in Nat /\ Len(log) \in Nat
      BY AskingFinite DEF TypeOK
    <2>2. i + N + 1 \in 1..Len(log) /\ i <= i + N + 1
      BY <2>1
    <2>3. (i + N + 1) - i <= N
      BY <2>2 DEF RunInv, Run
    <2> QED  BY <2>1, <2>3
  <1> QED  BY <1>1, <1>2, <1>3, TypeCorrect, PTL DEF Spec

=============================================================================
