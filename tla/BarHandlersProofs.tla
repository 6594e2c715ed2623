-------------------------- MODULE BarHandlersProofs --------------------------
(***************************************************************************)
(* Proofs about what one bar sets off (MCBarHandlers), part by part: the    *)
(* parts share no state, so that every step is a step of one part and       *)
(* leaves the others as they are.                                           *)
(***************************************************************************)
EXTENDS MCBarHandlers, FiniteInduction, SequenceTheorems, TLAPS

(***************************************************************************)
(* The rules tick.  The loop's grids of one life lie at or before the mark, *)
(* and before the bar of a request that passed it; the handlers past the    *)
(* check on a marked bar and its fires are together no more than handlers.  *)
(***************************************************************************)
Racers(b) == { h \in TickHandlers : tHandlers[h] = [at |-> "fresh", bar |-> b] }

TickUse == [emits : Nat, posts : Nat, starts : Nat \ {0}]
GridTicks == [bar : Nat, start : Nat]
TickTypes ==
    /\ tBar \in 0..TickBars /\ tLast \in 0..tBar
    /\ tTriggered \subseteq 1..tBar
    /\ tHandlers \in [TickHandlers -> [at : {"idle", "closed", "fresh"}, bar : 0..tBar]]
    /\ \A h \in TickHandlers : tHandlers[h].at # "idle" => tHandlers[h].bar # 0
    /\ tPost \in [at : {"idle", "checked"}, bar : 0..tBar]
    /\ tUsed \in TickUse
    /\ tFires \in [1..TickBars -> Nat]
    /\ tGrids \in Seq(GridTicks)

MarksInv == Cardinality(tTriggered) <= 2 * KeepAfter

GridsInv ==
    /\ \A i \in 1..Len(tGrids) :
        /\ tGrids[i].start <= tUsed.starts
        /\ tGrids[i].start = tUsed.starts =>
            /\ tGrids[i].bar <= tLast
            /\ tPost.at = "checked" => tGrids[i].bar < tPost.bar
    /\ \A i, j \in 1..Len(tGrids) : tGrids[i] = tGrids[j] => i = j

FiresInv ==
    (tUsed.starts = 1 /\ tBar <= 2 * KeepAfter) =>
        \A b \in 1..TickBars :
            IF b \in tTriggered THEN tFires[b] + Cardinality(Racers(b)) <= Cardinality(TickHandlers)
            ELSE tFires[b] = 0

LEMMA RulesStart == RulesInit => TickTypes /\ MarksInv /\ GridsInv /\ FiresInv
<1> SUFFICES ASSUME RulesInit PROVE TickTypes /\ MarksInv /\ GridsInv /\ FiresInv
  OBVIOUS
<1> USE RulesTickAssumption DEF RulesInit, Idle
<1>1. TickTypes
  BY DEF TickTypes, TickUse
<1>2. MarksInv
  BY FS_EmptySet DEF MarksInv
<1>3. GridsInv
  BY DEF GridsInv
<1>4. FiresInv
  BY DEF FiresInv
<1> QED
  BY <1>1, <1>2, <1>3, <1>4

LEMMA RulesTyped == TickTypes /\ [RulesNext]_tickVars => TickTypes'
<1> SUFFICES ASSUME TickTypes, [RulesNext]_tickVars PROVE TickTypes'
  OBVIOUS
<1>u. /\ [tUsed EXCEPT !.emits = @ + 1] \in TickUse
      /\ [tUsed EXCEPT !.posts = @ + 1] \in TickUse
      /\ [tUsed EXCEPT !.starts = @ + 1] \in TickUse
  <2>1. tUsed \in TickUse
    BY DEF TickTypes
  <2> QED
    BY <2>1 DEF TickUse
<1>g. ASSUME NEW g \in GridTicks PROVE Append(tGrids, g) \in Seq(GridTicks)
  BY DEF TickTypes
<1> USE RulesTickAssumption DEF TickTypes, Idle
<1>1. ASSUME NEW h \in TickHandlers, TickCheck(h) PROVE TickTypes'
  BY <1>1 DEF TickCheck, IsFresh
<1>2. ASSUME NEW h \in TickHandlers, TickFire(h) PROVE TickTypes'
  <2>1. tHandlers[h].bar \in 1..tBar
    BY <1>2 DEF TickFire
  <2>2. tTriggered' \subseteq 1..tBar
    BY <1>2, <2>1 DEF TickFire, Pruned
  <2> QED
    BY <1>2, <2>1, <2>2 DEF TickFire
<1>3. ASSUME NEW h \in TickHandlers, NEW b \in 1..TickBars, TickEmit(h, b) PROVE TickTypes'
  <2>1. b \in 1..TickBars /\ tBar <= b /\ tBar' = b /\ 0..tBar \subseteq 0..b
    BY <1>3 DEF TickEmit
  <2>2. tHandlers' \in [TickHandlers -> [at : {"idle", "closed", "fresh"}, bar : 0..b]]
    <3>1. [at |-> "closed", bar |-> b] \in [at : {"idle", "closed", "fresh"}, bar : 0..b]
      BY <2>1
    <3>2. tHandlers \in [TickHandlers -> [at : {"idle", "closed", "fresh"}, bar : 0..b]]
      BY <2>1
    <3> QED
      BY <1>3, <3>1, <3>2 DEF TickEmit
  <2>3. \A g \in TickHandlers : tHandlers'[g].at # "idle" => tHandlers'[g].bar # 0
    BY <1>3 DEF TickEmit
  <2>4. tUsed' \in TickUse
    BY <1>3, <1>u DEF TickEmit
  <2>5. tPost' \in [at : {"idle", "checked"}, bar : 0..b] /\ tTriggered' \subseteq 1..b
        /\ tLast' \in 0..b /\ UNCHANGED <<tFires, tGrids>>
    BY <1>3, <2>1 DEF TickEmit
  <2> QED
    BY <2>1, <2>2, <2>3, <2>4, <2>5
<1>4. CASE TickDryRun
  BY <1>4 DEF TickDryRun, Mark
<1>5. CASE TickPost
  <2>1. tUsed' \in TickUse
    BY <1>5, <1>u DEF TickPost
  <2>2. tPost' \in [at : {"idle", "checked"}, bar : 0..tBar]
    BY <1>5 DEF TickPost
  <2> QED
    BY <1>5, <2>1, <2>2 DEF TickPost
<1>6. CASE TickClose
  BY <1>6 DEF TickClose
<1>7. CASE TickRestart
  <2>1. tUsed' \in TickUse
    BY <1>7, <1>u DEF TickRestart
  <2>2. tHandlers' \in [TickHandlers -> [at : {"idle", "closed", "fresh"}, bar : 0..tBar]]
        /\ \A g \in TickHandlers : tHandlers'[g].at = "idle"
    BY <1>7 DEF TickRestart
  <2> QED
    BY <1>7, <2>1, <2>2 DEF TickRestart
<1>8. CASE UNCHANGED tickVars
  BY <1>8 DEF tickVars
<1>9. ASSUME NEW d \in BOOLEAN, TickServe(d) PROVE TickTypes'
  <2>1. tGrids' \in Seq(GridTicks)
    <3>1. tPost.bar \in Nat /\ tUsed.starts \in Nat
      BY DEF TickUse
    <3>2. [bar |-> tPost.bar, start |-> tUsed.starts] \in GridTicks
      BY <3>1 DEF GridTicks
    <3>3. tGrids' = tGrids \/ tGrids' = Append(tGrids, [bar |-> tPost.bar, start |-> tUsed.starts])
      BY <1>9 DEF TickServe
    <3> QED
      BY <1>g, <3>2, <3>3
  <2> QED
    BY <1>9, <2>1 DEF TickServe, Mark
<1> QED
  BY <1>1, <1>2, <1>3, <1>4, <1>5, <1>6, <1>7, <1>8, <1>9 DEF RulesNext, TickQuiet

LEMMA MarksStep == TickTypes /\ MarksInv /\ [RulesNext]_tickVars => MarksInv'
<1> SUFFICES ASSUME TickTypes, MarksInv, [RulesNext]_tickVars PROVE MarksInv'
  OBVIOUS
<1> USE RulesTickAssumption
<1>1. ASSUME NEW h \in TickHandlers, TickFire(h) PROVE MarksInv'
  <2> DEFINE marks == tTriggered \cup {tHandlers[h].bar}
  <2>1. tTriggered' \in Pruned(marks)
    BY <1>1 DEF TickFire
  <2>2. CASE Cardinality(marks) <= 2 * KeepAfter
    BY <2>1, <2>2 DEF Pruned, MarksInv
  <2>3. CASE ~(Cardinality(marks) <= 2 * KeepAfter)
    <3>1. Cardinality(tTriggered') = KeepAfter
      BY <2>1, <2>3 DEF Pruned
    <3> QED
      BY <3>1 DEF MarksInv
  <2> QED
    BY <2>2, <2>3
<1>2. CASE TickRestart
  BY <1>2, FS_EmptySet DEF TickRestart, MarksInv
<1>3. CASE UNCHANGED tTriggered
  BY <1>3 DEF MarksInv
<1>4. ASSUME NEW h \in TickHandlers, NEW b \in 1..TickBars, TickCheck(h) \/ TickEmit(h, b)
      PROVE  UNCHANGED tTriggered
  BY <1>4 DEF TickCheck, TickEmit
<1>5. ASSUME NEW h \in TickHandlers, TickCheck(h) PROVE UNCHANGED tTriggered
  BY <1>5 DEF TickCheck
<1>6. ASSUME TickDryRun \/ TickPost \/ TickClose \/ TickQuiet \/ UNCHANGED tickVars
      PROVE  UNCHANGED tTriggered
  BY <1>6 DEF TickDryRun, TickPost, TickClose, TickQuiet, tickVars
<1>7. ASSUME NEW d \in BOOLEAN, TickServe(d) PROVE UNCHANGED tTriggered
  BY <1>7 DEF TickServe
<1>8. CASE RulesNext
  BY <1>1, <1>2, <1>3, <1>4, <1>5, <1>6, <1>7, <1>8 DEF RulesNext
<1> QED
  BY <1>3, <1>6, <1>8

LEMMA GridsStep == TickTypes /\ GridsInv /\ [RulesNext]_tickVars => GridsInv'
<1> SUFFICES ASSUME TickTypes, GridsInv, [RulesNext]_tickVars PROVE GridsInv'
  OBVIOUS
<1>s. tGrids \in Seq(GridTicks) /\ Len(tGrids) \in Nat
  BY DEF TickTypes
<1>a. \A i \in 1..Len(tGrids) : tGrids[i] \in GridTicks
  BY <1>s
<1>p. /\ tUsed.starts \in Nat /\ tPost.bar \in Nat /\ tLast \in Nat /\ tBar \in Nat
      /\ tLast <= tBar
  BY DEF TickTypes, TickUse
<1>1. ASSUME UNCHANGED <<tGrids, tUsed, tLast, tPost>> PROVE GridsInv'
  BY <1>1 DEF GridsInv
<1>2. ASSUME NEW h \in TickHandlers, NEW b \in 1..TickBars, TickEmit(h, b) PROVE GridsInv'
  <2>1. UNCHANGED <<tGrids, tLast, tPost>> /\ tUsed'.starts = tUsed.starts
    BY <1>2 DEF TickEmit, TickTypes, TickUse
  <2> QED
    BY <2>1 DEF GridsInv
<1>4. CASE TickDryRun
  <2>1. UNCHANGED <<tGrids, tUsed, tPost>> /\ tLast <= tLast' /\ tLast' \in Nat
    BY <1>4, <1>p DEF TickDryRun, Mark
  <2> QED
    BY <1>a, <1>p, <2>1 DEF GridsInv, GridTicks
<1>5. CASE TickPost
  <2>1. UNCHANGED <<tGrids, tLast>> /\ tUsed'.starts = tUsed.starts
    BY <1>5 DEF TickPost, TickTypes, TickUse
  <2>2. CASE tLast = tBar
    <3>1. UNCHANGED tPost
      BY <1>5, <2>2 DEF TickPost
    <3> QED
      BY <2>1, <3>1 DEF GridsInv
  <2>3. CASE tLast # tBar
    <3>1. tPost'.bar = tBar
      BY <1>5, <2>3 DEF TickPost
    <3>2. tLast < tPost'.bar /\ tPost'.bar \in Nat
      BY <1>p, <2>3, <3>1
    <3> QED
      BY <1>a, <1>p, <2>1, <3>2 DEF GridsInv, GridTicks
  <2> QED
    BY <2>2, <2>3
<1>7. CASE TickRestart
  <2>1. UNCHANGED tGrids /\ tUsed'.starts = tUsed.starts + 1
    BY <1>7 DEF TickRestart, TickTypes, TickUse
  <2> QED
    BY <1>a, <1>p, <2>1 DEF GridsInv, GridTicks
<1>9. ASSUME NEW d \in BOOLEAN, TickServe(d) PROVE GridsInv'
  <2>1. tUsed' = tUsed /\ tLast' = tPost.bar /\ tPost'.at = "idle" /\ tPost.at = "checked"
    BY <1>9 DEF TickServe, Mark, Idle
  <2>0. ASSUME NEW i \in 1..Len(tGrids)
        PROVE  /\ tGrids[i].start <= tUsed.starts
               /\ tGrids[i].start = tUsed.starts => tGrids[i].bar < tPost.bar /\ tGrids[i].bar \in Nat
    BY <1>a, <2>1 DEF GridsInv, GridTicks
  <2>2. CASE ~d
    <3>1. UNCHANGED tGrids
      BY <1>9, <2>2 DEF TickServe
    <3> QED
      BY <1>p, <2>0, <2>1, <3>1 DEF GridsInv
  <2>3. CASE d
    <3> DEFINE g == [bar |-> tPost.bar, start |-> tUsed.starts]
    <3>1. tGrids' = Append(tGrids, g)
      BY <1>9, <2>3 DEF TickServe
    <3>0. g \in GridTicks /\ g.start = tUsed.starts /\ g.bar = tPost.bar
      BY <1>p DEF GridTicks
    <3> HIDE DEF g
    <3>2. Len(tGrids') = Len(tGrids) + 1 /\ tGrids'[Len(tGrids) + 1] = g
          /\ \A i \in 1..Len(tGrids) : tGrids'[i] = tGrids[i]
      BY <1>s, <3>0, <3>1
    <3>3. \A i \in 1..Len(tGrids) : tGrids[i] # g
      BY <1>p, <2>0, <3>0
    <3>5. \A i, j \in 1..Len(tGrids') : tGrids'[i] = tGrids'[j] => i = j
      <4> SUFFICES ASSUME NEW i \in 1..Len(tGrids'), NEW j \in 1..Len(tGrids'),
                          tGrids'[i] = tGrids'[j]
                   PROVE  i = j
        OBVIOUS
      <4>1. (i \in 1..Len(tGrids) \/ i = Len(tGrids) + 1)
            /\ (j \in 1..Len(tGrids) \/ j = Len(tGrids) + 1)
        BY <1>s, <3>2
      <4>2. \A k, l \in 1..Len(tGrids) : tGrids[k] = tGrids[l] => k = l
        BY DEF GridsInv
      <4> QED
        BY <3>2, <3>3, <4>1, <4>2
    <3>6. \A i \in 1..Len(tGrids') : tGrids'[i].start <= tUsed.starts
                 /\ (tGrids'[i].start = tUsed.starts => tGrids'[i].bar <= tPost.bar)
      <4> SUFFICES ASSUME NEW i \in 1..Len(tGrids')
                   PROVE  /\ tGrids'[i].start <= tUsed.starts
                          /\ tGrids'[i].start = tUsed.starts => tGrids'[i].bar <= tPost.bar
        OBVIOUS
      <4>1. i \in 1..Len(tGrids) \/ i = Len(tGrids) + 1
        BY <1>s, <3>2
      <4> QED
        BY <1>p, <2>0, <3>0, <3>2, <4>1
    <3> QED
      BY <2>1, <3>5, <3>6 DEF GridsInv
  <2> QED
    BY <2>2, <2>3
<1>3. ASSUME NEW h \in TickHandlers, TickCheck(h) \/ TickFire(h) PROVE GridsInv'
  BY <1>1, <1>3 DEF TickCheck, TickFire
<1>6. ASSUME TickClose \/ TickQuiet \/ UNCHANGED tickVars PROVE GridsInv'
  BY <1>1, <1>6 DEF TickClose, TickQuiet, tickVars
<1>8. CASE RulesNext
  BY <1>2, <1>3, <1>4, <1>5, <1>6, <1>7, <1>8, <1>9 DEF RulesNext
<1> QED
  BY <1>6, <1>8

LEMMA FiresStep == TickTypes /\ FiresInv /\ [RulesNext]_tickVars => FiresInv'
<1> SUFFICES ASSUME TickTypes, FiresInv, [RulesNext]_tickVars,
                    tUsed'.starts = 1, tBar' <= 2 * KeepAfter, NEW b \in 1..TickBars
             PROVE  IF b \in tTriggered'
                    THEN tFires'[b] + Cardinality(Racers(b)') <= Cardinality(TickHandlers)
                    ELSE tFires'[b] = 0
  BY DEF FiresInv
<1> USE RulesTickAssumption
<1> DEFINE Goal == IF b \in tTriggered'
                   THEN tFires'[b] + Cardinality(Racers(b)') <= Cardinality(TickHandlers)
                   ELSE tFires'[b] = 0
<1>0. /\ IsFiniteSet(Racers(b)) /\ Cardinality(Racers(b)) \in Nat
      /\ Cardinality(Racers(b)) <= Cardinality(TickHandlers) /\ Cardinality(TickHandlers) \in Nat
  BY FS_Subset, FS_CardinalityType DEF Racers
<1>a. ASSUME tUsed.starts = 1, tBar <= 2 * KeepAfter
      PROVE  IF b \in tTriggered
             THEN tFires[b] + Cardinality(Racers(b)) <= Cardinality(TickHandlers)
             ELSE tFires[b] = 0
  BY <1>a DEF FiresInv
<1>1. ASSUME UNCHANGED <<tTriggered, tHandlers, tFires, tUsed, tBar>> PROVE Goal
  BY <1>1, <1>a DEF Racers
<1>2. ASSUME NEW h \in TickHandlers, TickCheck(h) PROVE Goal
  <2>1. UNCHANGED <<tTriggered, tFires, tUsed, tBar>>
    BY <1>2 DEF TickCheck
  <2>2. CASE b \in tTriggered
    <3>1. Racers(b)' = Racers(b)
      BY <1>2, <2>2 DEF TickCheck, IsFresh, Racers, TickTypes, Idle
    <3> QED
      BY <2>1, <2>2, <3>1, <1>a
  <2> QED
    BY <2>1, <2>2, <1>a
<1>3. ASSUME NEW h \in TickHandlers, NEW e \in 1..TickBars, TickEmit(h, e) PROVE Goal
  <2>1. UNCHANGED <<tTriggered, tFires>> /\ tUsed.starts = 1
    BY <1>3 DEF TickEmit, TickTypes
  <2>3. tBar <= 2 * KeepAfter
    <3>1. tBar \in Nat /\ (tBar' = tBar \/ tBar' = tBar + 1)
      BY <1>3 DEF TickEmit, TickTypes
    <3> QED
      BY <3>1
  <2>2. Racers(b)' = Racers(b)
    BY <1>3 DEF TickEmit, Racers, TickTypes, Idle
  <2> QED
    BY <2>1, <2>2, <2>3, <1>a
<1>4. ASSUME NEW h \in TickHandlers, TickFire(h) PROVE Goal
  <2> DEFINE c == tHandlers[h].bar
  <2>0. /\ c \in 1..tBar /\ tHandlers[h].at = "fresh" /\ tHandlers[h] = [at |-> "fresh", bar |-> c]
        /\ tUsed.starts = 1 /\ tBar <= 2 * KeepAfter /\ tBar \in 0..TickBars
    BY <1>4 DEF TickFire, TickTypes
  <2>1. Cardinality(tTriggered \cup {c}) <= 2 * KeepAfter
    <3>1. tTriggered \cup {c} \subseteq 1..tBar
      BY <2>0 DEF TickTypes
    <3>2. IsFiniteSet(1..tBar) /\ Cardinality(1..tBar) = tBar
      BY <2>0, FS_Interval
    <3>3. Cardinality(tTriggered \cup {c}) <= tBar /\ Cardinality(tTriggered \cup {c}) \in Nat
      BY <3>1, <3>2, FS_Subset, FS_CardinalityType
    <3> QED
      BY <3>3, <2>0
  <2>2. tTriggered' = tTriggered \cup {c}
    BY <1>4, <2>1 DEF TickFire, Pruned
  <2>3. tFires' = [tFires EXCEPT ![c] = @ + 1] /\ tFires \in [1..TickBars -> Nat]
    BY <1>4 DEF TickFire, TickTypes
  <2>4. CASE b = c
    <3>1. h \in Racers(b) /\ Racers(b)' = Racers(b) \ {h}
      BY <1>4, <2>0, <2>4 DEF TickFire, Racers, TickTypes, Idle
    <3>2. Cardinality(Racers(b)') = Cardinality(Racers(b)) - 1
      BY <1>0, <3>1, FS_RemoveElement
    <3>3. tFires'[b] = tFires[b] + 1 /\ tFires[b] \in Nat
      BY <2>3, <2>4
    <3>4. tFires[b] + Cardinality(Racers(b)) <= Cardinality(TickHandlers)
      BY <1>0, <1>a, <2>0, <3>3
    <3> QED
      BY <2>2, <2>4, <3>2, <3>3, <3>4, <1>0
  <2>5. CASE b # c
    <3>1. Racers(b)' = Racers(b)
      BY <1>4, <2>0, <2>5 DEF TickFire, Racers, TickTypes, Idle
    <3>2. tFires'[b] = tFires[b]
      BY <2>3, <2>5
    <3> QED
      BY <2>2, <2>5, <3>1, <3>2, <1>a, <2>0
  <2> QED
    BY <2>4, <2>5
<1>5. ASSUME TickRestart PROVE FALSE
  BY <1>5 DEF TickRestart, TickTypes, TickUse
<1>6. ASSUME TickPost PROVE Goal
  <2>1. UNCHANGED <<tTriggered, tHandlers, tFires, tBar>> /\ tUsed.starts = 1
    BY <1>6 DEF TickPost, TickTypes
  <2> QED
    BY <2>1, <1>a DEF Racers
<1> QED
  BY <1>1, <1>2, <1>3, <1>4, <1>5, <1>6
  DEF RulesNext, TickQuiet, tickVars, TickDryRun, TickClose, TickServe

\* Callers of the rules tick that overlap, late bars, dry runs and restarts: the marks stay
\* bounded, the loop opens one grid a bar, and a bar fires at most once for each handler that
\* raced past the check, for any number of handlers, bars and restarts.
THEOREM OneTick == BarSpec => []OneTickPerBar
<1> DEFINE Inv == TickTypes /\ MarksInv /\ GridsInv /\ FiresInv
<1>1. BarInit => Inv
  BY RulesStart DEF BarInit
<1>2. [BarNext]_barVars => [RulesNext]_tickVars
  BY DEF BarNext, Others, barVars, Parts
<1>3. Inv /\ [BarNext]_barVars => Inv'
  BY <1>2, RulesTyped, MarksStep, GridsStep, FiresStep
<1>4. Inv => OneTickPerBar
  <2> SUFFICES ASSUME Inv PROVE OneTickPerBar
    OBVIOUS
  <2>1. MarksBounded
    BY DEF TickTypes, MarksInv, MarksBounded
  <2>2. OneGridPerBar
    <3>1. DOMAIN tGrids = 1..Len(tGrids)
      BY DEF TickTypes
    <3> QED
      BY <3>1 DEF GridsInv, OneGridPerBar
  <2>3. FiresOncePerRacer
    <3> SUFFICES ASSUME tUsed.starts = 1, tBar <= 2 * KeepAfter, NEW b \in 1..TickBars
                 PROVE  tFires[b] <= Cardinality(TickHandlers)
      BY DEF FiresOncePerRacer
    <3>1. /\ Cardinality(Racers(b)) \in Nat /\ Cardinality(TickHandlers) \in Nat
          /\ tFires[b] \in Nat
      BY FS_Subset, FS_CardinalityType, RulesTickAssumption DEF Racers, TickTypes
    <3> QED
      BY <3>1 DEF FiresInv
  <2> QED
    BY <2>1, <2>2, <2>3 DEF OneTickPerBar
<1> HIDE DEF Inv
<1> QED
  BY <1>1, <1>3, <1>4, PTL DEF BarSpec

-----------------------------------------------------------------------------
(***************************************************************************)
(* The profile cache.  Whatever a file or a build holds of a session are    *)
(* stored bars whose key is the session's: the bounds a build cuts at and   *)
(* the names readers ask for agree.                                         *)
(***************************************************************************)
\* Quotients, from the bounds of the remainder.
LEMMA Quotient ==
  ASSUME NEW d \in Nat \ {0}, NEW q \in Int, NEW n \in Int, q * d <= n, n < q * d + d
  PROVE  n \div d = q
<1> DEFINE k == n \div d
<1>1. k \in Int /\ n = d * k + (n % d) /\ n % d \in 0..(d - 1)
  OBVIOUS
<1> HIDE DEF k
<1>2. d * k <= n /\ n < d * k + d
  BY <1>1
<1>3. q < k + 1 /\ k < q + 1
  BY <1>1, <1>2
<1>4. k = q
  BY <1>1, <1>3
<1> QED
  BY <1>4 DEF k

LEMMA QuotientGrows ==
  ASSUME NEW d \in Nat \ {0}, NEW a \in Int, NEW b \in Int, a <= b
  PROVE  a \div d <= b \div d /\ a \div d \in Int /\ b \div d \in Int
  OBVIOUS

LEMMA SessionNames ==
  ASSUME NEW s \in VpSymbols, NEW k \in Nat, NEW t \in Nat,
         DayStart(s, k) <= t, t < DayStart(s, k) + Day
  PROVE  DayKey(s, t) = <<"day", k>>
<1>1. Day \in Nat \ {0} /\ Ist \in 0..(Day - 1)
  BY VpAssumption
<1>2. CASE StartHour[s] = 0
  <2>1. (t - 0) \div Day = k
    BY <1>1, <1>2, Quotient DEF DayStart
  <2>2. (k * Day + 0 + Ist) \div Day = k
    <3>1. k * Day \in Int /\ k * Day + 0 + Ist \in Int
      BY <1>1
    <3>2. k * Day <= k * Day + 0 + Ist /\ k * Day + 0 + Ist < k * Day + Day
      BY <1>1, <3>1
    <3> QED
      BY <1>1, <3>1, <3>2, Quotient
  <2> QED
    BY <1>2, <2>1, <2>2 DEF DayKey, SessionStart
<1>3. CASE StartHour[s] # 0
  <2>0. StartHour[s] \in (Day - Ist)..(Day - 1) /\ StartHour[s] \in Int
    BY <1>1, <1>3, VpAssumption
  <2>1. (t - StartHour[s]) \div Day = k - 1
    <3>1. (k - 1) * Day \in Int /\ t - StartHour[s] \in Int
      BY <1>1, <2>0
    <3>2. (k - 1) * Day + StartHour[s] <= t /\ t < (k - 1) * Day + StartHour[s] + Day
      BY <1>3 DEF DayStart
    <3>3. (k - 1) * Day <= t - StartHour[s] /\ t - StartHour[s] < (k - 1) * Day + Day
      BY <1>1, <2>0, <3>1, <3>2
    <3>4. k - 1 \in Int
      OBVIOUS
    <3> QED
      BY <1>1, <3>1, <3>3, <3>4, Quotient
  <2>2. ((k - 1) * Day + StartHour[s] + Ist) \div Day = k
    <3>1. (k - 1) * Day = k * Day - Day /\ k * Day \in Int
      BY <1>1
    <3>2. (k - 1) * Day + StartHour[s] + Ist \in Int
      BY <1>1, <2>0, <3>1
    <3>3. /\ k * Day <= (k - 1) * Day + StartHour[s] + Ist
          /\ (k - 1) * Day + StartHour[s] + Ist < k * Day + Day
      BY <1>1, <2>0, <3>1
    <3> QED
      BY <1>1, <3>1, <3>2, <3>3, Quotient
  <2> QED
    BY <2>1, <2>2 DEF DayKey, SessionStart
<1> QED
  BY <1>2, <1>3

\* The greatest of a non-empty set of bars.
LEMMA MaxStands ==
  ASSUME NEW n \in Nat, NEW S \in SUBSET (1..n), S # {}
  PROVE  Max(S) \in S /\ \A x \in S : x <= Max(S)
<1> DEFINE T == { n - x : x \in S }
<1>1. T \in SUBSET Nat /\ T # {}
  <2>1. \A x \in S : x \in Int /\ x <= n
    OBVIOUS
  <2>2. \A x \in S : n - x \in Nat
    BY <2>1
  <2> QED
    BY <2>2
<1>2. PICK y \in T : \A z \in T : y <= z
  BY <1>1, LeastExists
<1>3. PICK m \in S : y = n - m
  BY <1>2
<1>4. ASSUME NEW x \in S PROVE m >= x
  <2>1. n - m <= n - x
    BY <1>2, <1>3
  <2> QED
    BY <2>1
<1>5. \E x \in S : \A z \in S : x >= z
  BY <1>4
<1>6. Max(S) \in S /\ \A z \in S : Max(S) >= z
  BY <1>5 DEF Max
<1> QED
  BY <1>6

Sessions(file) ==
    \A s \in VpSymbols, p \in Periods :
        p[1] = "day" => file[s][p] \subseteq {t \in vpStored[s] : DayKey(s, t) = p}
Files == [VpSymbols -> [Periods -> SUBSET Nat]]

VpTypes ==
    /\ vpClock \in Nat
    /\ vpStored \in [VpSymbols -> SUBSET (1..vpClock)]
    /\ vpFile \in Files
    /\ vpBuild \in [VpSymbols -> [pc : {"idle", "built", "saving"}, file : Files]]

SessionsInv ==
    /\ Sessions(vpFile)
    /\ \A r \in VpSymbols : Sessions(vpBuild[r].file)

LEMMA Empties == [s \in VpSymbols |-> NoProfiles] \in Files /\ NoProfiles \in [Periods -> SUBSET Nat]
  BY DEF Files, NoProfiles

LEMMA RebuiltTyped ==
  ASSUME NEW s \in VpSymbols, NEW now, NEW stored \in SUBSET Nat,
         NEW profiles \in [Periods -> SUBSET Nat]
  PROVE  Rebuilt(s, now, stored, profiles) \in [Periods -> SUBSET Nat]
  BY DEF Rebuilt, Computed

LEMMA RebuiltNames ==
  ASSUME NEW s \in VpSymbols, NEW now, NEW stored \in SUBSET Nat,
         NEW profiles \in [Periods -> SUBSET Nat], NEW p \in Periods, p[1] = "day",
         profiles[p] \subseteq {t \in stored : DayKey(s, t) = p}
  PROVE  Rebuilt(s, now, stored, profiles)[p] \subseteq {t \in stored : DayKey(s, t) = p}
<1>1. p = <<"day", p[2]>> /\ p[2] \in Nat
  <2>1. VpHorizon \div Day \in Int
    BY VpAssumption
  <2> QED
    BY <2>1 DEF Periods
<1>2. Computed(s, p, stored) \subseteq {t \in stored : DayKey(s, t) = p}
  <2> SUFFICES ASSUME NEW t \in stored, Within(s, p, t) PROVE DayKey(s, t) = p
    BY DEF Computed
  <2>1. DayStart(s, p[2]) <= t /\ t < DayStart(s, p[2]) + Day
    BY DEF Within, PeriodStart, PeriodBars
  <2> QED
    BY <1>1, <2>1, SessionNames
<1>3. Rebuilt(s, now, stored, profiles)[p] \in {Computed(s, p, stored), profiles[p]}
  BY DEF Rebuilt
<1> QED
  BY <1>2, <1>3

\* Each row is that of a stored bar.
RowsInv ==
    \A r \in vpRows : r.sym \in VpSymbols /\ r.at \in vpStored[r.sym] /\ r.prev \in Nat

LEMMA VpStart == VpInit => VpTypes /\ SessionsInv /\ RowsInv /\ RaisesOnceAWeek
<1> SUFFICES ASSUME VpInit PROVE VpTypes /\ SessionsInv /\ RowsInv /\ RaisesOnceAWeek
  OBVIOUS
<1>1. NoBuild \in [pc : {"idle", "built", "saving"}, file : Files]
      /\ NoBuild.file = [s \in VpSymbols |-> NoProfiles]
  BY Empties DEF NoBuild
<1>2. VpTypes
  <2>1. vpStored \in [VpSymbols -> SUBSET (1..vpClock)] /\ vpClock \in Nat
    BY DEF VpInit
  <2>2. vpBuild \in [VpSymbols -> [pc : {"idle", "built", "saving"}, file : Files]]
    BY <1>1 DEF VpInit
  <2> QED
    BY <2>1, <2>2, Empties DEF VpInit, VpTypes
<1>3. Sessions([s \in VpSymbols |-> NoProfiles])
  BY DEF Sessions, NoProfiles
<1> QED
  BY <1>1, <1>2, <1>3 DEF VpInit, SessionsInv, RowsInv, RaisesOnceAWeek

\* The bar of a step that stores one.
LEMMA StoreBar ==
  ASSUME VpTypes, NEW s \in VpSymbols, NEW t \in Times, VpBar(s, t)
  PROVE  /\ t \in 1..vpClock /\ vpStored[s] \in SUBSET (1..vpClock)
         /\ vpStored' = [vpStored EXCEPT ![s] = @ \cup {t}]
         /\ vpClock' = vpClock /\ vpFile' = vpFile
  BY DEF VpBar, VpTypes, Missing

LEMMA LoadedFile == VpTypes /\ SessionsInv => Loaded \in Files /\ Sessions(Loaded)
<1> SUFFICES ASSUME VpTypes, SessionsInv PROVE Loaded \in Files /\ Sessions(Loaded)
  OBVIOUS
<1>1. CASE vpTorn
  BY <1>1, Empties DEF Loaded, Sessions, NoProfiles
<1>2. CASE ~vpTorn
  BY <1>2 DEF Loaded, VpTypes, SessionsInv
<1> QED
  BY <1>1, <1>2

\* More bars stored leave every file one of its sessions.
LEMMA SessionsGrow ==
  ASSUME VpTypes, NEW file \in Files, Sessions(file),
         \A s \in VpSymbols : vpStored[s] \subseteq vpStored'[s]
  PROVE  \A s \in VpSymbols, p \in Periods :
            p[1] = "day" => file[s][p] \subseteq {t \in vpStored'[s] : DayKey(s, t) = p}
  BY DEF Sessions

LEMMA VpBarStep ==
  ASSUME VpTypes, SessionsInv, NEW s \in VpSymbols, NEW t \in Times, VpBar(s, t)
  PROVE  VpTypes' /\ SessionsInv'
<1> DEFINE stored == vpStored[s] \cup {t}
           file == [Loaded EXCEPT ![s] = Rebuilt(s, vpClock, stored, @)]
<1>0. /\ t \in 1..vpClock /\ vpStored[s] \in SUBSET (1..vpClock)
      /\ vpStored' = [vpStored EXCEPT ![s] = stored]
      /\ vpClock' = vpClock /\ vpFile' = vpFile
  BY StoreBar
<1>1. stored \in SUBSET (1..vpClock) /\ stored \in SUBSET Nat
  BY <1>0 DEF VpTypes
<1>2. vpStored' \in [VpSymbols -> SUBSET (1..vpClock)]
  BY <1>0, <1>1 DEF VpTypes
<1>3. /\ \A r \in VpSymbols : vpStored[r] \subseteq vpStored'[r]
      /\ vpStored'[s] = stored
  BY <1>0 DEF VpTypes
<1>4. Loaded \in Files /\ Sessions(Loaded) /\ Loaded[s] \in [Periods -> SUBSET Nat]
  BY LoadedFile DEF Files
<1>5. Rebuilt(s, vpClock, stored, Loaded[s]) \in [Periods -> SUBSET Nat]
  BY <1>1, <1>4, RebuiltTyped
<1>6. file \in Files
  BY <1>4, <1>5 DEF Files
<1>7. ASSUME NEW r \in VpSymbols, NEW p \in Periods, p[1] = "day"
      PROVE  file[r][p] \subseteq {u \in vpStored'[r] : DayKey(r, u) = p}
  <2>1. Loaded[r][p] \subseteq {u \in vpStored'[r] : DayKey(r, u) = p}
    BY <1>3, <1>4, <1>7, SessionsGrow
  <2>2. CASE r = s
    <3>1. file[s] = Rebuilt(s, vpClock, stored, Loaded[s])
      BY <1>4 DEF Files
    <3>2. Loaded[s][p] \subseteq {u \in stored : DayKey(s, u) = p}
      BY <1>3, <2>1, <2>2
    <3> HIDE DEF stored, file
    <3>3. Rebuilt(s, vpClock, stored, Loaded[s])[p] \subseteq {u \in stored : DayKey(s, u) = p}
      BY <1>1, <1>4, <1>7, <3>2, RebuiltNames
    <3> QED
      BY <1>3, <2>2, <3>1, <3>3
  <2>3. CASE r # s
    <3>1. file[r] = Loaded[r]
      BY <1>4, <2>3 DEF Files
    <3> QED
      BY <2>1, <3>1
  <2> QED
    BY <2>2, <2>3
<1>8. vpBuild' = vpBuild \/ vpBuild' = [vpBuild EXCEPT ![s] = [pc |-> "built", file |-> file]]
  BY DEF VpBar
<1> HIDE DEF file, stored
<1>9. /\ vpBuild' \in [VpSymbols -> [pc : {"idle", "built", "saving"}, file : Files]]
      /\ \A r \in VpSymbols : vpBuild'[r].file \in {vpBuild[r].file, file}
  BY <1>6, <1>8 DEF VpTypes
<1>10. VpTypes'
  BY <1>0, <1>2, <1>9 DEF VpTypes
<1>11. ASSUME NEW r \in VpSymbols PROVE Sessions(vpBuild[r].file)' \/ vpBuild'[r].file = file
  <2>1. vpBuild[r].file \in Files /\ Sessions(vpBuild[r].file)
    BY DEF VpTypes, SessionsInv
  <2>2. CASE vpBuild'[r].file = vpBuild[r].file
    BY <1>3, <2>1, <2>2, SessionsGrow DEF Sessions
  <2> QED
    BY <1>9, <2>2
<1>12. ASSUME NEW r \in VpSymbols PROVE Sessions(vpBuild[r].file)'
  BY <1>7, <1>11 DEF Sessions
<1>13. Sessions(vpFile)'
  <2>1. vpFile \in Files /\ Sessions(vpFile)
    BY DEF VpTypes, SessionsInv
  <2> QED
    BY <1>0, <1>3, <2>1, SessionsGrow DEF Sessions
<1> QED
  BY <1>10, <1>12, <1>13 DEF SessionsInv

LEMMA VpCrashStep ==
  ASSUME VpTypes, SessionsInv, VpCrash PROVE VpTypes' /\ SessionsInv'
<1>1. /\ vpFile' = [s \in VpSymbols |-> Rebuilt(s, vpClock, vpStored[s], Loaded[s])]
      /\ vpBuild' = [s \in VpSymbols |-> NoBuild]
      /\ vpClock' = vpClock /\ vpStored' = vpStored
  BY DEF VpCrash
<1>2. Loaded \in Files /\ Sessions(Loaded)
  BY LoadedFile
<1>3. ASSUME NEW s \in VpSymbols
      PROVE  /\ vpStored[s] \in SUBSET Nat /\ Loaded[s] \in [Periods -> SUBSET Nat]
             /\ Rebuilt(s, vpClock, vpStored[s], Loaded[s]) \in [Periods -> SUBSET Nat]
  <2>1. vpStored[s] \in SUBSET Nat /\ Loaded[s] \in [Periods -> SUBSET Nat]
    BY <1>2 DEF VpTypes, Files
  <2> QED
    BY <2>1, RebuiltTyped
<1>4. vpFile' \in Files
  BY <1>1, <1>3 DEF Files
<1>5. VpTypes'
  BY <1>1, <1>4, Empties DEF VpTypes, NoBuild
<1>6. ASSUME NEW s \in VpSymbols, NEW p \in Periods, p[1] = "day"
      PROVE  vpFile'[s][p] \subseteq {t \in vpStored[s] : DayKey(s, t) = p}
  <2>1. Loaded[s][p] \subseteq {t \in vpStored[s] : DayKey(s, t) = p}
    BY <1>2, <1>6 DEF Sessions
  <2> QED
    BY <1>1, <1>3, <1>6, <2>1, RebuiltNames
<1>7. SessionsInv'
  BY <1>1, <1>6 DEF SessionsInv, Sessions, NoBuild, NoProfiles
<1> QED
  BY <1>5, <1>7

LEMMA VpTyped == VpTypes /\ SessionsInv /\ [VpNext]_vpVars => VpTypes' /\ SessionsInv'
<1> SUFFICES ASSUME VpTypes, SessionsInv, [VpNext]_vpVars PROVE VpTypes' /\ SessionsInv'
  OBVIOUS
<1>1. CASE VpTick
  <2>1. vpClock' = vpClock + 1 /\ UNCHANGED <<vpStored, vpFile, vpBuild>> /\ vpClock \in Nat
    BY <1>1 DEF VpTick, VpTypes
  <2>2. 1..vpClock \subseteq 1..(vpClock + 1)
    BY <2>1
  <2>3. VpTypes'
    BY <2>1, <2>2 DEF VpTypes
  <2> QED
    BY <2>1, <2>3 DEF SessionsInv, Sessions
<1>2. ASSUME NEW s \in VpSymbols, VpTruncate(s) PROVE VpTypes' /\ SessionsInv'
  <2>1. /\ UNCHANGED <<vpClock, vpStored, vpFile>>
        /\ vpBuild' \in [VpSymbols -> [pc : {"idle", "built", "saving"}, file : Files]]
        /\ \A r \in VpSymbols : vpBuild'[r].file = vpBuild[r].file
    BY <1>2 DEF VpTruncate, VpTypes
  <2> QED
    BY <2>1 DEF VpTypes, SessionsInv, Sessions
<1>3. ASSUME NEW s \in VpSymbols, VpSave(s) PROVE VpTypes' /\ SessionsInv'
  <2>1. /\ UNCHANGED <<vpClock, vpStored>> /\ vpFile' = vpBuild[s].file
        /\ vpBuild' \in [VpSymbols -> [pc : {"idle", "built", "saving"}, file : Files]]
        /\ \A r \in VpSymbols : vpBuild'[r].file \in {vpBuild[r].file, NoBuild.file}
    BY <1>3, Empties DEF VpSave, VpTypes, NoBuild
  <2>2. Sessions(NoBuild.file)
    BY DEF Sessions, NoBuild, NoProfiles
  <2>3. VpTypes'
    BY <2>1 DEF VpTypes
  <2> QED
    BY <2>1, <2>2, <2>3 DEF SessionsInv, Sessions
<1>4. CASE VpSecond \/ UNCHANGED vpVars
  BY <1>4 DEF VpSecond, vpVars, VpTypes, SessionsInv, Sessions
<1> QED
  BY <1>1, <1>2, <1>3, <1>4, VpBarStep, VpCrashStep DEF VpNext

\* With enough bars of the clock's day a bar newer than all others closes no day.
LEMMA SnapshotIsLate ==
  ASSUME VpTypes, NEW s \in VpSymbols, NEW t \in 1..vpClock, vpStored[s] # {},
         ~SameDay(Max(vpStored[s]), t), EnoughOfToday(vpStored[s] \cup {t})
  PROVE  t < Max(vpStored[s])
<1> DEFINE m == Max(vpStored[s])
           today == { u \in vpStored[s] \cup {t} : SameDay(u, vpClock) }
<1>0. vpClock \in Nat /\ vpStored[s] \in SUBSET (1..vpClock) /\ Day \in Nat \ {0}
  BY VpAssumption DEF VpTypes
<1>1. m \in vpStored[s] /\ (\A u \in vpStored[s] : u <= m) /\ m \in 1..vpClock
  BY <1>0, MaxStands
<1>2. ~SameDay(m, t)
  OBVIOUS
<1>3. MinDaily <= Cardinality(today) /\ MinDaily \in Nat /\ 2 <= MinDaily
  BY VpAssumption DEF EnoughOfToday
<1> HIDE DEF m
<1> SUFFICES ASSUME ~(t < m) PROVE FALSE
  BY DEF m
<1>4. m < t
  BY <1>1, <1>2 DEF SameDay
<1>5. m \div Day < t \div Day /\ t \div Day <= vpClock \div Day
  <2>1. m \div Day <= t \div Day /\ m \div Day \in Int /\ t \div Day \in Int
    BY <1>0, <1>1, <1>4, QuotientGrows
  <2>2. t \div Day <= vpClock \div Day
    BY <1>0, QuotientGrows
  <2> QED
    BY <1>2, <2>1, <2>2 DEF SameDay
<1>6. ASSUME NEW u \in vpStored[s], SameDay(u, vpClock) PROVE FALSE
  <2>1. u \div Day <= m \div Day /\ u \div Day \in Int /\ m \div Day \in Int
    BY <1>0, <1>1, QuotientGrows
  <2>2. t \div Day \in Int /\ vpClock \div Day \in Int
    BY <1>0, QuotientGrows
  <2> QED
    BY <1>5, <1>6, <2>1, <2>2 DEF SameDay
<1>7. today \subseteq {t}
  BY <1>6
<1>8. IsFiniteSet({t}) /\ Cardinality({t}) = 1
  BY FS_Singleton
<1>9. Cardinality(today) <= 1 /\ Cardinality(today) \in Nat
  BY <1>7, <1>8, FS_Subset, FS_CardinalityType
<1> QED
  BY <1>3, <1>9

\* A bar that is on time snapshots because a week turned, and is the first of its week.
LEMMA OnTimeIsFirst ==
  ASSUME VpTypes, RowsInv, NEW s \in VpSymbols, NEW t \in 1..vpClock, vpStored[s] # {},
         Max(vpStored[s]) < t, Snapped(Max(vpStored[s]), t, vpStored[s] \cup {t})
  PROVE  /\ WeekNum(Max(vpStored[s])) # WeekNum(t)
         /\ \A q \in vpRows : q.sym = s => WeekNum(q.at) # WeekNum(t)
<1> DEFINE m == Max(vpStored[s])
<1>0. /\ vpClock \in Nat /\ vpStored[s] \in SUBSET (1..vpClock)
      /\ Week \in Nat \ {0} /\ Thursday \in Int
  BY VpAssumption DEF VpTypes
<1>1. m \in vpStored[s] /\ (\A u \in vpStored[s] : u <= m) /\ m \in 1..vpClock
  BY <1>0, MaxStands
<1>2. ~(t < m)
  BY <1>0, <1>1
<1>3. WeekNum(m) # WeekNum(t)
  BY <1>2, SnapshotIsLate DEF Snapped
<1> HIDE DEF m
<1>4. WeekNum(m) <= WeekNum(t) /\ WeekNum(m) \in Int /\ WeekNum(t) \in Int
  <2>1. m - Thursday \in Int /\ t - Thursday \in Int /\ m - Thursday <= t - Thursday
    BY <1>0, <1>1, <1>2
  <2> QED
    BY <1>0, <2>1, QuotientGrows DEF WeekNum
<1>5. ASSUME NEW q \in vpRows, q.sym = s PROVE WeekNum(q.at) # WeekNum(t)
  <2>1. q.at \in vpStored[s] /\ q.at <= m /\ q.at \in Int
    BY <1>0, <1>1, <1>5 DEF RowsInv
  <2>2. q.at - Thursday \in Int /\ m - Thursday \in Int /\ q.at - Thursday <= m - Thursday
    BY <1>0, <1>1, <2>1
  <2>3. WeekNum(q.at) <= WeekNum(m) /\ WeekNum(q.at) \in Int
    BY <1>0, <2>2, QuotientGrows DEF WeekNum
  <2> QED
    BY <1>3, <1>4, <2>3
<1> QED
  BY <1>3, <1>5 DEF m

LEMMA RowAdded ==
  ASSUME VpTypes, RowsInv, RaisesOnceAWeek, NEW s \in VpSymbols, NEW t \in Times, VpBar(s, t)
  PROVE  RowsInv' /\ RaisesOnceAWeek'
<1> DEFINE prev == IF vpStored[s] = {} THEN 0 ELSE Max(vpStored[s])
           stored == vpStored[s] \cup {t}
           row == [sym |-> s, at |-> t, prev |-> prev]
<1>1. vpRows' = vpRows \/ (Snapped(prev, t, stored) /\ vpRows' = vpRows \cup {row})
  BY DEF VpBar
<1>2. /\ t \in 1..vpClock /\ vpStored[s] \in SUBSET (1..vpClock) /\ vpClock \in Nat
      /\ \A r \in VpSymbols : vpStored[r] \subseteq vpStored'[r]
      /\ t \in vpStored'[s]
  BY StoreBar DEF VpTypes
<1>3. CASE vpRows' = vpRows
  BY <1>2, <1>3 DEF RowsInv, RaisesOnceAWeek
<1>4. CASE Snapped(prev, t, stored) /\ vpRows' = vpRows \cup {row}
  <2>1. vpStored[s] # {} /\ prev = Max(vpStored[s])
    BY <1>4 DEF Snapped
  <2>2. prev \in Nat
    <3>1. Max(vpStored[s]) \in vpStored[s]
      BY <1>2, <2>1, MaxStands
    <3>2. Max(vpStored[s]) \in 1..vpClock
      BY <1>2, <3>1
    <3> QED
      BY <1>2, <2>1, <3>2
  <2>3. OnTime(row) => /\ WeekNum(prev) # WeekNum(t)
                       /\ \A q \in vpRows : q.sym = s => WeekNum(q.at) # WeekNum(t)
    BY <1>2, <1>4, <2>1, OnTimeIsFirst DEF OnTime
  <2>4. row.sym = s /\ row.at = t /\ row.prev = prev
    OBVIOUS
  <2> HIDE DEF row, prev, stored
  <2>5. RowsInv'
    BY <1>2, <1>4, <2>2, <2>4 DEF RowsInv
  <2>6. ASSUME NEW r \in vpRows', OnTime(r)
        PROVE  /\ WeekNum(r.prev) # WeekNum(r.at)
               /\ \A q \in vpRows' :
                     OnTime(q) /\ q.sym = r.sym /\ WeekNum(q.at) = WeekNum(r.at) => q = r
    <3>1. CASE r = row
      BY <1>4, <2>3, <2>4, <2>6, <3>1
    <3>2. CASE r \in vpRows
      BY <1>4, <2>3, <2>4, <2>6, <3>2 DEF RaisesOnceAWeek
    <3> QED
      BY <1>4, <3>1, <3>2
  <2>7. RaisesOnceAWeek'
    BY <2>6 DEF RaisesOnceAWeek, OnTime, WeekNum
  <2> QED
    BY <2>5, <2>7
<1> QED
  BY <1>1, <1>3, <1>4

LEMMA RowsStep ==
  VpTypes /\ RowsInv /\ RaisesOnceAWeek /\ [VpNext]_vpVars => RowsInv' /\ RaisesOnceAWeek'
<1> SUFFICES ASSUME VpTypes, RowsInv, RaisesOnceAWeek, [VpNext]_vpVars
             PROVE  RowsInv' /\ RaisesOnceAWeek'
  OBVIOUS
<1>1. CASE UNCHANGED <<vpRows, vpStored>>
  BY <1>1 DEF RowsInv, RaisesOnceAWeek, OnTime, WeekNum
<1>2. ASSUME NEW s \in VpSymbols, VpTruncate(s) \/ VpSave(s) PROVE UNCHANGED <<vpRows, vpStored>>
  BY <1>2 DEF VpTruncate, VpSave
<1>3. ASSUME VpTick \/ VpSecond \/ VpCrash \/ UNCHANGED vpVars
      PROVE  UNCHANGED <<vpRows, vpStored>>
  BY <1>3 DEF VpTick, VpSecond, VpCrash, vpVars
<1> QED
  BY <1>1, <1>2, <1>3, RowAdded DEF VpNext

\* The bounds a build cuts a session at agree with the name readers ask for, and the snapshot
\* raises for bars that come late, or once a week for the first that is on time after a
\* Thursday began: for any anchors and any order of late bars, builds that overlap, torn
\* files and crashes.
THEOREM ProfilesStayInSession == BarSpec => []ProfilesOfTheirSession
<1> DEFINE Inv == VpTypes /\ SessionsInv /\ RowsInv /\ RaisesOnceAWeek
<1>1. BarInit => Inv
  BY VpStart DEF BarInit
<1>2. [BarNext]_barVars => [VpNext]_vpVars
  BY DEF BarNext, Others, barVars, Parts
<1>3. Inv /\ [BarNext]_barVars => Inv'
  BY <1>2, VpTyped, RowsStep
<1>4. Inv => ProfilesOfTheirSession
  BY DEF ProfilesOfTheirSession, ProfileOfItsSession, SessionsInv, Sessions
<1> HIDE DEF Inv
<1> QED
  BY <1>1, <1>3, <1>4, PTL DEF BarSpec

-----------------------------------------------------------------------------
(***************************************************************************)
(* The sweep registry.  The live route is through with all bars but perhaps  *)
(* the newest (DoneBars).  An event that only its primary ticks have touched *)
(* is as old as the bars behind it, so that the one tick that judges it is   *)
(* that of the next bar; and a close beyond its level at the end of those    *)
(* bars is on its count, so that the next one makes two.                     *)
(***************************************************************************)
EventFields == {"type", "level", "label", "close", "ok", "deep", "age", "pattern", "class",
                "fails", "src", "tf", "judged", "by"}
\* The last bar the live route is through with.
DoneBars == IF live.pc = "idle" THEN Len(tape) ELSE Len(tape) - 1
Alive(e) == "backfill" \notin e.by \cup {e.tf}

\* What is known of every event.
EventInv ==
    \A e \in registry :
        /\ DOMAIN e = EventFields /\ e.age \in Int /\ e.fails \in Nat
        /\ Alive(e) => e.src \in 1..Len(tape)

\* An event of the primary route that it alone has ticked is as old as the bars since.
AgeInv ==
    \A e \in registry : e.tf = "primary" /\ e.by \subseteq {"primary"} =>
        /\ e.age = DoneBars - e.src
        /\ e.judged \in {0, e.src + 1}

\* No two closes beyond a level lie behind the live route, and one at its end is counted.
CloseInv ==
    \A e \in registry : Alive(e) =>
        /\ \A k \in 2..DoneBars :
               e.src < k - 1 => ~(Beyond(e, tape[k - 1].c) /\ Beyond(e, tape[k].c))
        /\ (/\ e.src < DoneBars /\ Beyond(e, tape[DoneBars].c)
            /\ live.pc = "idle" \/ Beyond(e, tape[Len(tape)].c))
               => e.fails >= 1

\* What the log holds of the backfill's frame is known to it, or was added beside it.
LogTypes == [at : Int, tf : Frames, by : {"live", "backfill"}, life : Nat]
LogInv ==
    /\ sweepLog \in Seq(LogTypes)
    /\ back.pc \in {"detect", "tick"} =>
         \A i \in 1..Len(sweepLog) : sweepLog[i].tf = back.tf =>
            \/ sweepLog[i].at \in back.known
            \/ sweepLog[i].by = "live" /\ sweepLog[i].life = starts

HandlerInv ==
    /\ tape \in Seq(Shapes) /\ starts \in Nat
    /\ DOMAIN live = {"pc", "sig"} /\ DOMAIN asked = {"on", "n"}
    /\ tape # <<>> \/ (live.pc = "idle" /\ ~asked.on)
    /\ DOMAIN back = {"pc", "tf", "n", "i", "known", "sig"}
    /\ back.tf \in Frames /\ back.i \in Nat

SweepInv ==
    HandlerInv /\ EventInv /\ AgeInv /\ CloseInv /\ LogInv /\ OneEventPerLevel /\ BackfillLogsOnce

\* An event just registered.
FreshEvent(e, src, tf) ==
    /\ DOMAIN e = EventFields
    /\ e.age = -1 /\ e.fails = 0 /\ e.judged = 0 /\ e.by = {} /\ e.src = src /\ e.tf = tf

OneEach(reg) == \A e, f \in reg : e.level = f.level /\ e.label = f.label => e = f

LEMMA EventIsFresh ==
  ASSUME NEW sig, NEW src, NEW tf
  PROVE  /\ FreshEvent(Event(sig, src, tf), src, tf)
         /\ Event(sig, src, tf).level = sig.level /\ Event(sig, src, tf).label = sig.label
  BY DEF Event, FreshEvent, EventFields, FirstAge

LEMMA RegisterKeeps ==
  ASSUME NEW reg, NEW sig, NEW src, NEW tf
  PROVE  /\ \A e \in Register(reg, sig, src, tf) : e \in reg \/ FreshEvent(e, src, tf)
         /\ OneEach(reg) => OneEach(Register(reg, sig, src, tf))
  BY EventIsFresh DEF Register, OneEach, Elsewhere

LEMMA DetectedKeeps ==
  ASSUME NEW reg, NEW candle, NEW levels, NEW prev, NEW src, NEW tf, NEW new,
         new = Detected(reg, candle, levels, prev, src, tf).reg
  PROVE  /\ \A e \in new : e \in reg \/ FreshEvent(e, src, tf)
         /\ OneEach(reg) => OneEach(new)
<1> DEFINE best == BestSweep(candle, levels)
           engulf == IF prev = <<>> THEN NoSweep ELSE Engulf(candle, Last(prev))
           once == Register(reg, best, src, tf)
           twice == Register(once, engulf, src, tf)
<1>1. new = reg \/ new = twice
  BY DEF Detected, Both
<1> HIDE DEF best, engulf
<1>2. /\ \A e \in once : e \in reg \/ FreshEvent(e, src, tf)
      /\ OneEach(reg) => OneEach(once)
  BY RegisterKeeps
<1> HIDE DEF once
<1>3. /\ \A e \in twice : e \in once \/ FreshEvent(e, src, tf)
      /\ OneEach(once) => OneEach(twice)
  BY RegisterKeeps
<1> HIDE DEF twice
<1> QED
  BY <1>1, <1>2, <1>3

\* What a tick does to an event.
LEMMA AgedFields ==
  ASSUME NEW e, DOMAIN e = EventFields, NEW close, NEW at, NEW by, NEW f,
         f = Aged(e, close, at, by)
  PROVE  /\ DOMAIN f = EventFields
         /\ f.type = e.type /\ f.level = e.level /\ f.label = e.label
         /\ f.src = e.src /\ f.tf = e.tf
         /\ f.age = e.age + 1 /\ f.by = e.by \cup {by} /\ f.fails = Fails(e, close)
         /\ f.judged = e.judged \/ (f.judged = at /\ e.age + 1 = 1)
<1> DEFINE one == [e EXCEPT !.age = @ + 1, !.by = @ \cup {by}, !.fails = Fails(e, close)]
           pattern == IF Reclaims(e, close) THEN "reclaim"
                      ELSE IF Beyond(e, close) THEN "acceptance" ELSE ""
           graded == [one EXCEPT !.pattern = pattern, !.judged = at,
                                 !.class = IF @ = "" THEN Class(e, pattern) ELSE @]
<1>1. /\ DOMAIN one = EventFields
      /\ one.type = e.type /\ one.level = e.level /\ one.label = e.label
      /\ one.src = e.src /\ one.tf = e.tf /\ one.judged = e.judged
      /\ one.age = e.age + 1 /\ one.by = e.by \cup {by} /\ one.fails = Fails(e, close)
  BY DEF EventFields
<1>2. f = one \/ (f = graded /\ e.age + 1 = 1)
  BY DEF Aged, JudgedAt
<1> HIDE DEF one, pattern
<1>3. /\ DOMAIN graded = EventFields
      /\ graded.type = one.type /\ graded.level = one.level /\ graded.label = one.label
      /\ graded.src = one.src /\ graded.tf = one.tf /\ graded.judged = at
      /\ graded.age = one.age /\ graded.by = one.by /\ graded.fails = one.fails
  BY <1>1 DEF EventFields
<1> HIDE DEF graded
<1> QED
  BY <1>1, <1>2, <1>3

LEMMA TickedKeeps ==
  ASSUME NEW reg, \A e \in reg : DOMAIN e = EventFields,
         NEW close, NEW at, NEW by, NEW new, new = Ticked(reg, close, at, by)
  PROVE  /\ \A f \in new : \E e \in reg : f = Aged(e, close, at, by) /\ f.fails < 2
         /\ OneEach(reg) => OneEach(new)
<1>1. \A f \in new : \E e \in reg : f = Aged(e, close, at, by) /\ f.fails < 2
  BY DEF Ticked, Stays
<1>2. ASSUME OneEach(reg), NEW f \in new, NEW g \in new, f.level = g.level, f.label = g.label
      PROVE  f = g
  <2>1. PICK d \in reg : f = Aged(d, close, at, by)
    BY <1>1
  <2>2. PICK e \in reg : g = Aged(e, close, at, by)
    BY <1>1
  <2>3. f.level = d.level /\ f.label = d.label /\ g.level = e.level /\ g.label = e.label
    BY <2>1, <2>2, AgedFields
  <2> QED
    BY <2>1, <2>2, <2>3, <1>2 DEF OneEach
<1> QED
  BY <1>1, <1>2 DEF OneEach

\* A detection on the newest bar, or of the backfill, while the live route stays as far.
LEMMA DetectStep ==
  ASSUME SweepInv, NEW candle, NEW levels, NEW prev, NEW src, NEW tf,
         registry' = Detected(registry, candle, levels, prev, src, tf).reg,
         UNCHANGED tape, (live'.pc = "idle") <=> (live.pc = "idle"),
         tf # "backfill" => src = Len(tape) /\ tape # <<>>,
         tf = "primary" => live.pc # "idle"
  PROVE  EventInv' /\ AgeInv' /\ CloseInv' /\ OneEventPerLevel'
<1> DEFINE new == registry'
<1>1. /\ \A e \in new : e \in registry \/ FreshEvent(e, src, tf)
      /\ OneEach(registry) => OneEach(new)
  BY DetectedKeeps
<1>2. OneEventPerLevel'
  BY <1>1 DEF SweepInv, OneEventPerLevel, OneEach
<1>3. DoneBars' = DoneBars
  BY DEF DoneBars
<1>4. Len(tape) \in Nat /\ (tf # "backfill" => Len(tape) \in 1..Len(tape))
  BY LenProperties, EmptySeq DEF SweepInv, HandlerInv
<1>5. DoneBars <= Len(tape) /\ DoneBars \in Int /\ (tf = "primary" => DoneBars = Len(tape) - 1)
  BY <1>4 DEF DoneBars
<1>6. ASSUME NEW e \in new, FreshEvent(e, src, tf)
      PROVE  /\ DOMAIN e = EventFields /\ e.age \in Int /\ e.fails \in Nat
             /\ Alive(e) => e.src \in 1..Len(tape)
             /\ e.tf = "primary" => e.age = DoneBars - e.src /\ e.judged = 0
             /\ Alive(e) => e.src = Len(tape)
  BY <1>4, <1>5, <1>6 DEF FreshEvent, Alive
<1>7. EventInv'
  BY <1>1, <1>6 DEF SweepInv, EventInv, Alive
<1>8. AgeInv'
  BY <1>1, <1>3, <1>6 DEF SweepInv, AgeInv
<1>9. CloseInv'
  <2>1. SUFFICES ASSUME NEW e \in new, Alive(e)
                 PROVE  /\ \A k \in 2..DoneBars : e.src < k - 1 =>
                              ~(Beyond(e, tape[k - 1].c) /\ Beyond(e, tape[k].c))
                        /\ (/\ e.src < DoneBars /\ Beyond(e, tape[DoneBars].c)
                            /\ live.pc = "idle" \/ Beyond(e, tape[Len(tape)].c))
                               => e.fails >= 1
    BY <1>3 DEF CloseInv, Alive, Beyond
  <2>2. CASE e \in registry
    BY <2>1, <2>2 DEF SweepInv, CloseInv
  <2>3. CASE FreshEvent(e, src, tf)
    <3>1. e.src = Len(tape)
      BY <1>6, <2>1, <2>3
    <3> QED
      BY <1>4, <1>5, <3>1
  <2> QED
    BY <1>1, <2>1, <2>2, <2>3
<1> QED
  BY <1>2, <1>7, <1>8, <1>9

\* What a tick leaves of the registry, event by event.
LEMMA TickStep ==
  ASSUME SweepInv, NEW close, NEW at, NEW by, registry' = Ticked(registry, close, at, by),
         UNCHANGED tape
  PROVE  /\ \A f \in registry' : \E e \in registry :
               /\ f.src = e.src /\ f.tf = e.tf /\ f.age = e.age + 1 /\ f.by = e.by \cup {by}
               /\ f.fails = Fails(e, close) /\ f.fails < 2
               /\ f.judged = e.judged \/ (f.judged = at /\ e.age + 1 = 1)
               /\ \A c : Beyond(f, c) <=> Beyond(e, c)
         /\ EventInv' /\ OneEventPerLevel'
<1> DEFINE new == registry'
<1>0. \A e \in registry : DOMAIN e = EventFields
  BY DEF SweepInv, EventInv
<1>1. /\ \A f \in new : \E e \in registry : f = Aged(e, close, at, by) /\ f.fails < 2
      /\ OneEach(registry) => OneEach(new)
  BY <1>0, TickedKeeps
<1>2. ASSUME NEW f \in new
      PROVE  \E e \in registry :
               /\ DOMAIN f = EventFields
               /\ f.type = e.type /\ f.level = e.level
               /\ f.src = e.src /\ f.tf = e.tf /\ f.age = e.age + 1 /\ f.by = e.by \cup {by}
               /\ f.fails = Fails(e, close) /\ f.fails < 2
               /\ f.judged = e.judged \/ (f.judged = at /\ e.age + 1 = 1)
  <2>1. PICK e \in registry : f = Aged(e, close, at, by) /\ f.fails < 2
    BY <1>1
  <2> QED
    BY <1>0, <2>1, AgedFields
<1>3. ASSUME NEW f \in new, NEW e, f.type = e.type, f.level = e.level
      PROVE  \A c : Beyond(f, c) <=> Beyond(e, c)
  BY <1>3 DEF Beyond
<1>4. OneEventPerLevel'
  BY <1>1 DEF SweepInv, OneEventPerLevel, OneEach
<1>5. EventInv'
  <2>1. SUFFICES ASSUME NEW f \in new
                 PROVE  /\ DOMAIN f = EventFields /\ f.age \in Int /\ f.fails \in Nat
                        /\ Alive(f) => f.src \in 1..Len(tape)
    BY DEF EventInv, Alive
  <2>2. PICK e \in registry :
               /\ DOMAIN f = EventFields
               /\ f.src = e.src /\ f.tf = e.tf /\ f.age = e.age + 1 /\ f.by = e.by \cup {by}
               /\ f.fails = Fails(e, close)
    BY <1>2
  <2>3. e.age \in Int /\ e.fails \in Nat /\ (Alive(e) => e.src \in 1..Len(tape))
    BY DEF SweepInv, EventInv
  <2> QED
    BY <2>2, <2>3 DEF Fails, Alive
<1> QED
  BY <1>2, <1>3, <1>4, <1>5

\* A tick of the synthetic bar's handler or of a decision, on the newest bar.
LEMMA OtherTick ==
  ASSUME SweepInv, NEW by, by \in {"synth", "decision"}, tape # <<>>,
         registry' = Ticked(registry, Last(tape).c, Len(tape), by),
         UNCHANGED tape, (live'.pc = "idle") <=> (live.pc = "idle")
  PROVE  EventInv' /\ AgeInv' /\ CloseInv' /\ OneEventPerLevel'
<1> DEFINE new == registry'
           close == Last(tape).c
<1>1. /\ \A f \in new : \E e \in registry :
               /\ f.src = e.src /\ f.tf = e.tf /\ f.age = e.age + 1 /\ f.by = e.by \cup {by}
               /\ f.fails = Fails(e, close) /\ f.fails < 2
               /\ f.judged = e.judged \/ (f.judged = Len(tape) /\ e.age + 1 = 1)
               /\ \A c : Beyond(f, c) <=> Beyond(e, c)
      /\ EventInv' /\ OneEventPerLevel'
  BY TickStep
<1>2. AgeInv'
  BY <1>1 DEF AgeInv
<1>3. DoneBars' = DoneBars
  BY DEF DoneBars
<1>4. close = tape[Len(tape)].c
  BY DEF Last
<1> HIDE DEF close
<1>5. CloseInv'
  <2>1. SUFFICES ASSUME NEW f \in new, Alive(f)
                 PROVE  /\ \A k \in 2..DoneBars : f.src < k - 1 =>
                              ~(Beyond(f, tape[k - 1].c) /\ Beyond(f, tape[k].c))
                        /\ (/\ f.src < DoneBars /\ Beyond(f, tape[DoneBars].c)
                            /\ live.pc = "idle" \/ Beyond(f, tape[Len(tape)].c))
                               => f.fails >= 1
    BY <1>3 DEF CloseInv, Alive, Beyond
  <2>2. PICK e \in registry :
               /\ f.src = e.src /\ f.tf = e.tf /\ f.by = e.by \cup {by}
               /\ f.fails = Fails(e, close)
               /\ \A c : Beyond(f, c) <=> Beyond(e, c)
    BY <1>1
  <2>3. Alive(e) /\ e.fails \in Nat
    BY <2>1, <2>2 DEF Alive, SweepInv, EventInv
  <2>4. /\ \A k \in 2..DoneBars : e.src < k - 1 =>
                              ~(Beyond(e, tape[k - 1].c) /\ Beyond(e, tape[k].c))
    BY <2>3 DEF SweepInv, CloseInv
  <2>5. live.pc = "idle" => DoneBars = Len(tape)
    BY DEF DoneBars
  <2>6. Beyond(f, tape[Len(tape)].c) => f.fails >= 1
    BY <1>4, <2>2, <2>3 DEF Fails
  <2> QED
    BY <2>2, <2>4, <2>5, <2>6
<1> QED
  BY <1>1, <1>2, <1>5

\* A tick of the backfill: none of its events is alive after it.
LEMMA BackfillTick ==
  ASSUME SweepInv, NEW close, NEW at, registry' = Ticked(registry, close, at, "backfill"),
         UNCHANGED tape
  PROVE  EventInv' /\ AgeInv' /\ CloseInv' /\ OneEventPerLevel'
<1>1. /\ \A f \in registry' : "backfill" \in f.by
      /\ EventInv' /\ OneEventPerLevel'
  BY TickStep
<1>2. AgeInv'
  BY <1>1 DEF AgeInv
<1>3. CloseInv'
  BY <1>1 DEF CloseInv, Alive
<1> QED
  BY <1>1, <1>2, <1>3

\* The tick of the live route: it is now through with the newest bar.
LEMMA PrimaryTick ==
  ASSUME SweepInv, LiveTick, tape # <<>>
  PROVE  EventInv' /\ AgeInv' /\ CloseInv' /\ OneEventPerLevel'
<1> DEFINE new == registry'
           close == Last(tape).c
<1>0. /\ registry' = Ticked(registry, close, Len(tape), "primary") /\ UNCHANGED tape
      /\ live.pc # "idle" /\ live'.pc = "idle"
  BY DEF LiveTick, Free
<1>1. /\ \A f \in new : \E e \in registry :
               /\ f.src = e.src /\ f.tf = e.tf /\ f.age = e.age + 1 /\ f.by = e.by \cup {"primary"}
               /\ f.fails = Fails(e, close) /\ f.fails < 2
               /\ f.judged = e.judged \/ (f.judged = Len(tape) /\ e.age + 1 = 1)
               /\ \A c : Beyond(f, c) <=> Beyond(e, c)
      /\ EventInv' /\ OneEventPerLevel'
  BY <1>0, TickStep
<1>2. close = tape[Len(tape)].c
  BY DEF Last
<1> HIDE DEF close
<1>3. Len(tape) \in Nat \ {0}
  BY LenProperties, EmptySeq DEF SweepInv, HandlerInv
<1>4. DoneBars = Len(tape) - 1 /\ DoneBars' = Len(tape)
  BY <1>0 DEF DoneBars
<1>5. \A e \in registry : /\ e.age \in Int /\ e.fails \in Nat
                          /\ Alive(e) => e.src \in 1..Len(tape)
  BY DEF SweepInv, EventInv
<1>6. AgeInv'
  <2>1. SUFFICES ASSUME NEW f \in new, f.tf = "primary", f.by \subseteq {"primary"}
                 PROVE  f.age = Len(tape) - f.src /\ f.judged \in {0, f.src + 1}
    BY <1>4 DEF AgeInv
  <2>2. PICK e \in registry :
               /\ f.src = e.src /\ f.tf = e.tf /\ f.age = e.age + 1 /\ f.by = e.by \cup {"primary"}
               /\ f.judged = e.judged \/ (f.judged = Len(tape) /\ e.age + 1 = 1)
    BY <1>1
  <2>3. e.tf = "primary" /\ e.by \subseteq {"primary"}
    BY <2>1, <2>2
  <2>4. e.age = DoneBars - e.src /\ e.judged \in {0, e.src + 1}
    BY <2>3 DEF SweepInv, AgeInv
  <2>5. e.src \in 1..Len(tape) /\ e.age \in Int
    BY <1>5, <2>3 DEF Alive
  <2>6. f.age = Len(tape) - f.src
    BY <1>3, <1>4, <2>2, <2>4, <2>5
  <2>7. e.age + 1 = 1 => Len(tape) = e.src + 1
    BY <1>3, <1>4, <2>4, <2>5
  <2>8. f.judged \in {0, f.src + 1}
    BY <2>2, <2>4, <2>7
  <2> QED
    BY <2>6, <2>8
<1>7. CloseInv'
  <2>1. SUFFICES ASSUME NEW f \in new, Alive(f)
                 PROVE  /\ \A k \in 2..Len(tape) : f.src < k - 1 =>
                              ~(Beyond(f, tape[k - 1].c) /\ Beyond(f, tape[k].c))
                        /\ Beyond(f, tape[Len(tape)].c) => f.fails >= 1
    BY <1>0, <1>4 DEF CloseInv, Alive, Beyond
  <2>2. PICK e \in registry :
               /\ f.src = e.src /\ f.tf = e.tf /\ f.by = e.by \cup {"primary"}
               /\ f.fails = Fails(e, close) /\ f.fails < 2
               /\ \A c : Beyond(f, c) <=> Beyond(e, c)
    BY <1>1
  <2>3. Alive(e) /\ e.fails \in Nat
    BY <1>5, <2>1, <2>2 DEF Alive
  <2>4. Beyond(f, tape[Len(tape)].c) => f.fails = e.fails + 1
    BY <1>2, <2>2 DEF Fails
  <2>5. ASSUME NEW k \in 2..Len(tape), f.src < k - 1, Beyond(f, tape[k - 1].c), Beyond(f, tape[k].c)
        PROVE  FALSE
    <3>1. Beyond(e, tape[k - 1].c) /\ Beyond(e, tape[k].c) /\ e.src < k - 1
      BY <2>2, <2>5
    <3>2. CASE k \in 2..DoneBars
      BY <2>3, <3>1, <3>2 DEF SweepInv, CloseInv
    <3>3. CASE k = Len(tape)
      <4>1. e.fails >= 1
        BY <1>4, <2>3, <3>1, <3>3 DEF SweepInv, CloseInv
      <4> QED
        BY <2>2, <2>3, <2>4, <2>5, <3>3, <4>1
    <3> QED
      BY <1>3, <1>4, <3>2, <3>3
  <2> QED
    BY <2>3, <2>4, <2>5
<1> QED
  BY <1>1, <1>6, <1>7

\* A new bar: the live route has it before it.
LEMMA NextBar ==
  ASSUME SweepInv, BarCloses
  PROVE  EventInv' /\ AgeInv' /\ CloseInv' /\ OneEventPerLevel' /\ HandlerInv'
<1>1. PICK b \in Shapes : tape' = Append(tape, b)
  BY DEF BarCloses
<1>2. /\ tape \in Seq(Shapes) /\ tape' \in Seq(Shapes)
      /\ Len(tape) \in Nat /\ Len(tape') = Len(tape) + 1
      /\ \A i \in 1..Len(tape) : tape'[i] = tape[i]
  BY <1>1, AppendProperties, LenProperties DEF SweepInv, HandlerInv
<1>9. tape' # <<>>
  BY <1>2, EmptySeq
<1>3. live.pc = "idle" /\ live'.pc # "idle" /\ DOMAIN live' = {"pc", "sig"} /\ registry' = registry
  BY DEF BarCloses, SweepInv, HandlerInv
<1>4. DoneBars = Len(tape) /\ DoneBars' = Len(tape)
  BY <1>2, <1>3 DEF DoneBars
<1>5. HandlerInv'
  BY <1>2, <1>3, <1>9 DEF SweepInv, HandlerInv, BarCloses
<1>6. EventInv' /\ OneEventPerLevel'
  BY <1>2, <1>3 DEF SweepInv, EventInv, Alive, OneEventPerLevel
<1>7. AgeInv'
  BY <1>3, <1>4 DEF SweepInv, AgeInv
<1>8. CloseInv'
  <2>1. SUFFICES ASSUME NEW e \in registry, Alive(e)
                 PROVE  /\ \A k \in 2..Len(tape) : e.src < k - 1 =>
                              ~(Beyond(e, tape'[k - 1].c) /\ Beyond(e, tape'[k].c))
                        /\ e.src < Len(tape) /\ Beyond(e, tape'[Len(tape)].c) => e.fails >= 1
    BY <1>3, <1>4 DEF CloseInv, Alive, Beyond
  <2>2. e.src \in 1..Len(tape)
    BY <2>1 DEF SweepInv, EventInv
  <2>3. /\ \A k \in 2..Len(tape) : e.src < k - 1 =>
                              ~(Beyond(e, tape[k - 1].c) /\ Beyond(e, tape[k].c))
        /\ e.src < Len(tape) /\ Beyond(e, tape[Len(tape)].c) => e.fails >= 1
    BY <1>3, <1>4, <2>1 DEF SweepInv, CloseInv
  <2>4. \A k \in 2..Len(tape) : tape'[k] = tape[k] /\ tape'[k - 1] = tape[k - 1]
    BY <1>2
  <2>5. e.src < Len(tape) => tape'[Len(tape)] = tape[Len(tape)]
    BY <1>2, <2>2
  <2> QED
    BY <2>3, <2>4, <2>5
<1> QED
  BY <1>5, <1>6, <1>7, <1>8

\* What an entry adds to the log.
LEMMA LogGrows ==
  ASSUME sweepLog \in Seq(LogTypes), starts \in Nat,
         NEW sig, NEW at \in Int, NEW tf \in Frames, NEW by \in {"live", "backfill"},
         NEW new, new = Logged(sweepLog, sig, at, tf, by)
  PROVE  /\ new \in Seq(LogTypes)
         /\ Len(new) >= Len(sweepLog) /\ \A i \in 1..Len(sweepLog) : new[i] = sweepLog[i]
         /\ \A i \in 1..Len(new) : i \notin 1..Len(sweepLog) =>
               /\ i = Len(sweepLog) + 1 /\ sig.type # "none"
               /\ new[i].at = at /\ new[i].tf = tf /\ new[i].by = by /\ new[i].life = starts
<1> DEFINE entry == [at |-> at, tf |-> tf, by |-> by, life |-> starts]
<1>1. entry \in LogTypes
  BY DEF LogTypes
<1>2. Len(sweepLog) \in Nat
  BY LenProperties
<1>3. CASE sig.type = "none"
  BY <1>2, <1>3 DEF Logged
<1>4. CASE sig.type # "none"
  <2>1. new = Append(sweepLog, entry)
    BY <1>4 DEF Logged
  <2> HIDE DEF entry
  <2>2. /\ new \in Seq(LogTypes) /\ Len(new) = Len(sweepLog) + 1
        /\ new[Len(sweepLog) + 1] = entry
        /\ \A i \in 1..Len(sweepLog) : new[i] = sweepLog[i]
    BY <1>1, <2>1, AppendProperties
  <2> QED
    BY <1>2, <1>4, <2>2 DEF entry
<1> QED
  BY <1>3, <1>4

\* An entry of the live route never repeats a backfill's.
LEMMA LiveEntry ==
  ASSUME SweepInv, NEW sig, NEW tf \in Frames,
         sweepLog' = Logged(sweepLog, sig, Len(tape), tf, "live"), UNCHANGED <<back, starts>>
  PROVE  LogInv' /\ BackfillLogsOnce'
<1>0. PICK new : new = sweepLog'
  OBVIOUS
<1>1. sweepLog \in Seq(LogTypes) /\ Len(sweepLog) \in Nat /\ starts \in Nat /\ Len(tape) \in Int
  BY LenProperties DEF SweepInv, LogInv, HandlerInv
<1>2. /\ new \in Seq(LogTypes)
      /\ Len(new) >= Len(sweepLog) /\ \A i \in 1..Len(sweepLog) : new[i] = sweepLog[i]
      /\ \A i \in 1..Len(new) : i \notin 1..Len(sweepLog) =>
               /\ i = Len(sweepLog) + 1 /\ sig.type # "none"
               /\ new[i].at = Len(tape) /\ new[i].tf = tf /\ new[i].by = "live" /\ new[i].life = starts
  <2>1. new = Logged(sweepLog, sig, Len(tape), tf, "live")
    BY <1>0
  <2>2. "live" \in {"live", "backfill"}
    OBVIOUS
  <2> QED
    BY <1>1, <2>1, <2>2, LogGrows
<1>3. Len(new) \in Nat /\ DOMAIN new = 1..Len(new) /\ DOMAIN sweepLog = 1..Len(sweepLog)
  BY <1>1, <1>2, LenProperties
<1>4. \A i \in 1..Len(new) : i \notin 1..Len(sweepLog) => new[i].by = "live" /\ new[i].life = starts
  BY <1>2
<1>5. LogInv'
  BY <1>0, <1>2, <1>4 DEF SweepInv, LogInv
<1>6. BackfillLogsOnce'
  <2>1. SUFFICES ASSUME NEW i \in 1..Len(new), NEW j \in 1..Len(new), i < j,
                        new[i].at = new[j].at, new[i].tf = new[j].tf, new[j].by = "backfill"
                 PROVE  new[i].by = "live" /\ new[i].life = new[j].life
    BY <1>0, <1>3 DEF BackfillLogsOnce
  <2>2. j \in 1..Len(sweepLog)
    BY <1>4, <2>1
  <2>3. i \in 1..Len(sweepLog)
    BY <1>1, <2>1, <2>2
  <2> QED
    BY <1>2, <1>3, <2>1, <2>2, <2>3 DEF SweepInv, BackfillLogsOnce
<1> QED
  BY <1>5, <1>6

\* The backfill adds what it does not know.
LEMMA BackfillEntry ==
  ASSUME SweepInv, BackTick
  PROVE  HandlerInv' /\ LogInv' /\ BackfillLogsOnce'
<1>0. PICK new : new = sweepLog'
  OBVIOUS
<1>a. PICK at : at = ClosesAt(back.tf, back.i)
  OBVIOUS
<1>1. sweepLog \in Seq(LogTypes) /\ Len(sweepLog) \in Nat /\ starts \in Nat
  BY LenProperties DEF SweepInv, LogInv, HandlerInv
<1>2. at \in Int /\ back.i \in Nat /\ back.tf \in Frames
  BY <1>a, SweepAssumption DEF SweepInv, HandlerInv, ClosesAt
<1>3. /\ new = sweepLog \/ (at \notin back.known /\ new = Logged(sweepLog, back.sig, at, back.tf, "backfill"))
      /\ back.pc = "tick" /\ back'.tf = back.tf /\ back'.i = back.i + 1
      /\ DOMAIN back' = {"pc", "tf", "n", "i", "known", "sig"}
      /\ back'.known = (IF back.sig.type = "none" THEN back.known ELSE back.known \cup {at})
      /\ UNCHANGED <<tape, live, asked, starts>>
  BY <1>0, <1>a DEF BackTick, IsKnown, SweepInv, HandlerInv
<1>4. HandlerInv'
  BY <1>2, <1>3 DEF SweepInv, HandlerInv
<1>5. \A i \in 1..Len(sweepLog) : sweepLog[i].tf = back.tf =>
            \/ sweepLog[i].at \in back.known
            \/ sweepLog[i].by = "live" /\ sweepLog[i].life = starts
  BY <1>3 DEF SweepInv, LogInv
<1>6. DOMAIN sweepLog = 1..Len(sweepLog)
  BY <1>1, LenProperties
<1>7. CASE new = sweepLog
  BY <1>0, <1>1, <1>3, <1>4, <1>5, <1>7 DEF LogInv, BackfillLogsOnce, SweepInv
<1>8. CASE at \notin back.known /\ new = Logged(sweepLog, back.sig, at, back.tf, "backfill")
  <2>1. /\ new \in Seq(LogTypes)
        /\ Len(new) >= Len(sweepLog) /\ \A i \in 1..Len(sweepLog) : new[i] = sweepLog[i]
        /\ \A i \in 1..Len(new) : i \notin 1..Len(sweepLog) =>
               /\ i = Len(sweepLog) + 1 /\ back.sig.type # "none"
               /\ new[i].at = at /\ new[i].tf = back.tf /\ new[i].by = "backfill" /\ new[i].life = starts
    <3>1. "backfill" \in {"live", "backfill"}
      OBVIOUS
    <3> QED
      BY <1>1, <1>2, <1>8, <3>1, LogGrows
  <2>2. Len(new) \in Nat /\ DOMAIN new = 1..Len(new)
    BY <2>1, LenProperties
  <2>3. \A i \in 1..Len(new) : i \notin 1..Len(sweepLog) =>
               /\ i = Len(sweepLog) + 1 /\ back.sig.type # "none" /\ new[i].at = at
               /\ new[i].tf = back.tf /\ new[i].life = starts
    BY <2>1
  <2>4. LogInv'
    BY <1>0, <1>3, <1>5, <2>1, <2>3 DEF LogInv
  <2>5. BackfillLogsOnce'
    <3>1. SUFFICES ASSUME NEW i \in 1..Len(new), NEW j \in 1..Len(new), i < j,
                          new[i].at = new[j].at, new[i].tf = new[j].tf, new[j].by = "backfill"
                   PROVE  new[i].by = "live" /\ new[i].life = new[j].life
      BY <1>0, <2>2 DEF BackfillLogsOnce
    <3>2. CASE j \in 1..Len(sweepLog)
      <4>1. i \in 1..Len(sweepLog)
        BY <1>1, <3>1, <3>2
      <4> QED
        BY <1>6, <2>1, <3>1, <3>2, <4>1 DEF SweepInv, BackfillLogsOnce
    <3>3. CASE j \notin 1..Len(sweepLog)
      <4>1. /\ j = Len(sweepLog) + 1 /\ new[j].at = at /\ new[j].tf = back.tf
            /\ new[j].life = starts
        BY <2>3, <3>3
      <4>2. i \in 1..Len(sweepLog)
        BY <1>1, <3>1, <4>1
      <4>3. new[i] = sweepLog[i] /\ sweepLog[i].at = at /\ sweepLog[i].tf = back.tf
        BY <2>1, <3>1, <4>1, <4>2
      <4> QED
        BY <1>5, <1>8, <4>1, <4>2, <4>3
    <3> QED
      BY <3>2, <3>3
  <2> QED
    BY <1>4, <2>4, <2>5
<1> QED
  BY <1>3, <1>7, <1>8

LEMMA SweepStart == SweepInit => SweepInv
<1> SUFFICES ASSUME SweepInit PROVE SweepInv
  OBVIOUS
<1>1. tape = <<>> /\ registry = {} /\ sweepLog = <<>> /\ starts = 0
  BY DEF SweepInit
<1>2. Len(sweepLog) = 0 /\ DOMAIN sweepLog = {}
  BY <1>1
<1>3. HandlerInv
  BY <1>1 DEF SweepInit, HandlerInv, Free, NoFill, Frames
<1>4. LogInv
  BY <1>1, <1>2 DEF SweepInit, LogInv, NoFill
<1>5. EventInv /\ AgeInv /\ CloseInv /\ OneEventPerLevel
  BY <1>1 DEF EventInv, AgeInv, CloseInv, OneEventPerLevel
<1>6. BackfillLogsOnce
  BY <1>2 DEF BackfillLogsOnce
<1> QED
  BY <1>3, <1>4, <1>5, <1>6 DEF SweepInv

\* Steps that leave the log, the restarts and the backfill alone.
LEMMA LogRests ==
  ASSUME SweepInv, UNCHANGED <<sweepLog, back, starts>>
  PROVE  LogInv' /\ BackfillLogsOnce'
  BY DEF SweepInv, LogInv, BackfillLogsOnce

LEMMA SweepKeeps == SweepInv /\ [SweepNext]_sweepVars => SweepInv'
<1> SUFFICES ASSUME SweepInv, [SweepNext]_sweepVars PROVE SweepInv'
  OBVIOUS
<1>0. HandlerInv
  BY DEF SweepInv
<1>1. CASE BarCloses
  <2>1. UNCHANGED <<sweepLog, back, starts>>
    BY <1>1 DEF BarCloses
  <2> QED
    BY <1>1, <2>1, NextBar, LogRests DEF SweepInv
<1>2. CASE SynthDetect
  <2>1. PICK candle, levels, prev :
          registry' = Detected(registry, candle, levels, prev, Len(tape), "synth").reg
    BY <1>2 DEF SynthDetect
  <2>2. /\ UNCHANGED <<tape, sweepLog, back, asked, starts>> /\ live.pc = "synth"
        /\ DOMAIN live' = {"pc", "sig"} /\ live'.pc = "synthTick"
    BY <1>2 DEF SynthDetect
  <2>3. tape # <<>> /\ HandlerInv'
    BY <1>0, <2>2 DEF HandlerInv
  <2>4. EventInv' /\ AgeInv' /\ CloseInv' /\ OneEventPerLevel'
    BY <2>1, <2>2, <2>3, DetectStep
  <2> QED
    BY <2>2, <2>3, <2>4, LogRests DEF SweepInv
<1>3. CASE SynthTick
  <2>1. /\ UNCHANGED <<tape, back, asked, starts>> /\ live.pc = "synthTick"
        /\ DOMAIN live' = {"pc", "sig"} /\ live'.pc = "detect"
        /\ registry' = Ticked(registry, Last(tape).c, Len(tape), "synth")
        /\ sweepLog' = Logged(sweepLog, live.sig, Len(tape), "synth", "live")
    BY <1>3 DEF SynthTick
  <2>2. tape # <<>> /\ HandlerInv'
    BY <1>0, <2>1 DEF HandlerInv
  <2>3. EventInv' /\ AgeInv' /\ CloseInv' /\ OneEventPerLevel'
    BY <2>1, <2>2, OtherTick
  <2>4. "synth" \in Frames
    BY DEF Frames
  <2>5. LogInv' /\ BackfillLogsOnce'
    BY <2>1, <2>4, LiveEntry
  <2> QED
    BY <2>2, <2>3, <2>5 DEF SweepInv
<1>4. CASE LiveDetect
  <2>1. PICK candle, levels, prev :
          registry' = Detected(registry, candle, levels, prev, Len(tape), "primary").reg
    BY <1>4 DEF LiveDetect
  <2>2. /\ UNCHANGED <<tape, sweepLog, back, asked, starts>> /\ live.pc = "detect"
        /\ DOMAIN live' = {"pc", "sig"} /\ live'.pc = "tick"
    BY <1>4 DEF LiveDetect
  <2>3. tape # <<>> /\ HandlerInv'
    BY <1>0, <2>2 DEF HandlerInv
  <2>4. EventInv' /\ AgeInv' /\ CloseInv' /\ OneEventPerLevel'
    BY <2>1, <2>2, <2>3, DetectStep
  <2> QED
    BY <2>2, <2>3, <2>4, LogRests DEF SweepInv
<1>5. CASE LiveTick
  <2>1. /\ UNCHANGED <<tape, back, asked, starts>> /\ live.pc = "tick" /\ live' = Free
        /\ sweepLog' = Logged(sweepLog, live.sig, Len(tape), "primary", "live")
    BY <1>5 DEF LiveTick
  <2>2. tape # <<>>
    BY <1>0, <2>1 DEF HandlerInv
  <2>3. HandlerInv'
    BY <1>0, <2>1, <2>2 DEF HandlerInv, Free
  <2>4. EventInv' /\ AgeInv' /\ CloseInv' /\ OneEventPerLevel'
    BY <1>5, <2>2, PrimaryTick
  <2>5. "primary" \in Frames
    BY DEF Frames
  <2>6. LogInv' /\ BackfillLogsOnce'
    BY <2>1, <2>5, LiveEntry
  <2> QED
    BY <2>3, <2>4, <2>6 DEF SweepInv
<1>6. CASE BackBegin
  <2>1. /\ UNCHANGED <<tape, registry, sweepLog, live, asked, starts>>
        /\ DOMAIN back' = {"pc", "tf", "n", "i", "known", "sig"}
        /\ back'.tf = back.tf /\ back'.i = 1
        /\ back'.known = {e.at : e \in {g \in ToSet(sweepLog) : g.tf = back.tf}}
    BY <1>0, <1>6 DEF BackBegin, HandlerInv
  <2>2. HandlerInv'
    BY <1>0, <2>1 DEF HandlerInv
  <2>3. sweepLog \in Seq(LogTypes) /\ DOMAIN sweepLog = 1..Len(sweepLog)
    BY LenProperties DEF SweepInv, LogInv
  <2>4. \A i \in 1..Len(sweepLog) : sweepLog[i].tf = back.tf => sweepLog[i].at \in back'.known
    BY <2>1, <2>3 DEF ToSet
  <2>5. LogInv' /\ BackfillLogsOnce'
    BY <2>1, <2>3, <2>4 DEF SweepInv, LogInv, BackfillLogsOnce
  <2>6. EventInv' /\ AgeInv' /\ CloseInv' /\ OneEventPerLevel'
    BY <2>1 DEF SweepInv, EventInv, AgeInv, CloseInv, OneEventPerLevel, DoneBars, Alive, Beyond
  <2> QED
    BY <2>2, <2>5, <2>6 DEF SweepInv
<1>7. CASE BackDetect
  <2>1. PICK candle, levels, prev, src :
          registry' = Detected(registry, candle, levels, prev, src, "backfill").reg
    BY <1>7 DEF BackDetect
  <2>2. /\ UNCHANGED <<tape, sweepLog, live, asked, starts>> /\ back.pc = "detect"
        /\ DOMAIN back' = {"pc", "tf", "n", "i", "known", "sig"} /\ back'.pc = "tick"
        /\ back'.tf = back.tf /\ back'.i = back.i /\ back'.known = back.known
    BY <1>0, <1>7 DEF BackDetect, HandlerInv
  <2>3. HandlerInv'
    BY <1>0, <2>2 DEF HandlerInv
  <2>4. EventInv' /\ AgeInv' /\ CloseInv' /\ OneEventPerLevel'
    BY <2>1, <2>2, DetectStep
  <2>5. LogInv' /\ BackfillLogsOnce'
    BY <2>2 DEF SweepInv, LogInv, BackfillLogsOnce
  <2> QED
    BY <2>3, <2>4, <2>5 DEF SweepInv
<1>8. CASE BackTick
  <2>1. PICK close, at : registry' = Ticked(registry, close, at, "backfill")
    BY <1>8 DEF BackTick
  <2>2. UNCHANGED tape
    BY <1>8 DEF BackTick
  <2>3. EventInv' /\ AgeInv' /\ CloseInv' /\ OneEventPerLevel'
    BY <2>1, <2>2, BackfillTick
  <2> QED
    BY <1>8, <2>3, BackfillEntry DEF SweepInv
<1>9. CASE BackNext
  <2>1. /\ UNCHANGED <<tape, registry, sweepLog, live, asked, starts>>
        /\ DOMAIN back' = {"pc", "tf", "n", "i", "known", "sig"}
        /\ back'.tf \in Frames /\ back'.i \in Nat /\ back'.pc \notin {"detect", "tick"}
    BY <1>9 DEF BackNext, NoFill, Frames
  <2>2. HandlerInv'
    BY <1>0, <2>1 DEF HandlerInv
  <2>3. LogInv' /\ BackfillLogsOnce'
    BY <2>1 DEF SweepInv, LogInv, BackfillLogsOnce
  <2>4. EventInv' /\ AgeInv' /\ CloseInv' /\ OneEventPerLevel'
    BY <2>1 DEF SweepInv, EventInv, AgeInv, CloseInv, OneEventPerLevel, DoneBars, Alive, Beyond
  <2> QED
    BY <2>2, <2>3, <2>4 DEF SweepInv
<1>10. CASE Ask
  <2>1. PICK candle, levels, prev :
          registry' = Detected(registry, candle, levels, prev, Len(tape), "decision").reg
    BY <1>10 DEF Ask
  <2>2. /\ UNCHANGED <<tape, sweepLog, live, back, starts>> /\ tape # <<>>
        /\ DOMAIN asked' = {"on", "n"}
    BY <1>10 DEF Ask
  <2>3. HandlerInv'
    BY <1>0, <2>2 DEF HandlerInv
  <2>4. EventInv' /\ AgeInv' /\ CloseInv' /\ OneEventPerLevel'
    BY <2>1, <2>2, DetectStep
  <2> QED
    BY <2>2, <2>3, <2>4, LogRests DEF SweepInv
<1>11. CASE AskTick
  <2>1. /\ UNCHANGED <<tape, sweepLog, live, back, starts>> /\ asked.on
        /\ asked' = [asked EXCEPT !.on = FALSE]
        /\ registry' = Ticked(registry, Last(tape).c, Len(tape), "decision")
    BY <1>11 DEF AskTick
  <2>2. tape # <<>> /\ HandlerInv'
    BY <1>0, <2>1 DEF HandlerInv
  <2>3. EventInv' /\ AgeInv' /\ CloseInv' /\ OneEventPerLevel'
    BY <2>1, <2>2, OtherTick
  <2> QED
    BY <2>1, <2>2, <2>3, LogRests DEF SweepInv
<1>12. CASE SweepRestart
  <2>1. /\ UNCHANGED <<tape, sweepLog>> /\ registry' = {} /\ starts' = starts + 1
        /\ live' = Free /\ asked' = [asked EXCEPT !.on = FALSE]
        /\ back' = [NoFill EXCEPT !.pc = "begin"]
    BY <1>12 DEF SweepRestart
  <2>2. /\ DOMAIN live' = {"pc", "sig"} /\ live'.pc = "idle"
        /\ DOMAIN asked' = {"on", "n"} /\ ~asked'.on
        /\ DOMAIN back' = {"pc", "tf", "n", "i", "known", "sig"}
        /\ back'.tf \in Frames /\ back'.i \in Nat /\ back'.pc = "begin"
    BY <1>0, <2>1 DEF HandlerInv, Free, NoFill, Frames
  <2>3. HandlerInv'
    BY <1>0, <2>1, <2>2 DEF HandlerInv
  <2>4. LogInv' /\ BackfillLogsOnce'
    BY <2>1, <2>2 DEF SweepInv, LogInv, BackfillLogsOnce
  <2>5. EventInv' /\ AgeInv' /\ CloseInv' /\ OneEventPerLevel'
    BY <2>1 DEF EventInv, AgeInv, CloseInv, OneEventPerLevel
  <2> QED
    BY <2>3, <2>4, <2>5 DEF SweepInv
<1>13. CASE UNCHANGED sweepVars
  BY <1>13 DEF sweepVars, SweepInv, HandlerInv, EventInv, AgeInv, CloseInv, LogInv, OneEventPerLevel,
               BackfillLogsOnce, DoneBars, Alive, Beyond
<1> QED
  BY <1>1, <1>2, <1>3, <1>4, <1>5, <1>6, <1>7, <1>8, <1>9, <1>10, <1>11, <1>12, <1>13
     DEF SweepNext

\* Whoever detects, ticks, backfills, asks or restarts in whatever order: a level has one
\* event; one that the primary route alone has ticked is judged by the bar after it; no
\* level the backfill left alone is kept after two closes beyond it; and the backfill logs
\* no time that the log held when it began (pipeline/features/sweep.py).
THEOREM SweepsAreOnce == BarSpec => []SweepsOnce
<1>1. BarInit => SweepInv
  BY SweepStart DEF BarInit
<1>2. [BarNext]_barVars => [SweepNext]_sweepVars
  BY DEF BarNext, Others, barVars, Parts
<1>3. SweepInv /\ [BarNext]_barVars => SweepInv'
  BY <1>2, SweepKeeps
<1>4. SweepInv => SweepsOnce
  <2> SUFFICES ASSUME SweepInv PROVE FollowUpIsNextBar /\ BrokenLevelsGone
    BY DEF SweepInv, SweepsOnce
  <2>1. FollowUpIsNextBar
    BY DEF SweepInv, AgeInv, FollowUpIsNextBar
  <2>2. BrokenLevelsGone
    BY DEF SweepInv, CloseInv, BrokenLevelsGone, DoneBars, Alive
  <2> QED
    BY <2>1, <2>2
<1> QED
  BY <1>1, <1>3, <1>4, PTL DEF BarSpec

-----------------------------------------------------------------------------
(***************************************************************************)
(* A position between two bars.  The average entry never rises above the    *)
(* entry of the plan, since every leg lies below it, so that the plan's own *)
(* target, and a zone the target shrinks to, are ahead of the average.      *)
(***************************************************************************)
PositionRecord == [status : {"none", "open", "closed"}, n : Nat \ {0}, sum : Int, sl : Int,
                   tp : Int, via : Exit \cup {""}, pnl : Int, booked : Int]

HeldInv ==
    IsOpen =>
        /\ plan \in Plan /\ plan.tp > plan.entry
        /\ pending \subseteq plan.legs
        /\ pos.sum <= pos.n * plan.entry
        /\ pos.via = ""
        /\ TargetAhead

CycleInv ==
    /\ pos \in PositionRecord
    /\ HeldInv
    /\ stage # "idle" => IsOpen /\ bar \in Bar
    /\ LossesBeyondFloor /\ BookedAsMade

\* A quotient is no more than what bounds the dividend.
LEMMA QuotientBelow ==
  ASSUME NEW d \in Nat \ {0}, NEW a \in Int, NEW q \in Int, a <= d * q
  PROVE  a \div d \in Int /\ a \div d <= q
<1> DEFINE k == a \div d
<1>1. k \in Int /\ d * k <= a
  OBVIOUS
<1> HIDE DEF k
<1>2. d * k <= d * q
  BY <1>1
<1>3. k <= q
  BY <1>1, <1>2
<1> QED
  BY <1>1, <1>3 DEF k

LEMMA CycleStart == Init => CycleInv
<1> SUFFICES ASSUME Init PROVE CycleInv
  OBVIOUS
<1>1. pos = NoPosition /\ stage = "idle"
  BY DEF Init
<1>2. NoPosition.status = "none"
  BY DEF NoPosition
<1>3. NoPosition \in PositionRecord
  <2>1. 1 \in Nat \ {0} /\ 0 \in Int /\ "" \in Exit \cup {""}
    OBVIOUS
  <2> QED
    BY <2>1 DEF NoPosition, PositionRecord
<1> QED
  BY <1>1, <1>2, <1>3 DEF CycleInv, HeldInv, IsOpen, LossesBeyondFloor, BookedAsMade

\* The average entry and the prices of a position are numbers.
LEMMA CycleNumbers ==
  ASSUME CycleInv
  PROVE  /\ pos.n \in Nat \ {0} /\ pos.sum \in Int /\ pos.sl \in Int /\ pos.tp \in Int
         /\ Avg \in Int /\ Risk \in Nat
         /\ bar \in Bar => bar.l \in Int /\ bar.h \in Int /\ bar.c \in Int
<1>1. /\ pos.n \in Nat \ {0} /\ pos.sum \in Int /\ pos.sl \in Int /\ pos.tp \in Int
  BY DEF CycleInv, PositionRecord
<1>2. Avg \in Int
  BY <1>1 DEF Avg
<1>3. Risk \in Nat
  BY <1>1, <1>2 DEF Risk, Dist
<1>4. bar \in Bar => bar.l \in Int /\ bar.h \in Int /\ bar.c \in Int
  BY TickAssumption DEF Bar
<1> QED
  BY <1>1, <1>2, <1>3, <1>4

\* What the exit of an open position books.
LEMMA ExitBooks ==
  ASSUME CycleInv, stage # "idle", NEW via \in Exit, NEW exit \in Int, NEW sign \in Int,
         Close(via, exit, sign),
         via # "hard_sl" => sign = Sgn(exit - Avg),
         rules = {"server"} /\ exit < Avg => exit - Avg <= -Floor
  PROVE  CycleInv'
<1>1. /\ pos' = [pos EXCEPT !.status = "closed", !.via = via,
                            !.pnl = exit - Avg, !.booked = sign]
      /\ stage' = "idle" /\ rules' = rules
  BY DEF Close
<1>2. Avg \in Int /\ exit - Avg \in Int /\ Floor \in Nat
  BY CycleNumbers, TickAssumption
<1>3. pos' \in PositionRecord
  BY <1>1, <1>2 DEF CycleInv, PositionRecord
<1>4. pos'.status = "closed" /\ pos'.via = via /\ pos'.pnl = exit - Avg /\ pos'.booked = sign
  BY <1>1 DEF CycleInv, PositionRecord
<1>5. LossesBeyondFloor'
  BY <1>1, <1>2, <1>4 DEF LossesBeyondFloor
<1>6. BookedAsMade'
  BY <1>4 DEF BookedAsMade
<1> QED
  BY <1>1, <1>3, <1>4, <1>5, <1>6 DEF CycleInv, HeldInv, IsOpen

\* A step that moves the stop of an open position.
LEMMA StopMoves ==
  ASSUME CycleInv, IsOpen, bar \in Bar, NEW sl \in Int, pos' = [pos EXCEPT !.sl = sl],
         UNCHANGED <<plan, pending, rules, bar>>
  PROVE  CycleInv'
<1>1. pos' \in PositionRecord
  BY DEF CycleInv, PositionRecord
<1>2. /\ pos'.status = "open" /\ pos'.n = pos.n /\ pos'.sum = pos.sum /\ pos'.tp = pos.tp
      /\ pos'.via = pos.via
  BY DEF CycleInv, PositionRecord, IsOpen
<1>3. HeldInv'
  BY <1>2 DEF CycleInv, HeldInv, IsOpen, TargetAhead, Avg
<1>4. IsOpen' /\ (bar \in Bar)' /\ LossesBeyondFloor' /\ BookedAsMade'
  BY <1>2 DEF IsOpen, LossesBeyondFloor, BookedAsMade, Bar
<1> QED
  BY <1>1, <1>3, <1>4 DEF CycleInv

\* A step that leaves the position alone.
LEMMA PositionStays ==
  ASSUME CycleInv, UNCHANGED <<pos, plan, pending, rules>>,
         stage' # "idle" => IsOpen /\ bar' \in Bar
  PROVE  CycleInv'
<1>1. HeldInv'
  BY DEF CycleInv, HeldInv, IsOpen, TargetAhead, Avg
<1>2. LossesBeyondFloor' /\ BookedAsMade'
  BY DEF CycleInv, LossesBeyondFloor, BookedAsMade
<1>3. (IsOpen' <=> IsOpen) /\ pos' = pos
  BY DEF IsOpen
<1>4. pos' \in PositionRecord
  BY <1>3 DEF CycleInv
<1>5. stage' # "idle" => IsOpen' /\ bar' \in Bar
  BY <1>3
<1>6. (bar \in Bar)' <=> bar' \in Bar
  BY DEF Bar
<1> QED
  BY <1>1, <1>2, <1>4, <1>5, <1>6 DEF CycleInv

LEMMA OpenGridStep ==
  ASSUME CycleInv, NEW p \in Plan, NEW r \in Rules, OpenGrid(p, r) PROVE CycleInv'
<1>1. /\ p.entry \in Int /\ p.sl \in Int /\ p.tp \in Int /\ p.tp > p.entry
      /\ stage' = "idle" /\ plan' = p /\ pending' = p.legs
      /\ pos' = [status |-> "open", n |-> 1, sum |-> p.entry, sl |-> p.sl,
                 tp |-> p.tp, via |-> "", pnl |-> 0, booked |-> 0]
  BY TickAssumption DEF OpenGrid
<1>2. pos' \in PositionRecord
  <2>1. 1 \in Nat \ {0} /\ 0 \in Int /\ "" \in Exit \cup {""}
    OBVIOUS
  <2> QED
    BY <1>1, <2>1 DEF PositionRecord
<1>3. /\ pos'.status = "open" /\ pos'.n = 1 /\ pos'.sum = p.entry /\ pos'.tp = p.tp
      /\ pos'.via = ""
  BY <1>1
<1>4. pos'.sum \div pos'.n = p.entry /\ pos'.n * p.entry = p.entry
  <2>1. \A x \in Int : x \div 1 = x /\ 1 * x = x
    OBVIOUS
  <2> QED
    BY <1>1, <1>3, <2>1
<1>5. HeldInv'
  <2>1. plan' \in Plan /\ plan'.tp > plan'.entry /\ pending' \subseteq plan'.legs
    BY <1>1
  <2>2. pos'.sum <= pos'.n * plan'.entry
    <3>1. pos'.n * plan'.entry = p.entry /\ pos'.sum = p.entry
      BY <1>1, <1>3, <1>4
    <3>2. p.entry <= p.entry
      <4>1. p.entry \in Int
        BY <1>1
      <4> QED
        BY <4>1
    <3> QED
      BY <3>1, <3>2, Zenon
  <2>3. pos'.tp > pos'.sum \div pos'.n
    BY <1>1, <1>3, <1>4
  <2> QED
    BY <1>3, <2>1, <2>2, <2>3 DEF HeldInv, TargetAhead, Avg
<1> QED
  BY <1>1, <1>2, <1>3, <1>5 DEF CycleInv, LossesBeyondFloor, BookedAsMade

\* Legs below the plan's entry leave the average at most there.
LEMMA FillLegsStep ==
  ASSUME CycleInv, FillLegs
  PROVE  CycleInv' /\ pos'.n > pos.n
<1> DEFINE k == Cardinality(Crossed)
           n == pos.n + k
           sum == pos.sum + SumSet(Crossed)
<1>0. /\ stage = "fill" /\ Crossed # {} /\ IsOpen /\ bar \in Bar
      /\ pending' = pending \ Crossed /\ UNCHANGED <<plan, rules, bar>> /\ stage' = "target"
  BY DEF FillLegs, Goto, CycleInv
<1>i. /\ plan \in Plan /\ plan.tp > plan.entry /\ pending \subseteq plan.legs
      /\ pos.via = ""
  BY <1>0 DEF CycleInv, HeldInv
<1>b. pos.sum <= pos.n * plan.entry
  BY <1>0 DEF CycleInv, HeldInv
<1>1. /\ plan.entry \in Int /\ plan.tp \in Int /\ plan.sl \in Int /\ plan.legs \subseteq Int
      /\ IsFiniteSet(plan.legs) /\ \A q \in plan.legs : q < plan.entry
  <2>1. plan \in [entry : Price, tp : Price, sl : Price, legs : SUBSET Price]
    BY <1>i, TickAssumption
  <2>2. plan.entry \in Price /\ plan.tp \in Price /\ plan.sl \in Price /\ plan.legs \subseteq Price
    BY <2>1
  <2>3. IsFiniteSet(plan.legs) /\ \A q \in plan.legs : q < plan.entry
    BY <1>i, TickAssumption
  <2>4. Price \subseteq Int
    BY TickAssumption
  <2> QED
    BY <2>2, <2>3, <2>4
<1>2. Crossed \subseteq plan.legs /\ Crossed \subseteq Int /\ IsFiniteSet(Crossed)
  BY <1>i, <1>1, FS_Subset DEF Crossed
<1>3. k \in Nat \ {0}
  BY <1>0, <1>2, FS_EmptySet, FS_CardinalityType
<1>4. SumSet(Crossed) \in Int /\ SumSet(Crossed) <= k * plan.entry
  <2>1. \A q \in Crossed : q <= plan.entry
    <3>1. \A q \in plan.legs : q \in Int /\ q < plan.entry
      BY <1>1
    <3>2. \A q \in plan.legs : q <= plan.entry
      BY <1>1, <3>1
    <3> QED
      BY <1>2, <3>2
  <2> QED
    BY <1>1, <1>2, <2>1, SumSetBounded
<1>5. pos.n \in Nat \ {0} /\ pos.sum \in Int
  BY CycleNumbers
<1>6. PICK tp \in {plan.tp} \cup Zones(sum \div n) :
          pos' = [pos EXCEPT !.n = n, !.sum = sum, !.sl = plan.sl, !.tp = tp]
  BY DEF FillLegs
<1> HIDE DEF k
<1>7. n \in Nat \ {0} /\ sum \in Int /\ sum <= n * plan.entry /\ n > pos.n
  <2>1. (pos.n + k) * plan.entry = pos.n * plan.entry + k * plan.entry
    <3>1. \A a, b, c \in Int : (a + b) * c = a * c + b * c
      OBVIOUS
    <3>2. pos.n \in Int /\ k \in Int /\ plan.entry \in Int
      BY <1>1, <1>3, <1>5
    <3> QED
      BY <3>1, <3>2
  <2>2. pos.n * plan.entry \in Int /\ k * plan.entry \in Int
    BY <1>1, <1>3, <1>5
  <2>3. sum \in Int /\ n \in Nat \ {0} /\ n > pos.n
    BY <1>3, <1>4, <1>5
  <2>4. sum <= pos.n * plan.entry + k * plan.entry
    BY <1>b, <1>4, <1>5, <2>2
  <2> QED
    BY <2>1, <2>3, <2>4
<1> HIDE DEF n, sum
<1>8. sum \div n \in Int /\ sum \div n <= plan.entry
  BY <1>1, <1>7, QuotientBelow
<1>9. tp \in Int /\ tp > sum \div n
  <2>1. \A z \in Zones(sum \div n) : z \in Int /\ z > sum \div n
    BY <1>8, TickAssumption DEF Zones
  <2>2. plan.tp \in Int /\ plan.tp > sum \div n
    <3> DEFINE avg == sum \div n
    <3>1. avg \in Int /\ avg <= plan.entry
      BY <1>8
    <3> HIDE DEF avg
    <3>2. plan.tp > avg
      <4>1. plan.entry \in Int /\ plan.tp \in Int
        BY <1>1
      <4>2. plan.tp > plan.entry
        BY <1>i
      <4> QED
        BY <3>1, <4>1, <4>2
    <3> QED
      BY <1>1, <3>2 DEF avg
  <2> QED
    BY <1>6, <2>1, <2>2
<1>10. pos' \in PositionRecord
  BY <1>1, <1>6, <1>7, <1>9 DEF CycleInv, PositionRecord
<1>11. /\ pos'.status = "open" /\ pos'.n = n /\ pos'.sum = sum /\ pos'.tp = tp
       /\ pos'.via = ""
  BY <1>0, <1>i, <1>6 DEF CycleInv, PositionRecord, IsOpen
<1>12. HeldInv'
  BY <1>0, <1>i, <1>7, <1>9, <1>11 DEF HeldInv, TargetAhead, Avg
<1> QED
  BY <1>0, <1>7, <1>10, <1>11, <1>12 DEF CycleInv, IsOpen, LossesBeyondFloor, BookedAsMade

LEMMA CheckPositionsStep ==
  ASSUME CycleInv, CheckPositions PROVE CycleInv'
<1>n. /\ pos.n \in Nat \ {0} /\ pos.sum \in Int /\ pos.sl \in Int /\ pos.tp \in Int
      /\ Avg \in Int /\ Risk \in Nat /\ Floor \in Nat
      /\ bar \in Bar => bar.l \in Int /\ bar.h \in Int /\ bar.c \in Int
  BY CycleNumbers, TickAssumption
<1>s. stage = "check" /\ IsOpen /\ bar \in Bar /\ pos.tp > Avg
  BY DEF CheckPositions, CheckStop, CheckTarget, CheckAbsorption, CheckPasses, CycleInv,
         HeldInv, TargetAhead
<1>1. CASE CheckStop
  <2>1. Sgn(pos.sl - Avg) \in Int
    BY DEF Sgn
  <2>2. pos.sl < Avg => pos.sl - Avg <= -Floor
    BY <1>1, <1>n DEF CheckStop, StopHit, Risk, Dist
  <2>3. Close("sl_hit", pos.sl, Sgn(pos.sl - Avg))
    BY <1>1 DEF CheckStop
  <2> QED
    BY <1>n, <1>s, <2>1, <2>2, <2>3, ExitBooks DEF Exit
<1>2. CASE CheckTarget
  <2>1. (IF Risk > 0 THEN Sgn(Dist(pos.tp, Avg)) ELSE 1) = Sgn(pos.tp - Avg)
    BY <1>n, <1>s DEF Sgn, Dist
  <2>2. Close("tp_hit", pos.tp, Sgn(pos.tp - Avg))
    BY <1>2, <2>1 DEF CheckTarget
  <2>3. Sgn(pos.tp - Avg) \in Int
    BY DEF Sgn
  <2> QED
    BY <1>n, <1>s, <2>2, <2>3, ExitBooks DEF Exit
<1>3. CASE CheckAbsorption
  <2> DEFINE exit == IF bar.h < pos.tp THEN bar.h ELSE pos.tp
  <2>1. exit \in Int /\ exit > Avg
    <3>1. 100 * (bar.h - Avg) >= Near * (pos.tp - Avg) /\ Near \in 1..100
      BY <1>3, <1>n, <1>s, TickAssumption DEF CheckAbsorption, NearTarget
    <3>2. Near * (pos.tp - Avg) > 0 /\ Near * (pos.tp - Avg) \in Int
      BY <1>n, <1>s, <3>1
    <3>3. bar.h - Avg > 0
      BY <1>n, <1>s, <3>1, <3>2
    <3> QED
      BY <1>n, <1>s, <3>3
  <2>2. Close("tp_absorption", exit, IF Risk > 0 THEN Sgn(Dist(exit, Avg)) ELSE 1)
    BY <1>3 DEF CheckAbsorption
  <2> HIDE DEF exit
  <2>3. (IF Risk > 0 THEN Sgn(Dist(exit, Avg)) ELSE 1) = Sgn(exit - Avg)
    BY <1>n, <2>1 DEF Sgn, Dist
  <2>4. Sgn(exit - Avg) \in Int /\ Close("tp_absorption", exit, Sgn(exit - Avg))
    BY <2>2, <2>3 DEF Sgn
  <2> QED
    BY <1>n, <1>s, <2>1, <2>4, ExitBooks DEF Exit
<1>4. CASE CheckPasses
  BY <1>s, <1>4, PositionStays DEF CheckPasses, Goto
<1> QED
  BY <1>1, <1>2, <1>3, <1>4 DEF CheckPositions

LEMMA AdjustStopStep ==
  ASSUME CycleInv, AdjustStop
  PROVE  CycleInv' /\ pos'.sl >= pos.sl /\ pos'.status = "open" /\ pos'.via = ""
<1>1. stage = "stop" /\ IsOpen /\ bar \in Bar /\ UNCHANGED <<plan, pending, rules, bar>> /\ pos.via = ""
  BY DEF AdjustStop, Goto, CycleInv, HeldInv
<1>2. PICK low \in Price :
          pos' = [pos EXCEPT !.sl = IF Ahead(2) /\ low > BreakEven THEN low ELSE BreakEven]
  BY DEF AdjustStop
<1>3. low \in Int /\ BreakEven \in Int /\ BreakEven >= pos.sl
  BY CycleNumbers, TickAssumption DEF BreakEven
<1> DEFINE sl == IF Ahead(2) /\ low > BreakEven THEN low ELSE BreakEven
<1>4. sl \in Int /\ sl >= pos.sl
  BY <1>3, CycleNumbers
<1>5. pos' = [pos EXCEPT !.sl = sl]
  BY <1>2
<1> HIDE DEF sl
<1>6. pos'.sl = sl /\ pos'.status = "open" /\ pos'.via = ""
  BY <1>1, <1>5 DEF CycleInv, PositionRecord, IsOpen
<1> QED
  BY <1>1, <1>4, <1>5, <1>6, StopMoves

LEMMA TrailStopStep ==
  ASSUME CycleInv, TrailStop
  PROVE  CycleInv' /\ pos'.sl >= pos.sl /\ pos'.status = "open" /\ pos'.via = ""
<1>1. /\ stage = "si_trail" /\ stage' = "escape" /\ IsOpen /\ bar \in Bar /\ pos.via = ""
      /\ UNCHANGED <<plan, pending, rules, bar>>
  BY DEF TrailStop, Goto, CycleInv, HeldInv
<1>2. CASE UNCHANGED pos
  <2>1. CycleInv'
    BY <1>1, <1>2, PositionStays
  <2>2. pos' = pos /\ pos.sl \in Int
    BY <1>2, CycleNumbers
  <2>3. pos'.sl >= pos.sl
    BY <2>2
  <2> QED
    BY <1>1, <2>1, <2>2, <2>3 DEF IsOpen
<1>3. ASSUME NEW z \in TrailLevels, pos' = [pos EXCEPT !.sl = z]
      PROVE  CycleInv' /\ pos'.sl >= pos.sl /\ pos'.status = "open" /\ pos'.via = ""
  <2>1. z \in Int /\ z >= pos.sl
    BY <1>3, CycleNumbers, TickAssumption DEF TrailLevels
  <2>2. pos'.sl = z /\ pos'.status = "open" /\ pos'.via = ""
    BY <1>1, <1>3 DEF CycleInv, PositionRecord, IsOpen
  <2> QED
    BY <1>1, <1>3, <2>1, <2>2, StopMoves
<1>4. UNCHANGED pos \/ \E z \in TrailLevels : pos' = [pos EXCEPT !.sl = z]
  BY DEF TrailStop
<1> QED
  BY <1>2, <1>3, <1>4

LEMMA ExitsStep ==
  ASSUME CycleInv, CycleTarget \/ HardStop \/ MarkedExit \/ Escape PROVE CycleInv'
<1>n. /\ pos.n \in Nat \ {0} /\ pos.sum \in Int /\ pos.sl \in Int /\ pos.tp \in Int
      /\ Avg \in Int /\ Risk \in Nat /\ Floor \in Nat
      /\ bar \in Bar => bar.l \in Int /\ bar.h \in Int /\ bar.c \in Int
  BY CycleNumbers, TickAssumption
<1>s. IsOpen /\ bar \in Bar /\ stage # "idle" /\ pos.tp > Avg
  BY DEF CycleTarget, HardStop, MarkedExit, Escape, CycleInv, HeldInv, TargetAhead
<1>g. \A x \in Int : Sgn(x) \in Int /\ -Sgn(x) \in Int
  BY DEF Sgn
<1>1. CASE CycleTarget
  <2>1. Close("cycle_tp", pos.tp, Sgn(pos.tp - Avg))
    BY <1>1 DEF CycleTarget
  <2> QED
    BY <1>n, <1>s, <1>g, <2>1, ExitBooks DEF Exit
<1>2. CASE HardStop
  <2>1. Close("hard_sl", pos.sl, -Sgn(Risk)) /\ rules # {"server"}
    BY <1>2 DEF HardStop, HardStopHit
  <2> QED
    BY <1>n, <1>s, <1>g, <2>1, ExitBooks DEF Exit
<1>3. CASE MarkedExit
  <2>1. Close("marked", bar.c, Sgn(bar.c - Avg)) /\ rules # {"server"}
    BY <1>3 DEF MarkedExit
  <2>2. bar.c - Avg \in Int
    BY <1>n, <1>s
  <2> QED
    BY <1>n, <1>s, <1>g, <2>1, <2>2, ExitBooks DEF Exit
<1>4. CASE Escape
  <2>1. Close("trend_escape", bar.c, Sgn(bar.c - Avg)) /\ Avg - bar.c >= Floor
    BY <1>4 DEF Escape, Runaway
  <2>2. bar.c - Avg \in Int /\ bar.c - Avg <= -Floor
    BY <1>n, <1>s, <2>1
  <2> QED
    BY <1>n, <1>s, <1>g, <2>1, <2>2, ExitBooks DEF Exit
<1> QED
  BY <1>1, <1>2, <1>3, <1>4

LEMMA CycleTyped == CycleInv /\ [Next]_vars => CycleInv'
<1> SUFFICES ASSUME CycleInv, [Next]_vars PROVE CycleInv'
  OBVIOUS
<1>1. ASSUME NEW p \in Plan, NEW r \in Rules, OpenGrid(p, r) PROVE CycleInv'
  BY <1>1, OpenGridStep
<1>2. ASSUME NEW b \in Bar, IsOpen, BarArrives(b) PROVE CycleInv'
  BY <1>2, PositionStays DEF BarArrives
<1>3. ASSUME FillNothing \/ TargetPasses \/ HardStopPasses \/ MarkedPasses PROVE CycleInv'
  <2>1. stage # "idle"
    BY <1>3 DEF FillNothing, TargetPasses, HardStopPasses, MarkedPasses
  <2>2. IsOpen /\ bar \in Bar
    BY <2>1 DEF CycleInv
  <2> QED
    BY <1>3, <2>2, PositionStays
       DEF FillNothing, TargetPasses, HardStopPasses, MarkedPasses, Goto
<1>4. ASSUME NoEscape \/ Restart PROVE CycleInv'
  BY <1>4, PositionStays DEF NoEscape, Goto, Restart
<1>5. CASE UNCHANGED vars
  <2>1. stage' # "idle" => IsOpen /\ bar' \in Bar
    BY <1>5 DEF vars, CycleInv
  <2> QED
    BY <1>5, <2>1, PositionStays DEF vars
<1>6. CASE OnBarClose
  BY <1>3, <1>4, <1>6, FillLegsStep, ExitsStep, TrailStopStep DEF OnBarClose
<1> QED
  BY <1>1, <1>2, <1>4, <1>5, <1>6, CheckPositionsStep, AdjustStopStep DEF Next

\* A position on its way through the bars, whatever zones, trails, signals and restarts: its
\* target stays ahead of the average entry, the server's own positions lose the disaster
\* floor or nothing, and every exit but the hard stop books the R that was made.
THEOREM PositionsSound == BarSpec => []PositionSound
<1>1. BarInit => CycleInv
  BY CycleStart DEF BarInit
<1>2. [BarNext]_barVars => [Next]_vars
  BY DEF BarNext, Others, barVars, Parts
<1>3. CycleInv /\ [BarNext]_barVars => CycleInv'
  BY <1>2, CycleTyped
<1>4. CycleInv => PositionSound
  BY DEF CycleInv, HeldInv, TargetAhead, PositionSound
<1> QED
  BY <1>1, <1>3, <1>4, PTL DEF BarSpec

-----------------------------------------------------------------------------
(***************************************************************************)
(* Sequences that grow.  The library flattens a sequence of sequences by a *)
(* recursive function; what it returns is what such a function must be, by *)
(* induction on the length.                                                *)
(***************************************************************************)
(* A flattened sequence *)
\* g holds the sequences joined so far: the library's recursive function.
Joins(g, s) ==
    \A i \in 1..Len(s) : g[i] = IF i = 1 THEN s[i] ELSE g[i - 1] \o s[i]

\* Each joined sequence is the one before it and one more.
LEMMA JoinNext ==
  ASSUME NEW s, Len(s) \in Nat, NEW g, Joins(g, s)
  PROVE  \A n \in Nat \ {0} : n + 1 <= Len(s) => g[n + 1] = g[n] \o s[n + 1]
<1> SUFFICES ASSUME NEW n \in Nat \ {0}, n + 1 <= Len(s) PROVE g[n + 1] = g[n] \o s[n + 1]
  OBVIOUS
<1>1. n + 1 \in 1..Len(s) /\ n + 1 # 1 /\ (n + 1) - 1 = n
  OBVIOUS
<1>2. PICK m : m = n + 1
  OBVIOUS
<1>3. g[m] = g[m - 1] \o s[m]
  BY <1>1, <1>2 DEF Joins
<1> QED
  BY <1>1, <1>2, <1>3

\* Such a function exists, for every sequence of sequences.
LEMMA JoinExists ==
  ASSUME NEW T, NEW s \in Seq(Seq(T)), s # <<>>
  PROVE  \E g \in [1..Len(s) -> Seq(T)] : Joins(g, s)
<1> DEFINE JoinStep(g, i) == IF i = 1 THEN s[i] ELSE g[i - 1] \o s[i]
           UpTo(n) == \E g \in [1..Len(s) -> Seq(T)] :
                        \A i \in 1..Len(s) : i <= n => g[i] = JoinStep(g, i)
           N == { n \in Nat : UpTo(n) }
<1>0. Len(s) \in Nat \ {0} /\ \A i \in 1..Len(s) : s[i] \in Seq(T)
  OBVIOUS
<1>1. 0 \in N
  <2> DEFINE g == [i \in 1..Len(s) |-> s[i]]
  <2>1. g \in [1..Len(s) -> Seq(T)] /\ \A i \in 1..Len(s) : i <= 0 => g[i] = JoinStep(g, i)
    BY <1>0
  <2> QED
    BY <2>1
<1>2. ASSUME NEW n \in N PROVE n + 1 \in N
  <2>1. PICK g \in [1..Len(s) -> Seq(T)] : \A i \in 1..Len(s) : i <= n => g[i] = JoinStep(g, i)
    BY <1>2
  <2> DEFINE h == [i \in 1..Len(s) |-> IF i <= n THEN g[i] ELSE JoinStep(g, i)]
  <2>2. n \in Nat
    OBVIOUS
  <2>3. ASSUME NEW i \in 1..Len(s) PROVE JoinStep(g, i) \in Seq(T)
    <3>1. CASE i = 1
      BY <1>0, <3>1
    <3>2. CASE i # 1
      <4>0. i - 1 \in 1..Len(s)
        BY <1>0, <3>2
      <4>1. g[i - 1] \in Seq(T) /\ s[i] \in Seq(T)
        BY <1>0, <4>0
      <4>2. g[i - 1] \o s[i] \in Seq(T)
        BY <4>1, ConcatProperties
      <4> QED
        BY <3>2, <4>2
    <3> QED
      BY <3>1, <3>2
  <2>4. h \in [1..Len(s) -> Seq(T)]
    <3> HIDE DEF JoinStep
    <3> QED
      BY <2>3
  <2>5. ASSUME NEW i \in 1..Len(s), i <= n + 1 PROVE h[i] = JoinStep(h, i)
    <3>1. h[i] = JoinStep(g, i)
      <4> HIDE DEF JoinStep
      <4> QED
        BY <2>1, <2>2
    <3>2. CASE i = 1
      BY <3>1, <3>2
    <3>3. CASE i # 1
      <4>1. i - 1 \in 1..Len(s) /\ i - 1 <= n
        BY <1>0, <2>2, <2>5, <3>3
      <4>2. h[i - 1] = g[i - 1]
        BY <4>1
      <4> QED
        BY <3>1, <3>3, <4>2
    <3> QED
      BY <3>2, <3>3
  <2>6. UpTo(n + 1)
    <3> HIDE DEF h, JoinStep
    <3> QED
      BY <2>4, <2>5
  <2> HIDE DEF UpTo
  <2> QED
    BY <2>2, <2>6
<1>3. Len(s) \in N
  <2>1. N \in SUBSET Nat
    OBVIOUS
  <2> HIDE DEF N
  <2> QED
    BY <1>0, <1>1, <1>2, <2>1, Induction
<1>4. PICK g \in [1..Len(s) -> Seq(T)] : \A i \in 1..Len(s) : i <= Len(s) => g[i] = JoinStep(g, i)
  BY <1>3
<1>5. \A i \in 1..Len(s) : i <= Len(s)
  BY <1>0
<1>6. \A i \in 1..Len(s) : g[i] = JoinStep(g, i)
  <2> HIDE DEF JoinStep
  <2> QED
    BY <1>4, <1>5
<1> QED
  BY <1>6 DEF Joins

\* The library's flattened sequence is the last of the joined ones.
LEMMA FlattenUnfolds ==
  ASSUME NEW T, NEW s \in Seq(Seq(T)), s # <<>>
  PROVE  \E g : Joins(g, s) /\ FlattenSeq(s) = g[Len(s)]
<1> DEFINE Body(g) == [i \in 1..Len(s) |-> IF i = 1 THEN s[i] ELSE g[i - 1] \o s[i]]
           flat == CHOOSE g : g = Body(g)
<1>1. PICK g \in [1..Len(s) -> Seq(T)] : Joins(g, s)
  BY JoinExists
<1>2. g = Body(g)
  BY <1>1 DEF Joins
<1>3. flat = Body(flat)
  <2> HIDE DEF Body
  <2> QED
    BY <1>2
<1>4. Joins(flat, s)
  <2> HIDE DEF flat
  <2> QED
    BY <1>3 DEF Joins
<1>5. FlattenSeq(s) = flat[Len(s)]
  BY DEF FlattenSeq
<1> QED
  BY <1>4, <1>5

\* Joined sequences of one type are of that type.
LEMMA JoinTyped ==
  ASSUME NEW T, NEW s \in Seq(Seq(T)), NEW g, Joins(g, s)
  PROVE  \A i \in 1..Len(s) : g[i] \in Seq(T)
<1> DEFINE P(n) == n \in 1..Len(s) => g[n] \in Seq(T)
           N == { n \in Nat : P(n) }
<1>1. 0 \in N
  OBVIOUS
<1>2. ASSUME NEW n \in N PROVE n + 1 \in N
  <2>1. ASSUME n + 1 \in 1..Len(s) PROVE g[n + 1] \in Seq(T)
    <3>1. s[n + 1] \in Seq(T)
      BY <2>1
    <3>2. CASE n = 0
      <4>1. g[n + 1] = s[n + 1]
        BY <2>1, <3>2 DEF Joins
      <4> QED
        BY <3>1, <4>1
    <3>3. CASE n # 0
      <4>1. n \in 1..Len(s) /\ g[n] \in Seq(T)
        BY <1>2, <2>1, <3>3
      <4>2. g[n + 1] = g[n] \o s[n + 1]
        <5>1. n \in Nat \ {0} /\ n + 1 <= Len(s) /\ Len(s) \in Nat
          BY <2>1, <3>3
        <5> HIDE DEF N, P
        <5> QED
          BY <5>1, JoinNext
      <4> QED
        BY <3>1, <4>1, <4>2, ConcatProperties
    <3> QED
      BY <3>2, <3>3
  <2> QED
    BY <2>1
<1>3. N = Nat
  <2>1. N \in SUBSET Nat
    OBVIOUS
  <2> HIDE DEF N
  <2> QED
    BY <1>1, <1>2, <2>1, Induction
<1> QED
  BY <1>3

\* Sequences that begin alike are flattened alike.
Alike(s, t, k) == \A i \in 1..k : s[i] = t[i]

\* Two functions that join the same sequences agree.
LEMMA JoinAlike ==
  ASSUME NEW T, NEW s \in Seq(Seq(T)), NEW t \in Seq(Seq(T)), NEW g, NEW h, NEW k \in Nat,
         k \in 1..Len(s), k \in 1..Len(t), Alike(s, t, k), Joins(g, s), Joins(h, t)
  PROVE  g[k] = h[k]
<1> USE DEF Alike
<1> DEFINE P(n) == n \in 1..k => g[n] = h[n]
           N == { n \in Nat : P(n) }
<1>1. 0 \in N
  OBVIOUS
<1>2. ASSUME NEW n \in N PROVE n + 1 \in N
  <2>1. ASSUME n + 1 \in 1..k PROVE g[n + 1] = h[n + 1]
    <3>1. n + 1 \in 1..Len(s) /\ n + 1 \in 1..Len(t) /\ s[n + 1] = t[n + 1]
      BY <2>1
    <3>2. CASE n = 0
      BY <3>1, <3>2 DEF Joins
    <3>3. CASE n # 0
      <4>1. g[n] = h[n]
        BY <1>2, <2>1, <3>3
      <4>2. g[n + 1] = g[n] \o s[n + 1] /\ h[n + 1] = h[n] \o t[n + 1]
        <5>1. n \in Nat \ {0} /\ n + 1 <= Len(s) /\ Len(s) \in Nat /\ n + 1 <= Len(t) /\ Len(t) \in Nat
          BY <3>1, <3>3
        <5>2. g[n + 1] = g[n] \o s[n + 1]
          BY <5>1, JoinNext
        <5>3. h[n + 1] = h[n] \o t[n + 1]
          BY <5>1, JoinNext
        <5> QED
          BY <5>2, <5>3
      <4> QED
        BY <3>1, <4>1, <4>2
    <3> QED
      BY <3>2, <3>3
  <2> QED
    BY <2>1
<1>3. N = Nat
  <2>1. N \in SUBSET Nat
    OBVIOUS
  <2> HIDE DEF N
  <2> QED
    BY <1>1, <1>2, <2>1, Induction
<1>4. k \in Nat /\ k \in 1..k
  OBVIOUS
<1>5. P(k)
  BY <1>3, <1>4
<1> QED
  BY <1>4, <1>5

\* What is joined first does not depend on what comes after.
LEMMA JoinRests ==
  ASSUME NEW T, NEW s \in Seq(Seq(T)), NEW k \in 1..Len(s),
         \A i \in (k + 1)..Len(s) : s[i] = <<>>, NEW g, Joins(g, s)
  PROVE  g[Len(s)] = g[k]
<1> DEFINE P(n) == k + n <= Len(s) => g[k + n] = g[k]
           N == { n \in Nat : P(n) }
<1>1. 0 \in N
  OBVIOUS
<1>2. ASSUME NEW n \in N PROVE n + 1 \in N
  <2>1. ASSUME k + n + 1 <= Len(s) PROVE g[k + n + 1] = g[k]
    <3>1. g[k + n] = g[k] /\ k + n \in 1..Len(s) /\ k + n + 1 \in 1..Len(s) /\ k + n + 1 # 1
      BY <1>2, <2>1
    <3>2. s[k + n + 1] = <<>>
      BY <2>1
    <3>3. g[k + n + 1] = g[k + n] \o s[k + n + 1]
      <4>1. k + n \in Nat \ {0} /\ k + n + 1 <= Len(s) /\ Len(s) \in Nat
        BY <2>1
      <4>2. PICK m \in Nat \ {0} : m = k + n
        BY <4>1
      <4>3. g[m + 1] = g[m] \o s[m + 1]
        BY <4>1, <4>2, JoinNext
      <4> QED
        BY <4>2, <4>3
    <3>4. g[k] \in Seq(T)
      BY JoinTyped
    <3>5. g[k] \o <<>> = g[k]
      BY <3>4, ConcatEmptySeq
    <3> QED
      BY <3>1, <3>2, <3>3, <3>5
  <2> QED
    BY <2>1
<1>3. N = Nat
  <2>1. N \in SUBSET Nat
    OBVIOUS
  <2> HIDE DEF N
  <2> QED
    BY <1>1, <1>2, <2>1, Induction
<1>4. Len(s) - k \in Nat /\ k + (Len(s) - k) = Len(s)
  OBVIOUS
<1>5. P(Len(s) - k)
  BY <1>3, <1>4
<1> QED
  BY <1>4, <1>5

\* Sequences that begin alike are alike when flattened, up to the first that differs.
LEMMA FlattenGrows ==
  ASSUME NEW T, NEW s \in Seq(Seq(T)), NEW t \in Seq(Seq(T)), Len(t) = Len(s) + 1,
         NEW k \in 0..Len(s), \A i \in 1..k : s[i] = t[i],
         \A i \in (k + 1)..Len(s) : s[i] = <<>>, \A i \in (k + 2)..Len(t) : t[i] = <<>>
  PROVE  FlattenSeq(t) = FlattenSeq(s) \o t[k + 1] /\ t[k + 1] \in Seq(T) /\ FlattenSeq(s) \in Seq(T)
<1>1. t # <<>> /\ Len(s) \in Nat /\ Len(t) \in Nat /\ k \in Nat /\ k + 1 \in 1..Len(t)
  OBVIOUS
<1>2. t[k + 1] \in Seq(T)
  BY <1>1, ElementOfSeq
<1>3. PICK h : Joins(h, t) /\ FlattenSeq(t) = h[Len(t)]
  BY <1>1, FlattenUnfolds
<1>4. h[Len(t)] = h[k + 1]
  <2>1. PICK m \in 1..Len(t) : m = k + 1
    BY <1>1
  <2>2. \A i \in (m + 1)..Len(t) : t[i] = <<>>
    BY <1>1, <2>1
  <2>3. h[Len(t)] = h[m]
    BY <1>3, <2>2, JoinRests
  <2> QED
    BY <2>1, <2>3
<1>5. CASE k = 0
  <2>1. h[k + 1] = t[k + 1]
    BY <1>1, <1>3, <1>5 DEF Joins
  <2>2. FlattenSeq(s) = <<>>
    <3>1. CASE s = <<>>
      <4>1. Len(s) = 0
        BY <3>1
      <4> QED
        BY <3>1, <4>1 DEF FlattenSeq
    <3>2. CASE s # <<>>
      <4>1. Len(s) \in Nat \ {0}
        BY <1>1, <3>2
      <4>2. PICK g : Joins(g, s) /\ FlattenSeq(s) = g[Len(s)]
        BY <3>2, FlattenUnfolds
      <4>3. \A i \in (1 + 1)..Len(s) : s[i] = <<>>
        BY <1>1, <1>5
      <4>4. g[Len(s)] = g[1]
        <5>1. PICK m \in 1..Len(s) : m = 1
          BY <4>1
        <5>2. \A i \in (m + 1)..Len(s) : s[i] = <<>>
          BY <4>3, <5>1
        <5>3. g[Len(s)] = g[m]
          BY <4>2, <5>2, JoinRests
        <5> QED
          BY <5>1, <5>3
      <4>5. g[1] = s[1] /\ s[1] = <<>>
        BY <1>5, <4>1, <4>2 DEF Joins
      <4> QED
        BY <4>2, <4>4, <4>5
    <3> QED
      BY <3>1, <3>2
  <2>3. <<>> \o t[k + 1] = t[k + 1]
    BY <1>2, ConcatEmptySeq
  <2>4. \A S : <<>> \in Seq(S)
    OBVIOUS
  <2> QED
    BY <1>2, <1>3, <1>4, <2>1, <2>2, <2>3, <2>4
<1>6. CASE k # 0
  <2>1. s # <<>> /\ k \in 1..Len(s) /\ k <= Len(t) /\ k \in Nat \ {0} /\ k + 1 <= Len(t)
    BY <1>1, <1>6
  <2>2. PICK g : Joins(g, s) /\ FlattenSeq(s) = g[Len(s)]
    BY <2>1, FlattenUnfolds
  <2>3. g[Len(s)] = g[k]
    BY <2>1, <2>2, JoinRests
  <2>4. g[k] = h[k]
    <3>1. Joins(g, s) /\ Joins(h, t) /\ \A i \in 1..k : s[i] = t[i]
      BY <1>3, <2>2
    <3> QED
      <4>1. k \in 1..Len(t) /\ k \in 1..Len(s) /\ k \in Nat /\ Alike(s, t, k)
        BY <1>1, <2>1, <3>1 DEF Alike
      <4>2. PICK m \in Nat : m = k
        BY <4>1
      <4>3. m \in 1..Len(t) /\ m \in 1..Len(s) /\ Alike(s, t, m)
        BY <4>1, <4>2
      <4>4. g[m] = h[m]
        BY <3>1, <4>3, JoinAlike
      <4> QED
        BY <4>2, <4>4
  <2>5. h[k + 1] = h[k] \o t[k + 1]
    BY <1>1, <1>3, <2>1, JoinNext
  <2>6. g[Len(s)] \in Seq(T)
    BY <1>1, <2>1, <2>2, JoinTyped
  <2> QED
    BY <1>2, <1>3, <1>4, <2>2, <2>3, <2>4, <2>5, <2>6
<1> QED
  BY <1>5, <1>6

-----------------------------------------------------------------------------
(* Swings of a series that grows *)
PriceBar == [t : Nat, h : Int, l : Int, c : Int, d : Int]
SwingRecord == [kind : {"high", "low"}, idx : Nat \ {0}, price : Int]
Piece(path, i, n) ==
    (IF IsHigh(path, i, n) THEN <<Swing("high", i, path[i].h)>> ELSE <<>>) \o
    (IF IsLow(path, i, n) THEN <<Swing("low", i, path[i].l)>> ELSE <<>>)
Pieces(path, n) == [i \in 1..Len(path) |-> Piece(path, i, n)]

\* The swing of a bar, if it is one, is a record of its place and price.
LEMMA PieceTyped ==
  ASSUME NEW path \in Seq(PriceBar), NEW n \in Nat \ {0}, NEW i \in 1..Len(path)
  PROVE  /\ Piece(path, i, n) \in Seq(SwingRecord)
         /\ \A j \in 1..Len(Piece(path, i, n)) : Piece(path, i, n)[j].idx = i
         /\ Around(path, i, n) = {} => Piece(path, i, n) = <<>>
<1>1. path[i] \in PriceBar
  BY ElementOfSeq
<1>2. /\ Swing("high", i, path[i].h) \in SwingRecord /\ Swing("high", i, path[i].h).idx = i
      /\ Swing("low", i, path[i].l) \in SwingRecord /\ Swing("low", i, path[i].l).idx = i
  <2>1. PICK x, y : x = path[i].h /\ y = path[i].l
    OBVIOUS
  <2>2. i \in Nat \ {0} /\ x \in Int /\ y \in Int
    BY <1>1, <2>1 DEF PriceBar
  <2>3. /\ Swing("high", i, x) \in SwingRecord /\ Swing("high", i, x).idx = i
        /\ Swing("low", i, y) \in SwingRecord /\ Swing("low", i, y).idx = i
    BY <2>2 DEF Swing, SwingRecord
  <2> QED
    BY <2>1, <2>3
<1> DEFINE x == IF IsHigh(path, i, n) THEN <<Swing("high", i, path[i].h)>> ELSE <<>>
           y == IF IsLow(path, i, n) THEN <<Swing("low", i, path[i].l)>> ELSE <<>>
<1>3. x \in Seq(SwingRecord) /\ \A j \in 1..Len(x) : x[j].idx = i
  BY <1>2
<1>4. y \in Seq(SwingRecord) /\ \A j \in 1..Len(y) : y[j].idx = i
  BY <1>2
<1>5. Piece(path, i, n) = x \o y
  BY DEF Piece
<1>6. Around(path, i, n) = {} => x = <<>> /\ y = <<>>
  BY DEF IsHigh, IsLow
<1>7. <<>> \o <<>> = <<>>
  OBVIOUS
<1> HIDE DEF x, y
<1>8. /\ x \o y \in Seq(SwingRecord) /\ Len(x \o y) = Len(x) + Len(y)
      /\ \A j \in 1..Len(x) + Len(y) : (x \o y)[j] = IF j <= Len(x) THEN x[j] ELSE y[j - Len(x)]
  BY <1>3, <1>4, ConcatProperties
<1>9. Len(x) \in Nat /\ Len(y) \in Nat
  BY <1>3, <1>4
<1>10. \A j \in 1..Len(x) + Len(y) : (x \o y)[j].idx = i
  <2> SUFFICES ASSUME NEW j \in 1..Len(x) + Len(y) PROVE (x \o y)[j].idx = i
    OBVIOUS
  <2>1. CASE j <= Len(x)
    BY <1>3, <1>8, <1>9, <2>1
  <2>2. CASE ~(j <= Len(x))
    <3>1. j - Len(x) \in 1..Len(y)
      BY <1>9, <2>2
    <3> QED
      BY <1>4, <1>8, <1>9, <2>2, <3>1
  <2> QED
    BY <2>1, <2>2
<1> QED
  BY <1>5, <1>6, <1>7, <1>8, <1>10

\* So are the swings of all bars.
LEMMA PiecesTyped ==
  ASSUME NEW path \in Seq(PriceBar), NEW n \in Nat \ {0}
  PROVE  /\ Pieces(path, n) \in Seq(Seq(SwingRecord)) /\ Len(Pieces(path, n)) = Len(path)
         /\ Swings(path, n) = FlattenSeq(Pieces(path, n))
<1>1. \A i \in 1..Len(path) : Piece(path, i, n) \in Seq(SwingRecord)
  BY PieceTyped
<1>2. Len(path) \in Nat
  OBVIOUS
<1>3. Pieces(path, n) \in Seq(Seq(SwingRecord)) /\ Len(Pieces(path, n)) = Len(path)
  BY <1>1, <1>2 DEF Pieces
<1> QED
  BY <1>3 DEF Swings, Pieces, Piece

\* Whether a bar is a swing depends on the bars around it only.
LEMMA PieceStays ==
  ASSUME NEW path \in Seq(PriceBar), NEW n \in Nat \ {0}, NEW newest \in PriceBar,
         NEW i \in 1..Len(path), i + n <= Len(path)
  PROVE  Piece(Append(path, newest), i, n) = Piece(path, i, n)
<1> DEFINE more == Append(path, newest)
<1>1. Len(path) \in Nat /\ Len(more) = Len(path) + 1 /\ \A j \in 1..Len(path) : more[j] = path[j]
  BY AppendProperties
<1> HIDE DEF more
<1>2. Around(more, i, n) = Around(path, i, n) /\ \A j \in Around(path, i, n) : j \in 1..Len(path)
  BY <1>1 DEF Around
<1>3. IsHigh(more, i, n) <=> IsHigh(path, i, n)
  BY <1>1, <1>2 DEF IsHigh
<1>4. IsLow(more, i, n) <=> IsLow(path, i, n)
  BY <1>1, <1>2 DEF IsLow
<1> QED
  BY <1>1, <1>3, <1>4 DEF Piece, more

\* A bar more adds at most one swing, after all the others (swings.detect_swings).
LEMMA SwingsGrow ==
  ASSUME NEW path \in Seq(PriceBar), NEW n \in Nat \ {0}, NEW newest \in PriceBar
  PROVE  /\ Swings(path, n) \in Seq(SwingRecord)
         /\ \E q \in Seq(SwingRecord) :
               /\ Swings(Append(path, newest), n) = Swings(path, n) \o q
               /\ \A j \in 1..Len(q) : q[j].idx = Len(path) + 1 - n
<1> DEFINE more == Append(path, newest)
           s == Pieces(path, n)
           t == Pieces(more, n)
           k == IF n <= Len(path) THEN Len(path) - n ELSE 0
<1>1. Len(path) \in Nat /\ more \in Seq(PriceBar) /\ Len(more) = Len(path) + 1
  BY AppendProperties
<1>2. k \in 0..Len(path) /\ k \in Nat /\ k + 1 \in 1..Len(more)
  BY <1>1
<1>3. s \in Seq(Seq(SwingRecord)) /\ Len(s) = Len(path) /\ Swings(path, n) = FlattenSeq(s)
  BY PiecesTyped
<1>4. t \in Seq(Seq(SwingRecord)) /\ Len(t) = Len(path) + 1 /\ Swings(more, n) = FlattenSeq(t)
  BY <1>1, PiecesTyped
<1>5. \A i \in 1..k : s[i] = t[i]
  <2> SUFFICES ASSUME NEW i \in 1..k PROVE s[i] = t[i]
    OBVIOUS
  <2>1. i \in 1..Len(path) /\ i + n <= Len(path) /\ i \in 1..Len(more)
    BY <1>1
  <2> QED
    BY <2>1, PieceStays DEF Pieces
<1>6. \A i \in (k + 1)..Len(path) : s[i] = <<>>
  <2> SUFFICES ASSUME NEW i \in (k + 1)..Len(path) PROVE s[i] = <<>>
    OBVIOUS
  <2>1. i \in 1..Len(path) /\ ~(i + n <= Len(path))
    BY <1>1, <1>2
  <2>2. Around(path, i, n) = {}
    BY <2>1 DEF Around
  <2> QED
    BY <2>1, <2>2, PieceTyped DEF Pieces
<1>7. \A i \in (k + 2)..Len(more) : t[i] = <<>>
  <2> SUFFICES ASSUME NEW i \in (k + 2)..Len(more) PROVE t[i] = <<>>
    OBVIOUS
  <2>1. i \in 1..Len(more) /\ ~(i + n <= Len(more))
    BY <1>1, <1>2
  <2>2. Around(more, i, n) = {}
    BY <2>1 DEF Around
  <2>3. Piece(more, i, n) = <<>>
    BY <1>1, <2>1, <2>2, PieceTyped
  <2> QED
    BY <2>1, <2>3 DEF Pieces
<1>8. t[k + 1] = Piece(more, k + 1, n) /\ \A j \in 1..Len(t[k + 1]) : t[k + 1][j].idx = k + 1
  <2>1. t[k + 1] = Piece(more, k + 1, n)
    BY <1>2 DEF Pieces
  <2>2. \A j \in 1..Len(Piece(more, k + 1, n)) : Piece(more, k + 1, n)[j].idx = k + 1
    <3> HIDE DEF more, k
    <3> QED
      BY <1>1, <1>2, PieceTyped
  <2> QED
    BY <2>1, <2>2
<1>9. ~(n <= Len(path)) => t[k + 1] = <<>>
  <2> SUFFICES ASSUME ~(n <= Len(path)) PROVE t[k + 1] = <<>>
    OBVIOUS
  <2>1. k = 0 /\ 1 \in 1..Len(more)
    BY <1>1
  <2>2. Around(more, 1, n) = {}
    BY <1>1 DEF Around
  <2>3. Piece(more, 1, n) = <<>>
    BY <1>1, <2>1, <2>2, PieceTyped
  <2> QED
    BY <1>8, <2>1, <2>3
<1>10. \A j \in 1..Len(t[k + 1]) : t[k + 1][j].idx = Len(path) + 1 - n
  <2>1. CASE n <= Len(path)
    <3>1. k + 1 = Len(path) + 1 - n
      BY <1>1, <2>1
    <3> HIDE DEF t, k
    <3> QED
      BY <1>8, <3>1
  <2>2. CASE ~(n <= Len(path))
    <3>1. t[k + 1] = <<>>
      BY <1>9, <2>2
    <3>2. Len(t[k + 1]) = 0
      BY <3>1
    <3> HIDE DEF t, k
    <3> QED
      BY <3>2
  <2> QED
    BY <2>1, <2>2
<1>11. /\ FlattenSeq(t) = FlattenSeq(s) \o t[k + 1] /\ t[k + 1] \in Seq(SwingRecord)
       /\ FlattenSeq(s) \in Seq(SwingRecord)
  <2> HIDE DEF s, t, k
  <2> QED
    BY <1>1, <1>2, <1>3, <1>4, <1>5, <1>6, <1>7, FlattenGrows
<1> QED
  <2> HIDE DEF s, t, k
  <2> QED
    BY <1>3, <1>4, <1>10, <1>11 DEF more

\* Swings stand in the order of their bars, and each has n bars on either side.
SwingsIn(sw, upTo) ==
    /\ \A i \in 1..Len(sw) : sw[i].idx <= upTo
    /\ \A i, j \in 1..Len(sw) : i <= j => sw[i].idx <= sw[j].idx

\* Swings are in the order of their bars, and none is of the last bars.
LEMMA SwingsOrdered ==
  ASSUME NEW n \in Nat \ {0}, NEW series \in Seq(PriceBar)
  PROVE  Swings(series, n) \in Seq(SwingRecord) /\ SwingsIn(Swings(series, n), Len(series) - n)
<1> DEFINE P(k) == \A path \in Seq(PriceBar) : Len(path) = k =>
                      Swings(path, n) \in Seq(SwingRecord) /\ SwingsIn(Swings(path, n), k - n)
           N == { k \in Nat : P(k) }
<1>1. 0 \in N
  <2> SUFFICES ASSUME NEW path \in Seq(PriceBar), Len(path) = 0
               PROVE  Swings(path, n) \in Seq(SwingRecord) /\ SwingsIn(Swings(path, n), 0 - n)
    OBVIOUS
  <2>1. Pieces(path, n) \in Seq(Seq(SwingRecord)) /\ Len(Pieces(path, n)) = 0
    BY PiecesTyped
  <2>2. Pieces(path, n) = <<>>
    BY <2>1
  <2>3. Swings(path, n) = <<>>
    BY <2>1, <2>2, PiecesTyped DEF FlattenSeq
  <2>4. Len(Swings(path, n)) = 0
    BY <2>3
  <2>5. \A S : <<>> \in Seq(S)
    OBVIOUS
  <2> QED
    BY <2>3, <2>4, <2>5 DEF SwingsIn
<1>2. ASSUME NEW k \in N PROVE k + 1 \in N
  <2>0. k \in Nat /\ P(k)
    OBVIOUS
  <2> HIDE DEF P, N
  <2>1. ASSUME NEW path \in Seq(PriceBar), Len(path) = k + 1
        PROVE  Swings(path, n) \in Seq(SwingRecord) /\ SwingsIn(Swings(path, n), k + 1 - n)
    <3> DEFINE front == SubSeq(path, 1, k)
    <3>1. front \in Seq(PriceBar) /\ Len(front) = k /\ path[k + 1] \in PriceBar
      BY <2>0, <2>1
    <3>2. path = Append(front, path[k + 1])
      BY <2>0, <2>1
    <3> HIDE DEF front
    <3>3. PICK q \in Seq(SwingRecord) :
              /\ Swings(path, n) = Swings(front, n) \o q
              /\ \A j \in 1..Len(q) : q[j].idx = k + 1 - n
      <4>1. PICK b \in PriceBar : b = path[k + 1]
        BY <3>1
      <4>2. \E q \in Seq(SwingRecord) :
              /\ Swings(Append(front, b), n) = Swings(front, n) \o q
              /\ \A j \in 1..Len(q) : q[j].idx = Len(front) + 1 - n
        BY <3>1, SwingsGrow, Zenon
      <4> QED
        BY <3>1, <3>2, <4>1, <4>2
    <3>4. Swings(front, n) \in Seq(SwingRecord) /\ SwingsIn(Swings(front, n), k - n)
      BY <2>0, <3>1 DEF P
    <3>5. PICK s \in Seq(SwingRecord) : s = Swings(front, n)
      BY <3>4
    <3>6. /\ s \o q \in Seq(SwingRecord) /\ Len(s \o q) = Len(s) + Len(q)
          /\ \A i \in 1..Len(s) + Len(q) : (s \o q)[i] = IF i <= Len(s) THEN s[i] ELSE q[i - Len(s)]
      BY ConcatProperties
    <3>7. Len(s) \in Nat /\ Len(q) \in Nat
      OBVIOUS
    <3>8. \A i \in 1..Len(s) : s[i].idx <= k - n /\ s[i].idx \in Nat
      <4>1. \A i \in 1..Len(s) : s[i] \in SwingRecord
        BY ElementOfSeq
      <4>2. \A r \in SwingRecord : r.idx \in Nat
        BY DEF SwingRecord
      <4> QED
        BY <3>4, <3>5, <4>1, <4>2 DEF SwingsIn
    <3>9. \A i \in 1..Len(s) + Len(q) :
             /\ i <= Len(s) => (s \o q)[i].idx = s[i].idx /\ i \in 1..Len(s)
             /\ ~(i <= Len(s)) => (s \o q)[i].idx = k + 1 - n
      <4> SUFFICES ASSUME NEW i \in 1..Len(s) + Len(q)
                   PROVE  /\ i <= Len(s) => (s \o q)[i].idx = s[i].idx /\ i \in 1..Len(s)
                          /\ ~(i <= Len(s)) => (s \o q)[i].idx = k + 1 - n
        OBVIOUS
      <4>1. ~(i <= Len(s)) => i - Len(s) \in 1..Len(q)
        BY <3>7
      <4> QED
        BY <3>3, <3>6, <3>7, <4>1
    <3>10. SwingsIn(s \o q, k + 1 - n)
      <4>1. \A i, j \in 1..Len(s) : i <= j => s[i].idx <= s[j].idx
        BY <3>4, <3>5 DEF SwingsIn
      <4>2. ASSUME NEW i \in 1..Len(s) + Len(q) PROVE (s \o q)[i].idx <= k + 1 - n
        BY <2>0, <3>7, <3>8, <3>9
      <4>3. ASSUME NEW i \in 1..Len(s) + Len(q), NEW j \in 1..Len(s) + Len(q), i <= j
            PROVE  (s \o q)[i].idx <= (s \o q)[j].idx
        <5>1. CASE j <= Len(s)
          BY <3>7, <3>9, <4>1, <4>3, <5>1
        <5>2. CASE ~(j <= Len(s))
          BY <2>0, <3>7, <3>9, <4>2, <5>2
        <5> QED
          BY <5>1, <5>2
      <4> QED
        BY <3>6, <4>2, <4>3 DEF SwingsIn
    <3> QED
      BY <3>3, <3>5, <3>6, <3>10
  <2>2. \A path \in Seq(PriceBar) : Len(path) = k + 1 =>
           Swings(path, n) \in Seq(SwingRecord) /\ SwingsIn(Swings(path, n), (k + 1) - n)
    BY <2>0, <2>1
  <2> QED
    BY <2>0, <2>2 DEF P, N
<1>3. N = Nat
  <2>1. N \in SUBSET Nat
    OBVIOUS
  <2> HIDE DEF N
  <2> QED
    BY <1>1, <1>2, <2>1, Induction
<1>4. PICK k \in Nat : k = Len(series)
  OBVIOUS
<1>5. P(k)
  BY <1>3
<1> QED
  BY <1>4, <1>5

-----------------------------------------------------------------------------
(***************************************************************************)
(* Limits.  What a strategy that waits for a price has seen is never behind *)
(* what its bars show now, so that a structure is not taken for a new one  *)
(* again (SeenAt): no later bar shows an earlier structure.                *)
(***************************************************************************)
\* A break is the first close beyond the guarded price, if there is one.
LEMMA BrokenIs ==
  ASSUME NEW path \in Seq(PriceBar), NEW from \in Nat \ {0}, NEW kind \in {"bear", "bull"}, NEW guard
  PROVE  LET ev == BrokenAt(path, from, kind, guard) IN
         /\ Found(ev) => /\ ev.kind = kind /\ ev.at \in from..Len(path) /\ Found(guard)
                         /\ IF kind = "bear" THEN path[ev.at].c < guard.price
                            ELSE path[ev.at].c > guard.price
                         /\ ev.level = guard.price
         /\ \A i \in from..Len(path) :
               Found(guard) /\ (IF kind = "bear" THEN path[i].c < guard.price
                                ELSE path[i].c > guard.price)
               => Found(ev) /\ ev.at <= i
<1> DEFINE broke == {i \in from..Len(path) : IF kind = "bear" THEN path[i].c < guard.price
                                             ELSE path[i].c > guard.price}
           ev == BrokenAt(path, from, kind, guard)
<1>1. broke \in SUBSET Nat
  OBVIOUS
<1>2. ev = IF ~Found(guard) \/ broke = {} THEN None
           ELSE [kind |-> kind, at |-> Min(broke), level |-> guard.price]
  BY DEF BrokenAt
<1>3. ~Found(None)
  BY DEF Found, None
<1>4. broke # {} => Min(broke) \in broke /\ \A i \in broke : Min(broke) <= i
  <2> HIDE DEF broke
  <2> QED
    BY <1>1, LeastOf
<1>5. Found([kind |-> kind, at |-> Min(broke), level |-> guard.price])
  BY DEF Found
<1>6. CASE ~Found(guard) \/ broke = {}
  <2>1. ~Found(ev)
    BY <1>2, <1>3, <1>6
  <2>2. \A i \in from..Len(path) :
               ~(Found(guard) /\ (IF kind = "bear" THEN path[i].c < guard.price
                                ELSE path[i].c > guard.price))
    BY <1>6
  <2> QED
    BY <2>1, <2>2
<1>7. CASE ~(~Found(guard) \/ broke = {})
  <2>1. ev = [kind |-> kind, at |-> Min(broke), level |-> guard.price]
    BY <1>2, <1>7
  <2>2. ev.kind = kind /\ ev.at = Min(broke) /\ ev.level = guard.price /\ Found(ev)
    BY <1>5, <2>1
  <2>3. Min(broke) \in broke /\ \A i \in broke : Min(broke) <= i
    BY <1>4, <1>7
  <2>4. /\ Min(broke) \in from..Len(path)
        /\ IF kind = "bear" THEN path[Min(broke)].c < guard.price ELSE path[Min(broke)].c > guard.price
    BY <2>3
  <2>5. \A i \in from..Len(path) :
               (IF kind = "bear" THEN path[i].c < guard.price ELSE path[i].c > guard.price)
               => Min(broke) <= i
    BY <2>3
  <2>6. /\ ev.at \in from..Len(path)
        /\ IF kind = "bear" THEN path[ev.at].c < guard.price ELSE path[ev.at].c > guard.price
    <3> HIDE DEF broke, ev
    <3> QED
      BY <2>2, <2>4
  <2>7. \A i \in from..Len(path) :
               (IF kind = "bear" THEN path[i].c < guard.price ELSE path[i].c > guard.price)
               => ev.at <= i
    <3> HIDE DEF broke, ev
    <3> QED
      BY <2>2, <2>5
  <2> HIDE DEF broke, ev
  <2>8. Found(guard)
    BY <1>7
  <2> QED
    BY <2>2, <2>6, <2>7, <2>8 DEF ev
<1> QED
  BY <1>6, <1>7

\* The last swing of a kind does not depend on a bound beyond all of them.
LEMMA LastSwingBound ==
  ASSUME NEW sw \in Seq(SwingRecord), NEW kind, NEW x \in Int, NEW y \in Int,
         \A i \in 1..Len(sw) : sw[i].idx <= x /\ sw[i].idx <= y
  PROVE  LastSwing(sw, kind, x) = LastSwing(sw, kind, y)
<1>1. {i \in DOMAIN sw : sw[i].kind = kind /\ sw[i].idx <= x} =
      {i \in DOMAIN sw : sw[i].kind = kind /\ sw[i].idx <= y}
  OBVIOUS
<1> QED
  BY <1>1 DEF LastSwing

\* The last swing of a kind is one of the swings.
LEMMA LastSwingTyped ==
  ASSUME NEW sw \in Seq(SwingRecord), NEW kind, NEW x \in Int, Found(LastSwing(sw, kind, x))
  PROVE  /\ LastSwing(sw, kind, x) \in SwingRecord
         /\ LastSwing(sw, kind, x).kind = kind /\ LastSwing(sw, kind, x).idx <= x
<1> DEFINE S == {i \in DOMAIN sw : sw[i].kind = kind /\ sw[i].idx <= x}
<1>1. S # {}
  BY DEF LastSwing, Found, None
<1>2. S \in SUBSET (1..Len(sw)) /\ Len(sw) \in Nat
  OBVIOUS
<1>3. Max(S) \in S
  <2> HIDE DEF S
  <2> QED
    BY <1>1, <1>2, MaxStands
<1>4. LastSwing(sw, kind, x) = sw[Max(S)]
  BY <1>1 DEF LastSwing
<1>5. sw[Max(S)].kind = kind /\ sw[Max(S)].idx <= x /\ Max(S) \in 1..Len(sw)
  BY <1>3
<1>6. sw[Max(S)] \in SwingRecord
  BY <1>5, ElementOfSeq
<1> QED
  BY <1>4, <1>5, <1>6

\* The swings of the bars, as the strategies read them.
SwingsOf(path) == Swings(path, SwingN)

\* A swing looks at one or two bars to each side.
LEMMA SwingAssumed == SwingN \in Nat \ {0} /\ SwingN <= 2
  BY LimitAssumption

\* The swings of the bars of a path.
LEMMA SwingsTyped ==
  ASSUME NEW path \in Seq(PriceBar)
  PROVE  /\ SwingsOf(path) \in Seq(SwingRecord) /\ Len(path) \in Nat
         /\ \A i \in 1..Len(SwingsOf(path)) :
               /\ SwingsOf(path)[i] \in SwingRecord
               /\ SwingsOf(path)[i].idx <= Len(path) - SwingN
<1>1. SwingsOf(path) \in Seq(SwingRecord) /\ SwingsIn(SwingsOf(path), Len(path) - SwingN)
  BY SwingAssumed, SwingsOrdered DEF SwingsOf
<1>2. \A i \in 1..Len(SwingsOf(path)) : SwingsOf(path)[i] \in SwingRecord
  BY <1>1, ElementOfSeq
<1> QED
  BY <1>1, <1>2 DEF SwingsIn

\* The change of character that the code reads, if it reads one.
ChochEvent(path, ev) ==
    \E kind \in {"bear", "bull"} : LET sw == SwingsOf(path) IN
       /\ Len(path) >= 2 * SwingN + 4 /\ Len(sw) >= 4
       /\ Trend(IF Len(sw) >= 5 THEN Front(sw) ELSE sw) = (IF kind = "bear" THEN "up" ELSE "down")
       /\ ev = BrokenAt(path, sw[Len(sw)].idx + 1, kind,
                        LastSwing(sw, IF kind = "bear" THEN "low" ELSE "high", Len(path)))

\* Choch reads that event and no other.
LEMMA ChochIs ==
  ASSUME NEW path \in Seq(PriceBar)
  PROVE  /\ Found(Choch(path, SwingN)) => ChochEvent(path, Choch(path, SwingN))
         /\ \A ev : ChochEvent(path, ev) => ev = Choch(path, SwingN)
<1> DEFINE sw == SwingsOf(path)
           course == Trend(IF Len(sw) >= 5 THEN Front(sw) ELSE sw)
<1>1. Len(path) \in Nat /\ SwingN \in Nat /\ Len(sw) \in Nat
  BY SwingAssumed, SwingsTyped
<1>2. Choch(path, SwingN) =
         IF Len(path) < 2 * SwingN + 4 THEN None
         ELSE IF Len(sw) < 4 THEN None ELSE ChochIn(path, sw, course)
  BY DEF Choch, ChochOf, SwingsOf
<1>3. ~Found(None)
  BY DEF Found, None
<1>4. ChochIn(path, sw, course) =
         CASE course = "up" -> BrokenAt(path, sw[Len(sw)].idx + 1, "bear", LastSwing(sw, "low", Len(path)))
           [] course = "down" -> BrokenAt(path, sw[Len(sw)].idx + 1, "bull", LastSwing(sw, "high", Len(path)))
           [] OTHER -> None
  BY DEF ChochIn, Last
<1> HIDE DEF sw, course
<1>5. ASSUME Found(Choch(path, SwingN)) PROVE ChochEvent(path, Choch(path, SwingN))
  <2>1. ~(Len(path) < 2 * SwingN + 4) /\ ~(Len(sw) < 4)
        /\ Choch(path, SwingN) = ChochIn(path, sw, course)
    BY <1>2, <1>3, <1>5
  <2>2. CASE course = "up"
    <3>1. Choch(path, SwingN) = BrokenAt(path, sw[Len(sw)].idx + 1, "bear", LastSwing(sw, "low", Len(path)))
      BY <1>4, <2>1, <2>2
    <3> QED
      BY <1>1, <2>1, <2>2, <3>1 DEF ChochEvent, sw, course
  <2>3. CASE course = "down"
    <3>1. Choch(path, SwingN) = BrokenAt(path, sw[Len(sw)].idx + 1, "bull", LastSwing(sw, "high", Len(path)))
      BY <1>4, <2>1, <2>3
    <3> QED
      BY <1>1, <2>1, <2>3, <3>1 DEF ChochEvent, sw, course
  <2>4. CASE course # "up" /\ course # "down"
    BY <1>3, <1>4, <1>5, <2>1, <2>4
  <2> QED
    BY <2>2, <2>3, <2>4
<1>6. ASSUME NEW ev, ChochEvent(path, ev) PROVE ev = Choch(path, SwingN)
  <2>1. PICK kind \in {"bear", "bull"} :
          /\ Len(path) >= 2 * SwingN + 4 /\ Len(sw) >= 4
          /\ course = (IF kind = "bear" THEN "up" ELSE "down")
          /\ ev = BrokenAt(path, sw[Len(sw)].idx + 1, kind,
                           LastSwing(sw, IF kind = "bear" THEN "low" ELSE "high", Len(path)))
    BY <1>6 DEF ChochEvent, sw, course
  <2>2. Choch(path, SwingN) = ChochIn(path, sw, course)
    BY <1>1, <1>2, <2>1
  <2>3. CASE kind = "bear"
    BY <1>4, <2>1, <2>2, <2>3
  <2>4. CASE kind = "bull"
    BY <1>4, <2>1, <2>2, <2>4
  <2> QED
    BY <2>3, <2>4
<1> QED
  BY <1>5, <1>6

\* Whatever is read as a change of character is not before bar e.
NotBefore(path, e) ==
    Found(Choch(path, SwingN)) => Choch(path, SwingN).at >= e

\* A change of character is at a bar of the path.
LEMMA ChochAt ==
  ASSUME NEW path \in Seq(PriceBar), Found(Choch(path, SwingN))
  PROVE  /\ Choch(path, SwingN).at \in 1..Len(path) /\ Choch(path, SwingN).kind \in {"bear", "bull"}
         /\ Len(SwingsOf(path)) >= 4
         /\ Choch(path, SwingN).at > SwingsOf(path)[Len(SwingsOf(path))].idx
<1> DEFINE ev == Choch(path, SwingN)
           sw == SwingsOf(path)
<1>0. PICK kind \in {"bear", "bull"} :
         /\ Len(sw) >= 4
         /\ ev = BrokenAt(path, sw[Len(sw)].idx + 1, kind,
                          LastSwing(sw, IF kind = "bear" THEN "low" ELSE "high", Len(path)))
  BY ChochIs DEF ChochEvent
<1>1. PICK guard : Len(sw) >= 4 /\ ev = BrokenAt(path, sw[Len(sw)].idx + 1, kind, guard)
  BY <1>0
<1>2. Len(sw) \in Nat /\ Len(path) \in Nat
  BY SwingsTyped
<1>3. sw[Len(sw)].idx \in Nat
  <2>1. sw[Len(sw)] \in SwingRecord
    BY <1>1, <1>2, SwingsTyped
  <2> QED
    BY <2>1 DEF SwingRecord
<1> HIDE DEF sw, ev
<1>4. PICK from \in Nat \ {0} : from = sw[Len(sw)].idx + 1
  BY <1>3
<1>5. ev.kind = kind /\ ev.at \in from..Len(path)
  <2>1. Found(BrokenAt(path, from, kind, guard))
    BY <1>1, <1>4 DEF ev
  <2>2. BrokenAt(path, from, kind, guard).kind = kind /\ BrokenAt(path, from, kind, guard).at \in from..Len(path)
    BY <2>1, BrokenIs
  <2> QED
    BY <1>1, <1>4, <2>2
<1>6. ev.at \in 1..Len(path) /\ ev.kind \in {"bear", "bull"} /\ ev.at > sw[Len(sw)].idx
  BY <1>2, <1>3, <1>4, <1>5
<1> QED
  BY <1>1, <1>6 DEF ev, sw

\* A bar more shows no earlier change of character than the bars before it did: this
\* is where SwingN is used, since of three bars and more to a side a swing that is found
\* later may have been broken earlier.
LEMMA ChochStays ==
  ASSUME NEW path \in Seq(PriceBar), NEW newest \in PriceBar, NEW e \in 1..Len(path),
         Len(path) >= 2 * SwingN + 4, NotBefore(path, e)
  PROVE  NotBefore(Append(path, newest), e)
<1> DEFINE more == Append(path, newest)
           sw == SwingsOf(path)
<1>1. /\ more \in Seq(PriceBar) /\ Len(more) = Len(path) + 1 /\ Len(path) \in Nat
      /\ \A i \in 1..Len(path) : more[i] = path[i]
  BY AppendProperties
<1>2. PICK q \in Seq(SwingRecord) :
         SwingsOf(more) = sw \o q /\ \A j \in 1..Len(q) : q[j].idx = Len(path) + 1 - SwingN
  BY SwingAssumed, SwingsGrow DEF SwingsOf
<1>3. /\ sw \in Seq(SwingRecord) /\ Len(sw) \in Nat
      /\ \A i \in 1..Len(sw) : sw[i] \in SwingRecord /\ sw[i].idx <= Len(path) - SwingN
  BY SwingsTyped
<1> HIDE DEF more, sw
<1> SUFFICES ASSUME Found(Choch(more, SwingN)) PROVE Choch(more, SwingN).at >= e
  BY DEF NotBefore, more
<1>4. /\ Choch(more, SwingN).at \in 1..Len(more)
      /\ Len(SwingsOf(more)) >= 4
      /\ Choch(more, SwingN).at > SwingsOf(more)[Len(SwingsOf(more))].idx
  BY <1>1, ChochAt
<1>5. CASE q = <<>>
  <2>1. SwingsOf(more) = sw
    BY <1>2, <1>3, <1>5, ConcatEmptySeq
  <2>2. PICK kind \in {"bear", "bull"} :
          /\ Len(sw) >= 4
          /\ Trend(IF Len(sw) >= 5 THEN Front(sw) ELSE sw) = (IF kind = "bear" THEN "up" ELSE "down")
          /\ Choch(more, SwingN) =
               BrokenAt(more, sw[Len(sw)].idx + 1, kind,
                        LastSwing(sw, IF kind = "bear" THEN "low" ELSE "high", Len(more)))
    BY <1>1, <2>1, ChochIs DEF ChochEvent
  <2>3. PICK end : end = (IF kind = "bear" THEN "low" ELSE "high")
    OBVIOUS
  <2>4. PICK guard : guard = LastSwing(sw, end, Len(path))
    OBVIOUS
  <2>5. guard = LastSwing(sw, end, Len(more))
    <3>1. \A i \in 1..Len(sw) : sw[i].idx <= Len(path) /\ sw[i].idx <= Len(more)
      <4>1. \A i \in 1..Len(sw) : sw[i].idx \in Nat
        BY <1>3 DEF SwingRecord
      <4> QED
        BY <1>1, <1>3, <4>1, SwingAssumed
    <3>2. Len(path) \in Int /\ Len(more) \in Int
      BY <1>1
    <3> QED
      BY <1>3, <2>4, <3>1, <3>2, LastSwingBound
  <2>6. PICK from \in Nat \ {0} : from = sw[Len(sw)].idx + 1
    <3>1. sw[Len(sw)] \in SwingRecord
      BY <1>3, <2>2
    <3> QED
      BY <3>1 DEF SwingRecord
  <2>7. Choch(more, SwingN) = BrokenAt(more, from, kind, guard)
    BY <2>2, <2>3, <2>5, <2>6
  <2>8. BrokenAt(path, from, kind, guard) = Choch(path, SwingN)
    <3>1. ChochEvent(path, BrokenAt(path, from, kind, guard))
      BY <1>3, <2>2, <2>3, <2>4, <2>6 DEF ChochEvent, sw
    <3> QED
      BY <3>1, ChochIs
  <2>9. PICK a : a = Choch(more, SwingN).at
    OBVIOUS
  <2>10. /\ a \in from..Len(more) /\ Found(guard)
         /\ IF kind = "bear" THEN more[a].c < guard.price ELSE more[a].c > guard.price
    <3>1. PICK ev : ev = BrokenAt(more, from, kind, guard)
      OBVIOUS
    <3>2. Found(ev) /\ a = ev.at
      BY <2>7, <2>9, <3>1
    <3>3. /\ ev.at \in from..Len(more) /\ Found(guard)
          /\ IF kind = "bear" THEN more[ev.at].c < guard.price ELSE more[ev.at].c > guard.price
      BY <1>1, <3>1, <3>2, BrokenIs
    <3> QED
      BY <3>2, <3>3
  <2>11. CASE a = Len(more)
    BY <1>1, <2>9, <2>11
  <2>12. CASE a # Len(more)
    <3>1. a \in from..Len(path) /\ more[a] = path[a]
      <4>1. a \in 1..Len(path) /\ a >= from
        BY <1>1, <2>10, <2>12
      <4> QED
        BY <1>1, <4>1
    <3>2. Found(BrokenAt(path, from, kind, guard)) /\ BrokenAt(path, from, kind, guard).at <= a
      BY <2>10, <3>1, BrokenIs
    <3>3. Choch(path, SwingN).at >= e /\ Choch(path, SwingN).at <= a
      BY <2>8, <3>2 DEF NotBefore
    <3>4. Choch(path, SwingN).at \in Nat
      BY <2>8, <3>2, ChochAt
    <3> QED
      BY <2>9, <3>1, <3>3, <3>4
  <2> QED
    BY <2>11, <2>12
<1>6. CASE q # <<>>
  <2>1. Len(q) \in Nat \ {0}
    BY <1>6
  <2>2. Len(sw \o q) = Len(sw) + Len(q) /\ (sw \o q)[Len(sw) + Len(q)] = q[Len(q)]
    <3>1. /\ Len(sw \o q) = Len(sw) + Len(q)
          /\ \A i \in 1..Len(sw) + Len(q) : (sw \o q)[i] = IF i <= Len(sw) THEN sw[i] ELSE q[i - Len(sw)]
      BY <1>3, ConcatProperties
    <3>2. Len(sw) + Len(q) \in 1..Len(sw) + Len(q) /\ ~(Len(sw) + Len(q) <= Len(sw))
          /\ Len(sw) + Len(q) - Len(sw) = Len(q)
      BY <1>3, <2>1
    <3> QED
      BY <3>1, <3>2
  <2>3. SwingsOf(more)[Len(SwingsOf(more))].idx = Len(path) + 1 - SwingN
    BY <1>2, <2>1, <2>2
  <2> QED
    BY <1>1, <1>4, <2>3, SwingAssumed
<1> QED
  BY <1>5, <1>6

\* The extremes of a stretch of bars are prices.
LEMMA ExtremesTyped ==
  ASSUME NEW path \in Seq(PriceBar), NEW i \in 1..Len(path)
  PROVE  Max(HighsFrom(path, i)) \in Int /\ Min(LowsFrom(path, i)) \in Int
<1> DEFINE H == HighsFrom(path, i)
           L == LowsFrom(path, i)
           f == [j \in i..Len(path) |-> path[j].h]
           g == [j \in i..Len(path) |-> path[j].l]
<1>1. Len(path) \in Nat /\ i \in i..Len(path) /\ IsFiniteSet(i..Len(path))
  BY FS_Interval
<1>2. \A j \in i..Len(path) : path[j].h \in Int /\ path[j].l \in Int
  <2>1. \A j \in i..Len(path) : path[j] \in PriceBar
    BY ElementOfSeq
  <2> QED
    BY <2>1 DEF PriceBar
<1>3. H = {f[j] : j \in i..Len(path)} /\ L = {g[j] : j \in i..Len(path)}
  BY DEF HighsFrom, LowsFrom
<1>4. H # {} /\ H \subseteq Int /\ L # {} /\ L \subseteq Int
  BY <1>1, <1>2 DEF HighsFrom, LowsFrom
<1> HIDE DEF f, g, H, L
<1>5. IsFiniteSet(H) /\ IsFiniteSet(L)
  BY <1>1, <1>3, ValuesFinite
<1>6. Max(H) \in Int /\ Min(L) \in Int
  BY <1>4, <1>5, ExtremesIn
<1> QED
  BY <1>6 DEF H, L

PlanSides == {"long", "short"}
SetupRecord == [kind : {"setup"}, ts : Nat, side : PlanSides, entry : Int, sl : Int, tp : Int]

\* A stop beyond the entry, whichever of the two distances is the longer.
LEMMA StopIs ==
  ASSUME NEW side \in PlanSides, NEW anchor \in Int, NEW entry \in Int
  PROVE  /\ StopBeyond(side, anchor, entry) \in Int
         /\ IF side = "long" THEN StopBeyond(side, anchor, entry) < entry
            ELSE entry < StopBeyond(side, anchor, entry)
<1> DEFINE lo == {1000 * anchor - StopBuf, entry - StopMin}
           hi == {1000 * anchor + StopBuf, entry + StopMin}
<1>0. StopBuf \in Nat /\ StopMin \in Nat \ {0}
  BY LimitAssumption
<1>1. lo \subseteq Int /\ lo # {} /\ IsFiniteSet(lo) /\ hi \subseteq Int /\ hi # {} /\ IsFiniteSet(hi)
  <2>0. 1000 * anchor - StopBuf \in Int /\ entry - StopMin \in Int
    BY <1>0
  <2>1. PICK a \in Int, b \in Int : a = 1000 * anchor - StopBuf /\ b = entry - StopMin
    BY <2>0
  <2>2. PICK c \in Int, d \in Int : c = 1000 * anchor + StopBuf /\ d = entry + StopMin
    BY <1>0
  <2>3. lo = {a, b} /\ hi = {c, d}
    BY <2>1, <2>2
  <2> HIDE DEF lo, hi
  <2>4. IsFiniteSet(lo) /\ IsFiniteSet(hi)
    BY <2>3, PairFinite
  <2> QED
    BY <2>3, <2>4
<1>2. entry - StopMin \in lo /\ entry + StopMin \in hi
  OBVIOUS
<1>3. StopBeyond(side, anchor, entry) = IF side = "long" THEN Min(lo) ELSE Max(hi)
  BY DEF StopBeyond
<1> HIDE DEF lo, hi
<1>4. Min(lo) \in Int /\ Max(hi) \in Int /\ Min(lo) <= entry - StopMin /\ Max(hi) >= entry + StopMin
  BY <1>1, <1>2, ExtremesIn
<1> QED
  BY <1>0, <1>3, <1>4

\* A set-up of integers with its stop and its target beyond the entry is a sound plan.
LEMMA SetupIs ==
  ASSUME NEW side, NEW ts, NEW entry, NEW anchor, NEW tp, NEW m, side \in PlanSides, ts \in Nat,
         entry \in Int, anchor \in Int, tp \in Int, m = Setup(ts, side, entry, anchor, tp)
  PROVE  /\ m \in SetupRecord /\ m.ts = ts
         /\ side = "long" /\ entry < tp => InOrder(m)
         /\ side = "short" /\ tp < entry => InOrder(m)
<1>1. PICK sl \in Int : sl = StopBeyond(side, anchor, entry)
  BY StopIs
<1>2. m = [kind |-> "setup", ts |-> ts, side |-> side, entry |-> entry, sl |-> sl, tp |-> tp]
  BY <1>1 DEF Setup
<1>3. IF side = "long" THEN sl < entry ELSE entry < sl
  BY <1>1, StopIs
<1> QED
  BY <1>2, <1>3 DEF SetupRecord, InOrder, PlanSides

\* A fraction of a positive number is positive.
LEMMA Positive ==
  ASSUME NEW x \in Nat, NEW y \in Int, y > 0
  PROVE  /\ x * y \in Int /\ x * y >= 0 /\ (x > 0 => x * y > 0)
<1>1. x = 0 => x * y = 0
  OBVIOUS
<1>2. x > 0 => x * y >= y
  <2> SUFFICES ASSUME x > 0 PROVE x * y >= y
    OBVIOUS
  <2>1. x - 1 \in Nat /\ (x - 1) * y >= 0 /\ (x - 1) * y = x * y - y
    OBVIOUS
  <2>2. x * y \in Int
    OBVIOUS
  <2> QED
    BY <2>1, <2>2
<1> QED
  BY <1>1, <1>2

-----------------------------------------------------------------------------
(* The leg a change of character broke *)
FibTarget(origin, extreme) == 1000 * extreme + (Extend - 1000) * (extreme - origin)

\* A plan enters a leg short of its end.
Short(m, extreme) ==
    IF m.side = "long" THEN m.entry < 1000 * extreme ELSE 1000 * extreme < m.entry

\* The plan at a broken leg is in price order, and enters it short of its end.
LEMMA FibPlan ==
  ASSUME NEW side, NEW ts, NEW origin, NEW extreme, NEW m, side \in PlanSides, ts \in Nat,
         origin \in Int, extreme \in Int,
         m = Setup(ts, side, FibLevel(origin, extreme), origin, FibTarget(origin, extreme))
  PROVE  /\ m \in SetupRecord /\ m.ts = ts /\ m.side = side
         /\ Runs(side = "long", origin, extreme) => InOrder(m) /\ Short(m, extreme)
<1>1. PICK d \in Int : d = extreme - origin
  OBVIOUS
<1>2. PICK x \in Nat : x = Extend - 1000
  BY LimitAssumption
<1>3. PICK r \in Nat : r = Retrace /\ r > 0
  BY LimitAssumption
<1>4. PICK y \in Int, z \in Int : y = x * d /\ z = r * d
  OBVIOUS
<1> DEFINE tp == 1000 * extreme + y
           entry == 1000 * extreme - z
<1>5. tp \in Int /\ entry \in Int
  OBVIOUS
<1>7. m = Setup(ts, side, entry, origin, tp)
  BY <1>1, <1>2, <1>3, <1>4 DEF FibLevel, FibTarget
<1>9. ASSUME Runs(TRUE, origin, extreme) PROVE entry < tp /\ entry < 1000 * extreme
  <2>1. d > 0
    BY <1>1, <1>9 DEF Runs
  <2>2. r * d > 0 /\ x * d >= 0
    BY <1>3, <2>1, Positive
  <2> QED
    BY <1>4, <2>2
<1>10. ASSUME Runs(FALSE, origin, extreme) PROVE tp < entry /\ 1000 * extreme < entry
  <2>1. PICK e \in Int : e = -d /\ e > 0
    BY <1>1, <1>10 DEF Runs
  <2>2. r * e > 0 /\ x * e >= 0
    BY <1>3, <2>1, Positive
  <2>3. r * e = -(r * d) /\ x * e = -(x * d)
    BY <2>1
  <2> QED
    BY <1>4, <2>2, <2>3
<1> HIDE DEF tp, entry
<1>8. /\ m \in SetupRecord /\ m.ts = ts
      /\ side = "long" /\ entry < tp => InOrder(m)
      /\ side = "short" /\ tp < entry => InOrder(m)
  BY <1>5, <1>7, SetupIs
<1>11. m.entry = entry /\ m.side = side
  BY <1>7 DEF Setup
<1>12. side = "long" \/ side = "short"
  BY DEF PlanSides
<1>13. ASSUME side = "long", Runs(side = "long", origin, extreme)
       PROVE  InOrder(m) /\ Short(m, extreme)
  <2>1. Runs(TRUE, origin, extreme)
    BY <1>13 DEF Runs
  <2>2. entry < tp /\ m.entry < 1000 * extreme
    BY <1>9, <1>11, <2>1
  <2>3. InOrder(m)
    BY <1>8, <1>13, <2>2
  <2> QED
    BY <1>11, <1>13, <2>2, <2>3 DEF Short
<1>14. ASSUME side = "short", Runs(side = "long", origin, extreme)
       PROVE  InOrder(m) /\ Short(m, extreme)
  <2>0. side # "long"
    BY <1>14
  <2>1. Runs(FALSE, origin, extreme)
    BY <1>14, <2>0 DEF Runs
  <2>2. tp < entry /\ 1000 * extreme < m.entry
    BY <1>10, <1>11, <2>1
  <2>3. InOrder(m)
    BY <1>8, <1>14, <2>2
  <2> QED
    BY <1>11, <2>0, <2>2, <2>3 DEF Short
<1> QED
  BY <1>8, <1>11, <1>12, <1>13, <1>14

\* So is the plan that aims at a level beyond the leg.
LEMMA ChochPlan ==
  ASSUME NEW path, NEW event, NEW leg, NEW side \in PlanSides, NEW ts \in Nat, NEW m,
         leg.origin \in Int, leg.extreme \in Int, ts = path[event.at].t,
         side = (IF event.kind = "bull" THEN "long" ELSE "short"),
         m = ChochSetup(path, event, leg)
  PROVE  /\ m \in SetupRecord /\ m.ts = ts
         /\ Runs(side = "long", leg.origin, leg.extreme) => InOrder(m)
<1>1. PICK o \in Int, x \in Int : o = leg.origin /\ x = leg.extreme
  OBVIOUS
<1>2. PICK fib : fib = ChochFibSetup(path, event, leg)
  OBVIOUS
<1>3. PICK level : level = TargetLevel(path, leg)
  OBVIOUS
<1>4. fib = Setup(ts, side, FibLevel(o, x), o, FibTarget(o, x))
  BY <1>1, <1>2 DEF ChochFibSetup, FibTarget
<1>5. /\ fib \in SetupRecord /\ fib.ts = ts /\ fib.side = side
      /\ Runs(side = "long", o, x) => InOrder(fib) /\ Short(fib, x)
  BY <1>4, FibPlan
<1>6. m = IF Worthwhile(fib, level, x) THEN [fib EXCEPT !.tp = level] ELSE fib
  BY <1>1, <1>2, <1>3 DEF ChochSetup
<1>7. CASE ~Worthwhile(fib, level, x)
  BY <1>1, <1>5, <1>6, <1>7
<1>8. CASE Worthwhile(fib, level, x)
  <2>1. PICK end \in Int : end = 1000 * x
    OBVIOUS
  <2>2. level \in Int /\ IF fib.side = "long" THEN level > end ELSE level < end
    BY <1>8, <2>1 DEF Worthwhile
  <2>3. m = [fib EXCEPT !.tp = level]
    BY <1>6, <1>8
  <2>4. /\ m \in SetupRecord /\ m.ts = ts /\ m.side = fib.side /\ m.tp = level
        /\ m.entry = fib.entry /\ m.sl = fib.sl
    BY <1>5, <2>2, <2>3 DEF SetupRecord
  <2>5. fib.entry \in Int /\ fib.sl \in Int /\ fib.tp \in Int
    BY <1>5 DEF SetupRecord
  <2>6. ASSUME InOrder(fib), Short(fib, x) PROVE InOrder(m)
    <3>1. IF fib.side = "long" THEN fib.entry < end ELSE end < fib.entry
      BY <2>1, <2>6 DEF Short
    <3>2. IF fib.side = "long" THEN fib.entry < level ELSE level < fib.entry
      BY <2>2, <2>5, <3>1
    <3> QED
      BY <2>4, <2>6, <3>2 DEF InOrder
  <2> QED
    BY <1>1, <1>5, <2>4, <2>6
<1> QED
  BY <1>7, <1>8

\* What a reading of the structure says: where it is, and a sound plan if it is recent.
ReadsAt(read, path, a) ==
    /\ read.kind = "read" /\ read.ts = path[a].t
    /\ read.setup \in SetupRecord /\ read.setup.ts = read.ts
    /\ read.fresh \in BOOLEAN /\ (read.fresh => InOrder(read.setup))

\* A reading that is recent gives a plan, and one that is not gives none.
LEMMA ReadingIs ==
  ASSUME NEW path \in Seq(PriceBar), NEW at \in 1..Len(path), NEW runs \in BOOLEAN,
         NEW m \in SetupRecord, m.ts = path[at].t, runs => InOrder(m)
  PROVE  /\ ReadsAt(Reading(at, path, runs, m), path, at)
<1>1. FreshAt(at, path) \in BOOLEAN
  BY DEF FreshAt
<1>2. PICK fresh \in BOOLEAN : fresh = (FreshAt(at, path) /\ runs)
  BY <1>1
<1>3. Reading(at, path, runs, m) = [kind |-> "read", ts |-> path[at].t, fresh |-> fresh, setup |-> m]
  BY <1>2 DEF Reading
<1>4. fresh => InOrder(m)
  BY <1>2
<1> QED
  BY <1>3, <1>4 DEF ReadsAt

\* The leg a change of character broke ends beyond the level it broke.
LEMMA LegIs ==
  ASSUME NEW path \in Seq(PriceBar), NEW event, event.at \in 1..Len(path),
         NEW leg, leg = ImpulseLeg(path, event, SwingN), Found(leg)
  PROVE  leg.origin \in Int /\ leg.extreme \in Int
<1> DEFINE origin == LastSwing(SwingsOf(path), IF event.kind = "bull" THEN "low" ELSE "high", event.at)
<1>1. leg = LegFrom(path, event.kind, origin)
  BY DEF ImpulseLeg, SwingsOf
<1>2. ~Found(None)
  BY DEF Found, None
<1>3. Found(origin)
  BY <1>1, <1>2 DEF LegFrom
<1>4. SwingsOf(path) \in Seq(SwingRecord)
  BY SwingsTyped
<1>5. PICK kind : kind = (IF event.kind = "bull" THEN "low" ELSE "high")
  OBVIOUS
<1>6. PICK x \in Int : x = event.at
  OBVIOUS
<1>7. origin \in SwingRecord /\ origin.idx <= x
  BY <1>3, <1>4, <1>5, <1>6, LastSwingTyped
<1>8. origin.price \in Int /\ origin.idx \in 1..Len(path)
  BY <1>6, <1>7 DEF SwingRecord
<1>9. PICK i \in 1..Len(path) : i = origin.idx
  BY <1>8
<1>10. Max(HighsFrom(path, i)) \in Int /\ Min(LowsFrom(path, i)) \in Int
  BY ExtremesTyped
<1> HIDE DEF origin
<1>11. leg = [kind |-> "leg", origin |-> origin.price,
              extreme |-> IF event.kind = "bull" THEN Max(HighsFrom(path, i))
                          ELSE Min(LowsFrom(path, i))]
  BY <1>1, <1>3, <1>9 DEF LegFrom
<1> QED
  BY <1>8, <1>10, <1>11

\* What strategies/choch.py reads.
LEMMA ChochSignalIs ==
  ASSUME NEW path \in Seq(PriceBar), Found(ChochSignal(path))
  PROVE  /\ Len(path) >= 2 * SwingN + 6 /\ Found(Choch(path, SwingN))
         /\ Choch(path, SwingN).at \in 1..Len(path)
         /\ ReadsAt(ChochSignal(path), path, Choch(path, SwingN).at)
<1>1. PICK ev : ev = Choch(path, SwingN)
  OBVIOUS
<1>2. PICK leg : leg = ImpulseLeg(path, ev, SwingN)
  OBVIOUS
<1>3. ~Found(None)
  BY DEF Found, None
<1>4. ~(Len(path) < 2 * SwingN + 6) /\ ChochSignal(path) = ChochLeg(path, ev)
  BY <1>1, <1>3 DEF ChochSignal
<1>5. Found(ev) /\ ChochSignal(path) = ChochRead(path, ev, leg)
  BY <1>2, <1>3, <1>4 DEF ChochLeg
<1>6. ev.at \in 1..Len(path) /\ ev.kind \in {"bear", "bull"}
  BY <1>1, <1>5, ChochAt
<1> DEFINE bull == ev.kind = "bull"
<1>7. PICK runs \in BOOLEAN : runs = (Found(leg) /\ Runs(bull, leg.origin, leg.extreme))
  OBVIOUS
<1>8. Found(leg) /\ ChochSignal(path) = Reading(ev.at, path, runs, ChochSetup(path, ev, leg))
  <2>1. ChochRead(path, ev, leg) =
          IF ~Found(leg) \/ (FreshAt(ev.at, path) /\ ~runs) THEN None
          ELSE Reading(ev.at, path, runs, ChochSetup(path, ev, leg))
    BY <1>7 DEF ChochRead
  <2> QED
    BY <1>3, <1>5, <2>1
<1>9. leg.origin \in Int /\ leg.extreme \in Int
  BY <1>2, <1>6, <1>8, LegIs
<1>10. PICK ts \in Nat : ts = path[ev.at].t
  <2>1. path[ev.at] \in PriceBar
    BY <1>6, ElementOfSeq
  <2> QED
    BY <2>1 DEF PriceBar
<1>11. PICK m : m = ChochSetup(path, ev, leg)
  OBVIOUS
<1>12. m \in SetupRecord /\ m.ts = ts /\ (Runs(bull, leg.origin, leg.extreme) => InOrder(m))
  <2>1. PICK o \in Int, x \in Int : o = leg.origin /\ x = leg.extreme
    BY <1>9
  <2>2. PICK side \in PlanSides : side = (IF bull THEN "long" ELSE "short")
    BY DEF PlanSides
  <2>4. /\ m \in SetupRecord /\ m.ts = ts
        /\ Runs(side = "long", o, x) => InOrder(m)
    BY <1>9, <1>10, <1>11, <2>1, <2>2, ChochPlan
  <2>5. bull = (side = "long")
    BY <2>2
  <2> QED
    BY <2>1, <2>4, <2>5
<1>13. PICK a \in 1..Len(path) : a = ev.at
  BY <1>6
<1>14. ReadsAt(Reading(a, path, runs, m), path, a)
  <2>1. runs => InOrder(m)
    BY <1>7, <1>12
  <2> QED
    BY <1>10, <1>12, <1>13, <2>1, ReadingIs
<1>15. Len(path) \in Nat /\ SwingN \in Nat
  BY SwingAssumed
<1> QED
  BY <1>1, <1>4, <1>5, <1>8, <1>11, <1>13, <1>14, <1>15

(* The leg a continuation goes on *)
\* A leg the way of its side, and the pullback above where it began.
Legged(st) ==
    /\ st.kind \in PlanSides /\ st.origin \in Int /\ st.impulse \in Int /\ st.pullback \in Int
    /\ IF st.kind = "long" THEN st.pullback > st.origin ELSE st.pullback < st.origin

\* An entry inside the pullback, or in the middle of it, is a level.
LEMMA WaveEntryIs ==
  ASSUME NEW level, NEW st, Legged(st), NEW entry, entry = WaveEntry(level, st)
  PROVE  /\ entry \in Int
         /\ \/ Inside(entry, st)
            \/ entry = (1000 * st.pullback + 1000 * st.impulse) \div 2
<1>1. PICK fib : fib = FibLevel(st.origin, st.impulse)
  OBVIOUS
<1>2. PICK mid : mid = (1000 * st.pullback + 1000 * st.impulse) \div 2
  OBVIOUS
<1>3. mid \in Int
  BY <1>2 DEF Legged
<1>4. \/ Inside(level, st) /\ entry = level
      \/ Inside(fib, st) /\ entry = fib
      \/ entry = mid
  BY <1>1, <1>2 DEF WaveEntry, FibOrMid
<1>5. Inside(entry, st) => entry \in Int
  BY DEF Inside
<1> QED
  BY <1>2, <1>3, <1>4, <1>5

\* The plan at a leg that goes on is in price order.
LEMMA WavePlan ==
  ASSUME NEW path, NEW st, NEW m, Legged(st), path[st.at].t \in Nat, m = WaveSetup(path, st)
  PROVE  /\ m \in SetupRecord /\ m.ts = path[st.at].t
         /\ Runs(st.kind = "long", st.origin, st.impulse) => InOrder(m)
<1>1. PICK o \in Int, i \in Int, p \in Int : o = st.origin /\ i = st.impulse /\ p = st.pullback
  BY DEF Legged
<1>2. PICK side : side = st.kind
  OBVIOUS
<1>3. PICK ts : ts = path[st.at].t
  OBVIOUS
<1>4. PICK x \in Int : x = i - o
  OBVIOUS
<1>5. PICK r \in Nat : r = Extend - 1000
  BY LimitAssumption
<1>6. Extend = 1000 + r
  BY <1>5, LimitAssumption
<1>7. PICK y \in Int : y = r * x
  OBVIOUS
<1>8. (1000 + r) * x = 1000 * x + y
  BY <1>7
<1>9. PICK entry : entry = WaveEntry(LegLevel(path, st), st)
  OBVIOUS
<1>10. /\ entry \in Int
       /\ Inside(entry, st) \/ entry = (1000 * p + 1000 * i) \div 2
  BY <1>1, <1>9, WaveEntryIs
<1>11. PICK mid \in Int : mid = (1000 * p + 1000 * i) \div 2
  OBVIOUS
<1>12. mid = 500 * p + 500 * i
  BY <1>11
<1>13. PICK tp \in Int : tp = 1000 * p + (1000 * x + y)
  OBVIOUS
<1>14. m = Setup(ts, side, entry, p, tp)
  BY <1>1, <1>2, <1>3, <1>4, <1>6, <1>8, <1>9, <1>13 DEF WaveSetup
<1>15. ts \in Nat /\ side \in PlanSides /\ (IF side = "long" THEN p > o ELSE p < o)
  BY <1>1, <1>2, <1>3 DEF Legged
<1>16. /\ m \in SetupRecord /\ m.ts = ts
       /\ side = "long" /\ entry < tp => InOrder(m)
       /\ side = "short" /\ tp < entry => InOrder(m)
  BY <1>1, <1>10, <1>13, <1>14, <1>15, SetupIs
<1>17. "long" # "short" /\ (side = "long" \/ side = "short")
  BY <1>15 DEF PlanSides
<1>18. ASSUME side = "long", Runs(TRUE, o, i) PROVE InOrder(m)
  <2>1. i > o /\ p > o
    BY <1>15, <1>18 DEF Runs
  <2>2. x > 0 /\ y >= 0
    BY <1>4, <1>5, <1>7, <2>1, Positive
  <2>3. 1000 * i < tp /\ mid < tp
    BY <1>4, <1>12, <1>13, <2>1, <2>2
  <2>4. Inside(entry, st) => entry < 1000 * i
    BY <1>1, <1>2, <1>18 DEF Inside
  <2>5. entry < tp
    BY <1>10, <1>11, <2>3, <2>4
  <2> QED
    BY <1>16, <1>18, <2>5
<1>19. ASSUME side = "short", Runs(FALSE, o, i) PROVE InOrder(m)
  <2>1. i < o /\ p < o
    BY <1>15, <1>17, <1>19 DEF Runs
  <2>2. PICK w \in Int : w = -x /\ w > 0
    BY <1>4, <2>1
  <2>3. r * w >= 0 /\ r * w = -(r * x)
    BY <1>5, <2>2, Positive
  <2>4. y <= 0
    BY <1>7, <2>3
  <2>5. tp < 1000 * i /\ tp < mid
    BY <1>4, <1>12, <1>13, <2>1, <2>2, <2>4
  <2>6. Inside(entry, st) => 1000 * i < entry
    BY <1>1, <1>2, <1>17, <1>19 DEF Inside
  <2>7. tp < entry
    BY <1>10, <1>11, <2>5, <2>6
  <2> QED
    BY <1>16, <1>19, <2>7
<1>20. Runs(st.kind = "long", st.origin, st.impulse) => InOrder(m)
  <2>1. CASE side = "long"
    <3>1. Runs(st.kind = "long", st.origin, st.impulse) => Runs(TRUE, o, i)
      BY <1>1, <1>2, <2>1 DEF Runs
    <3> QED
      BY <1>18, <2>1, <3>1
  <2>2. CASE side = "short"
    <3>1. Runs(st.kind = "long", st.origin, st.impulse) => Runs(FALSE, o, i)
      BY <1>1, <1>2, <1>17, <2>2 DEF Runs
    <3> QED
      BY <1>19, <2>2, <3>1
  <2> QED
    BY <1>17, <2>1, <2>2
<1> QED
  BY <1>3, <1>16, <1>20

\* The swing before another, if there is one.
LEMMA BeforeIs ==
  ASSUME NEW sw, NEW pivot, NEW before, sw \in Seq(SwingRecord), before = Before(sw, pivot),
         Found(before), Found(pivot) => pivot \in SwingRecord
  PROVE  Found(pivot) /\ before \in SwingRecord
<1>1. ~Found(None)
  BY DEF Found, None
<1>2. Found(pivot) /\ before = LastSwing(sw, OtherEnd(pivot.kind), pivot.idx - 1)
  BY <1>1 DEF Before
<1>3. PICK kind : kind = OtherEnd(pivot.kind)
  OBVIOUS
<1>4. PICK x \in Int : x = pivot.idx - 1
  BY <1>2 DEF SwingRecord
<1> QED
  BY <1>2, <1>3, <1>4, LastSwingTyped

\* A continuation has a leg the way of its side.
LEMMA ContinuationIs ==
  ASSUME NEW path, NEW st, path \in Seq(PriceBar), st = ContinuationLeg(path, SwingN), Found(st)
  PROVE  /\ Legged(st) /\ st.at \in 1..Len(path) /\ Len(SwingsOf(path)) \in Nat \ {0}
         /\ st.at = SwingsOf(path)[Len(SwingsOf(path))].idx
<1> DEFINE sw == SwingsOf(path)
<1>0. ~Found(None)
  BY DEF Found, None
<1>1. /\ sw \in Seq(SwingRecord) /\ Len(path) \in Nat /\ Len(sw) \in Nat
      /\ \A i \in 1..Len(sw) : sw[i] \in SwingRecord /\ sw[i].idx <= Len(path) - SwingN
  BY SwingsTyped
<1>2. st = ContinuationIn(sw)
  BY DEF ContinuationLeg, SwingsOf
<1> HIDE DEF sw
<1>3. ~(Len(sw) < 4) /\ st = LegEnding(sw, Last(sw))
  BY <1>0, <1>2 DEF ContinuationIn
<1>4. PICK pull : pull = sw[Len(sw)] /\ pull = Last(sw)
  BY DEF Last
<1>5. pull \in SwingRecord /\ pull.idx <= Len(path) - SwingN
  <2>1. PICK k \in 1..Len(sw) : k = Len(sw)
    BY <1>1, <1>3
  <2>2. sw[k] \in SwingRecord /\ sw[k].idx <= Len(path) - SwingN
    BY <1>1
  <2> QED
    BY <1>4, <2>1, <2>2
<1>6. PICK impulse : impulse = Before(sw, pull)
  OBVIOUS
<1>7. PICK origin : origin = Before(sw, impulse)
  OBVIOUS
<1>8. PICK before : before = Before(sw, origin)
  OBVIOUS
<1>9. st = LegOf(before, origin, impulse, pull)
  BY <1>3, <1>4, <1>6, <1>7, <1>8 DEF LegEnding, LegInto, LegBehind
<1>10. Found(before)
  BY <1>0, <1>9 DEF LegOf
<1>11. Found(impulse) => impulse \in SwingRecord
  BY <1>1, <1>5, <1>6, BeforeIs
<1>12. Found(origin) => origin \in SwingRecord
  BY <1>1, <1>7, <1>11, BeforeIs
<1>13. Found(origin) /\ before \in SwingRecord
  BY <1>1, <1>8, <1>10, <1>12, BeforeIs
<1>14. Found(impulse) /\ origin \in SwingRecord
  BY <1>1, <1>7, <1>11, <1>13, BeforeIs
<1>15. impulse \in SwingRecord
  BY <1>11, <1>14
<1>16. \/ /\ pull.kind = "low" /\ pull.price > origin.price
          /\ st = [kind |-> "long", origin |-> origin.price, impulse |-> impulse.price,
                   pullback |-> pull.price, at |-> pull.idx]
       \/ /\ pull.kind = "high" /\ pull.price < origin.price
          /\ st = [kind |-> "short", origin |-> origin.price, impulse |-> impulse.price,
                   pullback |-> pull.price, at |-> pull.idx]
  BY <1>0, <1>9 DEF LegOf
<1>17. origin.price \in Int /\ impulse.price \in Int /\ pull.price \in Int /\ pull.idx \in Nat \ {0}
  BY <1>5, <1>14, <1>15 DEF SwingRecord
<1>18. Legged(st) /\ st.at = pull.idx
  BY <1>16, <1>17 DEF Legged, PlanSides
<1>19. pull.idx \in 1..Len(path) /\ Len(sw) \in Nat \ {0}
  BY <1>1, <1>3, <1>5, <1>17, SwingAssumed
<1> QED
  BY <1>4, <1>18, <1>19 DEF sw

\* What strategies/elliott_wave.py reads.
LEMMA WaveSignalIs ==
  ASSUME NEW path, path \in Seq(PriceBar), Found(WaveSignal(path))
  PROVE  /\ Len(path) >= 2 * SwingN + 6 /\ Len(SwingsOf(path)) \in Nat \ {0}
         /\ SwingsOf(path)[Len(SwingsOf(path))].idx \in 1..Len(path)
         /\ ReadsAt(WaveSignal(path), path, SwingsOf(path)[Len(SwingsOf(path))].idx)
<1>0. ~Found(None)
  BY DEF Found, None
<1>1. PICK st : st = ContinuationLeg(path, SwingN)
  OBVIOUS
<1>2. ~(Len(path) < 2 * SwingN + 6) /\ WaveSignal(path) = WaveRead(path, st)
  BY <1>0, <1>1 DEF WaveSignal
<1>3. PICK runs \in BOOLEAN : runs = Runs(st.kind = "long", st.origin, st.impulse)
  BY DEF Runs
<1>4. PICK m : m = WaveSetup(path, st)
  OBVIOUS
<1>5. Found(st) /\ WaveSignal(path) = Reading(st.at, path, runs, m)
  BY <1>0, <1>2, <1>3, <1>4 DEF WaveRead
<1>6. /\ Legged(st) /\ st.at \in 1..Len(path) /\ Len(SwingsOf(path)) \in Nat \ {0}
      /\ st.at = SwingsOf(path)[Len(SwingsOf(path))].idx
  BY <1>1, <1>5, ContinuationIs
<1>7. path[st.at].t \in Nat
  <2>1. path[st.at] \in PriceBar
    BY <1>6, ElementOfSeq
  <2> QED
    BY <2>1 DEF PriceBar
<1>8. /\ m \in SetupRecord /\ m.ts = path[st.at].t
      /\ runs => InOrder(m)
  BY <1>3, <1>4, <1>6, <1>7, WavePlan
<1>9. PICK a \in 1..Len(path) : a = st.at
  BY <1>6
<1>10. ReadsAt(Reading(a, path, runs, m), path, a)
  BY <1>8, <1>9, ReadingIs
<1>11. Len(path) \in Nat /\ SwingN \in Nat
  BY SwingAssumed
<1> QED
  BY <1>2, <1>5, <1>6, <1>9, <1>10, <1>11

(* What a strategy remembers, relative to the bars *)
Readers == {"choch", "wave"}
ReadSignal(kind, path) == IF kind = "choch" THEN ChochSignal(path) ELSE WaveSignal(path)
\* The structure of bar e was there to be read, and no later bars show an earlier one.
SeenAt(kind, path, e) ==
    /\ Len(path) >= 2 * SwingN + 6 /\ e \in 1..Len(path)
    /\ IF kind = "choch" THEN NotBefore(path, e)
       ELSE /\ Len(SwingsOf(path)) \in Nat \ {0}
            /\ SwingsOf(path)[Len(SwingsOf(path))].idx >= e

\* What either reads, at the bar where the structure is.
LEMMA SignalIs ==
  ASSUME NEW kind, NEW path, kind \in Readers, path \in Seq(PriceBar), Found(ReadSignal(kind, path))
  PROVE  \E a \in 1..Len(path) :
            /\ ReadsAt(ReadSignal(kind, path), path, a) /\ SeenAt(kind, path, a)
            /\ \A e : SeenAt(kind, path, e) => e <= a
<1>1. CASE kind = "choch"
  <2>1. PICK a \in 1..Len(path) : a = Choch(path, SwingN).at
    BY <1>1, ChochSignalIs DEF ReadSignal
  <2>2. /\ Len(path) >= 2 * SwingN + 6 /\ Found(Choch(path, SwingN))
        /\ ReadsAt(ReadSignal(kind, path), path, a)
    BY <1>1, <2>1, ChochSignalIs DEF ReadSignal
  <2>3. SeenAt(kind, path, a)
    BY <1>1, <2>1, <2>2 DEF SeenAt, NotBefore
  <2>4. \A e : SeenAt(kind, path, e) => e <= a
    BY <1>1, <2>1, <2>2 DEF SeenAt, NotBefore
  <2> QED
    BY <2>2, <2>3, <2>4
<1>2. CASE kind # "choch"
  <2>1. PICK a \in 1..Len(path) : a = SwingsOf(path)[Len(SwingsOf(path))].idx
    BY <1>2, WaveSignalIs DEF ReadSignal
  <2>2. /\ Len(path) >= 2 * SwingN + 6 /\ Len(SwingsOf(path)) \in Nat \ {0}
        /\ ReadsAt(ReadSignal(kind, path), path, a)
    BY <1>2, <2>1, WaveSignalIs DEF ReadSignal
  <2>3. SeenAt(kind, path, a)
    BY <1>2, <2>1, <2>2 DEF SeenAt
  <2>4. \A e : SeenAt(kind, path, e) => e <= a
    BY <1>2, <2>1, <2>2 DEF SeenAt
  <2> QED
    BY <2>2, <2>3, <2>4
<1> QED
  BY <1>1, <1>2

\* A structure that was seen is still the latest after a bar more.
LEMMA SeenStays ==
  ASSUME NEW kind, NEW path, NEW newest, NEW e, path \in Seq(PriceBar), newest \in PriceBar,
         SeenAt(kind, path, e)
  PROVE  SeenAt(kind, Append(path, newest), e)
<1> DEFINE more == Append(path, newest)
<1>1. more \in Seq(PriceBar) /\ Len(more) = Len(path) + 1 /\ Len(path) \in Nat /\ SwingN \in Nat
  BY AppendProperties, SwingAssumed
<1>2. Len(path) >= 2 * SwingN + 6 /\ e \in 1..Len(path)
  BY DEF SeenAt
<1>3. Len(more) >= 2 * SwingN + 6 /\ e \in 1..Len(more)
  <2> HIDE DEF more
  <2> QED
    BY <1>1, <1>2
<1>4. CASE kind = "choch"
  <2>1. NotBefore(path, e) /\ Len(path) >= 2 * SwingN + 4
    BY <1>1, <1>2, <1>4 DEF SeenAt
  <2>2. PICK x \in 1..Len(path) : x = e
    BY <1>2
  <2>3. NotBefore(Append(path, newest), x)
    BY <2>1, <2>2, ChochStays
  <2> QED
    BY <1>3, <1>4, <2>2, <2>3 DEF SeenAt
<1>5. CASE kind # "choch"
  <2> DEFINE sw == SwingsOf(path)
  <2>1. Len(sw) \in Nat \ {0} /\ sw[Len(sw)].idx >= e
    BY <1>5 DEF SeenAt
  <2>2. PICK q \in Seq(SwingRecord) :
           SwingsOf(more) = sw \o q /\ \A j \in 1..Len(q) : q[j].idx = Len(path) + 1 - SwingN
    BY SwingAssumed, SwingsGrow DEF SwingsOf
  <2>3. /\ sw \in Seq(SwingRecord) /\ sw[Len(sw)].idx <= Len(path) - SwingN
        /\ sw[Len(sw)].idx \in Nat
    <3>1. PICK k \in 1..Len(sw) : k = Len(sw)
      BY <2>1
    <3>2. sw \in Seq(SwingRecord) /\ sw[k] \in SwingRecord /\ sw[k].idx <= Len(path) - SwingN
      BY SwingsTyped
    <3> QED
      BY <3>1, <3>2 DEF SwingRecord
  <2> HIDE DEF sw, more
  <2>4. /\ Len(sw \o q) = Len(sw) + Len(q)
        /\ \A i \in 1..Len(sw) + Len(q) : (sw \o q)[i] = IF i <= Len(sw) THEN sw[i] ELSE q[i - Len(sw)]
    BY <2>3, ConcatProperties
  <2>5. PICK k \in 1..Len(sw) + Len(q) : k = Len(sw) + Len(q)
    BY <2>1
  <2>6. SwingsOf(more)[Len(SwingsOf(more))] = IF k <= Len(sw) THEN sw[k] ELSE q[k - Len(sw)]
    BY <2>2, <2>4, <2>5
  <2>7. CASE Len(q) = 0
    <3>1. k = Len(sw)
      BY <2>1, <2>5, <2>7
    <3>2. Len(SwingsOf(more)) \in Nat \ {0}
      BY <2>1, <2>2, <2>4, <2>7
    <3> QED
      BY <1>3, <1>5, <2>1, <2>6, <3>1, <3>2 DEF SeenAt, more
  <2>8. CASE Len(q) # 0
    <3>1. Len(q) \in Nat \ {0}
      BY <2>8
    <3>2. PICK j \in 1..Len(q) : j = k - Len(sw)
      BY <2>1, <2>5, <3>1
    <3>3. SwingsOf(more)[Len(SwingsOf(more))].idx = Len(path) + 1 - SwingN
      <4>1. ~(k <= Len(sw))
        BY <2>1, <2>5, <3>1
      <4> QED
        BY <2>2, <2>6, <3>2, <4>1
    <3>4. Len(SwingsOf(more)) \in Nat \ {0}
      BY <2>1, <2>2, <2>4
    <3>5. Len(path) + 1 - SwingN >= e
      BY <1>1, <1>2, <2>1, <2>3, SwingAssumed
    <3> QED
      BY <1>3, <1>5, <3>3, <3>4, <3>5 DEF SeenAt, more
  <2> QED
    BY <2>7, <2>8
<1> QED
  BY <1>4, <1>5

-----------------------------------------------------------------------------
\* Time stamps grow along the bars.
Timed(path) ==
    /\ path \in Seq(PriceBar)
    /\ \A i \in 1..Len(path) : path[i].t >= 1
    /\ \A i, j \in 1..Len(path) : i <= j => path[i].t <= path[j].t
\* The time of the last bar.
EndOf(path) == IF path = <<>> THEN 0 ELSE path[Len(path)].t

MemoryGood(seen, acted, pend, open, path) ==
    /\ seen \in Nat /\ seen <= EndOf(path) /\ acted \in Nat /\ acted <= EndOf(path)
    /\ open \in BOOLEAN
    /\ Found(pend) => /\ ~open /\ pend.m.ts \in Nat /\ pend.m.ts <= EndOf(path)
                      /\ pend.due \in Int
ArmRecord == [ts : Nat, life : Nat]
ArmedGood(kind, seen, armed, path, lives) ==
    /\ armed \in Seq(ArmRecord)
    /\ \A i \in 1..Len(armed) : armed[i].life <= lives
    /\ kind \in Readers =>
          /\ seen # 0 => \E e : SeenAt(kind, path, e) /\ seen = path[e].t
          /\ \A i \in 1..Len(armed) : armed[i].life = lives => armed[i].ts <= seen
          /\ \A i, j \in 1..Len(armed) : armed[i] = armed[j] => i = j
FillsGood(fills) ==
    /\ \E S : fills \in Seq(S)
    /\ \A i \in 1..Len(fills) : fills[i].at <= fills[i].due

\* The end of a path is a time, and no bar of it is later.
LEMMA EndIs ==
  ASSUME NEW path, Timed(path)
  PROVE  /\ EndOf(path) \in Nat /\ \A i \in 1..Len(path) : path[i].t \in Nat \ {0} /\ path[i].t <= EndOf(path)
<1>1. Len(path) \in Nat /\ \A i \in 1..Len(path) : path[i] \in PriceBar
  BY ElementOfSeq DEF Timed
<1>2. \A i \in 1..Len(path) : path[i].t \in Nat \ {0}
  BY <1>1 DEF Timed, PriceBar
<1>3. CASE path = <<>>
  BY <1>3 DEF EndOf
<1>4. CASE path # <<>>
  <2>1. Len(path) \in 1..Len(path)
    BY <1>1, <1>4 DEF Timed
  <2>2. PICK k \in 1..Len(path) : k = Len(path)
    BY <2>1
  <2>3. EndOf(path) = path[k].t
    BY <1>4, <2>2 DEF EndOf
  <2>4. \A i \in 1..Len(path) : path[i].t <= path[k].t
    BY <1>1, <2>2 DEF Timed
  <2> QED
    BY <1>2, <2>2, <2>3, <2>4
<1> QED
  BY <1>3, <1>4

\* A path with a bar more is still in order.
LEMMA LongerIs ==
  ASSUME NEW path, NEW newest, Timed(path), newest \in PriceBar, newest.t > EndOf(path)
  PROVE  /\ Timed(Append(path, newest)) /\ EndOf(Append(path, newest)) = newest.t
         /\ Last(Append(path, newest)) = newest
<1> DEFINE more == Append(path, newest)
<1>1. /\ more \in Seq(PriceBar) /\ Len(more) = Len(path) + 1 /\ Len(path) \in Nat
      /\ \A i \in 1..Len(path) : more[i] = path[i]
      /\ more[Len(path) + 1] = newest /\ more # <<>>
  BY AppendProperties DEF Timed
<1> HIDE DEF more
<1>2. \A i \in 1..Len(path) : path[i].t \in Nat \ {0} /\ path[i].t <= EndOf(path)
  BY EndIs
<1>3. EndOf(path) \in Nat /\ newest.t \in Nat
  BY EndIs DEF PriceBar
<1>4. EndOf(more) = newest.t /\ Last(more) = newest
  BY <1>1 DEF EndOf, Last
<1>5. \A i \in 1..Len(more) : i \in 1..Len(path) \/ i = Len(path) + 1
  BY <1>1
<1>6. \A i \in 1..Len(more) : more[i].t >= 1
  BY <1>1, <1>2, <1>3, <1>5
<1>7. ASSUME NEW i \in 1..Len(more), NEW j \in 1..Len(more), i <= j
      PROVE  more[i].t <= more[j].t
  <2>1. CASE j \in 1..Len(path)
    BY <1>1, <1>7, <2>1 DEF Timed
  <2>2. CASE j = Len(path) + 1
    <3>1. more[j].t = newest.t
      BY <1>1, <2>2
    <3>2. CASE i \in 1..Len(path)
      BY <1>1, <1>2, <1>3, <3>1, <3>2
    <3>3. CASE i = Len(path) + 1
      BY <1>1, <1>3, <3>1, <3>3
    <3> QED
      BY <1>5, <3>2, <3>3
  <2> QED
    BY <1>5, <2>1, <2>2
<1>8. Timed(more)
  BY <1>1, <1>6, <1>7 DEF Timed
<1> QED
  BY <1>4, <1>8 DEF more

\* A structure read as a new one is later than the one handled last.
LEMMA NewerIs ==
  ASSUME NEW kind, NEW seen, NEW armed, NEW path, NEW lives,
         kind \in Readers, Timed(path), seen \in Nat, lives \in Nat,
         ArmedGood(kind, seen, armed, path, lives),
         Found(ReadSignal(kind, path)), ReadSignal(kind, path).ts # seen
  PROVE  LET ts == ReadSignal(kind, path).ts IN
         /\ ts \in Nat /\ ts <= EndOf(path) /\ ReadSignal(kind, path).setup.ts = ts
         /\ ArmedGood(kind, ts, armed, path, lives)
         /\ ArmedGood(kind, ts, Append(armed, [ts |-> ts, life |-> lives]), path, lives)
<1> DEFINE read == ReadSignal(kind, path)
           rec == [ts |-> read.ts, life |-> lives]
           more == Append(armed, rec)
<1>1. PICK a \in 1..Len(path) :
         /\ ReadsAt(read, path, a) /\ SeenAt(kind, path, a)
         /\ \A e : SeenAt(kind, path, e) => e <= a
  BY SignalIs DEF Timed
<1>2. read.ts = path[a].t /\ read.setup.ts = read.ts
  BY <1>1 DEF ReadsAt
<1> HIDE DEF read
<1>3. read.ts \in Nat \ {0} /\ read.ts <= EndOf(path)
  BY <1>2, EndIs
<1>4. /\ armed \in Seq(ArmRecord)
      /\ \A i \in 1..Len(armed) : armed[i].life <= lives
      /\ seen # 0 => \E e : SeenAt(kind, path, e) /\ seen = path[e].t
      /\ \A i \in 1..Len(armed) : armed[i].life = lives => armed[i].ts <= seen
      /\ \A i, j \in 1..Len(armed) : armed[i] = armed[j] => i = j
  BY DEF ArmedGood
<1>5. seen < read.ts
  <2>1. CASE seen = 0
    BY <1>3, <2>1
  <2>2. CASE seen # 0
    <3>1. PICK e : SeenAt(kind, path, e) /\ seen = path[e].t
      BY <1>4, <2>2
    <3>2. e <= a /\ e \in 1..Len(path)
      BY <1>1, <3>1 DEF SeenAt
    <3>3. path[e].t <= path[a].t
      BY <3>2 DEF Timed
    <3>4. read.ts # seen
      BY DEF read
    <3> QED
      BY <1>2, <1>3, <3>1, <3>3, <3>4
  <2> QED
    BY <2>1, <2>2
<1>6. \A i \in 1..Len(armed) : armed[i].life = lives => armed[i].ts <= read.ts /\ armed[i].ts # read.ts
  <2>1. \A i \in 1..Len(armed) : armed[i].ts \in Nat
    <3>1. \A i \in 1..Len(armed) : armed[i] \in ArmRecord
      BY <1>4, ElementOfSeq
    <3> QED
      BY <3>1 DEF ArmRecord
  <2> QED
    BY <1>3, <1>4, <1>5, <2>1
<1>7. ArmedGood(kind, read.ts, armed, path, lives)
  BY <1>1, <1>2, <1>4, <1>6 DEF ArmedGood
<1>8. rec \in ArmRecord /\ rec.ts = read.ts /\ rec.life = lives
  BY <1>3 DEF ArmRecord
<1> HIDE DEF rec
<1>9. /\ more \in Seq(ArmRecord) /\ Len(more) = Len(armed) + 1 /\ Len(armed) \in Nat
      /\ \A i \in 1..Len(armed) : more[i] = armed[i]
      /\ more[Len(armed) + 1] = rec
  BY <1>4, <1>8, AppendProperties
<1> HIDE DEF more
<1>10. \A i \in 1..Len(more) : i \in 1..Len(armed) \/ i = Len(armed) + 1
  BY <1>9
<1>11. \A i \in 1..Len(more) : more[i].life <= lives
  BY <1>4, <1>8, <1>9, <1>10
<1>12. \A i \in 1..Len(more) : more[i].life = lives => more[i].ts <= read.ts
  <2>1. read.ts <= read.ts
    BY <1>3
  <2> QED
    BY <1>6, <1>8, <1>9, <1>10, <2>1
<1>13. ASSUME NEW i \in 1..Len(more), NEW j \in 1..Len(more), more[i] = more[j] PROVE i = j
  <2>1. CASE i \in 1..Len(armed) /\ j \in 1..Len(armed)
    BY <1>4, <1>9, <1>13, <2>1
  <2>2. CASE i \in 1..Len(armed) /\ j = Len(armed) + 1
    <3>1. armed[i].life = lives /\ armed[i].ts = read.ts
      BY <1>8, <1>9, <1>13, <2>2
    <3> QED
      BY <1>6, <2>2, <3>1
  <2>3. CASE j \in 1..Len(armed) /\ i = Len(armed) + 1
    <3>1. armed[j].life = lives /\ armed[j].ts = read.ts
      BY <1>8, <1>9, <1>13, <2>3
    <3> QED
      BY <1>6, <2>3, <3>1
  <2> QED
    BY <1>10, <2>1, <2>2, <2>3
<1>14. ArmedGood(kind, read.ts, more, path, lives)
  BY <1>1, <1>2, <1>9, <1>11, <1>12, <1>13 DEF ArmedGood
<1> QED
  BY <1>2, <1>3, <1>7, <1>14 DEF read, rec, more

\* What a strategy remembers is good after a bar more, as far as it was before.
LEMMA LongerGood ==
  ASSUME NEW kind, NEW seen, NEW acted, NEW pend, NEW open, NEW armed, NEW lives, NEW path, NEW newest,
         Timed(path), newest \in PriceBar, newest.t > EndOf(path)
  PROVE  /\ MemoryGood(seen, acted, pend, open, path)
               => MemoryGood(seen, acted, pend, open, Append(path, newest))
         /\ ArmedGood(kind, seen, armed, path, lives)
               => ArmedGood(kind, seen, armed, Append(path, newest), lives)
<1> DEFINE more == Append(path, newest)
<1>1. /\ EndOf(path) \in Nat /\ newest.t \in Nat /\ EndOf(more) = newest.t
  BY EndIs, LongerIs DEF PriceBar
<1>2. /\ \A i \in 1..Len(path) : more[i] = path[i]
  BY AppendProperties DEF Timed
<1>3. \A e : SeenAt(kind, path, e) => SeenAt(kind, more, e) /\ more[e] = path[e]
  <2> SUFFICES ASSUME NEW e, SeenAt(kind, path, e) PROVE SeenAt(kind, more, e) /\ more[e] = path[e]
    OBVIOUS
  <2>1. e \in 1..Len(path)
    BY DEF SeenAt
  <2> QED
    BY <1>2, <2>1, SeenStays DEF Timed
<1> HIDE DEF more
<1>4. MemoryGood(seen, acted, pend, open, path) => MemoryGood(seen, acted, pend, open, more)
  BY <1>1 DEF MemoryGood
<1>5. ArmedGood(kind, seen, armed, path, lives) => ArmedGood(kind, seen, armed, more, lives)
  <2> SUFFICES ASSUME ArmedGood(kind, seen, armed, path, lives)
               PROVE  ArmedGood(kind, seen, armed, more, lives)
    OBVIOUS
  <2>1. ASSUME kind \in Readers, seen # 0 PROVE \E e : SeenAt(kind, more, e) /\ seen = more[e].t
    <3>1. PICK e : SeenAt(kind, path, e) /\ seen = path[e].t
      BY <2>1 DEF ArmedGood
    <3> QED
      BY <1>3, <3>1
  <2> QED
    BY <2>1 DEF ArmedGood
<1> QED
  BY <1>4, <1>5 DEF more

-----------------------------------------------------------------------------
\* Where a strategy stands, taken together.
StandsGood(next, path) ==
    /\ MemoryGood(next.seen, next.acted, next.pend, next.open, path)
    /\ ArmedGood(lKind, next.seen, next.armed, path, lLife.starts)
    /\ FillsGood(next.fills)

\* The strategy as it was, and the bars with the new one, at which no position is open.
Standing(path) ==
    /\ lKind \in Kinds /\ Timed(path) /\ path # <<>> /\ lLife.starts \in Nat
    /\ MemoryGood(lSeen, lActed, lPend, FALSE, path)
    /\ ArmedGood(lKind, lSeen, lArmed, path, lLife.starts)
    /\ FillsGood(lFills)

\* Bars that leave the strategy as it stood leave it good.
LEMMA LeftIs ==
  ASSUME NEW path, NEW seen, NEW acted, NEW pend, NEW open, NEW armed, NEW fills,
         MemoryGood(seen, acted, pend, open, path), ArmedGood(lKind, seen, armed, path, lLife.starts),
         FillsGood(fills)
  PROVE  StandsGood(LeftAt(seen, acted, pend, open, armed, fills), path)
<1> DEFINE next == LeftAt(seen, acted, pend, open, armed, fills)
<1>1. /\ next.seen = seen /\ next.acted = acted /\ next.pend = pend /\ next.open = open
      /\ next.armed = armed /\ next.fills = fills
  BY DEF LeftAt
<1> HIDE DEF next
<1> QED
  BY <1>1 DEF StandsGood, next

\* A strategy that waits for its price is good, filled or not.
LEMMA WaitingGood ==
  ASSUME NEW path, Standing(path) PROVE StandsGood(Waiting, path)
<1>1. MemoryGood(lSeen, lActed, None, FALSE, path)
  BY DEF Standing, MemoryGood, Found, None
<1> QED
  BY <1>1, LeftIs DEF Waiting, Standing

\* The last bar's time is one the strategy may have acted on.
LEMMA LastIs ==
  ASSUME NEW path, Timed(path), path # <<>>
  PROVE  Last(path).t \in Nat /\ Last(path).t = EndOf(path)
  BY EndIs DEF EndOf, Last

\* A strategy that reads a new structure is good, armed or not.
LEMMA ReadGood ==
  ASSUME NEW path, Standing(path), lKind \in Readers
  PROVE  StandsGood(Read(ReadSignal(lKind, path), path), path)
<1> DEFINE read == ReadSignal(lKind, path)
           rec == [ts |-> read.ts, life |-> lLife.starts]
<1>1. CASE ~Found(read) \/ read.ts = lSeen
  BY <1>1, WaitingGood DEF Read
<1>2. CASE Found(read) /\ read.ts # lSeen
  <2>1. /\ read.ts \in Nat /\ read.ts <= EndOf(path) /\ read.setup.ts = read.ts
        /\ ArmedGood(lKind, read.ts, lArmed, path, lLife.starts)
        /\ ArmedGood(lKind, read.ts, Append(lArmed, rec), path, lLife.starts)
    <3>1. lSeen \in Nat /\ lLife.starts \in Nat
      BY DEF Standing, MemoryGood
    <3> QED
      BY <1>2, <3>1, NewerIs DEF Standing
  <2>2. PICK due \in Int : due = Last(path).t + LimitLife
    <3>1. Last(path).t \in Nat /\ LimitLife \in Nat
      BY LastIs, LimitAssumption DEF Standing
    <3> QED
      BY <3>1
  <2>3. PICK m : m = read.setup
    OBVIOUS
  <2>4. StandsGood(Saw(read.ts), path)
    <3>1. MemoryGood(read.ts, lActed, None, FALSE, path)
      BY <2>1 DEF Standing, MemoryGood, Found, None
    <3> HIDE DEF read
    <3> QED
      BY <2>1, <3>1, LeftIs DEF Saw, Standing
  <2>5. StandsGood(Armed(m, due), path)
    <3> DEFINE pend == Resting(m, due)
    <3>1. pend.m = m /\ pend.due = due
      BY DEF Resting
    <3>2. m.ts = read.ts
      BY <2>1, <2>3
    <3> HIDE DEF pend, read
    <3>3. MemoryGood(read.ts, lActed, pend, FALSE, path)
      BY <2>1, <2>2, <3>1, <3>2 DEF Standing, MemoryGood
    <3> HIDE DEF rec
    <3>4. StandsGood(LeftAt(read.ts, lActed, pend, FALSE, Append(lArmed, rec), lFills), path)
      BY <2>1, <3>3, LeftIs DEF Standing
    <3>5. Armed(m, due) = LeftAt(read.ts, lActed, pend, FALSE, Append(lArmed, rec), lFills)
      BY <3>2 DEF Armed, ArmedAt, pend, rec
    <3> QED
      BY <3>4, <3>5
  <2>6. Read(read, path) = Armed(m, due) \/ Read(read, path) = Saw(read.ts)
    BY <1>2, <2>2, <2>3 DEF Read
  <2> QED
    BY <2>4, <2>5, <2>6
<1> QED
  BY <1>1, <1>2

\* A structure that is marked as handled leaves the strategy good.
LEMMA MarkedGood ==
  ASSUME NEW path, NEW side, NEW entry, NEW limit, NEW opens, Standing(path), lKind \notin Readers,
         opens \in BOOLEAN
  PROVE  StandsGood(Marked(path, side, entry, limit, opens), path)
<1>1. PICK m : m = Setup(Last(path).t, side, entry, IF side = "long" THEN Last(path).l ELSE Last(path).h,
                         IF side = "long" THEN entry + 2 * StopMin ELSE entry - 2 * StopMin)
  OBVIOUS
<1>2. PICK ts : ts = Last(path).t
  OBVIOUS
<1>3. m.ts = ts
  BY <1>1, <1>2 DEF Setup
<1>4. ts \in Nat /\ ts = EndOf(path)
  BY <1>2, LastIs DEF Standing
<1> DEFINE out == Marked(path, side, entry, limit, opens)
           due == ts + LimitLife
<1>5. \/ out = Waiting \/ out = Entered(m.ts, lFills, opens) \/ out = ArmedAt(lSeen, m, due)
  <2>1. Marked(path, side, entry, limit, opens) =
           IF lKind = "climax" /\ lActed = m.ts THEN Waiting
           ELSE IF lKind = "climax" /\ ~limit THEN Entered(m.ts, lFills, opens)
           ELSE IF Pullback(m, Last(path)) THEN ArmedAt(lSeen, m, due)
           ELSE Waiting
    BY <1>1, <1>2 DEF Marked
  <2> QED
    BY <2>1
<1>6. StandsGood(Waiting, path)
  BY WaitingGood
<1>7. StandsGood(Entered(m.ts, lFills, opens), path)
  <2>1. MemoryGood(lSeen, ts, None, opens, path)
    BY <1>4 DEF Standing, MemoryGood, Found, None
  <2> QED
    BY <1>3, <2>1, LeftIs DEF Entered, Standing
<1>8. StandsGood(ArmedAt(lSeen, m, due), path)
  <2>0. due \in Int
    BY <1>4, LimitAssumption
  <2> HIDE DEF due
  <2> DEFINE pend == Resting(m, due)
             rec == [ts |-> ts, life |-> lLife.starts]
             more == Append(lArmed, rec)
  <2>1. pend.m = m /\ pend.due = due
    BY DEF Resting
  <2>2. rec \in ArmRecord /\ rec.life = lLife.starts
    BY <1>4 DEF ArmRecord, Standing
  <2>3. /\ lArmed \in Seq(ArmRecord) /\ \A i \in 1..Len(lArmed) : lArmed[i].life <= lLife.starts
        /\ lLife.starts \in Nat
    BY DEF Standing, ArmedGood
  <2> HIDE DEF pend, rec
  <2>4. MemoryGood(lSeen, lActed, pend, FALSE, path)
    BY <1>3, <1>4, <2>0, <2>1 DEF Standing, MemoryGood
  <2>5. /\ more \in Seq(ArmRecord) /\ Len(more) = Len(lArmed) + 1 /\ Len(lArmed) \in Nat
        /\ \A i \in 1..Len(lArmed) : more[i] = lArmed[i]
        /\ more[Len(lArmed) + 1] = rec
    BY <2>2, <2>3, AppendProperties
  <2> HIDE DEF more
  <2>6. \A i \in 1..Len(more) : more[i].life <= lLife.starts
    <3>1. \A i \in 1..Len(more) : i \in 1..Len(lArmed) \/ i = Len(lArmed) + 1
      BY <2>5
    <3> QED
      BY <2>2, <2>3, <2>5, <3>1
  <2>7. ArmedGood(lKind, lSeen, more, path, lLife.starts)
    BY <2>5, <2>6 DEF ArmedGood
  <2>8. StandsGood(LeftAt(lSeen, lActed, pend, FALSE, more, lFills), path)
    BY <2>4, <2>7, LeftIs DEF Standing
  <2>9. ArmedAt(lSeen, m, due) = LeftAt(lSeen, lActed, pend, FALSE, more, lFills)
    BY <1>3 DEF ArmedAt, pend, more, rec
  <2> QED
    BY <2>8, <2>9
<1> QED
  BY <1>5, <1>6, <1>7, <1>8

\* A scan of the bars leaves the strategy good.
LEMMA ScannedGood ==
  ASSUME NEW path, NEW next, Standing(path), next \in Scanned(path)
  PROVE  StandsGood(next, path)
<1>1. CASE lKind = "choch"
  <2>1. next = Read(ReadSignal(lKind, path), path)
    BY <1>1 DEF Scanned, ReadSignal
  <2> QED
    BY <1>1, <2>1, ReadGood DEF Readers
<1>2. CASE lKind = "wave"
  <2>1. next = Read(ReadSignal(lKind, path), path)
    BY <1>2 DEF Scanned, ReadSignal
  <2> QED
    BY <1>2, <2>1, ReadGood DEF Readers
<1>3. CASE lKind # "choch" /\ lKind # "wave"
  <2>1. next = Waiting \/ \E side \in {"long", "short"}, p \in {Last(path).l, Last(path).h},
                             limit \in BOOLEAN, opens \in BOOLEAN :
                                next = Marked(path, side, 1000 * p, limit, opens)
    BY <1>3 DEF Scanned
  <2>2. CASE next = Waiting
    BY <2>2, WaitingGood
  <2>3. ASSUME NEW side, NEW p, NEW limit, NEW opens \in BOOLEAN,
               next = Marked(path, side, 1000 * p, limit, opens)
        PROVE  StandsGood(next, path)
    <3>1. PICK entry : entry = 1000 * p
      OBVIOUS
    <3> QED
      BY <1>3, <2>3, <3>1, MarkedGood DEF Readers
  <2> QED
    BY <2>1, <2>2, <2>3
<1> QED
  BY <1>1, <1>2, <1>3

\* So does every decision.
LEMMA DecidedGood ==
  ASSUME NEW path, NEW next, Standing(path), next \in Decided(path)
  PROVE  StandsGood(next, path)
<1> DEFINE newest == Last(path)
           fill == [m |-> lPend.m, due |-> lPend.due, at |-> newest.t, life |-> lLife.starts]
           filling == Append(lFills, fill)
           acted == IF lKind = "vote" THEN lActed ELSE lPend.m.ts
<1>1. CASE Found(lPend) => Lapsed(newest)
  <2>1. next \in Scanned(path)
    BY <1>1 DEF Decided
  <2> QED
    BY <2>1, ScannedGood
<1>2. CASE ~(Found(lPend) => Lapsed(newest))
  <2>1. /\ Found(lPend) /\ lPend.m.ts \in Nat /\ lPend.m.ts <= EndOf(path) /\ lPend.due \in Int
        /\ ~(newest.t > lPend.due) /\ lActed \in Nat /\ lActed <= EndOf(path)
    BY <1>2 DEF Standing, MemoryGood, Lapsed
  <2>2. newest.t \in Nat
    BY LastIs DEF Standing
  <2>3. (\E opens \in BOOLEAN : next = Entered(acted, filling, opens))
        \/ next = LeftAt(lSeen, lActed, lPend, FALSE, lArmed, lFills)
    BY <1>2 DEF Decided
  <2>4. CASE next = LeftAt(lSeen, lActed, lPend, FALSE, lArmed, lFills)
    BY <2>4, LeftIs DEF Standing
  <2>5. ASSUME NEW opens \in BOOLEAN, next = Entered(acted, filling, opens)
        PROVE  StandsGood(next, path)
    <3>1. MemoryGood(lSeen, acted, None, opens, path)
      BY <2>1 DEF Standing, MemoryGood, Found, None
    <3>2. FillsGood(filling)
      <4>1. PICK S : lFills \in Seq(S)
        BY DEF Standing, FillsGood
      <4>2. \A i \in 1..Len(lFills) : lFills[i].at <= lFills[i].due
        BY DEF Standing, FillsGood
      <4>3. fill.at <= fill.due
        BY <2>1, <2>2
      <4> HIDE DEF fill
      <4>4. PICK R : R = S \cup {fill}
        OBVIOUS
      <4>5. lFills \in Seq(R) /\ fill \in R
        BY <4>1, <4>4
      <4>6. /\ filling \in Seq(R) /\ Len(filling) = Len(lFills) + 1 /\ Len(lFills) \in Nat
            /\ \A i \in 1..Len(lFills) : filling[i] = lFills[i]
            /\ filling[Len(lFills) + 1] = fill
        BY <4>5, AppendProperties
      <4> HIDE DEF filling
      <4>7. \A i \in 1..Len(filling) : i \in 1..Len(lFills) \/ i = Len(lFills) + 1
        BY <4>6
      <4> QED
        BY <4>2, <4>3, <4>6, <4>7 DEF FillsGood
    <3> HIDE DEF filling, acted
    <3> QED
      BY <2>5, <3>1, <3>2, LeftIs DEF Entered, Standing
  <2> QED
    BY <2>3, <2>4, <2>5
<1> QED
  BY <1>1, <1>2

-----------------------------------------------------------------------------
LimitInv ==
    /\ lKind \in Kinds /\ Timed(lPath) /\ lLife \in [starts : Nat, gaps : Nat]
    /\ MemoryGood(lSeen, lActed, lPend, lOpen, lPath)
    /\ ArmedGood(lKind, lSeen, lArmed, lPath, lLife.starts)
    /\ FillsGood(lFills)

\* The histories are in order of time.
LEMMA PastTimed ==
  ASSUME NEW past \in Histories, NEW path, path = [i \in DOMAIN past |-> BarOf(past[i], i)]
  PROVE  Timed(path)
<1>1. past \in Seq(Candles) /\ Candles \subseteq [h : Int, l : Int, c : Int]
  BY LimitAssumption
<1>2. Len(past) \in Nat /\ DOMAIN past = 1..Len(past) /\ \A i \in 1..Len(past) : past[i] \in Candles
  BY <1>1, ElementOfSeq
<1>3. \A i \in 1..Len(past) : BarOf(past[i], i) \in PriceBar /\ BarOf(past[i], i).t = i
  <2> SUFFICES ASSUME NEW i \in 1..Len(past)
               PROVE  BarOf(past[i], i) \in PriceBar /\ BarOf(past[i], i).t = i
    OBVIOUS
  <2>1. past[i].h \in Int /\ past[i].l \in Int /\ past[i].c \in Int
    BY <1>1, <1>2
  <2> QED
    BY <2>1 DEF BarOf, PriceBar
<1>4. path = [i \in 1..Len(past) |-> BarOf(past[i], i)]
  BY <1>2
<1>5. path \in Seq(PriceBar) /\ Len(path) = Len(past) /\ \A i \in 1..Len(past) : path[i].t = i
  BY <1>2, <1>3, <1>4
<1> QED
  BY <1>2, <1>5 DEF Timed

\* A strategy that has seen no bar, or the bars of a history, remembers nothing.
LEMMA NothingYet ==
  ASSUME lKind \in Kinds, Timed(lPath), lSeen = 0, lActed = 0, lPend = None, lOpen = FALSE,
         lLife = [starts |-> 1, gaps |-> 0], lArmed = <<>>, lFills = <<>>
  PROVE  LimitInv
<1>1. \A S : <<>> \in Seq(S)
  OBVIOUS
<1>2. Len(<<>>) = 0 /\ lLife.starts = 1 /\ lLife \in [starts : Nat, gaps : Nat]
  OBVIOUS
<1>0. EndOf(lPath) \in Nat /\ ~Found(None)
  BY EndIs DEF Found, None
<1>3. MemoryGood(lSeen, lActed, lPend, lOpen, lPath)
  <2>1. MemoryGood(0, 0, None, FALSE, lPath)
    BY <1>0 DEF MemoryGood
  <2> QED
    BY <2>1
<1>4. ArmedGood(lKind, lSeen, lArmed, lPath, lLife.starts)
  BY <1>1, <1>2 DEF ArmedGood
<1>5. FillsGood(lFills)
  BY <1>1, <1>2 DEF FillsGood
<1> QED
  BY <1>2, <1>3, <1>4, <1>5 DEF LimitInv

\* The invariant holds of the initial states,
LEMMA LimitInitInv == LimitInit => LimitInv
<1> SUFFICES ASSUME LimitInit PROVE LimitInv
  OBVIOUS
<1>1. PICK past \in Histories : lPath = [i \in DOMAIN past |-> BarOf(past[i], i)]
  BY DEF LimitInit
<1>2. Timed(lPath)
  BY <1>1, PastTimed
<1> QED
  BY <1>2, NothingYet DEF LimitInit

\* The time that decide compares with is the time of the last bar.
LEMMA NowIs == Timed(lPath) => Now = EndOf(lPath)
  BY DEF Now, EndOf, Last

\* The next bar is later.
LEMMA NextCandle ==
  ASSUME NEW candle \in Candles, NEW gap \in 0..1, NEW closes \in BOOLEAN,
         Timed(lPath), LimitBar(candle, gap, closes)
  PROVE  \E newest \in PriceBar : lPath' = Append(lPath, newest) /\ newest.t > EndOf(lPath)
<1>1. Now \in Nat /\ Now = EndOf(lPath)
  BY NowIs, EndIs
<1>2. gap * LimitLife \in Nat
  <2>1. LimitLife \in Nat
    BY LimitAssumption
  <2>2. CASE gap = 0
    BY <2>1, <2>2
  <2>3. CASE gap = 1
    BY <2>1, <2>3
  <2> QED
    BY <2>2, <2>3
<1>3. PICK t \in Nat : t = Now + 1 + gap * LimitLife /\ t > Now
  BY <1>1, <1>2
<1>4. candle.h \in Int /\ candle.l \in Int /\ candle.c \in Int
  BY LimitAssumption
<1>5. BarOf(candle, t) \in PriceBar /\ BarOf(candle, t).t = t
  BY <1>4 DEF BarOf, PriceBar
<1> QED
  BY <1>1, <1>3, <1>5 DEF LimitBar

\* A bar keeps the invariant,
LEMMA LimitBarInv ==
  ASSUME NEW candle \in Candles, NEW gap \in 0..1, NEW closes \in BOOLEAN,
         LimitInv, LimitBar(candle, gap, closes)
  PROVE  LimitInv'
<1>1. /\ lKind \in Kinds /\ Timed(lPath) /\ lLife \in [starts : Nat, gaps : Nat]
      /\ MemoryGood(lSeen, lActed, lPend, lOpen, lPath)
      /\ ArmedGood(lKind, lSeen, lArmed, lPath, lLife.starts)
      /\ FillsGood(lFills)
  BY DEF LimitInv
<1>3. PICK newest \in PriceBar : lPath' = Append(lPath, newest) /\ newest.t > EndOf(lPath)
  BY <1>1, NextCandle
<1>2. lPath' = Append(lPath, newest) /\ lLife' = [lLife EXCEPT !.gaps = @ + gap] /\ lKind' = lKind
  BY <1>3 DEF LimitBar
<1>4. lLife' \in [starts : Nat, gaps : Nat] /\ lLife'.starts = lLife.starts /\ lLife.starts \in Nat
  BY <1>1, <1>2
<1>5. Timed(lPath') /\ lPath' # <<>>
  <2>1. Append(lPath, newest) # <<>>
    BY <1>1, <1>3, AppendProperties DEF Timed
  <2> QED
    BY <1>1, <1>2, <1>3, <2>1, LongerIs
<1>6. /\ MemoryGood(lSeen, lActed, lPend, lOpen, lPath')
      /\ ArmedGood(lKind, lSeen, lArmed, lPath', lLife.starts)
  BY <1>1, <1>2, <1>3, LongerGood
<1>7. CASE lOpen /\ ~closes
  <2>1. /\ lSeen' = lSeen /\ lActed' = lActed /\ lPend' = lPend /\ lOpen' = lOpen
        /\ lArmed' = lArmed /\ lFills' = lFills
    BY <1>7 DEF LimitBar
  <2> QED
    BY <1>1, <1>2, <1>4, <1>5, <1>6, <2>1 DEF LimitInv
<1>8. CASE ~(lOpen /\ ~closes)
  <2>1. PICK next \in Decided(lPath') : Leaves(next)
    BY <1>8 DEF LimitBar
  <2>2. PICK path : path = lPath'
    OBVIOUS
  <2>3. MemoryGood(lSeen, lActed, lPend, FALSE, path)
    BY <1>6, <2>2 DEF MemoryGood
  <2>4. Standing(path)
    BY <1>1, <1>4, <1>5, <1>6, <2>2, <2>3 DEF Standing
  <2>5. StandsGood(next, path)
    BY <2>1, <2>2, <2>4, DecidedGood
  <2>6. /\ lSeen' = next.seen /\ lActed' = next.acted /\ lPend' = next.pend
        /\ lOpen' = next.open /\ lArmed' = next.armed /\ lFills' = next.fills
    BY <2>1 DEF Leaves
  <2>7. /\ MemoryGood(lSeen', lActed', lPend', lOpen', lPath')
        /\ ArmedGood(lKind', lSeen', lArmed', lPath', lLife'.starts)
        /\ FillsGood(lFills')
    BY <1>2, <1>4, <2>2, <2>5, <2>6 DEF StandsGood
  <2> QED
    BY <1>1, <1>2, <1>4, <1>5, <2>7 DEF LimitInv
<1> QED
  BY <1>7, <1>8

\* and so does every step.
LEMMA LimitStep == LimitInv /\ [LimitNext]_limitVars => LimitInv'
<1> SUFFICES ASSUME LimitInv, [LimitNext]_limitVars PROVE LimitInv'
  OBVIOUS
<1>1. CASE \E candle \in Candles, gap \in 0..1, closes \in BOOLEAN : LimitBar(candle, gap, closes)
  BY <1>1, LimitBarInv
<1>2. CASE LimitRestart
  <2>1. /\ lLife' = [lLife EXCEPT !.starts = @ + 1] /\ lSeen' = 0 /\ lActed' = 0 /\ lPend' = None
        /\ lKind' = lKind /\ lPath' = lPath /\ lOpen' = lOpen /\ lArmed' = lArmed /\ lFills' = lFills
    BY <1>2 DEF LimitRestart
  <2>2. /\ lLife' \in [starts : Nat, gaps : Nat] /\ lLife'.starts = lLife.starts + 1
        /\ lLife.starts \in Nat
    BY <2>1 DEF LimitInv
  <2>3. MemoryGood(lSeen', lActed', lPend', lOpen', lPath')
    BY <2>1, EndIs DEF LimitInv, MemoryGood, Found, None
  <2>4. ArmedGood(lKind', lSeen', lArmed', lPath', lLife'.starts)
    <3>1. \A i \in 1..Len(lArmed) : lArmed[i].life <= lLife.starts /\ lArmed[i].life \in Nat
      <4>1. \A i \in 1..Len(lArmed) : lArmed[i] \in ArmRecord
        BY ElementOfSeq DEF LimitInv, ArmedGood
      <4> QED
        BY <4>1 DEF LimitInv, ArmedGood, ArmRecord
    <3>2. \A i \in 1..Len(lArmed) : lArmed[i].life <= lLife'.starts /\ lArmed[i].life # lLife'.starts
      BY <2>2, <3>1
    <3> QED
      BY <2>1, <3>2 DEF LimitInv, ArmedGood
  <2> QED
    BY <2>1, <2>2, <2>3, <2>4 DEF LimitInv
<1>3. CASE LimitDone \/ UNCHANGED limitVars
  <2>1. UNCHANGED limitVars
    BY <1>3 DEF LimitDone
  <2> QED
    BY <2>1 DEF LimitInv, limitVars
<1> QED
  BY <1>1, <1>2, <1>3 DEF LimitNext

-----------------------------------------------------------------------------
\* What LimitEntry promises follows from its invariant.
LEMMA LimitHolds == LimitInv => LimitTypeOK /\ OneAttempt /\ FillsInTime /\ PlansInOrder
<1> SUFFICES ASSUME LimitInv PROVE LimitTypeOK /\ OneAttempt /\ FillsInTime /\ PlansInOrder
  OBVIOUS
<1>1. LimitTypeOK
  BY NowIs, EndIs DEF LimitInv, MemoryGood, LimitTypeOK
<1>2. OneAttempt
  <2>1. DOMAIN lArmed = 1..Len(lArmed)
    BY DEF LimitInv, ArmedGood
  <2> QED
    BY <2>1 DEF LimitInv, ArmedGood, OneAttempt, Readers
<1>3. FillsInTime
  <2>1. DOMAIN lFills = 1..Len(lFills)
    BY DEF LimitInv, FillsGood
  <2> QED
    BY <2>1 DEF LimitInv, FillsGood, FillsInTime
<1>4. ASSUME NEW kind \in Readers, Found(ReadSignal(kind, lPath)), ReadSignal(kind, lPath).fresh
      PROVE  InOrder(ReadSignal(kind, lPath).setup)
  <2>1. PICK a \in 1..Len(lPath) : ReadsAt(ReadSignal(kind, lPath), lPath, a)
    BY <1>4, SignalIs DEF LimitInv, Timed
  <2> QED
    BY <1>4, <2>1 DEF ReadsAt
<1>5. PlansInOrder
  <2> SUFFICES ASSUME NEW read \in {ChochSignal(lPath), WaveSignal(lPath)}, Found(read), read.fresh
               PROVE  InOrder(read.setup)
    BY DEF PlansInOrder
  <2>1. PICK kind \in Readers : read = ReadSignal(kind, lPath)
    BY DEF Readers, ReadSignal
  <2> QED
    BY <1>4, <2>1
<1> QED
  BY <1>1, <1>2, <1>3, <1>5

\* A bar more repaints no swing.
LEMMA SwingsStayed == LimitInv /\ [LimitNext]_limitVars => SwingsStay
<1> SUFFICES ASSUME LimitInv, [LimitNext]_limitVars, lPath' # lPath
             PROVE  IsPrefix(Swings(lPath, SwingN), Swings(lPath', SwingN))
  BY DEF SwingsStay
<1>1. PICK candle \in Candles, gap \in 0..1, closes \in BOOLEAN : LimitBar(candle, gap, closes)
  BY DEF LimitNext, LimitRestart, LimitDone, limitVars
<1>2. PICK newest \in PriceBar : lPath' = Append(lPath, newest)
  BY <1>1, NextCandle DEF LimitInv
<1> DEFINE sw == SwingsOf(lPath)
<1>3. PICK q \in Seq(SwingRecord) : sw \in Seq(SwingRecord) /\ SwingsOf(Append(lPath, newest)) = sw \o q
  BY SwingAssumed, SwingsGrow DEF LimitInv, Timed, SwingsOf
<1> HIDE DEF sw
<1>4. IsPrefix(sw, sw \o q)
  <2>1. /\ Len(sw \o q) = Len(sw) + Len(q) /\ sw \o q \in Seq(SwingRecord)
        /\ \A i \in 1..Len(sw) + Len(q) : (sw \o q)[i] = IF i <= Len(sw) THEN sw[i] ELSE q[i - Len(sw)]
    BY <1>3, ConcatProperties
  <2>2. Len(sw) \in Nat /\ Len(q) \in Nat
    BY <1>3
  <2>3. PICK both \in Seq(SwingRecord) : both = sw \o q
    BY <2>1
  <2>4. Len(both) >= Len(sw) /\ \A i \in 1..Len(sw) : both[i] = sw[i]
    BY <2>1, <2>2, <2>3
  <2>5. SubSeq(both, 1, Len(sw)) = SubSeq(sw, 1, Len(sw))
    BY <1>3, <2>2, <2>4
  <2> QED
    BY <2>2, <2>3, <2>4, <2>5 DEF IsPrefix
<1> QED
  BY <1>2, <1>3, <1>4 DEF sw, SwingsOf

-----------------------------------------------------------------------------
(***************************************************************************)
(* Fades.  A fade made on the newest bar is remembered, by its cluster or by *)
(* its bar, as is every anchor that was traded.                            *)
(***************************************************************************)
(* What a fade pays *)
Pays(f) ==
    /\ Signed(f.short) * (f.entry - f.sl) >= MinRisk
    /\ Signed(f.short) * (f.tp - f.entry) >= Signed(f.short) * (f.entry - f.sl)
    /\ Signed(f.short) * (f.tp - f.entry) <= 4 * (Signed(f.short) * (f.entry - f.sl))

\* The stop is at least half an ATR away on the losing side.
LEMMA StopAway ==
  ASSUME NEW short, NEW extreme, NEW entry, short \in BOOLEAN, extreme \in Int, entry \in Int
  PROVE  LET sl == StopAt(extreme, entry, short) IN
         /\ sl \in Int /\ Nor(sl, entry) \in Int /\ Nor(sl, entry) >= MinRisk
         /\ Nor(sl, entry) = Signed(short) * (entry - sl)
<1>1. CASE short = TRUE
  BY <1>1 DEF StopAt, HigherFor, Signed, Nor, Buffer, MinRisk
<1>2. CASE short = FALSE
  BY <1>2 DEF StopAt, HigherFor, Signed, Nor, Buffer, MinRisk
<1> QED
  BY <1>1, <1>2

\* A capped target that is worth it pays one to four risks.
LEMMA CappedIs ==
  ASSUME NEW x, NEW entry, NEW risk, NEW short, x \in Int, entry \in Int, risk \in Int,
         short \in BOOLEAN, risk >= MinRisk, Signed(short) * (x - entry) > MinRisk,
         WorthIt(Capped(x, entry, risk, short), entry, risk)
  PROVE  LET tp == Capped(x, entry, risk, short) IN
         /\ tp \in Int /\ Signed(short) * (tp - entry) >= risk
         /\ Signed(short) * (tp - entry) <= 4 * risk
<1>1. CASE short = TRUE
  BY <1>1 DEF Capped, HigherFor, Signed, Nor, WorthIt, MinRisk
<1>2. CASE short = FALSE
  BY <1>2 DEF Capped, HigherFor, Signed, Nor, WorthIt, MinRisk
<1> QED
  BY <1>1, <1>2

\* So does a target of two risks,
LEMMA DoubleIs ==
  ASSUME NEW entry, NEW risk, NEW short, entry \in Int, risk \in Int,
         short \in BOOLEAN, risk >= MinRisk
  PROVE  LET tp == entry + Signed(short) * 2 * risk IN
         /\ tp \in Int /\ Signed(short) * (tp - entry) >= risk
         /\ Signed(short) * (tp - entry) <= 4 * risk
<1>1. CASE short = TRUE
  BY <1>1 DEF Signed, MinRisk
<1>2. CASE short = FALSE
  BY <1>2 DEF Signed, MinRisk
<1> QED
  BY <1>1, <1>2

\* and so does the target of a fade, whichever it is.
LEMMA TargetIs ==
  ASSUME NEW s, NEW entry, NEW risk, NEW short, s \in Scenes, entry \in Int, risk \in Int,
         short \in BOOLEAN, risk >= MinRisk
  PROVE  LET tp == FadeTarget(s, entry, risk, short) IN
         /\ tp \in Int /\ Signed(short) * (tp - entry) >= risk
         /\ Signed(short) * (tp - entry) <= 4 * risk
<1> DEFINE far == IF short THEN s.val ELSE s.vah
           ahead == Signed(short) * (s.poc - entry) > MinRisk
           x == IF ahead THEN s.poc ELSE far
           tp == Capped(x, entry, risk, short)
<1>1. x \in Int
  BY FadeAssumption
<1>2. \/ FadeTarget(s, entry, risk, short) = entry + Signed(short) * 2 * risk
      \/ /\ FadeTarget(s, entry, risk, short) = tp
         /\ Signed(short) * (x - entry) > MinRisk /\ WorthIt(tp, entry, risk)
  BY DEF FadeTarget
<1> HIDE DEF x, tp
<1> QED
  BY <1>1, <1>2, CappedIs, DoubleIs DEF tp

\* A stop and a target of this kind make a fade that pays.
LEMMA FadeIs ==
  ASSUME NEW of, NEW short, NEW entry, NEW sl, NEW tp, short \in BOOLEAN, entry \in Int,
         sl \in Int, Nor(sl, entry) \in Int, tp \in Int,
         Nor(sl, entry) >= MinRisk, Nor(sl, entry) = Signed(short) * (entry - sl),
         Signed(short) * (tp - entry) >= Nor(sl, entry),
         Signed(short) * (tp - entry) <= 4 * Nor(sl, entry)
  PROVE  LET f == Fade(of, short, entry, sl, tp) IN Pays(f) /\ f.of = of
<1> DEFINE f == Fade(of, short, entry, sl, tp)
<1>1. f.of = of /\ f.short = short /\ f.entry = entry /\ f.sl = sl /\ f.tp = tp
  BY DEF Fade
<1> HIDE DEF f
<1>2. Pays(f)
  BY <1>1 DEF Pays
<1> QED
  BY <1>1, <1>2 DEF f

-----------------------------------------------------------------------------
(* What is chosen *)
\* A fade of a swept cluster pays, and its cluster is not the one faded last.
LEMMA EqhlIs ==
  ASSUME NEW s, NEW memory, NEW f, s \in Scenes, f \in EqhlFade(s, memory)
  PROVE  /\ Pays(f)
         /\ f.of = Cluster(CHOOSE x \in Candidates(s) : \A y \in Candidates(s) : x.conf >= y.conf)
         /\ f.of # memory.cluster
<1> DEFINE c == Candidates(s)
           w == CHOOSE x \in c : \A y \in c : x.conf >= y.conf
           sl == StopAt(w.wick, s.bar.c, w.high)
           tp == FadeTarget(s, s.bar.c, Nor(sl, s.bar.c), w.high)
<1>1. /\ c # {} /\ memory.cluster # Cluster(w)
      /\ f = Fade(Cluster(w), w.high, s.bar.c, sl, tp)
  BY DEF EqhlFade
<1>2. c \subseteq s.sweeps /\ IsFiniteSet(c)
  BY FadeAssumption, FS_Subset DEF Candidates
<1>3. w \in c
  <2> DEFINE g == [x \in c |-> x.conf]
  <2>1. g \in [c -> Int]
    BY <1>2, FadeAssumption
  <2> HIDE DEF c, g
  <2>2. PICK x \in c : \A y \in c : g[x] >= g[y]
    BY <1>1, <1>2, <2>1, PeakOf
  <2>3. \A y \in c : x.conf >= y.conf
    BY <2>2 DEF g
  <2> QED
    BY <2>3
<1>4. w.high \in BOOLEAN /\ w.wick \in Int /\ s.bar.c \in Int
  <2> HIDE DEF w
  <2> QED
    BY <1>2, <1>3, FadeAssumption
<1> HIDE DEF c, w
<1>5. /\ sl \in Int /\ Nor(sl, s.bar.c) \in Int /\ Nor(sl, s.bar.c) >= MinRisk
      /\ Nor(sl, s.bar.c) = Signed(w.high) * (s.bar.c - sl)
  BY <1>4, StopAway
<1> HIDE DEF sl
<1>6. /\ tp \in Int /\ Signed(w.high) * (tp - s.bar.c) >= Nor(sl, s.bar.c)
      /\ Signed(w.high) * (tp - s.bar.c) <= 4 * Nor(sl, s.bar.c)
  BY <1>4, <1>5, TargetIs
<1> HIDE DEF tp
<1>7. Pays(f) /\ f.of = Cluster(w)
  BY <1>1, <1>4, <1>5, <1>6, FadeIs
<1> QED
  BY <1>1, <1>7 DEF w, c

\* A fade at an anchor pays, and neither its anchor nor this bar was used.
LEMMA AnchorIs ==
  ASSUME NEW s, NEW now, NEW memory, NEW f, s \in Scenes, f \in AnchorFade(s, now, memory)
  PROVE  Pays(f) /\ f.of \notin memory.anchors /\ memory.at # now
<1> DEFINE c == {a \in s.anchors : /\ a.id \notin memory.anchors
                                /\ s.bar.c >= a.lo - 3 /\ s.bar.c <= a.hi + 3
                                /\ Defended(a, s.bar) /\ WithTrend(a, s.regime)}
           w == CHOOSE x \in c : \A y \in c : x.z >= y.z
           sl == StopAt(IF w.bull THEN w.lo ELSE w.hi, s.bar.c, ~w.bull)
           tp == s.bar.c + Signed(~w.bull) * 2 * Nor(sl, s.bar.c)
<1>1. /\ c # {} /\ memory.at # now
      /\ f = Fade(w.id, ~w.bull, s.bar.c, sl, tp)
  BY DEF AnchorFade
<1>2. c \subseteq s.anchors /\ IsFiniteSet(c)
  BY FadeAssumption, FS_Subset
<1>3. w \in c
  <2> DEFINE g == [x \in c |-> x.z]
  <2>1. g \in [c -> Int]
    BY <1>2, FadeAssumption
  <2> HIDE DEF c, g
  <2>2. PICK x \in c : \A y \in c : g[x] >= g[y]
    BY <1>1, <1>2, <2>1, PeakOf
  <2>3. \A y \in c : x.z >= y.z
    BY <2>2 DEF g
  <2> QED
    BY <2>3
<1>4. w.bull \in BOOLEAN /\ w.lo \in Int /\ w.hi \in Int /\ s.bar.c \in Int
  <2> HIDE DEF w
  <2> QED
    BY <1>2, <1>3, FadeAssumption
<1>5. w.id \notin memory.anchors
  BY <1>3
<1> HIDE DEF c, w
<1>6. PICK short \in BOOLEAN, end \in Int : short = ~w.bull /\ end = (IF w.bull THEN w.lo ELSE w.hi)
  BY <1>4
<1>7. sl = StopAt(end, s.bar.c, short) /\ tp = s.bar.c + Signed(short) * 2 * Nor(sl, s.bar.c)
  BY <1>6
<1> HIDE DEF sl, tp
<1>8. /\ sl \in Int /\ Nor(sl, s.bar.c) \in Int /\ Nor(sl, s.bar.c) >= MinRisk
      /\ Nor(sl, s.bar.c) = Signed(short) * (s.bar.c - sl)
  BY <1>4, <1>7, StopAway
<1>9. /\ tp \in Int /\ Signed(short) * (tp - s.bar.c) >= Nor(sl, s.bar.c)
      /\ Signed(short) * (tp - s.bar.c) <= 4 * Nor(sl, s.bar.c)
  BY <1>4, <1>7, <1>8, DoubleIs
<1>10. Pays(f) /\ f.of = w.id
  <2>1. f = Fade(w.id, short, s.bar.c, sl, tp)
    BY <1>1, <1>6
  <2> QED
    BY <1>4, <1>8, <1>9, <2>1, FadeIs
<1> QED
  BY <1>1, <1>5, <1>10

\* The two edges of a node.
Edges(z, s) == {[edge |-> z.hi, high |-> TRUE, past |-> s.bar.h - z.hi],
                [edge |-> z.lo, high |-> FALSE, past |-> z.lo - s.bar.l]}

\* The swept edges are finitely many.
LEMMA EdgesAre ==
  ASSUME NEW s, s \in Scenes
  PROVE  /\ IsFiniteSet(SweptEdges(s))
         /\ \A e \in SweptEdges(s) : e.high \in BOOLEAN /\ e.past \in Int
<1> DEFINE in == {y \in s.nodes : y.lo < s.bar.c /\ s.bar.c < y.hi}
           edges == [z \in in |-> Edges(z, s)]
           all == {edges[z] : z \in in}
<1>1. in \subseteq s.nodes /\ IsFiniteSet(in)
  BY FadeAssumption, FS_Subset
<1>2. SweptEdges(s) \subseteq UNION all
  BY DEF SweptEdges, Edges
<1>3. IsFiniteSet(UNION all)
  <2>1. \A z \in in : IsFiniteSet(edges[z])
    BY PairFinite DEF Edges
  <2>2. IsFiniteSet(all)
    <3> HIDE DEF in, edges
    <3> QED
      BY <1>1, ValuesFinite
  <2> HIDE DEF edges
  <2>3. \A T \in all : IsFiniteSet(T)
    BY <2>1
  <2> HIDE DEF all
  <2> QED
    BY <2>2, <2>3, FS_UNION
<1>4. \A e \in UNION all : e.high \in BOOLEAN /\ e.past \in Int
  <2>1. ASSUME NEW e, e \in UNION all
        PROVE  e.high \in BOOLEAN /\ e.past \in Int
    <3>1. PICK z \in in : e \in edges[z]
      BY <2>1
    <3>2. z \in s.nodes /\ e \in Edges(z, s)
      BY <3>1
    <3>3. z.hi \in Int /\ z.lo \in Int /\ s.bar.h \in Int /\ s.bar.l \in Int
      BY <3>2, FadeAssumption
    <3>4. s.bar.h - z.hi \in Int /\ z.lo - s.bar.l \in Int
      BY <3>3
    <3>5. CASE e = [edge |-> z.hi, high |-> TRUE, past |-> s.bar.h - z.hi]
      BY <3>4, <3>5
    <3>6. CASE e = [edge |-> z.lo, high |-> FALSE, past |-> z.lo - s.bar.l]
      BY <3>4, <3>6
    <3> QED
      BY <3>2, <3>5, <3>6 DEF Edges
  <2> QED
    BY <2>1
<1> HIDE DEF all
<1> QED
  BY <1>2, <1>3, <1>4, FS_Subset

\* A fade at a node pays, and this bar was not used.
LEMMA HvnIs ==
  ASSUME NEW s, NEW now, NEW memory, NEW f, s \in Scenes, f \in HvnFade(s, now, memory)
  PROVE  Pays(f) /\ memory.at # now
<1> DEFINE c == SweptEdges(s)
           e == CHOOSE x \in c : \A y \in c : x.past >= y.past
           sl == StopAt(IF e.high THEN s.bar.h ELSE s.bar.l, s.bar.c, e.high)
           tp == FadeTarget(s, s.bar.c, Nor(sl, s.bar.c), e.high)
<1>1. c # {} /\ memory.at # now /\ f = Fade(e.edge, e.high, s.bar.c, sl, tp)
  BY DEF HvnFade
<1>2. IsFiniteSet(c) /\ \A x \in c : x.high \in BOOLEAN /\ x.past \in Int
  BY EdgesAre
<1>3. e \in c
  <2> DEFINE g == [x \in c |-> x.past]
  <2>1. g \in [c -> Int]
    BY <1>2
  <2> HIDE DEF c, g
  <2>2. PICK x \in c : \A y \in c : g[x] >= g[y]
    BY <1>1, <1>2, <2>1, PeakOf
  <2>3. \A y \in c : x.past >= y.past
    BY <2>2 DEF g
  <2> QED
    BY <2>3
<1> HIDE DEF c, e
<1>4. /\ e.high \in BOOLEAN /\ s.bar.c \in Int
      /\ (IF e.high THEN s.bar.h ELSE s.bar.l) \in Int
  BY <1>2, <1>3, FadeAssumption
<1>5. /\ sl \in Int /\ Nor(sl, s.bar.c) \in Int /\ Nor(sl, s.bar.c) >= MinRisk
      /\ Nor(sl, s.bar.c) = Signed(e.high) * (s.bar.c - sl)
  BY <1>4, StopAway
<1> HIDE DEF sl
<1>6. /\ tp \in Int /\ Signed(e.high) * (tp - s.bar.c) >= Nor(sl, s.bar.c)
      /\ Signed(e.high) * (tp - s.bar.c) <= 4 * Nor(sl, s.bar.c)
  BY <1>4, <1>5, TargetIs
<1> HIDE DEF tp
<1>7. Pays(f)
  BY <1>1, <1>4, <1>5, <1>6, FadeIs
<1> QED
  BY <1>1, <1>7

-----------------------------------------------------------------------------
(* What a fader remembers *)
Faders == {"eqhl", "hvn", "anchor"}
ChosenSweep(s) == CHOOSE x \in Candidates(s) : \A y \in Candidates(s) : x.conf >= y.conf

\* What every fade of the three is.
LEMMA MadeIs ==
  ASSUME NEW way, NEW s, NEW now, NEW memory, NEW f,
         way \in Faders, s \in Scenes, f \in FadeOf(way, s, now, memory)
  PROVE  /\ Pays(f)
         /\ way = "eqhl" => f.of = Cluster(ChosenSweep(s)) /\ f.of # memory.cluster
         /\ way # "eqhl" => memory.at # now
         /\ way = "anchor" => f.of \notin memory.anchors
<1>1. CASE way = "eqhl"
  BY <1>1, EqhlIs DEF FadeOf, ChosenSweep
<1>2. CASE way = "hvn"
  <2>1. f \in HvnFade(s, now, memory)
    BY <1>2 DEF FadeOf
  <2> QED
    BY <1>2, <2>1, HvnIs
<1>3. CASE way = "anchor"
  <2>1. f \in AnchorFade(s, now, memory)
    BY <1>3 DEF FadeOf
  <2> QED
    BY <1>3, <2>1, AnchorIs
<1> QED
  BY <1>1, <1>2, <1>3 DEF Faders

\* A fader, and a memory, of these parts.
FaderWith(way, memory, path, scene, taken, lapses) ==
    [strategy |-> way, memory |-> memory, bars |-> path, scene |-> scene, taken |-> taken,
     lapses |-> lapses]
FadeMemory(cluster, at, spent) == [cluster |-> cluster, at |-> at, anchors |-> spent]

\* The fader is a record, and what it made is a sequence.
FadeShape ==
    /\ fader = FaderWith(fader.strategy, fader.memory, fader.bars, fader.scene, fader.taken,
                         fader.lapses)
    /\ fader.memory = FadeMemory(fader.memory.cluster, fader.memory.at, fader.memory.anchors)
    /\ fader.strategy \in Faders /\ fader.bars \in Nat /\ fader.lapses \in Nat
    /\ fader.scene \subseteq Scenes
    /\ \E S : fader.taken \in Seq(S)
EachPays == \A i \in DOMAIN fader.taken :
    Pays(fader.taken[i].fade) /\ fader.taken[i].at \in Nat /\ fader.taken[i].at <= fader.bars
EachOnItsBar == fader.lapses = 0 =>
    \A i, j \in DOMAIN fader.taken : i # j => fader.taken[i].at # fader.taken[j].at
\* A fade made on this bar is remembered: its cluster, or the bar.
FadeRemembered == fader.lapses = 0 =>
    \A i \in DOMAIN fader.taken : fader.taken[i].at = fader.bars =>
        IF fader.strategy = "eqhl"
        THEN \A s \in fader.scene : fader.memory.cluster = Cluster(ChosenSweep(s))
        ELSE fader.memory.at = fader.bars
AnchorsRemembered == fader.lapses = 0 /\ fader.strategy = "anchor" =>
    /\ \A i \in DOMAIN fader.taken : fader.taken[i].fade.of \in fader.memory.anchors
    /\ \A i, j \in DOMAIN fader.taken : i # j => fader.taken[i].fade.of # fader.taken[j].fade.of
FadeInv == FadeShape /\ EachPays /\ EachOnItsBar /\ FadeRemembered /\ AnchorsRemembered

\* The invariant holds of the initial states,
LEMMA FadeInitInv == FadeInit => FadeInv
<1> SUFFICES ASSUME FadeInit PROVE FadeInv
  OBVIOUS
<1>1. PICK way \in Faders : fader = FaderWith(way, FadeMemory(Forgot.cluster, 0, {}), 0, {}, <<>>, 0)
  BY DEF FadeInit, Forgot, Faders, FaderWith, FadeMemory
<1>2. \A S : <<>> \in Seq(S)
  OBVIOUS
<1>3. FadeShape
  BY <1>1, <1>2 DEF FadeShape, FaderWith, FadeMemory
<1>4. fader.taken = <<>>
  BY <1>1 DEF FaderWith
<1> QED
  BY <1>3, <1>4 DEF FadeInv, EachPays, EachOnItsBar, FadeRemembered, AnchorsRemembered

\* The fader after a bar that makes no fade, and after one that does.
LEMMA FadedIs ==
  ASSUME NEW s, NEW now, FadeShape, Evaluate(s, now)
  PROVE  \/ fader' = FaderWith(fader.strategy, fader.memory, now, {s}, fader.taken, fader.lapses)
         \/ \E f \in FadeOf(fader.strategy, s, now, fader.memory) :
               fader' = FaderWith(fader.strategy,
                            FadeMemory(IF fader.strategy = "eqhl" THEN f.of ELSE fader.memory.cluster,
                                       now,
                                       IF fader.strategy = "anchor" THEN fader.memory.anchors \cup {f.of}
                                       ELSE fader.memory.anchors),
                            now, {s}, Append(fader.taken, [fade |-> f, at |-> now]), fader.lapses)
<1> DEFINE made == FadeOf(fader.strategy, s, now, fader.memory)
           seen == FaderWith(fader.strategy, fader.memory, now, {s}, fader.taken, fader.lapses)
<1>1. [fader EXCEPT !.bars = now, !.scene = {s}] = seen
  <2>1. PICK way, memory, path, scene, taken, lapses :
           /\ fader = FaderWith(way, memory, path, scene, taken, lapses)
           /\ way = fader.strategy /\ memory = fader.memory /\ taken = fader.taken
           /\ lapses = fader.lapses
    BY DEF FadeShape
  <2>2. [FaderWith(way, memory, path, scene, taken, lapses) EXCEPT !.bars = now, !.scene = {s}] =
            FaderWith(way, memory, now, {s}, taken, lapses)
    <3>1. PICK x : x = [FaderWith(way, memory, path, scene, taken, lapses)
                            EXCEPT !.bars = now, !.scene = {s}]
      OBVIOUS
    <3>2. PICK one : one = {s}
      OBVIOUS
    <3>3. x = FaderWith(way, memory, now, one, taken, lapses)
      BY <3>1, <3>2 DEF FaderWith
    <3> QED
      BY <3>1, <3>2, <3>3
  <2> QED
    BY <2>1, <2>2
<1>2. fader' \in Faded(seen, made, now)
  BY <1>1 DEF Evaluate
<1>3. CASE made = {}
  BY <1>2, <1>3 DEF Faded
<1>4. CASE made # {}
  <2>1. PICK f \in made :
           fader' = [seen EXCEPT !.taken = Append(@, [fade |-> f, at |-> now]),
                                 !.memory = ActedOn(@, f, fader.strategy, now)]
    BY <1>2, <1>4 DEF Faded
  <2>2. fader' = FaderWith(fader.strategy, ActedOn(fader.memory, f, fader.strategy, now), now, {s},
                           Append(fader.taken, [fade |-> f, at |-> now]), fader.lapses)
    BY <2>1 DEF FaderWith
  <2>3. ActedOn(fader.memory, f, fader.strategy, now) =
            FadeMemory(IF fader.strategy = "eqhl" THEN f.of ELSE fader.memory.cluster,
                       now,
                       IF fader.strategy = "anchor" THEN fader.memory.anchors \cup {f.of}
                       ELSE fader.memory.anchors)
    <3>1. PICK cluster, at, spent :
             /\ fader.memory = FadeMemory(cluster, at, spent)
             /\ cluster = fader.memory.cluster /\ spent = fader.memory.anchors
      BY DEF FadeShape
    <3>2. ActedOn(FadeMemory(cluster, at, spent), f, fader.strategy, now) =
              FadeMemory(IF fader.strategy = "eqhl" THEN f.of ELSE cluster, now,
                         IF fader.strategy = "anchor" THEN spent \cup {f.of} ELSE spent)
      <4>1. PICK x : x = ActedOn(FadeMemory(cluster, at, spent), f, fader.strategy, now)
        OBVIOUS
      <4>2. PICK c, k : /\ c = (IF fader.strategy = "eqhl" THEN f.of ELSE cluster)
                        /\ k = (IF fader.strategy = "anchor" THEN spent \cup {f.of} ELSE spent)
        OBVIOUS
      <4>3. x = [[cluster |-> cluster, at |-> at, anchors |-> spent]
                    EXCEPT !.cluster = c, !.at = now, !.anchors = k]
        BY <4>1, <4>2 DEF ActedOn, FadeMemory
      <4>4. x = [cluster |-> c, at |-> now, anchors |-> k]
        BY <4>3
      <4> QED
        BY <4>1, <4>2, <4>4 DEF FadeMemory
    <3> QED
      BY <3>1, <3>2
  <2> QED
    BY <2>2, <2>3
<1> QED
  BY <1>3, <1>4

\* r is q with x behind, at place n.
Grown(q, r, n, x) ==
    /\ \E T : r \in Seq(T)
    /\ DOMAIN r = DOMAIN q \cup {n} /\ n \notin DOMAIN q /\ r[n] = x
    /\ \A i \in DOMAIN q : r[i] = q[i]

\* A sequence with one element more.
LEMMA Appended ==
  ASSUME NEW S, NEW q, NEW x, NEW r, NEW n, q \in Seq(S), r = Append(q, x), n = Len(q) + 1
  PROVE  Grown(q, r, n, x)
<1>1. PICK T : q \in Seq(T) /\ x \in T
  <2>1. q \in Seq(S \cup {x})
    OBVIOUS
  <2> QED
    BY <2>1
<1>2. r \in Seq(T)
  BY <1>1
<1> QED
  BY <1>1, <1>2 DEF Grown

\* An evaluation keeps the invariant,
LEMMA EvaluateInv ==
  ASSUME NEW s, NEW now, FadeInv, Evaluate(s, now), s \in Scenes, now \in Nat,
         now >= fader.bars, now = fader.bars => s \in fader.scene
  PROVE  FadeInv'
<1>1. FadeShape
  BY DEF FadeInv
<1>2. /\ fader.strategy \in Faders /\ fader.bars \in Nat /\ fader.lapses \in Nat
      /\ \A i \in DOMAIN fader.taken :
            Pays(fader.taken[i].fade) /\ fader.taken[i].at \in Nat /\ fader.taken[i].at <= fader.bars
  BY DEF FadeInv, FadeShape, EachPays
<1>3. CASE fader' = FaderWith(fader.strategy, fader.memory, now, {s}, fader.taken, fader.lapses)
  <2>1. /\ fader'.strategy = fader.strategy /\ fader'.memory = fader.memory /\ fader'.bars = now
        /\ fader'.scene = {s} /\ fader'.taken = fader.taken /\ fader'.lapses = fader.lapses
    BY <1>3 DEF FaderWith
  <2>2. FadeShape'
    BY <1>1, <1>3, <2>1 DEF FadeShape, FaderWith
  <2>3. EachPays' /\ EachOnItsBar' /\ AnchorsRemembered'
    BY <1>2, <2>1 DEF FadeInv, EachPays, EachOnItsBar, AnchorsRemembered
  <2>4. FadeRemembered'
    <3>1. CASE now = fader.bars
      BY <2>1, <3>1 DEF FadeInv, FadeRemembered
    <3>2. CASE now # fader.bars
      BY <1>2, <2>1, <3>2 DEF FadeRemembered
    <3> QED
      BY <3>1, <3>2
  <2> QED
    BY <2>2, <2>3, <2>4 DEF FadeInv
<1>4. ASSUME NEW f, f \in FadeOf(fader.strategy, s, now, fader.memory),
             fader' = FaderWith(fader.strategy,
                            FadeMemory(IF fader.strategy = "eqhl" THEN f.of ELSE fader.memory.cluster,
                                       now,
                                       IF fader.strategy = "anchor" THEN fader.memory.anchors \cup {f.of}
                                       ELSE fader.memory.anchors),
                            now, {s}, Append(fader.taken, [fade |-> f, at |-> now]), fader.lapses)
      PROVE  FadeInv'
  <2> DEFINE n == Len(fader.taken) + 1
  <2>1. /\ Pays(f)
        /\ fader.strategy = "eqhl" => f.of = Cluster(ChosenSweep(s)) /\ f.of # fader.memory.cluster
        /\ fader.strategy # "eqhl" => fader.memory.at # now
        /\ fader.strategy = "anchor" => f.of \notin fader.memory.anchors
    BY <1>2, <1>4, MadeIs
  <2>2. /\ fader'.strategy = fader.strategy /\ fader'.bars = now
        /\ fader'.scene = {s} /\ fader'.taken = Append(fader.taken, [fade |-> f, at |-> now])
        /\ fader'.lapses = fader.lapses
        /\ fader'.memory.at = now
        /\ fader.strategy = "eqhl" => fader'.memory.cluster = f.of
        /\ fader.strategy = "anchor" => fader'.memory.anchors = fader.memory.anchors \cup {f.of}
    BY <1>4 DEF FaderWith, FadeMemory
  <2>3. PICK S : fader.taken \in Seq(S)
    BY <1>1 DEF FadeShape
  <2>4. /\ \E T : fader'.taken \in Seq(T)
        /\ DOMAIN fader'.taken = DOMAIN fader.taken \cup {n}
        /\ n \notin DOMAIN fader.taken
        /\ fader'.taken[n] = [fade |-> f, at |-> now]
        /\ \A i \in DOMAIN fader.taken : fader'.taken[i] = fader.taken[i]
    <3>1. PICK x : x = [fade |-> f, at |-> now]
      OBVIOUS
    <3>2. fader'.taken = Append(fader.taken, x)
      BY <2>2, <3>1
    <3> HIDE <3>1
    <3>3. /\ \E T : fader'.taken \in Seq(T)
          /\ DOMAIN fader'.taken = DOMAIN fader.taken \cup {n}
          /\ n \notin DOMAIN fader.taken
          /\ fader'.taken[n] = x
          /\ \A i \in DOMAIN fader.taken : fader'.taken[i] = fader.taken[i]
      <4>1. PICK q : q = fader.taken
        OBVIOUS
      <4>2. PICK r : r = fader'.taken
        OBVIOUS
      <4>3. q \in Seq(S) /\ r = Append(q, x) /\ n = Len(q) + 1
        BY <2>3, <3>2, <4>1, <4>2
      <4> HIDE DEF n
      <4> HIDE <4>1, <4>2
      <4>4. Grown(q, r, n, x)
        BY <4>3, Appended
      <4> QED
        BY <4>1, <4>2, <4>4, Zenon DEF Grown
    <3> QED
      BY <3>1, <3>3
  <2>5. FadeShape'
    BY <1>1, <1>4, <2>4 DEF FadeShape, FaderWith, FadeMemory
  <2>6. fader'.taken[n].fade = f /\ fader'.taken[n].at = now
    BY <2>4
  <2> HIDE DEF n
  <2>7. fader.lapses = 0 => \A i \in DOMAIN fader.taken : fader.taken[i].at # now
    <3> SUFFICES ASSUME fader.lapses = 0, NEW i \in DOMAIN fader.taken, fader.taken[i].at = now
                 PROVE  FALSE
      OBVIOUS
    <3>1. now = fader.bars /\ s \in fader.scene
      BY <1>2
    <3> QED
      BY <2>1, <3>1 DEF FadeInv, FadeRemembered
  <2>8. EachPays'
    BY <1>2, <2>1, <2>2, <2>4, <2>6 DEF EachPays
  <2>9. EachOnItsBar'
    BY <2>2, <2>4, <2>6, <2>7 DEF FadeInv, EachOnItsBar
  <2>10. FadeRemembered'
    BY <2>1, <2>2 DEF FadeRemembered
  <2>11. AnchorsRemembered'
    BY <2>1, <2>2, <2>4, <2>6 DEF FadeInv, AnchorsRemembered
  <2> QED
    BY <2>5, <2>8, <2>9, <2>10, <2>11 DEF FadeInv
<1> QED
  BY <1>1, <1>3, <1>4, FadedIs

\* and so does every step.
LEMMA FadeStep == FadeInv /\ [FadeNext]_fader => FadeInv'
<1> SUFFICES ASSUME FadeInv, [FadeNext]_fader PROVE FadeInv'
  OBVIOUS
<1>1. fader.bars \in Nat /\ fader.scene \subseteq Scenes
  BY DEF FadeInv, FadeShape
<1>2. CASE FadeBar
  <2>1. PICK s \in Scenes : Evaluate(s, fader.bars + 1)
    BY <1>2 DEF FadeBar
  <2>2. PICK now \in Nat : now = fader.bars + 1
    BY <1>1
  <2> QED
    BY <1>1, <2>1, <2>2, EvaluateInv
<1>3. CASE FadeAgain
  <2>1. PICK s \in fader.scene : Evaluate(s, fader.bars)
    BY <1>3 DEF FadeAgain
  <2> QED
    BY <1>1, <2>1, EvaluateInv
<1>4. CASE FadeLapse
  <2>1. fader' = FaderWith(fader.strategy, Forgot, fader.bars, fader.scene, fader.taken,
                           fader.lapses + 1)
    BY <1>4 DEF FadeLapse, FadeInv, FadeShape, FaderWith
  <2>2. /\ fader'.lapses # 0 /\ fader'.lapses \in Nat /\ fader'.taken = fader.taken
        /\ fader'.bars = fader.bars
    BY <2>1 DEF FadeInv, FadeShape, FaderWith
  <2>3. FadeShape'
    BY <2>1, <2>2 DEF FadeInv, FadeShape, FaderWith, FadeMemory, Forgot
  <2> QED
    BY <2>2, <2>3 DEF FadeInv, EachPays, EachOnItsBar, FadeRemembered, AnchorsRemembered
<1>5. CASE UNCHANGED fader
  BY <1>5 DEF FadeInv, FadeShape, EachPays, EachOnItsBar, FadeRemembered, AnchorsRemembered
<1> QED
  BY <1>2, <1>3, <1>4, <1>5 DEF FadeNext

\* What FadeEntry promises follows from its invariant.
LEMMA FadeHolds == FadeInv => FadesPay /\ AnchorTradedOnce /\ OneFadePerBar
<1> SUFFICES ASSUME FadeInv PROVE FadesPay /\ AnchorTradedOnce /\ OneFadePerBar
  OBVIOUS
<1>1. FadesPay
  BY DEF FadeInv, EachPays, FadesPay, Pays
<1>2. AnchorTradedOnce
  <2>1. CASE fader.strategy = "anchor"
    BY <2>1 DEF FadeInv, AnchorsRemembered, AnchorTradedOnce, Taken
  <2>2. CASE fader.strategy # "anchor"
    BY <2>2 DEF AnchorTradedOnce, Taken
  <2> QED
    BY <2>1, <2>2
<1>3. OneFadePerBar
  BY DEF FadeInv, EachOnItsBar, OneFadePerBar
<1> QED
  BY <1>1, <1>2, <1>3

-----------------------------------------------------------------------------
\* The limits are in order at first, whichever part runs.
LEMMA LimitsStart == BarInit => LimitInv
<1>1. CASE part = "limit"
  BY <1>1, LimitInitInv DEF BarInit
<1>2. CASE part # "limit"
  <2>1. (CHOOSE k \in Kinds : TRUE) \in Kinds
    BY LimitAssumption
  <2>2. Timed(<<>>)
    BY DEF Timed
  <2> QED
    BY <1>2, <2>1, <2>2, NothingYet DEF BarInit, NoLimits
<1> QED
  BY <1>1, <1>2

\* Limits that lapse, fill and are cancelled, positions that close, bars evaluated again and
\* restarts: a structure is attempted once in a life of the server, a limit fills in its
\* life at a plan in price order, and every fade pays its risk, an anchor and a bar once.
THEOREM SetupsEnteredOnce == BarSpec => []OneEntryPerSetup
<1> DEFINE Inv == LimitInv /\ FadeInv
<1>1. BarInit => Inv
  BY LimitsStart, FadeInitInv DEF BarInit
<1>2. [BarNext]_barVars => [LimitNext]_limitVars /\ [FadeNext]_fader
  BY DEF BarNext, Others, barVars, Parts
<1>3. Inv /\ [BarNext]_barVars => Inv'
  BY <1>2, LimitStep, FadeStep
<1>4. Inv => OneEntryPerSetup
  BY LimitHolds, FadeHolds DEF OneEntryPerSetup
<1> HIDE DEF Inv
<1> QED
  BY <1>1, <1>3, <1>4, PTL DEF BarSpec

-----------------------------------------------------------------------------
(***************************************************************************)
(* A position between two bars: the types, and what the trend escape        *)
(* remembers.  A leg that filled on the bar at hand has left fewer orders   *)
(* open than the escape counted on the bar before.                          *)
(***************************************************************************)
TrendRecord == [seen : BOOLEAN, streak : 0..EscapeBars, last : Int, orders : Nat]
AfterFill == {"target", "hard_sl", "marked", "si_trail", "escape"}
Stages == {"idle", "check", "stop", "fill"} \cup AfterFill
CycleTypes ==
    /\ pos.booked \in {-1, 0, 1}
    /\ plan \in Plan \cup {NoPlan} /\ IsFiniteSet(plan.legs)
    /\ rules \in Rules \cup {{}} /\ filled \in BOOLEAN /\ stage \in Stages
    /\ bar \in Bar \cup {NoBar}
    /\ pending \subseteq plan.legs
    /\ pos.n >= 1 /\ pos.n + Cardinality(pending) <= 1 + Cardinality(plan.legs)
    /\ trend \in TrendRecord /\ trend.orders <= Cardinality(plan.legs)
TrendCounts ==
    /\ trend.seen => Cardinality(pending) <= trend.orders
    /\ filled /\ trend.seen /\ stage # "idle" => stage \in AfterFill /\ Cardinality(pending) < trend.orders
    /\ stage \in {"check", "stop", "fill"} => ~filled

\* A position is of these types before its first bar,
LEMMA CycleTypesStart == Init => CycleTypes /\ TrendCounts
<1> SUFFICES ASSUME Init PROVE CycleTypes /\ TrendCounts
  OBVIOUS
<1>1. /\ pos = NoPosition /\ plan = NoPlan /\ plan.legs = {} /\ pending = {} /\ trend = Unseen
      /\ rules = {} /\ bar = NoBar /\ filled = FALSE /\ stage = "idle"
  BY DEF Init, NoPlan
<1>2. IsFiniteSet({}) /\ Cardinality({}) = 0
  BY FS_EmptySet
<1>3. pos.booked = 0 /\ pos.n = 1
  BY <1>1 DEF NoPosition
<1>4. trend \in TrendRecord /\ trend.seen = FALSE /\ trend.orders = 0
  BY <1>1, TickAssumption DEF TrendRecord, Unseen
<1>5. TrendCounts
  BY <1>1, <1>4 DEF TrendCounts
<1>6. plan.legs = {} /\ IsFiniteSet(plan.legs) /\ Cardinality(plan.legs) = 0 /\ Cardinality(pending) = 0
  BY <1>1, <1>2
<1>7. /\ stage \in Stages /\ plan \in Plan \cup {NoPlan} /\ rules \in Rules \cup {{}}
      /\ bar \in Bar \cup {NoBar} /\ filled \in BOOLEAN /\ pending \subseteq plan.legs
  BY <1>1 DEF Stages
<1>8. /\ pos.n >= 1 /\ pos.n + Cardinality(pending) <= 1 + Cardinality(plan.legs)
      /\ trend.orders <= Cardinality(plan.legs)
  BY <1>3, <1>4, <1>6
<1> QED
  BY <1>3, <1>4, <1>5, <1>6, <1>7, <1>8 DEF CycleTypes

\* The counts of the orders are numbers, and the orders that a bar crosses are some of them.
LEMMA OrdersCounted ==
  ASSUME CycleTypes
  PROVE  /\ IsFiniteSet(pending) /\ Cardinality(pending) \in Nat /\ Cardinality(plan.legs) \in Nat
         /\ Cardinality(pending) <= Cardinality(plan.legs)
         /\ IsFiniteSet(Crossed) /\ Cardinality(Crossed) \in Nat
         /\ Cardinality(pending \ Crossed) = Cardinality(pending) - Cardinality(Crossed)
         /\ Crossed # {} => Cardinality(Crossed) >= 1
         /\ Cardinality({}) = 0
<1>1. IsFiniteSet(plan.legs) /\ pending \subseteq plan.legs
  BY DEF CycleTypes
<1>2. IsFiniteSet(pending) /\ Cardinality(pending) <= Cardinality(plan.legs)
  BY <1>1, FS_Subset
<1>3. Crossed \subseteq pending
  BY DEF Crossed
<1>4. IsFiniteSet(Crossed)
  BY <1>2, <1>3, FS_Subset
<1>5. /\ Cardinality(pending) \in Nat /\ Cardinality(plan.legs) \in Nat /\ Cardinality(Crossed) \in Nat
      /\ Cardinality({}) = 0
  BY <1>1, <1>2, <1>4, FS_CardinalityType, FS_EmptySet
<1>6. Crossed # {} => Cardinality(Crossed) # 0
  BY <1>4, FS_EmptySet
<1>7. Cardinality(pending \ Crossed) = Cardinality(pending) - Cardinality(Crossed)
  <2>1. pending \cap Crossed = Crossed
    BY <1>3
  <2> QED
    BY <1>2, <2>1, FS_Difference
<1> QED
  BY <1>2, <1>4, <1>5, <1>6, <1>7

\* A step that opens nothing and fills nothing keeps the types.
LEMMA TypesKept ==
  ASSUME CycleInv, CycleTypes, pos'.booked \in {-1, 0, 1}, pos'.n = pos.n, plan' = plan, rules' = rules,
         pending' = pending \/ pending' = {}, trend' \in TrendRecord,
         trend'.orders <= Cardinality(plan.legs), bar' \in Bar \cup {NoBar}, filled' \in BOOLEAN,
         stage' \in Stages
  PROVE  CycleTypes'
<1>1. /\ pos.n \in Nat /\ pos.n >= 1 /\ pos.n + Cardinality(pending) <= 1 + Cardinality(plan.legs)
      /\ Cardinality(pending) \in Nat /\ Cardinality(plan.legs) \in Nat /\ Cardinality({}) = 0
  BY OrdersCounted, CycleNumbers DEF CycleTypes
<1>2. pos'.n >= 1 /\ pos'.n + Cardinality(pending') <= 1 + Cardinality(plan'.legs)
  BY <1>1
<1>3. /\ plan' \in Plan \cup {NoPlan} /\ IsFiniteSet(plan'.legs) /\ rules' \in Rules \cup {{}}
      /\ pending' \subseteq plan'.legs
  BY DEF CycleTypes
<1> QED
  BY <1>2, <1>3 DEF CycleTypes, TrendRecord, Stages, AfterFill, Bar, NoPlan, NoBar

\* So does an exit; it leaves no more orders open than before.
LEMMA ExitTyped ==
  ASSUME CycleInv, CycleTypes, TrendCounts, NEW via \in Exit, NEW exit \in Int,
         NEW sign \in {-1, 0, 1}, Close(via, exit, sign),
         pending' = pending \/ pending' = {}, trend' = trend \/ trend' = Unseen
  PROVE  CycleTypes' /\ TrendCounts' /\ pos'.status = "closed" /\ pos'.via = via
<1>1. Avg \in Int
  BY CycleNumbers
<1>2. /\ pos' = [pos EXCEPT !.status = "closed", !.via = via, !.pnl = exit - Avg, !.booked = sign]
      /\ stage' = "idle" /\ UNCHANGED <<plan, rules, bar, filled>>
  BY DEF Close
<1>3. pos'.booked = sign /\ pos'.n = pos.n /\ pos'.status = "closed" /\ pos'.via = via
  BY <1>2 DEF CycleInv, PositionRecord
<1>4. /\ Unseen \in TrendRecord /\ Unseen.orders = 0 /\ Unseen.seen = FALSE
      /\ trend \in TrendRecord /\ trend.orders \in Nat /\ trend.orders <= Cardinality(plan.legs)
  BY TickAssumption DEF Unseen, TrendRecord, CycleTypes
<1>5. Cardinality(plan.legs) \in Nat /\ Cardinality({}) = 0
  BY OrdersCounted
<1>6. CycleTypes'
  <2>1. /\ trend' \in TrendRecord /\ trend'.orders <= Cardinality(plan.legs) /\ "idle" \in Stages
        /\ bar' \in Bar \cup {NoBar} /\ filled' \in BOOLEAN /\ plan' = plan /\ rules' = rules
    BY <1>2, <1>4, <1>5 DEF CycleTypes, Stages
  <2> QED
    BY <1>2, <1>3, <2>1, TypesKept
<1>7. TrendCounts'
  BY <1>2, <1>4, <1>5 DEF TrendCounts
<1> QED
  BY <1>3, <1>6, <1>7

\* So does a step of the handler that moves at most the stop.
LEMMA MoveTyped ==
  ASSUME CycleInv, CycleTypes, TrendCounts, NEW sl \in Int, pos' = [pos EXCEPT !.sl = sl],
         NEW s \in Stages, Goto(s), UNCHANGED <<pending, trend, filled>>,
         s \in {"check", "stop", "fill"} => stage \in {"check", "stop", "fill"},
         s \in AfterFill => stage \in AfterFill \cup {"fill"}
  PROVE  CycleTypes' /\ TrendCounts'
<1>1. pos'.booked = pos.booked /\ pos'.n = pos.n
  BY DEF CycleInv, PositionRecord
<1>2. CycleTypes'
  <2>1. /\ trend' \in TrendRecord /\ trend'.orders <= Cardinality(plan.legs) /\ stage' \in Stages
        /\ bar' \in Bar \cup {NoBar} /\ filled' \in BOOLEAN /\ plan' = plan /\ rules' = rules
        /\ pos.booked \in {-1, 0, 1}
    BY DEF CycleTypes, Goto
  <2> QED
    BY <1>1, <2>1, TypesKept
<1>3. TrendCounts'
  BY DEF TrendCounts, Goto, AfterFill, Stages
<1> QED
  BY <1>2, <1>3

\* An entry makes a position of these types.
LEMMA OpenTyped ==
  ASSUME NEW p \in Plan, NEW r \in Rules, CycleTypes, OpenGrid(p, r)
  PROVE  CycleTypes' /\ TrendCounts'
<1>1. /\ p.entry \in Int /\ p.sl \in Int /\ p.tp \in Int /\ IsFiniteSet(p.legs)
      /\ pos' = [status |-> "open", n |-> 1, sum |-> p.entry, sl |-> p.sl,
                 tp |-> p.tp, via |-> "", pnl |-> 0, booked |-> 0]
      /\ plan' = p /\ rules' = r /\ pending' = p.legs /\ trend' = Unseen
      /\ bar' = bar /\ filled' = filled /\ stage' = stage /\ stage = "idle"
  BY TickAssumption DEF OpenGrid
<1>2. pos'.booked = 0 /\ pos'.n = 1
  BY <1>1
<1>3. /\ Unseen \in TrendRecord /\ Unseen.orders = 0 /\ Unseen.seen = FALSE
  BY TickAssumption DEF Unseen, TrendRecord
<1>4. Cardinality(p.legs) \in Nat
  BY <1>1, FS_CardinalityType
<1>5. TrendCounts'
  BY <1>1, <1>3 DEF TrendCounts
<1>6. /\ stage' \in Stages /\ bar' \in Bar \cup {NoBar} /\ filled' \in BOOLEAN
      /\ pending' \subseteq plan'.legs /\ IsFiniteSet(plan'.legs)
      /\ plan' \in Plan \cup {NoPlan} /\ rules' \in Rules \cup {{}}
  BY <1>1 DEF CycleTypes
<1>7. /\ pos'.n >= 1 /\ pos'.n + Cardinality(pending') <= 1 + Cardinality(plan'.legs)
      /\ trend'.orders <= Cardinality(plan'.legs)
  <2>1. pending' = p.legs /\ plan'.legs = p.legs /\ trend'.orders = 0
    BY <1>1, <1>3
  <2> QED
    BY <1>2, <1>4, <2>1
<1>8. trend' \in TrendRecord
  BY <1>1, <1>3
<1> QED
  BY <1>2, <1>5, <1>6, <1>7, <1>8
     DEF CycleTypes, TrendRecord, Stages, AfterFill, Bar, NoPlan, NoBar

\* A crossed order becomes a leg, and the target may shrink to a zone.
LEMMA FillTyped ==
  ASSUME CycleInv, CycleTypes, TrendCounts, FillLegs
  PROVE  CycleTypes' /\ TrendCounts' /\ pos'.n > pos.n /\ pos'.via = pos.via
<1> DEFINE n == pos.n + Cardinality(Crossed)
           sum == pos.sum + SumSet(Crossed)
<1>1. PICK tp \in {plan.tp} \cup Zones(sum \div n) :
         pos' = [pos EXCEPT !.n = n, !.sum = sum, !.sl = plan.sl, !.tp = tp]
  BY DEF FillLegs
<1>2. /\ stage = "fill" /\ Crossed # {} /\ pending' = pending \ Crossed /\ filled' = TRUE
      /\ stage' = "target" /\ UNCHANGED <<plan, rules, bar, trend>>
  BY DEF FillLegs, Goto
<1>4. /\ Cardinality(pending) \in Nat /\ Cardinality(plan.legs) \in Nat
      /\ Cardinality(Crossed) \in Nat /\ Cardinality(Crossed) >= 1
      /\ Cardinality(pending \ Crossed) = Cardinality(pending) - Cardinality(Crossed)
  BY <1>2, OrdersCounted
<1>6. pos.n \in Nat /\ pos.n >= 1 /\ pos.n + Cardinality(pending) <= 1 + Cardinality(plan.legs)
  BY CycleNumbers DEF CycleTypes
<1>7. pos'.booked = pos.booked /\ pos'.n = n /\ pos'.via = pos.via
  <2> HIDE DEF n, sum
  <2> QED
    BY <1>1 DEF CycleInv, PositionRecord
<1>8. n > pos.n /\ n >= 1 /\ n + Cardinality(pending') <= 1 + Cardinality(plan.legs)
      /\ Cardinality(pending') < Cardinality(pending)
  BY <1>2, <1>4, <1>6
<1> HIDE DEF n, sum
<1>9. TrendCounts'
  <2>1. trend.seen => Cardinality(pending) <= trend.orders
    BY DEF TrendCounts
  <2>2. trend.orders \in Nat /\ Cardinality(pending') \in Int
    BY <1>2, <1>4 DEF CycleTypes, TrendRecord
  <2>3. stage' \in AfterFill /\ stage' \notin {"check", "stop", "fill"} /\ trend' = trend
    BY <1>2 DEF AfterFill
  <2>4. trend.seen => Cardinality(pending') < trend.orders
    BY <1>4, <1>8, <2>1, <2>2
  <2> QED
    BY <2>2, <2>3, <2>4 DEF TrendCounts
<1>10. CycleTypes'
  <2>1. /\ plan' \in Plan \cup {NoPlan} /\ IsFiniteSet(plan'.legs) /\ pending' \subseteq plan'.legs
        /\ rules' \in Rules \cup {{}} /\ filled' \in BOOLEAN /\ stage' \in Stages
        /\ bar' \in Bar \cup {NoBar} /\ trend' \in TrendRecord
        /\ trend'.orders <= Cardinality(plan'.legs)
    BY <1>2 DEF CycleTypes, Stages, AfterFill
  <2>2. pos'.n >= 1 /\ pos'.n + Cardinality(pending') <= 1 + Cardinality(plan'.legs)
    BY <1>2, <1>7, <1>8
  <2> QED
    BY <1>7, <2>1, <2>2 DEF CycleTypes, TrendRecord, Stages, AfterFill, Bar, NoPlan, NoBar
<1> QED
  BY <1>7, <1>8, <1>9, <1>10

\* What is not smaller is not below.
LEMMA NotLess == ASSUME NEW x, NEW y, x \in Int, y \in Int, x >= y PROVE ~(x < y)
  OBVIOUS

\* A step that leaves the position alone loosens no stop, and closes nothing.
LEMMA StillStands ==
  ASSUME CycleInv, pos' = pos PROVE StopLoosensOnFillOnly /\ NoEscapeOnFill
<1>1. pos.sl \in Int /\ (IsOpen => pos.via = "")
  BY CycleNumbers DEF CycleInv, HeldInv
<1>2. ~(pos'.sl < pos.sl) /\ pos'.via = pos.via
  <2>1. pos'.sl = pos.sl /\ pos'.via = pos.via
    OBVIOUS
  <2>2. ~(pos.sl < pos.sl)
    <3>1. \A x \in Int : ~(x < x)
      OBVIOUS
    <3> QED
      BY <1>1, <3>1
  <2> QED
    BY <2>1, <2>2
<1> QED
  BY <1>1, <1>2 DEF StopLoosensOnFillOnly, NoEscapeOnFill

\* With a leg filled on the bar at hand, one bar counts against the position at most.
LEMMA FillStopsEscape ==
  ASSUME CycleTypes, TrendCounts, stage = "escape", Runaway PROVE ~filled
<1> SUFFICES ASSUME filled PROVE FALSE
  OBVIOUS
<1>1. /\ EscapeBars \in Nat /\ EscapeBars > 1 /\ Streak >= EscapeBars
  BY TickAssumption DEF Runaway
<1>2. trend.seen => Cardinality(pending) < trend.orders
  BY DEF TrendCounts
<1>3. trend.seen \in BOOLEAN
  BY DEF CycleTypes, TrendRecord
<1>4. Streak = 0 \/ Streak = 1
  <2>1. CASE Against
    <3>1. trend.seen /\ Cardinality(pending) < trend.orders
      BY <1>2, <2>1 DEF Against
    <3> QED
      BY <1>1, <2>1, <3>1 DEF Streak
  <2>2. CASE ~Against
    BY <1>1, <2>2 DEF Streak
  <2> QED
    BY <2>1, <2>2
<1> QED
  BY <1>1, <1>4

\* The streak is never counted beyond where it closes the position.
LEMMA StreakTyped == CycleTypes => Streak \in 0..EscapeBars
<1> SUFFICES ASSUME CycleTypes PROVE Streak \in 0..EscapeBars
  OBVIOUS
<1>1. trend.streak \in Nat /\ EscapeBars \in Nat
  BY TickAssumption DEF CycleTypes, TrendRecord
<1>2. PICK before : before = (IF trend.seen /\ Cardinality(pending) < trend.orders THEN 0 ELSE trend.streak)
  OBVIOUS
<1>3. before \in Nat
  BY <1>1, <1>2
<1>4. PICK after : after = (IF Against THEN before + 1 ELSE 0)
  OBVIOUS
<1>5. after \in Nat
  BY <1>3, <1>4
<1>6. Streak = IF after > EscapeBars THEN EscapeBars ELSE after
  BY <1>2, <1>4 DEF Streak
<1> QED
  BY <1>1, <1>5, <1>6

CycleStands == CycleTypes' /\ TrendCounts' /\ StopLoosensOnFillOnly /\ NoEscapeOnFill

\* The exits, and the steps that pass to the next one.
LEMMA ExitsStand ==
  ASSUME CycleInv, CycleTypes, TrendCounts,
         CheckStop \/ CheckTarget \/ CheckAbsorption \/ CycleTarget \/ HardStop \/ MarkedExit \/ Escape
  PROVE  CycleStands
<1>n. /\ pos.sl \in Int /\ pos.tp \in Int /\ Avg \in Int /\ Risk \in Nat
      /\ bar \in Bar => bar.l \in Int /\ bar.h \in Int /\ bar.c \in Int
  BY CycleNumbers
<1>b. bar \in Bar /\ IsOpen
  BY DEF CheckStop, CheckTarget, CheckAbsorption, CycleTarget, HardStop, MarkedExit, Escape, CycleInv
<1>g. /\ \A x \in Int : Sgn(x) \in {-1, 0, 1} /\ -Sgn(x) \in {-1, 0, 1}
      /\ \A x, y \in Int : Dist(x, y) \in Int /\ x - y \in Int
  <2>1. \A k \in Int : k \in {-1, 0, 1} => -k \in {-1, 0, 1}
    OBVIOUS
  <2>2. \A x \in Int : Sgn(x) \in {-1, 0, 1} /\ Sgn(x) \in Int
    BY DEF Sgn
  <2>3. \A x, y \in Int : Dist(x, y) \in Int /\ x - y \in Int
    BY DEF Dist
  <2> QED
    BY <2>1, <2>2, <2>3
<1>1. PICK via \in Exit, exit \in Int, sign \in {-1, 0, 1} :
         /\ Close(via, exit, sign) /\ (via = "trend_escape" => ~filled)
         /\ pending' = pending \/ pending' = {}
         /\ trend' = trend \/ trend' = Unseen
  <2>1. CASE CheckStop
    BY <1>n, <1>g, <2>1 DEF CheckStop, Exit
  <2>2. CASE CheckTarget
    <3>1. Close("tp_hit", pos.tp, IF Risk > 0 THEN Sgn(Dist(pos.tp, Avg)) ELSE 1)
          /\ pending' = {} /\ trend' = trend
      BY <2>2 DEF CheckTarget
    <3>2. (IF Risk > 0 THEN Sgn(Dist(pos.tp, Avg)) ELSE 1) \in {-1, 0, 1}
      BY <1>n, <1>g
    <3> QED
      BY <1>n, <3>1, <3>2 DEF Exit
  <2>3. CASE CheckAbsorption
    <3> DEFINE exit == IF bar.h < pos.tp THEN bar.h ELSE pos.tp
    <3>1. Close("tp_absorption", exit, IF Risk > 0 THEN Sgn(Dist(exit, Avg)) ELSE 1)
          /\ pending' = pending /\ trend' = trend
      BY <2>3 DEF CheckAbsorption
    <3>2. exit \in Int
      BY <1>n, <1>b
    <3> HIDE DEF exit
    <3>3. (IF Risk > 0 THEN Sgn(Dist(exit, Avg)) ELSE 1) \in {-1, 0, 1}
      BY <1>n, <1>g, <3>2
    <3> QED
      BY <3>1, <3>2, <3>3 DEF Exit
  <2>4. CASE CycleTarget
    <3>1. Close("cycle_tp", pos.tp, Sgn(pos.tp - Avg)) /\ pending' = {} /\ trend' = trend
      BY <2>4 DEF CycleTarget
    <3>2. Sgn(pos.tp - Avg) \in {-1, 0, 1} /\ "cycle_tp" \in Exit
      BY <1>n, <1>g DEF Exit
    <3> QED
      BY <1>n, <3>1, <3>2
  <2>5. CASE HardStop
    <3>1. Close("hard_sl", pos.sl, -Sgn(Risk)) /\ pending' = {} /\ trend' = Unseen
      BY <2>5 DEF HardStop
    <3>2. -Sgn(Risk) \in {-1, 0, 1} /\ "hard_sl" \in Exit
      BY <1>n, <1>g DEF Exit
    <3> QED
      BY <1>n, <3>1, <3>2
  <2>6. CASE MarkedExit
    <3>1. bar.c - Avg \in Int /\ bar.c \in Int
      BY <1>n, <1>b
    <3> QED
      BY <1>g, <2>6, <3>1 DEF MarkedExit, Exit
  <2>7. CASE Escape
    <3>1. ~filled
      BY <2>7, FillStopsEscape DEF Escape
    <3>2. bar.c - Avg \in Int /\ bar.c \in Int
      BY <1>n, <1>b
    <3>3. Close("trend_escape", bar.c, Sgn(bar.c - Avg)) /\ pending' = {} /\ trend' = Unseen
      BY <2>7 DEF Escape
    <3>4. Sgn(bar.c - Avg) \in {-1, 0, 1} /\ "trend_escape" \in Exit
      BY <1>g, <3>2 DEF Exit
    <3> QED
      BY <3>1, <3>2, <3>3, <3>4
  <2> QED
    BY <2>1, <2>2, <2>3, <2>4, <2>5, <2>6, <2>7
<1>2. CycleTypes' /\ TrendCounts' /\ pos'.status = "closed" /\ pos'.via = via
  BY <1>1, ExitTyped
<1> QED
  BY <1>1, <1>2 DEF CycleStands, StopLoosensOnFillOnly, NoEscapeOnFill

\* A check that finds nothing changes no position.
LEMMA PassesStand ==
  ASSUME CycleInv, CycleTypes, TrendCounts,
         CheckPasses \/ FillNothing \/ TargetPasses \/ HardStopPasses \/ MarkedPasses
  PROVE  CycleStands
<1>1. pos.sl \in Int /\ pos = [pos EXCEPT !.sl = pos.sl]
  BY CycleNumbers DEF CycleInv, PositionRecord
<1>2. PICK s \in Stages : /\ Goto(s) /\ UNCHANGED <<pos, pending, trend, filled>>
                          /\ s \in {"check", "stop", "fill"} => stage \in {"check", "stop", "fill"}
                          /\ s \in AfterFill => stage \in AfterFill \cup {"fill"}
  BY DEF CheckPasses, FillNothing, TargetPasses, HardStopPasses, MarkedPasses, Stages, AfterFill
<1>3. pos' = [pos EXCEPT !.sl = pos.sl] /\ UNCHANGED <<pending, trend, filled>>
  BY <1>1, <1>2
<1>4. CycleTypes' /\ TrendCounts'
  BY <1>1, <1>2, <1>3, MoveTyped
<1> QED
  BY <1>2, <1>4, StillStands DEF CycleStands

\* A trail only tightens the stop.
LEMMA StopsStand ==
  ASSUME CycleInv, CycleTypes, TrendCounts, AdjustStop \/ TrailStop PROVE CycleStands
<1>1. /\ pos'.sl >= pos.sl /\ pos'.via = "" /\ pos'.sl \in Int /\ pos.sl \in Int
  <2>1. CycleInv' /\ pos'.sl >= pos.sl /\ pos'.via = ""
    BY AdjustStopStep, TrailStopStep
  <2> QED
    BY <2>1, CycleNumbers DEF CycleInv, PositionRecord
<1>2. StopLoosensOnFillOnly /\ NoEscapeOnFill
  <2>1. ~(pos'.sl < pos.sl)
    BY <1>1, NotLess
  <2> QED
    BY <1>1, <2>1 DEF StopLoosensOnFillOnly, NoEscapeOnFill
<1>3. CASE AdjustStop
  <2>1. PICK sl : pos' = [pos EXCEPT !.sl = sl]
    BY <1>3 DEF AdjustStop
  <2>2. pos'.sl = sl
    BY <2>1 DEF CycleInv, PositionRecord
  <2>3. PICK s \in Stages : Goto(s) /\ s \in {"fill", "idle"} /\ stage = "stop"
    BY <1>3 DEF AdjustStop, Stages
  <2>4. UNCHANGED <<pending, trend, filled>> /\ s \notin AfterFill /\ sl \in Int
    BY <1>1, <1>3, <2>2, <2>3 DEF AdjustStop, AfterFill
  <2> QED
    BY <1>2, <2>1, <2>3, <2>4, MoveTyped DEF CycleStands
<1>4. CASE TrailStop
  <2>1. PICK sl \in Int : pos' = [pos EXCEPT !.sl = sl]
    <3>1. CASE UNCHANGED pos
      <4>1. pos = [pos EXCEPT !.sl = pos.sl]
        BY DEF CycleInv, PositionRecord
      <4> QED
        BY <1>1, <3>1, <4>1
    <3>2. CASE \E z \in TrailLevels : pos' = [pos EXCEPT !.sl = z]
      BY <3>2, TickAssumption DEF TrailLevels
    <3> QED
      BY <1>4, <3>1, <3>2 DEF TrailStop
  <2>2. /\ Goto("escape") /\ UNCHANGED <<pending, trend, filled>> /\ stage \in AfterFill
        /\ "escape" \in Stages /\ "escape" \notin {"check", "stop", "fill"}
    BY <1>4 DEF TrailStop, AfterFill, Stages
  <2> QED
    BY <1>2, <2>1, <2>2, MoveTyped DEF CycleStands
<1> QED
  BY <1>3, <1>4

\* A step keeps the types and the counts; it loosens a stop on a fill only, and closes no
\* position as a runaway on a bar that filled one of its legs.
LEMMA CycleStep == CycleInv /\ CycleTypes /\ TrendCounts /\ [Next]_vars => CycleStands
<1> SUFFICES ASSUME CycleInv, CycleTypes, TrendCounts, [Next]_vars PROVE CycleStands
  OBVIOUS
<1>t. /\ trend \in TrendRecord /\ trend.orders <= Cardinality(plan.legs) /\ stage \in Stages
      /\ bar \in Bar \cup {NoBar} /\ filled \in BOOLEAN /\ pos.booked \in {-1, 0, 1}
      /\ Unseen \in TrendRecord /\ Unseen.orders <= Cardinality(plan.legs) /\ Unseen.seen = FALSE
  BY TickAssumption, OrdersCounted DEF CycleTypes, TrendRecord, Unseen
<1>1. ASSUME NEW p \in Plan, NEW r \in Rules, OpenGrid(p, r) PROVE CycleStands
  <2>1. ~IsOpen
    BY <1>1 DEF OpenGrid
  <2> QED
    BY <1>1, <2>1, OpenTyped DEF CycleStands, StopLoosensOnFillOnly, NoEscapeOnFill
<1>2. ASSUME NEW b \in Bar, BarArrives(b) PROVE CycleStands
  <2>1. /\ UNCHANGED <<pos, plan, rules, pending, trend>> /\ bar' \in Bar \cup {NoBar}
        /\ filled' = FALSE /\ stage' \in Stages
    BY <1>2 DEF BarArrives, Stages
  <2>2. CycleTypes'
    <3>1. /\ pos'.booked \in {-1, 0, 1} /\ pos'.n = pos.n /\ trend' \in TrendRecord
          /\ trend'.orders <= Cardinality(plan.legs) /\ filled' \in BOOLEAN
      BY <1>t, <2>1
    <3> QED
      BY <2>1, <3>1, TypesKept
  <2>3. TrendCounts'
    BY <2>1 DEF TrendCounts
  <2> QED
    BY <2>1, <2>2, <2>3, StillStands DEF CycleStands
<1>3. CASE FillLegs
  <2>1. CycleTypes' /\ TrendCounts' /\ pos'.n > pos.n /\ pos'.via = pos.via
    BY <1>3, FillTyped
  <2>2. IsOpen => pos.via = ""
    BY DEF CycleInv, HeldInv
  <2> QED
    BY <2>1, <2>2 DEF CycleStands, StopLoosensOnFillOnly, NoEscapeOnFill
<1>4. CASE NoEscape
  <2>1. /\ UNCHANGED <<pos, pending, filled, plan, rules, bar>> /\ stage' = "idle"
        /\ trend' = [seen |-> TRUE, streak |-> Streak, last |-> bar.c, orders |-> Cardinality(pending)]
        /\ bar \in Bar
    BY <1>4 DEF NoEscape, Goto, Watch, CycleInv
  <2>2. bar.c \in Int /\ Cardinality(pending) \in Nat /\ Streak \in 0..EscapeBars
    BY <2>1, CycleNumbers, OrdersCounted, StreakTyped
  <2>3. trend' \in TrendRecord /\ trend'.orders = Cardinality(pending)
    BY <2>1, <2>2 DEF TrendRecord
  <2>4. CycleTypes'
    <3>1. /\ pos'.booked \in {-1, 0, 1} /\ pos'.n = pos.n /\ "idle" \in Stages
          /\ trend'.orders <= Cardinality(plan.legs) /\ filled' \in BOOLEAN
          /\ bar' \in Bar \cup {NoBar}
      BY <1>t, <2>1, <2>3, OrdersCounted DEF Stages
    <3> QED
      BY <2>1, <2>3, <3>1, TypesKept
  <2>5. TrendCounts'
    BY <2>1, <2>2, <2>3 DEF TrendCounts
  <2> QED
    BY <2>1, <2>4, <2>5, StillStands DEF CycleStands
<1>5. CASE Restart
  <2>1. UNCHANGED <<pos, plan, rules, pending, bar, filled>> /\ stage' = "idle" /\ trend' = Unseen
    BY <1>5 DEF Restart
  <2>2. CycleTypes'
    <3>1. /\ pos'.booked \in {-1, 0, 1} /\ pos'.n = pos.n /\ "idle" \in Stages
          /\ trend'.orders <= Cardinality(plan.legs) /\ filled' \in BOOLEAN
          /\ bar' \in Bar \cup {NoBar} /\ trend' \in TrendRecord
      BY <1>t, <2>1 DEF Stages
    <3> QED
      BY <2>1, <3>1, TypesKept
  <2>3. TrendCounts'
    BY <1>t, <2>1 DEF TrendCounts
  <2> QED
    BY <2>1, <2>2, <2>3, StillStands DEF CycleStands
<1>6. CASE UNCHANGED vars
  <2>1. UNCHANGED <<pos, plan, rules, pending, trend, bar, filled, stage>>
    BY <1>6 DEF vars
  <2>2. CycleTypes'
    <3>1. /\ pos'.booked \in {-1, 0, 1} /\ pos'.n = pos.n /\ stage' \in Stages
          /\ trend'.orders <= Cardinality(plan.legs) /\ filled' \in BOOLEAN
          /\ bar' \in Bar \cup {NoBar} /\ trend' \in TrendRecord
      BY <1>t, <2>1
    <3> QED
      BY <2>1, <3>1, TypesKept
  <2>3. TrendCounts'
    BY <2>1 DEF TrendCounts
  <2> QED
    BY <2>1, <2>2, <2>3, StillStands DEF CycleStands
<1> QED
  BY <1>1, <1>2, <1>3, <1>4, <1>5, <1>6, ExitsStand, PassesStand, StopsStand
     DEF Next, CheckPositions, OnBarClose

\* These are the types that CycleTick promises.
LEMMA CycleTypesHold == CycleInv /\ CycleTypes => TypeOK
<1> SUFFICES ASSUME CycleInv, CycleTypes PROVE TypeOK
  OBVIOUS
<1>1. pos.status \in {"none", "open", "closed"} /\ pos.via \in Exit \cup {""} /\ pos.n \in Nat
  BY DEF CycleInv, PositionRecord
<1>2. /\ Cardinality(pending) \in Nat /\ Cardinality(plan.legs) \in Nat
  BY OrdersCounted
<1>3. pos.n \in 1..(1 + Cardinality(plan.legs))
  <2>1. pos.n >= 1 /\ pos.n + Cardinality(pending) <= 1 + Cardinality(plan.legs)
    BY DEF CycleTypes
  <2>2. PICK n, k, l : n = pos.n /\ k = Cardinality(pending) /\ l = Cardinality(plan.legs)
    OBVIOUS
  <2>3. n \in Nat /\ k \in Nat /\ l \in Nat /\ n >= 1 /\ n + k <= 1 + l
    BY <1>1, <1>2, <2>1, <2>2
  <2>4. n \in 1..(1 + l)
    BY <2>3
  <2> QED
    BY <2>2, <2>4
<1>4. trend.streak \in 0..EscapeBars /\ trend.orders \in 0..Cardinality(plan.legs)
  BY <1>2 DEF CycleTypes, TrendRecord
<1>5. stage \in {"idle", "check", "stop", "fill", "target", "hard_sl", "marked", "si_trail", "escape"}
  BY DEF CycleTypes, Stages, AfterFill
<1> QED
  BY <1>1, <1>3, <1>4, <1>5 DEF CycleTypes, TypeOK

-----------------------------------------------------------------------------
(***************************************************************************)
(* A verdict stands because only a tick to age one judges, and what it has   *)
(* judged is one tick old or more.                                           *)
(***************************************************************************)
Patterns == {"", "reclaim", "acceptance"}
Verdicts == {"", "failed_sweep", "stop_run", "reversal", "liquidity_grab"}
Unjudged(e) == e.class = ""
EventTyped(e) ==
    /\ e.age \in FirstAge..MaxAge /\ e.pattern \in Patterns /\ e.class \in Verdicts
    /\ Unjudged(e) \/ e.age \in Nat \ {0}
SweepTypes ==
    /\ \A e \in registry : EventTyped(e)
    /\ live.pc \in {"idle", "synth", "synthTick", "detect", "tick"}
    /\ back.pc \in {"off", "begin", "detect", "tick", "next"}
    /\ swing \in 0..Len(tape)

\* What the types say, number by number.
LEMMA TypedAge ==
  ASSUME NEW e
  PROVE  EventTyped(e) <=> /\ e.age \in Int /\ -1 <= e.age /\ e.age <= MaxAge
                           /\ e.pattern \in Patterns /\ e.class \in Verdicts
                           /\ Unjudged(e) \/ e.age \in Nat \ {0}
<1>1. e.age \in FirstAge..MaxAge <=> e.age \in Int /\ -1 <= e.age /\ e.age <= MaxAge
  <2>1. PICK x : x = e.age
    OBVIOUS
  <2>2. x \in FirstAge..MaxAge <=> x \in Int /\ -1 <= x /\ x <= MaxAge
    BY SweepAssumption DEF FirstAge
  <2> QED
    BY <2>1, <2>2
<1> QED
  BY <1>1 DEF EventTyped

\* An event just registered is unjudged.
LEMMA EventUnjudged ==
  ASSUME NEW sig, NEW src, NEW tf
  PROVE  EventTyped(Event(sig, src, tf)) /\ Event(sig, src, tf).age = -1
<1>1. PICK e : e = Event(sig, src, tf)
  OBVIOUS
<1>2. e.age = -1 /\ e.pattern = "" /\ e.class = ""
  BY <1>1 DEF Event, FirstAge
<1>3. -1 \in FirstAge..MaxAge
  BY SweepAssumption DEF FirstAge
<1>4. EventTyped(e)
  BY <1>2, <1>3 DEF EventTyped, Unjudged, Patterns, Verdicts
<1> QED
  BY <1>1, <1>2, <1>4

\* What a detection adds is unjudged.
LEMMA DetectedUnjudged ==
  ASSUME NEW reg, NEW candle, NEW levels, NEW prev, NEW src, NEW tf, NEW new,
         new = Detected(reg, candle, levels, prev, src, tf).reg
  PROVE  \A e \in new : e \in reg \/ (EventTyped(e) /\ e.age = -1)
<1> DEFINE best == BestSweep(candle, levels)
           engulf == IF prev = <<>> THEN NoSweep ELSE Engulf(candle, Last(prev))
           once == Register(reg, best, src, tf)
           twice == Register(once, engulf, src, tf)
<1>1. new = reg \/ new = twice
  BY DEF Detected, Both
<1>2. \A old, sig : \A e \in Register(old, sig, src, tf) :
          e \in old \/ (EventTyped(e) /\ e.age = -1)
  BY EventUnjudged DEF Register
<1> HIDE DEF best, engulf
<1>3. \A e \in once : e \in reg \/ (EventTyped(e) /\ e.age = -1)
  BY <1>2
<1> HIDE DEF once
<1>4. \A e \in twice : e \in once \/ (EventTyped(e) /\ e.age = -1)
  BY <1>2
<1> HIDE DEF twice
<1> QED
  BY <1>1, <1>3, <1>4

\* What a tick does to the verdict of an event.
LEMMA AgedVerdict ==
  ASSUME NEW e, DOMAIN e = EventFields, EventTyped(e), NEW close, NEW at, NEW by, NEW f,
         f = Aged(e, close, at, by)
  PROVE  /\ f.age = e.age + 1
         /\ f.pattern \in Patterns /\ f.class \in Verdicts
         /\ Unjudged(f) \/ f.age \in Nat \ {0}
         /\ Unjudged(e) \/ (f.pattern = e.pattern /\ f.class = e.class)
<1> DEFINE one == [e EXCEPT !.age = @ + 1, !.by = @ \cup {by}, !.fails = Fails(e, close)]
           pattern == IF Reclaims(e, close) THEN "reclaim"
                      ELSE IF Beyond(e, close) THEN "acceptance" ELSE ""
           graded == [one EXCEPT !.pattern = pattern, !.judged = at,
                                 !.class = IF @ = "" THEN Class(e, pattern) ELSE @]
<1>1. /\ DOMAIN one = EventFields
      /\ one.pattern = e.pattern /\ one.class = e.class /\ one.age = e.age + 1
  BY DEF EventFields
<1>2. f = one \/ (f = graded /\ e.age + 1 = 1)
  BY DEF Aged, JudgedAt
<1>3. pattern \in Patterns
  BY DEF Patterns
<1>4. Class(e, pattern) \in Verdicts
  BY DEF Class, Verdicts
<1>5. e.age \in Int /\ (Unjudged(e) \/ e.age \in Nat \ {0})
  BY TypedAge
<1>6. /\ graded.pattern = pattern /\ graded.age = one.age
      /\ graded.class = IF one.class = "" THEN Class(e, pattern) ELSE one.class
  BY <1>1 DEF EventFields
<1> HIDE DEF one, pattern, graded
<1>7. e.pattern \in Patterns /\ e.class \in Verdicts
  BY TypedAge
<1>8. f.age = e.age + 1
  BY <1>1, <1>2, <1>6
<1>9. Unjudged(e) \/ f.age \in Nat \ {0}
  BY <1>5, <1>8
<1>10. CASE f = one
  <2>1. f.pattern = e.pattern /\ f.class = e.class /\ (Unjudged(f) <=> Unjudged(e))
    BY <1>1, <1>10 DEF Unjudged
  <2> QED
    BY <1>7, <1>8, <1>9, <2>1
<1>11. CASE f = graded /\ e.age + 1 = 1
  <2>1. f.age \in Nat \ {0} /\ e.age \notin Nat \ {0}
    BY <1>5, <1>8, <1>11
  <2>2. Unjudged(e)
    BY <1>5, <2>1
  <2>3. f.pattern \in Patterns /\ f.class \in Verdicts
    BY <1>1, <1>3, <1>4, <1>6, <1>7, <1>11
  <2> QED
    BY <1>8, <2>1, <2>2, <2>3
<1> QED
  BY <1>2, <1>10, <1>11

\* A tick leaves a verdict as it is.
LEMMA TickedVerdict ==
  ASSUME SweepInv, SweepTypes, NEW close, NEW at, NEW by,
         registry' = Ticked(registry, close, at, by)
  PROVE  (\A f \in registry' : EventTyped(f)) /\ VerdictStands
<1>1. \A e \in registry : DOMAIN e = EventFields /\ EventTyped(e)
  BY DEF SweepInv, EventInv, SweepTypes
<1>2. \A f \in registry' : \E e \in registry : f = Aged(e, close, at, by) /\ f.age <= MaxAge
  BY DEF Ticked, Stays
<1>3. ASSUME NEW f \in registry' PROVE EventTyped(f)
  <2>1. PICK e \in registry : f = Aged(e, close, at, by) /\ f.age <= MaxAge
    BY <1>2
  <2>2. /\ f.age = e.age + 1 /\ f.pattern \in Patterns /\ f.class \in Verdicts
        /\ Unjudged(f) \/ f.age \in Nat \ {0}
    BY <1>1, <2>1, AgedVerdict
  <2>3. e.age \in Int /\ -1 <= e.age
    BY <1>1, TypedAge
  <2> QED
    BY <2>1, <2>2, <2>3, TypedAge
<1>4. ASSUME NEW e \in registry, NEW f \in registry', ~Unjudged(e), f.level = e.level,
             f.label = e.label
      PROVE  f.pattern = e.pattern /\ f.class = e.class
  <2>1. PICK d \in registry : f = Aged(d, close, at, by)
    BY <1>2
  <2>2. f.level = d.level /\ f.label = d.label
    BY <1>1, <2>1, AgedFields
  <2>3. d = e
    BY <1>4, <2>2 DEF SweepInv, OneEventPerLevel
  <2> QED
    BY <1>1, <1>4, <2>1, <2>3, AgedVerdict
<1> QED
  BY <1>3, <1>4 DEF VerdictStands, Unjudged

\* So does a detection: the event at the level of a new one, if any, stays.
LEMMA DetectedVerdict ==
  ASSUME SweepInv, SweepTypes, NEW candle, NEW levels, NEW prev, NEW src, NEW tf,
         registry' = Detected(registry, candle, levels, prev, src, tf).reg
  PROVE  (\A f \in registry' : EventTyped(f)) /\ VerdictStands
<1>1. \A f \in registry' : f \in registry \/ (EventTyped(f) /\ f.age = -1)
  BY DetectedUnjudged
<1>2. ASSUME NEW e \in registry, NEW f \in registry', ~Unjudged(e), f.level = e.level,
             f.label = e.label, f.age > e.age
      PROVE  f.pattern = e.pattern /\ f.class = e.class
  <2>1. e.age \in Nat \ {0}
    BY <1>2, TypedAge DEF SweepTypes
  <2>2. f \in registry
    BY <1>1, <1>2, <2>1
  <2> QED
    BY <1>2, <2>2 DEF SweepInv, OneEventPerLevel
<1> QED
  BY <1>1, <1>2 DEF SweepTypes, VerdictStands, Unjudged

\* A step that leaves the registry alone, or empties it.
LEMMA RestedVerdict ==
  ASSUME SweepInv, SweepTypes, registry' = registry \/ registry' = {}
  PROVE  (\A f \in registry' : EventTyped(f)) /\ VerdictStands
<1>1. \A e, f \in registry : f.level = e.level /\ f.label = e.label => f = e
  BY DEF SweepInv, OneEventPerLevel
<1> QED
  BY <1>1 DEF SweepTypes, VerdictStands

\* The empty registry is typed.
LEMMA SweepTypesStart == SweepInit => SweepTypes
<1> SUFFICES ASSUME SweepInit PROVE SweepTypes
  OBVIOUS
<1>1. /\ registry = {} /\ tape = <<>> /\ swing = 0 /\ live = Free
      /\ back = [NoFill EXCEPT !.pc = "begin"]
  BY DEF SweepInit
<1>2. live.pc = "idle" /\ back.pc = "begin"
  BY <1>1 DEF Free, NoFill
<1>3. Len(tape) = 0
  BY <1>1
<1> QED
  BY <1>1, <1>2, <1>3 DEF SweepTypes

\* No step takes a verdict back.
LEMMA SweepStands ==
  ASSUME SweepInv, SweepTypes, [SweepNext]_sweepVars
  PROVE  SweepTypes' /\ VerdictStands
<1>1. /\ tape \in Seq(Shapes) /\ DOMAIN live = {"pc", "sig"}
      /\ DOMAIN back = {"pc", "tf", "n", "i", "known", "sig"} /\ Len(tape) \in Nat
      /\ tape # <<>> => Len(tape) >= 1
  BY LenProperties, EmptySeq DEF SweepInv, HandlerInv
<1> DEFINE Verdict == (\A f \in registry' : EventTyped(f)) /\ VerdictStands
           Stage == /\ live'.pc \in {"idle", "synth", "synthTick", "detect", "tick"}
                    /\ back'.pc \in {"off", "begin", "detect", "tick", "next"}
                    /\ swing' \in 0..Len(tape')
<1>2. SUFFICES Verdict /\ Stage
  BY DEF SweepTypes
<1>3. /\ live.pc \in {"idle", "synth", "synthTick", "detect", "tick"}
      /\ back.pc \in {"off", "begin", "detect", "tick", "next"}
      /\ swing \in 0..Len(tape)
  BY DEF SweepTypes
<1>4. CASE BarCloses
  <2>1. PICK b \in Shapes : tape' = Append(tape, b)
    BY <1>4 DEF BarCloses
  <2>2. Len(tape') = Len(tape) + 1
    BY <1>1, <2>1, AppendProperties
  <2>3. /\ live'.pc \in {"synth", "detect"} /\ swing' \in {swing, Len(tape')}
        /\ registry' = registry /\ back' = back
    BY <1>1, <1>4 DEF BarCloses
  <2>4. Verdict
    BY <2>3, RestedVerdict
  <2> QED
    BY <1>1, <1>3, <2>2, <2>3, <2>4
<1>5. CASE SynthDetect
  <2>1. PICK known :
          \E d \in {Detected(registry, Last(Series("synth", Len(tape))), known,
                             Front(Series("synth", Len(tape))), Len(tape), "synth")} :
              registry' = d.reg /\ live' = [pc |-> "synthTick", sig |-> d.sig]
    BY <1>5 DEF SynthDetect
  <2>2. Verdict
    BY <2>1, DetectedVerdict
  <2>3. live'.pc = "synthTick" /\ UNCHANGED <<tape, swing, back>>
    BY <1>5, <2>1 DEF SynthDetect
  <2> QED
    BY <1>3, <2>2, <2>3
<1>6. CASE SynthTick
  <2>1. Verdict
    BY <1>6, TickedVerdict DEF SynthTick
  <2>2. live'.pc = "detect" /\ swing' = Len(tape) /\ UNCHANGED <<tape, back>>
    BY <1>6 DEF SynthTick
  <2> QED
    BY <1>1, <1>3, <2>1, <2>2
<1>7. CASE LiveDetect
  <2>1. \E d \in {Detected(registry, Last(tape), Levels(tape), tape, Len(tape), "primary")} :
           registry' = d.reg /\ live' = [pc |-> "tick", sig |-> d.sig]
    BY <1>7 DEF LiveDetect
  <2>2. Verdict
    BY <2>1, DetectedVerdict
  <2>3. live'.pc = "tick" /\ UNCHANGED <<tape, swing, back>>
    BY <1>7, <2>1 DEF LiveDetect
  <2> QED
    BY <1>3, <2>2, <2>3
<1>8. CASE LiveTick
  <2>1. Verdict
    BY <1>8, TickedVerdict DEF LiveTick
  <2>2. live'.pc = "idle" /\ UNCHANGED <<tape, swing, back>>
    BY <1>8 DEF LiveTick, Free
  <2> QED
    BY <1>3, <2>1, <2>2
<1>9. CASE BackBegin
  <2>1. registry' = registry /\ back'.pc \in {"next", "detect"} /\ UNCHANGED <<tape, live, swing>>
    BY <1>1, <1>9 DEF BackBegin
  <2>2. Verdict
    BY <2>1, RestedVerdict
  <2> QED
    BY <1>3, <2>1, <2>2
<1>10. CASE BackDetect
  <2>1. PICK candles :
          \E d \in {Detected(registry, Last(candles), Levels(candles), Front(candles),
                              ClosesAt(back.tf, back.i), "backfill")} :
              registry' = d.reg /\ back' = [back EXCEPT !.pc = "tick", !.sig = d.sig]
    BY <1>10 DEF BackDetect
  <2>2. Verdict
    BY <2>1, DetectedVerdict
  <2>3. back'.pc = "tick" /\ UNCHANGED <<tape, swing, live>>
    BY <1>1, <1>10, <2>1 DEF BackDetect
  <2> QED
    BY <1>3, <2>2, <2>3
<1>11. CASE BackTick
  <2>1. Verdict
    BY <1>11, TickedVerdict DEF BackTick
  <2>2. back'.pc \in {"detect", "next"} /\ UNCHANGED <<tape, swing, live>>
    BY <1>1, <1>11 DEF BackTick
  <2> QED
    BY <1>3, <2>1, <2>2
<1>12. CASE BackNext
  <2>1. registry' = registry /\ back'.pc \in {"begin", "off"} /\ UNCHANGED <<tape, live, swing>>
    BY <1>12 DEF BackNext, NoFill
  <2>2. Verdict
    BY <2>1, RestedVerdict
  <2> QED
    BY <1>3, <2>1, <2>2
<1>13. CASE Ask
  <2>1. Verdict
    BY <1>13, DetectedVerdict DEF Ask
  <2>2. UNCHANGED <<tape, swing, live, back>>
    BY <1>13 DEF Ask
  <2> QED
    BY <1>3, <2>1, <2>2
<1>14. CASE AskTick
  <2>1. Verdict
    BY <1>14, TickedVerdict DEF AskTick
  <2>2. UNCHANGED <<tape, swing, live, back>>
    BY <1>14 DEF AskTick
  <2> QED
    BY <1>3, <2>1, <2>2
<1>15. CASE SweepRestart
  <2>1. registry' = {} /\ swing' = 0 /\ live'.pc = "idle" /\ back'.pc = "begin" /\ tape' = tape
    BY <1>15 DEF SweepRestart, Free, NoFill
  <2>2. Verdict
    BY <2>1, RestedVerdict
  <2> QED
    BY <1>1, <2>1, <2>2
<1>16. CASE UNCHANGED sweepVars
  <2>1. UNCHANGED <<registry, live, back, swing, tape>>
    BY <1>16 DEF sweepVars
  <2>2. Verdict
    BY <2>1, RestedVerdict
  <2> QED
    BY <1>3, <2>1, <2>2
<1> QED
  BY <1>4, <1>5, <1>6, <1>7, <1>8, <1>9, <1>10, <1>11, <1>12, <1>13, <1>14, <1>15, <1>16
     DEF SweepNext

\* The invariant holds the types that the runs check.
LEMMA SweepTypesHold == SweepInv /\ SweepTypes => SweepTypeOK
  BY DEF SweepInv, EventInv, SweepTypes, SweepTypeOK, EventTyped, Patterns, Verdicts

-----------------------------------------------------------------------------
(***************************************************************************)
(* A build of the day.  The session of a moment is the one whose bounds hold *)
(* it, so that a build cuts out all of today that closed before its second.  While each build is over      *)
(* before another one and before the next bar, the file a build read is the  *)
(* one it replaces (CalmInv).                                                *)
(***************************************************************************)
Closed(s, p) == p[1] = "day" /\ p[2] < DayKey(s, vpClock)[2]
\* A file that keeps the profiles of the sessions that are over.
Keeps(file) ==
    \A s \in VpSymbols, p \in Periods :
        Closed(s, p) /\ vpFile[s][p] # {} => file[s][p] = vpFile[s][p]
Busy(s) == vpBuild[s].pc # "idle"
TornInv == vpTorn => \E s \in VpSymbols : Busy(s)
CalmInv ==
    vpCalm => \A s \in VpSymbols : Busy(s) =>
        (\A r \in VpSymbols : Busy(r) => r = s) /\ Keeps(vpBuild[s].file)
BuildInv == vpClock \in Times /\ TornInv /\ CalmInv

\* The session that a moment is in.
LEMMA SessionOf ==
  ASSUME NEW s \in VpSymbols, NEW t \in Nat \ {0}
  PROVE  \E k \in Nat :
            /\ DayKey(s, t) = <<"day", k>> /\ k <= t \div Day + 1
            /\ DayStart(s, k) <= t /\ t < DayStart(s, k) + Day
<1> DEFINE h == StartHour[s]
           q == (t - h) \div Day
           k == IF h = 0 THEN q ELSE q + 1
<1>1. Day \in Nat \ {0} /\ Ist \in 0..(Day - 1) /\ h \in Nat /\ h < Day
  BY VpAssumption
<1>2. t - h \in Int /\ q \in Int
  BY <1>1
<1>3. q * Day <= t - h /\ t - h < q * Day + Day /\ q * Day \in Int
  <2>1. \A d \in Nat \ {0}, a \in Int : (a \div d) * d <= a /\ a < (a \div d) * d + d
                                        /\ (a \div d) * d \in Int
    OBVIOUS
  <2> QED
    BY <1>1, <1>2, <2>1
<1>4. q <= t \div Day /\ t \div Day \in Int
  <2>1. t - h <= t /\ t \in Int
    BY <1>1, <1>2
  <2> QED
    BY <1>1, <1>2, <2>1, QuotientGrows
<1>5. h = 0 => q \in Nat
  <2>1. ASSUME h = 0 PROVE 0 <= q
    <3>1. 0 \div Day <= t \div Day /\ 0 \div Day = 0
      BY <1>1, QuotientGrows
    <3> QED
      BY <1>1, <2>1, <3>1
  <2> QED
    BY <1>2, <2>1
<1>6. h # 0 => q + 1 \in Nat
  <2>1. ASSUME h # 0 PROVE -1 <= q
    <3>1. -Day <= t - h /\ -Day \in Int
      BY <1>1, <1>2
    <3>2. (-Day) \div Day <= (t - h) \div Day
      BY <1>1, <1>2, <3>1, QuotientGrows
    <3>3. (-Day) \div Day = -1
      BY <1>1
    <3> QED
      BY <3>2, <3>3
  <2> QED
    BY <1>2, <2>1
<1> HIDE DEF q
<1>7. k \in Nat /\ k <= t \div Day + 1
  BY <1>2, <1>4, <1>5, <1>6
<1>8. DayStart(s, k) = q * Day + h
  BY <1>2 DEF DayStart
<1>9. DayStart(s, k) <= t /\ t < DayStart(s, k) + Day
  BY <1>1, <1>3, <1>8
<1> HIDE DEF k
<1>10. DayKey(s, t) = <<"day", k>>
  BY <1>7, <1>9, SessionNames
<1> QED
  BY <1>7, <1>9, <1>10

\* The bars of a session are those between its bounds, as far as they count.
LEMMA SessionBars ==
  ASSUME NEW s \in VpSymbols, NEW stored \in SUBSET (Nat \ {0}), NEW k \in Nat
  PROVE  Computed(s, <<"day", k>>, stored) =
             {t \in stored : DayKey(s, t) = <<"day", k>> /\ Over(t)}
<1> DEFINE p == <<"day", k>>
<1>1. p[1] = "day" /\ p[2] = k
  OBVIOUS
<1>2. \A t : Within(s, p, t) <=> (DayStart(s, k) <= t /\ t < DayStart(s, k) + Day)
  BY <1>1 DEF Within, PeriodStart, PeriodBars
<1>3. ASSUME NEW t \in stored, Within(s, p, t) PROVE DayKey(s, t) = p
  BY <1>2, <1>3, SessionNames
<1>4. ASSUME NEW t \in stored, DayKey(s, t) = p PROVE Within(s, p, t)
  <2>1. PICK j \in Nat : /\ DayKey(s, t) = <<"day", j>>
                         /\ DayStart(s, j) <= t /\ t < DayStart(s, j) + Day
    BY SessionOf
  <2>2. j = k
    BY <1>4, <2>1
  <2> QED
    BY <1>2, <2>1, <2>2
<1> HIDE DEF p
<1>5. Computed(s, p, stored) = {t \in stored : DayKey(s, t) = p /\ Over(t)}
  BY <1>3, <1>4 DEF Computed
<1> QED
  BY <1>5 DEF p

\* The session of now is one the cache has a place for, and a build computes.
LEMMA TodayIsDue ==
  ASSUME NEW s \in VpSymbols, NEW now \in Times, NEW profiles
  PROVE  /\ DayKey(s, now) \in Due(s, now, profiles) /\ DayKey(s, now) \in Periods
         /\ \E k \in Nat : DayKey(s, now) = <<"day", k>>
<1>1. now \in Nat \ {0} /\ now <= VpHorizon /\ VpHorizon \in Nat \ {0} /\ Day \in Nat \ {0}
  BY VpAssumption DEF Times
<1>2. PICK k \in Nat : DayKey(s, now) = <<"day", k>> /\ k <= now \div Day + 1
  BY <1>1, SessionOf
<1>3. now \div Day <= VpHorizon \div Day /\ now \div Day \in Int /\ VpHorizon \div Day \in Int
  BY <1>1, QuotientGrows
<1>4. k \in 0..(VpHorizon \div Day + 1)
  BY <1>2, <1>3
<1>5. DayKey(s, now) \in Periods
  BY <1>2, <1>4 DEF Periods
<1>6. 0 \in 0..(DaysBack - 1) /\ now - 0 * Day = now
  BY <1>1, VpAssumption
<1>7. DayKey(s, now) \in {DayKey(s, now - d * Day) : d \in 0..(DaysBack - 1)}
  BY <1>6
<1> QED
  BY <1>2, <1>5, <1>7 DEF Due, RecentDays, Current

\* A rebuild leaves the profile of a session that is over.
LEMMA RebuiltKeeps ==
  ASSUME NEW s \in VpSymbols, NEW stored, NEW profiles, NEW p \in Periods,
         Closed(s, p), profiles[p] # {}
  PROVE  Rebuilt(s, vpClock, stored, profiles)[p] = profiles[p]
<1>1. p # DayKey(s, vpClock)
  <2> SUFFICES ASSUME p = DayKey(s, vpClock) PROVE FALSE
    OBVIOUS
  <2>1. PICK j : j = p[2]
    OBVIOUS
  <2>2. p[2] < p[2] /\ p[2] \in Int
    <3>1. VpHorizon \div Day \in Int /\ VpHorizon \div Week \in Int
      BY VpAssumption
    <3> QED
      BY <3>1 DEF Closed, Periods
  <2> QED
    BY <2>1, <2>2
<1>2. p # WeekKey(s, vpClock)
  BY DEF Closed, WeekKey
<1>3. p \notin Due(s, vpClock, profiles)
  BY <1>1, <1>2 DEF Due, Current
<1> QED
  BY <1>3 DEF Rebuilt

\* What a bar that builds starts.
LEMMA BarBuilds ==
  ASSUME VpTypes, NEW s \in VpSymbols, NEW t \in Times, VpBar(s, t)
  PROVE  LET stored == vpStored[s] \cup {t}
         IN  /\ vpStored'[s] = stored /\ stored \in SUBSET (Nat \ {0})
             /\ UNCHANGED <<vpClock, vpFile, vpTorn>>
             /\ \A r \in VpSymbols : r # s => vpBuild'[r] = vpBuild[r]
             /\ vpCalm' => vpCalm
             /\ \/ vpBuild' = vpBuild
                \/ /\ vpBuild'[s] = [pc |-> "built",
                            file |-> [Loaded EXCEPT ![s] = Rebuilt(s, vpClock, stored, @)]]
                   /\ vpCalm' => \A r \in VpSymbols : vpBuild[r].pc = "idle"
<1> DEFINE stored == vpStored[s] \cup {t}
           made == [pc |-> "built", file |-> [Loaded EXCEPT ![s] = Rebuilt(s, vpClock, stored, @)]]
<1>1. /\ t \in 1..vpClock /\ vpStored[s] \in SUBSET (1..vpClock) /\ vpClock \in Nat
      /\ vpStored' = [vpStored EXCEPT ![s] = @ \cup {t}]
  BY StoreBar DEF VpTypes
<1>2. stored \in SUBSET (Nat \ {0})
  BY <1>1
<1>3. vpStored'[s] = stored
  BY <1>1 DEF VpTypes
<1>4. PICK builds \in BOOLEAN :
         /\ vpBuild' = IF ~builds THEN vpBuild ELSE [vpBuild EXCEPT ![s] = made]
         /\ vpCalm' = (vpCalm /\ (builds => \A r \in VpSymbols : vpBuild[r].pc = "idle"))
  BY DEF VpBar
<1>5. UNCHANGED <<vpClock, vpFile, vpTorn>>
  BY DEF VpBar
<1>6. s \in DOMAIN vpBuild
  BY DEF VpTypes
<1> HIDE DEF made
<1>7. CASE builds
  <2>1. vpBuild' = [vpBuild EXCEPT ![s] = made]
    BY <1>4, <1>7
  <2>2. vpBuild'[s] = made /\ \A r \in VpSymbols : r # s => vpBuild'[r] = vpBuild[r]
    BY <1>6, <2>1 DEF VpTypes
  <2> QED
    BY <1>2, <1>3, <1>4, <1>5, <1>7, <2>2, Zenon DEF made
<1>8. CASE ~builds
  BY <1>2, <1>3, <1>4, <1>5, <1>8
<1> QED
  BY <1>7, <1>8

\* A build that begins has computed all of today.
LEMMA TodayBuilt ==
  ASSUME VpTypes, vpClock \in Times, NEW s \in VpSymbols, NEW t \in Times, VpBar(s, t)
  PROVE  TodayIsWhole
<1> DEFINE stored == vpStored[s] \cup {t}
           profiles == Loaded[s]
           key == DayKey(s, vpClock)
<1>1. /\ vpStored'[s] = stored /\ stored \in SUBSET (Nat \ {0})
      /\ \A r \in VpSymbols : r # s => vpBuild'[r] = vpBuild[r]
      /\ \/ vpBuild' = vpBuild
         \/ vpBuild'[s] = [pc |-> "built",
                            file |-> [Loaded EXCEPT ![s] = Rebuilt(s, vpClock, stored, @)]]
  BY BarBuilds
<1>2. SUFFICES ASSUME vpBuild[s].pc = "idle", vpBuild'[s].pc = "built",
                      Cardinality({u \in vpStored'[s] : DayKey(s, u) = key /\ Over(u)})
                          >= MinCached
               PROVE  vpBuild'[s].file[s][key] =
                          {u \in vpStored'[s] : DayKey(s, u) = key /\ Over(u)}
  BY <1>1 DEF TodayIsWhole
<1>3. vpBuild'[s].file = [Loaded EXCEPT ![s] = Rebuilt(s, vpClock, stored, @)]
  <2>1. PICK file : file = [Loaded EXCEPT ![s] = Rebuilt(s, vpClock, stored, @)]
    OBVIOUS
  <2>2. vpBuild' = vpBuild \/ vpBuild'[s] = [pc |-> "built", file |-> file]
    BY <1>1, <2>1, Zenon
  <2>3. vpBuild' # vpBuild
    BY <1>2
  <2>4. vpBuild'[s].file = file
    BY <2>2, <2>3
  <2> QED
    BY <2>1, <2>4
<1>4. s \in DOMAIN Loaded
  BY DEF Loaded, VpTypes, Files
<1>5. vpBuild'[s].file[s] = Rebuilt(s, vpClock, stored, profiles)
  BY <1>3, <1>4
<1>6. key \in Due(s, vpClock, profiles) /\ key \in Periods /\ \E k \in Nat : key = <<"day", k>>
  BY TodayIsDue
<1> HIDE DEF stored, profiles, key
<1>7. Computed(s, key, stored) = {u \in stored : DayKey(s, u) = key /\ Over(u)}
  BY <1>1, <1>6, SessionBars
<1>8. Rebuilt(s, vpClock, stored, profiles)[key] = Computed(s, key, stored)
  BY <1>1, <1>2, <1>6, <1>7 DEF Rebuilt
<1> QED
  BY <1>1, <1>5, <1>7, <1>8

\* Nothing is built at first.
LEMMA BuildStart == VpInit => BuildInv
<1> SUFFICES ASSUME VpInit PROVE BuildInv
  OBVIOUS
<1>1. vpClock = 1 /\ vpTorn = FALSE /\ \A s \in VpSymbols : vpBuild[s].pc = "idle"
  BY DEF VpInit, NoBuild
<1>2. vpClock \in Times
  BY <1>1, VpAssumption DEF Times
<1> QED
  BY <1>1, <1>2 DEF BuildInv, TornInv, CalmInv, Busy

\* A bar starts one build, from the file as it is.
LEMMA BuildBar ==
  ASSUME VpTypes, BuildInv, NEW s \in VpSymbols, NEW t \in Times, VpBar(s, t)
  PROVE  BuildInv'
<1> DEFINE stored == vpStored[s] \cup {t}
<1>1. /\ UNCHANGED <<vpClock, vpFile, vpTorn>>
      /\ \A r \in VpSymbols : r # s => vpBuild'[r] = vpBuild[r]
      /\ vpCalm' => vpCalm
      /\ \/ vpBuild' = vpBuild
         \/ /\ vpBuild'[s] = [pc |-> "built",
                            file |-> [Loaded EXCEPT ![s] = Rebuilt(s, vpClock, stored, @)]]
            /\ vpCalm' => \A r \in VpSymbols : vpBuild[r].pc = "idle"
  BY BarBuilds
<1> HIDE DEF stored
<1>2. CASE vpBuild' = vpBuild
  BY <1>1, <1>2 DEF BuildInv, TornInv, CalmInv, Busy, Keeps, Closed
<1>3. CASE /\ vpBuild'[s] = [pc |-> "built",
                            file |-> [Loaded EXCEPT ![s] = Rebuilt(s, vpClock, stored, @)]]
           /\ vpCalm' => \A r \in VpSymbols : vpBuild[r].pc = "idle"
  <2>1. Busy(s)' /\ vpBuild'[s].file = [Loaded EXCEPT ![s] = Rebuilt(s, vpClock, stored, @)]
    BY <1>3 DEF Busy
  <2>2. TornInv'
    BY <2>1 DEF TornInv
  <2>3. ASSUME vpCalm' PROVE (\A r \in VpSymbols : Busy(r)' => r = s) /\ Keeps(vpBuild[s].file)'
    <3>1. \A r \in VpSymbols : ~Busy(r)
      BY <1>3, <2>3 DEF Busy
    <3>2. Loaded = vpFile
      BY <3>1 DEF BuildInv, TornInv, Loaded
    <3>3. vpFile \in Files
      BY DEF VpTypes
    <3>4. /\ vpBuild'[s].file[s] = Rebuilt(s, vpClock, stored, vpFile[s])
          /\ \A r \in VpSymbols : r # s => vpBuild'[s].file[r] = vpFile[r]
      BY <2>1, <3>2, <3>3 DEF Files
    <3>5. Keeps(vpBuild'[s].file)
      BY <3>4, RebuiltKeeps DEF Keeps
    <3>6. Keeps(vpBuild[s].file)'
      BY <1>1, <3>5 DEF Keeps, Closed
    <3>7. \A r \in VpSymbols : Busy(r)' => r = s
      BY <1>1, <3>1 DEF Busy
    <3> QED
      BY <3>6, <3>7
  <2>4. CalmInv'
    <3>1. SUFFICES ASSUME vpCalm', NEW r \in VpSymbols, Busy(r)'
                   PROVE  (\A q \in VpSymbols : Busy(q)' => q = r) /\ Keeps(vpBuild[r].file)'
      BY DEF CalmInv
    <3>2. r = s
      BY <2>3, <3>1
    <3> QED
      BY <2>3, <3>1, <3>2
  <2> QED
    BY <1>1, <2>2, <2>4 DEF BuildInv
<1> QED
  BY <1>1, <1>2, <1>3

\* No step leaves a bar of today out or rewrites a session that is over.
LEMMA BuildStands ==
  ASSUME VpTypes, BuildInv, [VpNext]_vpVars
  PROVE  BuildInv' /\ TodayIsWhole /\ ClosedSessionStands
<1>1. ASSUME NEW s \in VpSymbols, NEW t \in Times, VpBar(s, t)
      PROVE  BuildInv' /\ TodayIsWhole /\ ClosedSessionStands
  <2>1. vpFile' = vpFile
    BY <1>1, BarBuilds
  <2> QED
    BY <1>1, <2>1, BuildBar, TodayBuilt DEF BuildInv, ClosedSessionStands
<1>2. CASE VpTick
  <2>1. /\ vpClock < VpHorizon /\ vpClock' = vpClock + 1 /\ UNCHANGED <<vpFile, vpTorn, vpBuild>>
        /\ vpCalm' => \A s \in VpSymbols : vpBuild[s].pc = "idle"
    BY <1>2 DEF VpTick
  <2>2. vpClock' \in Times
    BY <2>1, VpAssumption DEF BuildInv, Times
  <2>3. TornInv' /\ CalmInv'
    BY <2>1 DEF BuildInv, TornInv, CalmInv, Busy
  <2>4. TodayIsWhole /\ ClosedSessionStands
    BY <2>1 DEF TodayIsWhole, ClosedSessionStands
  <2> QED
    BY <2>2, <2>3, <2>4 DEF BuildInv
<1>3. ASSUME NEW s \in VpSymbols, VpTruncate(s)
      PROVE  BuildInv' /\ TodayIsWhole /\ ClosedSessionStands
  <2>1. /\ UNCHANGED <<vpClock, vpFile, vpCalm>> /\ vpBuild[s].pc = "built"
        /\ vpBuild'[s].pc = "saving"
        /\ \A r \in VpSymbols : /\ vpBuild'[r].file = vpBuild[r].file
                                /\ r # s => vpBuild'[r].pc = vpBuild[r].pc
    BY <1>3 DEF VpTruncate, VpTypes
  <2>2. \A r \in VpSymbols : Busy(r)' <=> Busy(r)
    BY <2>1 DEF Busy
  <2>3. TornInv'
    BY <2>1 DEF TornInv, Busy
  <2>4. \A r \in VpSymbols : Keeps(vpBuild[r].file) => Keeps(vpBuild[r].file)'
    BY <2>1 DEF Keeps, Closed
  <2>5. CalmInv'
    BY <2>1, <2>2, <2>4 DEF BuildInv, CalmInv
  <2>6. TodayIsWhole /\ ClosedSessionStands
    BY <2>1 DEF TodayIsWhole, ClosedSessionStands
  <2> QED
    BY <2>1, <2>3, <2>5, <2>6 DEF BuildInv
<1>4. ASSUME NEW s \in VpSymbols, VpSave(s)
      PROVE  BuildInv' /\ TodayIsWhole /\ ClosedSessionStands
  <2>1. /\ UNCHANGED <<vpClock, vpCalm>> /\ Busy(s) /\ vpTorn' = FALSE
        /\ vpFile' = vpBuild[s].file /\ vpBuild'[s] = NoBuild
        /\ \A r \in VpSymbols : r # s => vpBuild'[r] = vpBuild[r]
    BY <1>4 DEF VpSave, VpTypes, Busy
  <2>2. ~Busy(s)' /\ vpBuild'[s].pc # "built"
    BY <2>1 DEF Busy, NoBuild
  <2>3. \A r \in VpSymbols : r # s => (Busy(r)' <=> Busy(r))
    BY <2>1 DEF Busy
  <2>4. CalmInv'
    BY <2>1, <2>2, <2>3 DEF BuildInv, CalmInv
  <2>5. ClosedSessionStands
    <3>1. vpCalm' => Keeps(vpFile')
      BY <2>1 DEF BuildInv, CalmInv
    <3> QED
      BY <3>1 DEF ClosedSessionStands, Keeps, Closed
  <2>6. TodayIsWhole
    BY <2>1, <2>2 DEF TodayIsWhole
  <2> QED
    BY <2>1, <2>4, <2>5, <2>6 DEF BuildInv, TornInv
<1>5. CASE VpCrash
  <2>1. /\ vpFile' = [s \in VpSymbols |-> Rebuilt(s, vpClock, vpStored[s], Loaded[s])]
        /\ vpBuild' = [s \in VpSymbols |-> NoBuild] /\ vpTorn' = FALSE /\ vpClock' = vpClock
        /\ vpCalm' => ~vpTorn
    BY <1>5 DEF VpCrash
  <2>2. \A s \in VpSymbols : ~Busy(s)' /\ vpBuild'[s].pc # "built"
    BY <2>1 DEF Busy, NoBuild
  <2>3. BuildInv'
    BY <2>1, <2>2 DEF BuildInv, TornInv, CalmInv
  <2>4. ASSUME vpCalm' PROVE Keeps(vpFile')
    <3>1. Loaded = vpFile
      BY <2>1, <2>4 DEF Loaded
    <3>2. \A s \in VpSymbols : vpFile'[s] = Rebuilt(s, vpClock, vpStored[s], vpFile[s])
      BY <2>1, <3>1
    <3> QED
      BY <3>2, RebuiltKeeps DEF Keeps
  <2>5. ClosedSessionStands
    BY <2>4 DEF ClosedSessionStands, Keeps, Closed
  <2>6. TodayIsWhole
    BY <2>2 DEF TodayIsWhole
  <2> QED
    BY <2>3, <2>5, <2>6
<1>6. CASE VpSecond \/ UNCHANGED vpVars
  <2>1. UNCHANGED <<vpClock, vpFile, vpTorn, vpBuild, vpCalm>>
    BY <1>6 DEF VpSecond, vpVars
  <2>2. BuildInv'
    BY <2>1 DEF BuildInv, TornInv, CalmInv, Busy, Keeps, Closed
  <2>3. TodayIsWhole /\ ClosedSessionStands
    BY <2>1 DEF TodayIsWhole, ClosedSessionStands
  <2> QED
    BY <2>2, <2>3
<1> QED
  BY <1>1, <1>2, <1>3, <1>4, <1>5, <1>6 DEF VpNext

-----------------------------------------------------------------------------
(***************************************************************************)
(* The log of large prints.  A line is older than the bar its symbol's       *)
(* handler is at, and the bars that judged it are stored (SoundLine).  What  *)
(* must be in the log (Holding) is in the file while nobody writes it, and   *)
(* in every text that waits to be written; while somebody writes, what the   *)
(* file has meanwhile is exposed, and while two do everything is.            *)
(***************************************************************************)
Verdict == {"pending", "pushed", "absorbed", "exhausted"}
Line == [sym : Symbols, at : Nat \ {0}, by : Sides, outcome : Verdict, upto : Nat]
\* The last bar whose prints the handler of the symbol is through with.
Through(s) == IF handler[s].pc = "idle" THEN Len(bars[s]) ELSE Len(bars[s]) - 1
\* The bars that judged a line.
JudgedBy(e) == (e.upto - OutcomeBars + 1)..e.upto
Earned(e) ==
    e.outcome = "pending" \/ (/\ e.at < e.upto - OutcomeBars + 1 /\ e.upto <= Len(bars[e.sym])
                              /\ e.outcome = Outcome(e.sym, e.by, JudgedBy(e)))
SoundLine == {e \in Line : e.at <= Through(e.sym) /\ Earned(e)}
Lines(lines) == lines \in Seq(SoundLine)
HandlerPcs == {"idle", "read", "write", "saving", "print"}
Handlers == [pc : HandlerPcs, lines : Seq(Line), prints : SUBSET Sides]

PrintTypes ==
    /\ bars \in [Symbols -> Seq(Moves)]
    /\ handler \in [Symbols -> Handlers]
    /\ \A s \in Symbols : handler[s].pc # "idle" => Len(bars[s]) >= 1
LogLines ==
    /\ Lines(tradeLog)
    /\ \A s \in Symbols : Lines(handler[s].lines)

\* The prints a text has, one it has once, and what a text holds: each of the prints P once
\* and the judged lines J as they are, but for what is exposed, X.
Ids(lines) == {Identity(lines[i]) : i \in 1..Len(lines)}
Once(lines, p) ==
    \E i \in 1..Len(lines) : /\ Identity(lines[i]) = p
                             /\ \A j \in 1..Len(lines) : Identity(lines[j]) = p => j = i
Holding(lines, P, J, X) ==
    /\ \A p \in P \ X : Once(lines, p)
    /\ \A e \in J : Identity(e) \in X \/ \E i \in 1..Len(lines) : lines[i] = e
Has(lines) == Holding(lines, printed, judged, exposed)

KnownInv ==
    /\ \A e \in judged : Identity(e) \in printed /\ e.outcome # "pending"
    /\ Ids(tradeLog) \subseteq printed
    /\ \A s \in Symbols : Ids(handler[s].lines) \subseteq printed
TextsInv ==
    /\ FileAtRest => Has(tradeLog)
    /\ \A s \in Symbols : Rewriting(s) => Has(handler[s].lines)
ExposedInv ==
    /\ ~FileAtRest => Ids(tradeLog) \subseteq exposed
    /\ \A s, t \in Symbols : Saving(s) /\ Saving(t) /\ s # t => printed \subseteq exposed
TextInv == PrintTypes /\ LogLines /\ KnownInv /\ TextsInv /\ ExposedInv
TradeInv == TextInv /\ cut \in {"nowhere", "inside", "end"}

\* A finite set, listed: each element once.
LEMMA SetListed ==
  ASSUME NEW S, IsFiniteSet(S)
  PROVE  /\ SetToSeq(S) \in [1..Cardinality(S) -> S] /\ Cardinality(S) \in Nat
         /\ \A i, j \in 1..Cardinality(S) : SetToSeq(S)[i] = SetToSeq(S)[j] => i = j
         /\ \A x \in S : \E i \in 1..Cardinality(S) : SetToSeq(S)[i] = x
<1> DEFINE n == Cardinality(S)
<1>1. PICK m \in Nat : ExistsBijection(1..m, S)
  BY FS_NatBijection
<1>2. n = m /\ n \in Nat
  BY <1>1, FS_CountingElements
<1>3. PICK f \in Bijection(1..n, S) : TRUE
  BY <1>1, <1>2 DEF ExistsBijection
<1>4. f \in [1..n -> S] /\ IsInjective(f)
  BY <1>3 DEF Bijection, Injection, IsInjective
<1>5. SetToSeq(S) \in [1..n -> S] /\ IsInjective(SetToSeq(S))
  BY <1>4 DEF SetToSeq
<1>6. PICK g : g = SetToSeq(S)
  OBVIOUS
<1>7. g \in Injection(1..n, S)
  BY <1>5, <1>6 DEF Injection, IsInjective
<1>8. IsFiniteSet(1..n) /\ Cardinality(1..n) = n
  BY <1>2, FS_Interval
<1>9. g \in Surjection(1..n, S)
  BY <1>7, <1>8, FS_Injection
<1> QED
  BY <1>2, <1>5, <1>6, <1>9 DEF Surjection, IsInjective

\* The first and the last of an interval.
LEMMA IntervalEnds ==
  ASSUME NEW a \in Int, NEW b \in Int, a <= b
  PROVE  Min(a..b) = a /\ Max(a..b) = b
<1> DEFINE S == a..b
<1>0. IsFiniteSet(S)
  BY FS_Interval
<1>a. a \in S /\ b \in S /\ S \subseteq Int
  OBVIOUS
<1>1. IsFiniteSet(S) /\ S # {} /\ S \subseteq Int /\ a \in S /\ b \in S
  BY <1>0, <1>a
<1>2. \A y \in S : a <= y /\ y <= b
  OBVIOUS
<1> HIDE DEF S
<1>3. /\ Max(S) \in S /\ \A y \in S : Max(S) >= y
      /\ Min(S) \in S /\ \A y \in S : Min(S) <= y
  BY <1>1, ExtremesIn
<1>4. Max(S) \in Int /\ Min(S) \in Int /\ Max(S) <= b /\ a <= Min(S) /\ b <= Max(S) /\ Min(S) <= a
  BY <1>1, <1>2, <1>3
<1>5. Max(S) = b /\ Min(S) = a
  BY <1>4
<1> QED
  BY <1>5 DEF S

\* The bars that judge an event are the OutcomeBars in view that follow it.
LEMMA JudgesFollow ==
  ASSUME PrintTypes, NEW s \in Symbols, NEW at \in Nat,
         Cardinality(Followers(s, at)) >= OutcomeBars
  PROVE  \E lo \in Nat : /\ at < lo /\ lo + OutcomeBars - 1 <= Len(bars[s])
                         /\ Judges(s, at) = lo..(lo + OutcomeBars - 1)
<1> DEFINE n == Len(bars[s])
           lo == IF n - Window > at THEN n - Window + 1 ELSE at + 1
           hi == lo + OutcomeBars - 1
           f == Followers(s, at)
<1>1. bars[s] \in Seq(Moves) /\ n \in Nat /\ DOMAIN bars[s] = 1..n
  BY LenProperties DEF PrintTypes
<1>2. Window \in Nat /\ OutcomeBars \in Nat \ {0}
  BY TradeAssumption
<1>3. f = {i \in 1..n : i > n - Window /\ i > at}
  BY <1>1 DEF Followers
<1> HIDE DEF n
<1>4. lo \in Nat /\ at < lo /\ hi \in Nat
  BY <1>1, <1>2
<1>5. f = lo..n
  BY <1>1, <1>2, <1>3
<1> HIDE DEF lo
<1>6. Cardinality(lo..n) = IF lo > n THEN 0 ELSE n - lo + 1
  BY <1>1, <1>4, FS_Interval
<1>7. hi <= n
  <2>1. Cardinality(lo..n) >= OutcomeBars
    BY <1>5
  <2> QED
    BY <1>1, <1>2, <1>4, <1>6, <2>1
<1>8. ASSUME NEW i \in lo..n PROVE Cardinality({j \in f : j <= i}) = i - lo + 1
  <2>1. {j \in f : j <= i} = lo..i
    BY <1>1, <1>4, <1>5
  <2>2. Cardinality(lo..i) = IF lo > i THEN 0 ELSE i - lo + 1
    BY <1>4, FS_Interval
  <2>3. ~(lo > i)
    BY <1>1, <1>4
  <2> QED
    BY <2>1, <2>2, <2>3
<1> HIDE DEF f
<1>9. Judges(s, at) = {i \in lo..n : i - lo + 1 <= OutcomeBars}
  BY <1>5, <1>8 DEF Judges, f
<1>10. {i \in lo..n : i - lo + 1 <= OutcomeBars} = lo..hi
  BY <1>1, <1>2, <1>4, <1>7
<1> QED
  BY <1>4, <1>7, <1>9, <1>10 DEF n

\* A line that is judged is no longer pending.
LEMMA OutcomeIsOne ==
  ASSUME NEW s, NEW by, NEW over
  PROVE  Outcome(s, by, over) \in Verdict \ {"pending"}
  BY DEF Outcome, Verdict

\* What the rewrite does to a line.
LEMMA SettledSound ==
  ASSUME PrintTypes, NEW s \in Symbols, NEW e \in Line, Earned(e)
  PROVE  LET d == Settled(s, e)
         IN  /\ d \in Line /\ Earned(d) /\ Identity(d) = Identity(e) /\ d.at = e.at /\ d.sym = e.sym
             /\ ~Ripe(s, e) => d = e
<1>1. PICK d : d = Settled(s, e)
  OBVIOUS
<1>2. CASE ~Ripe(s, e)
  BY <1>1, <1>2 DEF Settled
<1>3. CASE Ripe(s, e)
  <2>1. e.sym = s /\ e.at \in Nat /\ e.by \in Sides /\ Cardinality(Followers(s, e.at)) >= OutcomeBars
    BY <1>3 DEF Ripe, Line
  <2>2. PICK lo \in Nat : /\ e.at < lo /\ lo + OutcomeBars - 1 <= Len(bars[s])
                          /\ Judges(s, e.at) = lo..(lo + OutcomeBars - 1)
    BY <2>1, JudgesFollow
  <2>3. PICK hi : hi = lo + OutcomeBars - 1
    OBVIOUS
  <2>4. hi \in Nat /\ lo <= hi /\ hi - OutcomeBars + 1 = lo
    BY <2>3, TradeAssumption
  <2>5. Max(lo..hi) = hi
    BY <2>4, IntervalEnds
  <2>6. PICK v \in Verdict : v = Outcome(s, e.by, lo..hi)
    BY OutcomeIsOne
  <2>7. d = [e EXCEPT !.outcome = v, !.upto = hi]
    BY <1>1, <1>3, <2>2, <2>3, <2>5, <2>6 DEF Settled
  <2>8. /\ d \in Line /\ d.sym = s /\ d.at = e.at /\ d.by = e.by /\ d.outcome = v /\ d.upto = hi
    BY <2>1, <2>4, <2>7 DEF Line
  <2>9. JudgedBy(d) = lo..hi
    BY <2>4, <2>8 DEF JudgedBy
  <2>10. Earned(d)
    BY <2>2, <2>3, <2>4, <2>6, <2>8, <2>9 DEF Earned
  <2> QED
    BY <1>1, <1>3, <2>1, <2>8, <2>10 DEF Identity
<1> QED
  BY <1>2, <1>3

\* Bars stored later do not change an outcome.
LEMMA EarnedStays ==
  ASSUME PrintTypes, NEW e \in Line, Earned(e),
         Len(bars[e.sym]) <= Len(bars'[e.sym]), Len(bars'[e.sym]) \in Nat,
         \A i \in 1..Len(bars[e.sym]) : bars'[e.sym][i] = bars[e.sym][i]
  PROVE  Earned(e)'
<1>1. /\ e.sym \in Symbols /\ e.at \in Nat \ {0} /\ e.upto \in Nat /\ Len(bars[e.sym]) \in Nat
      /\ OutcomeBars \in Nat
  BY LenProperties, TradeAssumption DEF PrintTypes, Line
<1>2. CASE e.outcome = "pending"
  BY <1>2 DEF Earned
<1>3. CASE e.outcome # "pending"
  <2>1. /\ e.at < e.upto - OutcomeBars + 1 /\ e.upto <= Len(bars[e.sym])
        /\ e.outcome = Outcome(e.sym, e.by, JudgedBy(e))
    BY <1>3 DEF Earned
  <2>2. JudgedBy(e) \subseteq 1..Len(bars[e.sym])
    BY <1>1, <2>1 DEF JudgedBy
  <2>3. \A i \in JudgedBy(e) : bars'[e.sym][i] = bars[e.sym][i]
    BY <2>2
  <2>4. Outcome(e.sym, e.by, JudgedBy(e))' = Outcome(e.sym, e.by, JudgedBy(e))
    BY <2>3 DEF Outcome, JudgedBy
  <2>5. e.upto <= Len(bars'[e.sym])
    BY <1>1, <2>1
  <2> QED
    BY <2>1, <2>4, <2>5 DEF Earned
<1> QED
  BY <1>2, <1>3

\* Bars stored later, and handlers that go on, leave every line sound.
LEMMA LinesStay ==
  ASSUME PrintTypes,
         \A s \in Symbols : /\ Len(bars[s]) <= Len(bars'[s]) /\ Len(bars'[s]) \in Nat
                            /\ \A i \in 1..Len(bars[s]) : bars'[s][i] = bars[s][i]
                            /\ Through(s) <= Through(s)'
  PROVE  SoundLine \subseteq SoundLine'
<1> SUFFICES ASSUME NEW e \in SoundLine PROVE e \in Line /\ e.at <= Through(e.sym)' /\ Earned(e)'
  BY DEF SoundLine, Line, Verdict
<1>1. e \in Line /\ e.at <= Through(e.sym) /\ Earned(e)
  BY DEF SoundLine
<1>2. e.sym \in Symbols /\ e.at \in Nat
  BY <1>1 DEF Line
<1>3. Len(bars[e.sym]) \in Int /\ Len(bars'[e.sym]) \in Int
  BY <1>2, LenProperties DEF PrintTypes
<1>4. Through(e.sym) \in Int /\ Through(e.sym)' \in Int
  BY <1>3 DEF Through
<1>5. Through(e.sym) <= Through(e.sym)'
  BY <1>2
<1>6. e.at <= Through(e.sym)'
  BY <1>1, <1>2, <1>4, <1>5
<1>7. Earned(e)'
  BY <1>1, <1>2, EarnedStays
<1> QED
  BY <1>1, <1>6, <1>7

\* A step that moves the handlers it moves on, and leaves the bars.
LEMMA HandlersMove ==
  ASSUME PrintTypes, handler' \in [Symbols -> Handlers], bars' = bars,
         \A t \in Symbols : \/ handler'[t] = handler[t] \/ handler'[t].pc = "idle"
                            \/ handler[t].pc # "idle"
  PROVE  PrintTypes' /\ SoundLine \subseteq SoundLine'
<1>1. \A t \in Symbols : Len(bars[t]) \in Nat
  BY LenProperties DEF PrintTypes
<1>2. PrintTypes'
  <2>1. \A t \in Symbols : handler'[t].pc # "idle" => Len(bars'[t]) >= 1
    BY DEF PrintTypes
  <2> QED
    BY <2>1 DEF PrintTypes
<1>3. \A t \in Symbols : Through(t) <= Through(t)'
  BY <1>1 DEF Through
<1>4. \A t \in Symbols : /\ Len(bars[t]) <= Len(bars'[t]) /\ Len(bars'[t]) \in Nat
                         /\ \A i \in 1..Len(bars[t]) : bars'[t][i] = bars[t][i]
  BY <1>1
<1> QED
  BY <1>2, <1>3, <1>4, LinesStay

\* A step that gives one handler another state.
LEMMA HandlerMoves ==
  ASSUME PrintTypes, NEW s \in Symbols, handler[s].pc # "idle", NEW to \in Handlers,
         handler' = [handler EXCEPT ![s] = to], bars' = bars
  PROVE  /\ PrintTypes' /\ SoundLine \subseteq SoundLine'
         /\ handler'[s] = to /\ \A t \in Symbols : t # s => handler'[t] = handler[t]
<1>1. handler'[s] = to /\ \A t \in Symbols : t # s => handler'[t] = handler[t]
  BY DEF PrintTypes
<1>2. handler' \in [Symbols -> Handlers]
  BY DEF PrintTypes
<1>3. \A t \in Symbols : \/ handler'[t] = handler[t] \/ handler'[t].pc = "idle"
                         \/ handler[t].pc # "idle"
  BY <1>1
<1> QED
  BY <1>1, <1>2, <1>3, HandlersMove

\* Its lines are sound when those it writes are.
LEMMA LinesMove ==
  ASSUME LogLines, SoundLine \subseteq SoundLine', tradeLog' \in Seq(SoundLine'),
         \A t \in Symbols : handler'[t].lines = handler[t].lines
                            \/ handler'[t].lines \in Seq(SoundLine')
  PROVE  LogLines'
<1>1. ASSUME NEW t \in Symbols PROVE handler'[t].lines \in Seq(SoundLine')
  <2>1. handler[t].lines \in Seq(SoundLine)
    BY DEF LogLines, Lines
  <2>2. handler[t].lines \in Seq(SoundLine')
    BY <2>1, SeqMonotonic
  <2> QED
    BY <2>2
<1> QED
  BY <1>1 DEF LogLines, Lines

LEMMA EmptyLines == \A S : <<>> \in Seq(S) /\ Len(<<>>) = 0 /\ Ids(<<>>) = {}
<1>1. \A S : <<>> \in Seq(S)
  BY EmptySeq
<1>2. Len(<<>>) = 0 /\ 1..0 = {}
  OBVIOUS
<1>3. Ids(<<>>) = {}
  BY <1>2 DEF Ids
<1> QED
  BY <1>1, <1>2, <1>3

LEMMA IdleTyped == IdleHandler \in Handlers /\ IdleHandler.pc = "idle" /\ IdleHandler.lines = <<>>
<1>1. \A S : <<>> \in Seq(S)
  BY EmptySeq
<1> QED
  BY <1>1 DEF IdleHandler, Handlers, HandlerPcs

\* A part of a text, and two texts one after the other.
LEMMA PartIs ==
  ASSUME NEW S, NEW lines \in Seq(S), NEW m \in Nat \ {0}, NEW n \in Int, n <= Len(lines)
  PROVE  SubSeq(lines, m, n) \in Seq(S) /\ Ids(SubSeq(lines, m, n)) \subseteq Ids(lines)
<1>1. PICK piece : piece = SubSeq(lines, m, n)
  OBVIOUS
<1>2. Len(lines) \in Nat
  BY LenProperties
<1>3. \A i \in m..n : i \in 1..Len(lines) /\ lines[i] \in S
  BY <1>2, ElementOfSeq
<1>4. /\ piece \in Seq(S) /\ Len(piece) = IF m <= n THEN n - m + 1 ELSE 0
      /\ \A i \in 1..(n - m + 1) : piece[i] = lines[m + i - 1]
  BY <1>1, <1>3, SubSeqProperties
<1>5. ASSUME NEW i \in 1..Len(piece) PROVE Identity(piece[i]) \in Ids(lines)
  <2>1. i \in 1..(n - m + 1) /\ m + i - 1 \in m..n
    BY <1>4
  <2>2. piece[i] = lines[m + i - 1] /\ m + i - 1 \in 1..Len(lines)
    BY <1>3, <1>4, <2>1
  <2> QED
    BY <2>2 DEF Ids
<1>6. Ids(piece) \subseteq Ids(lines)
  BY <1>5 DEF Ids
<1> QED
  BY <1>1, <1>4, <1>6

LEMMA JoinIs ==
  ASSUME NEW S, NEW log \in Seq(S), NEW more \in Seq(S)
  PROVE  LET new == log \o more
         IN  /\ new \in Seq(S) /\ Len(new) = Len(log) + Len(more)
             /\ Len(log) \in Nat /\ Len(more) \in Nat
             /\ \A i \in 1..Len(log) : i \in 1..Len(new) /\ new[i] = log[i]
             /\ \A i \in 1..Len(more) : Len(log) + i \in 1..Len(new) /\ new[Len(log) + i] = more[i]
             /\ \A i \in 1..Len(new) : \/ i \in 1..Len(log) /\ new[i] = log[i]
                                       \/ i - Len(log) \in 1..Len(more) /\ new[i] = more[i - Len(log)]
             /\ Ids(new) \subseteq Ids(log) \cup Ids(more)
<1>1. PICK new, n, k : new = log \o more /\ n = Len(log) /\ k = Len(more)
  OBVIOUS
<1>2. n \in Nat /\ k \in Nat
  BY <1>1, LenProperties
<1>3. /\ new \in Seq(S) /\ Len(new) = n + k
      /\ \A i \in 1..(n + k) : new[i] = IF i <= n THEN log[i] ELSE more[i - n]
  BY <1>1, ConcatProperties
<1>4. \A i \in 1..n : i \in 1..Len(new) /\ new[i] = log[i]
  BY <1>2, <1>3
<1>5. ASSUME NEW i \in 1..k PROVE n + i \in 1..Len(new) /\ new[n + i] = more[i]
  <2>1. n + i \in 1..(n + k) /\ ~(n + i <= n) /\ (n + i) - n = i
    BY <1>2
  <2> QED
    BY <1>3, <2>1
<1>6. ASSUME NEW i \in 1..Len(new)
      PROVE  \/ i \in 1..n /\ new[i] = log[i]
             \/ i - n \in 1..k /\ new[i] = more[i - n]
  BY <1>2, <1>3
<1>7. ASSUME NEW i \in 1..Len(new) PROVE Identity(new[i]) \in Ids(log) \cup Ids(more)
  <2>1. CASE i \in 1..n /\ new[i] = log[i]
    BY <1>1, <2>1 DEF Ids
  <2>2. CASE i - n \in 1..k /\ new[i] = more[i - n]
    BY <1>1, <2>2 DEF Ids
  <2> QED
    BY <1>6, <2>1, <2>2
<1>8. Ids(new) \subseteq Ids(log) \cup Ids(more)
  BY <1>7 DEF Ids
<1> QED
  BY <1>1, <1>2, <1>3, <1>4, <1>5, <1>6, <1>8

\* A print that is once in one of them and not in the other is once in both together.
LEMMA OnceInFirst ==
  ASSUME NEW S, NEW log \in Seq(S), NEW more \in Seq(S), NEW p, Once(log, p), p \notin Ids(more)
  PROVE  Once(log \o more, p)
<1>1. PICK new, n : new = log \o more /\ n = Len(log)
  OBVIOUS
<1>2. /\ \A i \in 1..n : i \in 1..Len(new) /\ new[i] = log[i]
      /\ \A i \in 1..Len(new) : \/ i \in 1..n /\ new[i] = log[i]
                                \/ i - n \in 1..Len(more) /\ new[i] = more[i - n]
  BY <1>1, JoinIs
<1>3. PICK i \in 1..n : Identity(log[i]) = p /\ \A j \in 1..n : Identity(log[j]) = p => j = i
  BY <1>1 DEF Once
<1>4. ASSUME NEW j \in 1..Len(new), Identity(new[j]) = p PROVE j = i
  <2>1. CASE j \in 1..n /\ new[j] = log[j]
    BY <1>3, <1>4, <2>1
  <2>2. CASE j - n \in 1..Len(more) /\ new[j] = more[j - n]
    BY <1>4, <2>2 DEF Ids
  <2> QED
    BY <1>2, <2>1, <2>2
<1>5. i \in 1..Len(new) /\ Identity(new[i]) = p
  BY <1>2, <1>3
<1> QED
  BY <1>1, <1>4, <1>5 DEF Once

LEMMA OnceInSecond ==
  ASSUME NEW S, NEW log \in Seq(S), NEW more \in Seq(S), NEW p, Once(more, p), p \notin Ids(log)
  PROVE  Once(log \o more, p)
<1>1. PICK new, n : new = log \o more /\ n = Len(log)
  OBVIOUS
<1>2. /\ n \in Nat
      /\ \A i \in 1..Len(more) : n + i \in 1..Len(new) /\ new[n + i] = more[i]
      /\ \A i \in 1..Len(new) : \/ i \in 1..n /\ new[i] = log[i]
                                \/ i - n \in 1..Len(more) /\ new[i] = more[i - n]
  BY <1>1, JoinIs
<1>3. PICK i \in 1..Len(more) :
         Identity(more[i]) = p /\ \A j \in 1..Len(more) : Identity(more[j]) = p => j = i
  BY DEF Once
<1>4. ASSUME NEW j \in 1..Len(new), Identity(new[j]) = p PROVE j = n + i
  <2>1. CASE j \in 1..n /\ new[j] = log[j]
    BY <1>1, <1>4, <2>1 DEF Ids
  <2>2. CASE j - n \in 1..Len(more) /\ new[j] = more[j - n]
    <3>1. j - n = i
      BY <1>3, <1>4, <2>2
    <3> QED
      BY <1>2, <3>1
  <2> QED
    BY <1>2, <2>1, <2>2
<1>5. n + i \in 1..Len(new) /\ Identity(new[n + i]) = p
  BY <1>2, <1>3
<1> QED
  BY <1>1, <1>4, <1>5 DEF Once

\* What a text holds, it holds with more behind it,
LEMMA HoldingJoins ==
  ASSUME NEW S, NEW lines \in Seq(S), NEW more \in Seq(S), NEW P, NEW J, NEW X,
         Holding(lines, P, J, X), \A p \in P \ X : p \notin Ids(more)
  PROVE  Holding(lines \o more, P, J, X)
<1>1. PICK new : new = lines \o more
  OBVIOUS
<1>2. \A i \in 1..Len(lines) : i \in 1..Len(new) /\ new[i] = lines[i]
  BY <1>1, JoinIs
<1>3. \A p \in P \ X : Once(new, p)
  BY <1>1, OnceInFirst DEF Holding
<1>4. \A e \in J : Identity(e) \in X \/ \E i \in 1..Len(new) : new[i] = e
  BY <1>2 DEF Holding
<1> QED
  BY <1>1, <1>3, <1>4 DEF Holding

\* and when more is exposed,
LEMMA HoldingGrows ==
  ASSUME NEW lines, NEW P, NEW J, NEW X, NEW P2, NEW J2, NEW X2,
         Holding(lines, P, J, X), P2 \ X2 \subseteq P \ X, X \subseteq X2,
         \A e \in J2 : e \in J \/ Identity(e) \in X2
  PROVE  Holding(lines, P2, J2, X2)
  BY DEF Holding

\* and when everything is exposed every text holds what is left.
LEMMA AllExposed ==
  ASSUME KnownInv', printed' \subseteq exposed' PROVE TextsInv' /\ ExposedInv'
<1>1. \A lines : Holding(lines, printed', judged', exposed')
  BY DEF Holding, KnownInv
<1>2. TextsInv'
  BY <1>1 DEF TextsInv, Has
<1>3. ExposedInv'
  BY DEF ExposedInv, KnownInv
<1> QED
  BY <1>2, <1>3

\* A step that leaves the file and moves a handler on to where it holds nothing.
LEMMA QuietStep ==
  ASSUME KnownInv, TextsInv, ExposedInv, UNCHANGED <<tradeLog, printed, judged, exposed>>,
         \A t \in Symbols : \/ handler'[t] = handler[t]
                            \/ /\ handler'[t].pc \in {"read", "print"} /\ handler'[t].lines = <<>>
                               /\ ~Saving(t)
  PROVE  KnownInv' /\ TextsInv' /\ ExposedInv'
<1>1. \A t \in Symbols : /\ Saving(t)' <=> Saving(t)
                         /\ Rewriting(t)' => Rewriting(t) /\ handler'[t] = handler[t]
  BY DEF Saving, Rewriting
<1>2. FileAtRest' <=> FileAtRest
  BY <1>1 DEF FileAtRest
<1>3. KnownInv'
  BY EmptyLines DEF KnownInv
<1>4. TextsInv'
  BY <1>1, <1>2 DEF TextsInv, Has
<1>5. ExposedInv'
  BY <1>1, <1>2 DEF ExposedInv
<1> QED
  BY <1>3, <1>4, <1>5

\* The log is empty at first.
LEMMA TradeStart == TradeInit => TradeInv
<1> SUFFICES ASSUME TradeInit PROVE TradeInv
  OBVIOUS
<1>1. /\ bars = [s \in Symbols |-> <<>>] /\ tradeLog = <<>> /\ printed = {} /\ judged = {}
      /\ handler = [s \in Symbols |-> IdleHandler] /\ cut = "nowhere"
  BY DEF TradeInit
<1>2. PrintTypes
  BY <1>1, EmptyLines, IdleTyped DEF PrintTypes
<1>3. LogLines
  BY <1>1, EmptyLines, IdleTyped DEF LogLines, Lines
<1>4. KnownInv
  BY <1>1, EmptyLines, IdleTyped DEF KnownInv
<1>5. \A s \in Symbols : ~Saving(s) /\ ~Rewriting(s)
  BY <1>1, IdleTyped DEF Saving, Rewriting
<1>6. TextsInv /\ ExposedInv
  BY <1>1, <1>5 DEF TextsInv, ExposedInv, Has, Holding, FileAtRest
<1> QED
  BY <1>1, <1>2, <1>3, <1>4, <1>6 DEF TradeInv, TextInv

\* The handler of a bar takes its prints with it,
LEMMA ArriveKeeps ==
  ASSUME TextInv, NEW s \in Symbols, TickArrives(s) PROVE TextInv'
<1>0. PrintTypes /\ LogLines /\ KnownInv /\ TextsInv /\ ExposedInv
  BY DEF TextInv
<1>1. PICK m \in Moves, p \in SUBSET Sides :
         /\ bars' = [bars EXCEPT ![s] = Append(@, m)]
         /\ handler' = [handler EXCEPT ![s] = [pc |-> "read", lines |-> <<>>, prints |-> p]]
  BY DEF TickArrives
<1>2. PICK to : to = [pc |-> "read", lines |-> <<>>, prints |-> p]
  OBVIOUS
<1>3. to \in Handlers /\ to.pc = "read" /\ to.lines = <<>>
  <2>1. \A S : <<>> \in Seq(S)
    BY EmptySeq
  <2> QED
    BY <1>2, <2>1 DEF Handlers, HandlerPcs
<1>4. handler' = [handler EXCEPT ![s] = to]
  BY <1>1, <1>2, Zenon
<1>5. handler[s].pc = "idle" /\ UNCHANGED <<tradeLog, printed, judged, exposed>>
  BY DEF TickArrives
<1>6. /\ handler' \in [Symbols -> Handlers] /\ handler'[s] = to
      /\ \A t \in Symbols : t # s => handler'[t] = handler[t]
  BY <1>0, <1>3, <1>4 DEF PrintTypes
<1>7. PICK old, new : old = bars[s] /\ new = Append(old, m)
  OBVIOUS
<1>8. /\ old \in Seq(Moves) /\ new \in Seq(Moves) /\ Len(old) \in Nat /\ Len(new) = Len(old) + 1
      /\ \A i \in 1..Len(old) : new[i] = old[i]
  BY <1>0, <1>7, AppendProperties, LenProperties DEF PrintTypes
<1>9. bars' = [bars EXCEPT ![s] = new]
  BY <1>1, <1>7
<1>10. /\ bars' \in [Symbols -> Seq(Moves)] /\ bars'[s] = new
       /\ \A t \in Symbols : t # s => bars'[t] = bars[t]
  BY <1>0, <1>8, <1>9 DEF PrintTypes
<1>11. \A t \in Symbols : Len(bars[t]) \in Nat
  BY <1>0, LenProperties DEF PrintTypes
<1>12. ASSUME NEW t \in Symbols
       PROVE  /\ Len(bars[t]) <= Len(bars'[t]) /\ Len(bars'[t]) \in Nat
              /\ \A i \in 1..Len(bars[t]) : bars'[t][i] = bars[t][i]
              /\ Through(t) <= Through(t)'
  <2>1. CASE t = s
    <3>1. Through(s) = Len(old) /\ Through(s)' = Len(new) - 1
      BY <1>3, <1>5, <1>6, <1>7, <1>10 DEF Through
    <3> QED
      BY <1>7, <1>8, <1>10, <2>1, <3>1
  <2>2. CASE t # s
    <3>1. Through(t)' = Through(t) /\ Through(t) \in Int
      BY <1>6, <1>10, <1>11, <2>2 DEF Through
    <3> QED
      BY <1>10, <1>11, <2>2, <3>1
  <2> QED
    BY <2>1, <2>2
<1>13. PrintTypes'
  <2>1. \A t \in Symbols : handler'[t].pc # "idle" => Len(bars'[t]) >= 1
    <3>1. ASSUME NEW t \in Symbols, handler'[t].pc # "idle" PROVE Len(bars'[t]) >= 1
      <4>1. CASE t = s
        BY <1>8, <1>10, <4>1
      <4>2. CASE t # s
        BY <1>0, <1>6, <1>10, <3>1, <4>2 DEF PrintTypes
      <4> QED
        BY <4>1, <4>2
    <3> QED
      BY <3>1
  <2> QED
    BY <1>6, <1>10, <2>1 DEF PrintTypes
<1>14. SoundLine \subseteq SoundLine'
  BY <1>0, <1>12, LinesStay
<1>15. LogLines'
  <2>1. tradeLog \in Seq(SoundLine)
    BY <1>0 DEF LogLines, Lines
  <2>2. tradeLog' \in Seq(SoundLine')
    BY <1>5, <1>14, <2>1, SeqMonotonic
  <2>3. <<>> \in Seq(SoundLine')
    BY EmptySeq
  <2>4. \A t \in Symbols : handler'[t].lines = handler[t].lines
                           \/ handler'[t].lines \in Seq(SoundLine')
    BY <1>3, <1>6, <2>3
  <2> QED
    BY <1>0, <1>14, <2>2, <2>4, LinesMove
<1>16. KnownInv' /\ TextsInv' /\ ExposedInv'
  <2>1. \A t \in Symbols : \/ handler'[t] = handler[t]
                           \/ /\ handler'[t].pc \in {"read", "print"} /\ handler'[t].lines = <<>>
                              /\ ~Saving(t)
    BY <1>3, <1>5, <1>6 DEF Saving
  <2> QED
    BY <1>0, <1>5, <2>1, QuietStep
<1> QED
  BY <1>13, <1>15, <1>16 DEF TextInv

\* What a rewrite leaves, line by line.
LEMMA RewriteSound ==
  ASSUME PrintTypes, NEW s \in Symbols, NEW lines, Lines(lines), NEW new, new = Rewritten(s, lines)
  PROVE  /\ Lines(new) /\ Len(new) = Len(lines)
         /\ \A i \in 1..Len(lines) : /\ Identity(new[i]) = Identity(lines[i])
                                     /\ lines[i].outcome # "pending" => new[i] = lines[i]
<1>1. lines \in Seq(SoundLine) /\ Len(lines) \in Nat /\ DOMAIN lines = 1..Len(lines)
  BY LenProperties DEF Lines
<1>2. new = [i \in 1..Len(lines) |-> Settled(s, lines[i])]
  BY <1>1 DEF Rewritten
<1>3. ASSUME NEW i \in 1..Len(lines)
      PROVE  /\ new[i] \in SoundLine
             /\ Identity(new[i]) = Identity(lines[i])
             /\ lines[i].outcome # "pending" => new[i] = lines[i]
  <2>1. PICK e : e = lines[i]
    OBVIOUS
  <2>2. e \in SoundLine
    BY <1>1, <2>1, ElementOfSeq
  <2>3. e \in Line /\ e.at <= Through(e.sym) /\ Earned(e)
    BY <2>2 DEF SoundLine
  <2>4. new[i] = Settled(s, e)
    BY <1>2, <2>1
  <2>5. PICK d : d = new[i]
    OBVIOUS
  <2>6. /\ d \in Line /\ Earned(d) /\ Identity(d) = Identity(e) /\ d.at = e.at /\ d.sym = e.sym
        /\ ~Ripe(s, e) => d = e
    BY <2>3, <2>4, <2>5, SettledSound
  <2>7. e.outcome # "pending" => ~Ripe(s, e)
    BY DEF Ripe
  <2>8. d \in SoundLine
    BY <2>3, <2>6 DEF SoundLine
  <2> QED
    BY <2>1, <2>5, <2>6, <2>7, <2>8
<1>4. \A i \in 1..Len(lines) : new[i] \in SoundLine
  BY <1>3
<1>5. new \in [1..Len(lines) -> SoundLine]
  BY <1>2, <1>4
<1>6. new \in Seq(SoundLine) /\ Len(new) = Len(lines)
  BY <1>1, <1>5
<1> QED
  BY <1>1, <1>3, <1>6 DEF Lines

\* A rewritten log holds what the log held.
LEMMA RewriteHolds ==
  ASSUME PrintTypes, KnownInv, NEW s \in Symbols, Lines(tradeLog), NEW new,
         new = Rewritten(s, tradeLog)
  PROVE  Ids(new) \subseteq Ids(tradeLog) /\ (Has(tradeLog) => Has(new))
<1>1. /\ Len(new) = Len(tradeLog)
      /\ \A i \in 1..Len(tradeLog) : /\ Identity(new[i]) = Identity(tradeLog[i])
                                     /\ tradeLog[i].outcome # "pending" => new[i] = tradeLog[i]
  BY RewriteSound
<1>2. Ids(new) \subseteq Ids(tradeLog)
  BY <1>1 DEF Ids
<1>3. ASSUME NEW p, Once(tradeLog, p) PROVE Once(new, p)
  BY <1>1, <1>3 DEF Once
<1>4. ASSUME NEW e \in judged, NEW i \in 1..Len(tradeLog), tradeLog[i] = e PROVE new[i] = e
  BY <1>1, <1>4 DEF KnownInv
<1>5. Has(tradeLog) => Has(new)
  BY <1>1, <1>3, <1>4 DEF Has, Holding
<1> QED
  BY <1>2, <1>5

\* reads the lines and judges them,
LEMMA ReadKeeps ==
  ASSUME TextInv, NEW s \in Symbols, ReadLog(s) PROVE TextInv'
<1>0. PrintTypes /\ LogLines /\ KnownInv /\ TextsInv /\ ExposedInv
  BY DEF TextInv
<1> DEFINE due == cut = "nowhere" /\ \E i \in DOMAIN tradeLog : Ripe(s, tradeLog[i])
<1>1. PICK new : new = Rewritten(s, tradeLog)
  OBVIOUS
<1>2. /\ handler[s].pc = "read" /\ UNCHANGED <<bars, tradeLog, printed, judged>>
      /\ handler' = [handler EXCEPT ![s].pc = IF due THEN "write" ELSE "print",
                                    ![s].lines = IF due THEN new ELSE <<>>]
      /\ exposed' = IF due /\ (\E t \in Symbols : Saving(t)) THEN exposed \cup printed ELSE exposed
  BY <1>1 DEF ReadLog
<1> HIDE DEF due
<1>3. PICK to : to = [handler[s] EXCEPT !.pc = IF due THEN "write" ELSE "print",
                                        !.lines = IF due THEN new ELSE <<>>]
  OBVIOUS
<1>4. /\ Lines(tradeLog) /\ tradeLog \in Seq(SoundLine)
  BY <1>0 DEF LogLines, Lines
<1>5. Lines(new) /\ Ids(new) \subseteq Ids(tradeLog) /\ (Has(tradeLog) => Has(new))
  BY <1>0, <1>1, <1>4, RewriteSound, RewriteHolds
<1>6. new \in Seq(Line)
  <2>1. new \in Seq(SoundLine) /\ SoundLine \subseteq Line
    BY <1>5 DEF Lines, SoundLine
  <2> QED
    BY <2>1, SeqMonotonic
<1>7. /\ to \in Handlers /\ (due => to.pc = "write" /\ to.lines = new)
      /\ (~due => to.pc = "print" /\ to.lines = <<>>)
  <2>1. handler[s] \in Handlers /\ <<>> \in Seq(Line)
    BY <1>0, EmptySeq DEF PrintTypes
  <2> QED
    BY <1>3, <1>6, <2>1 DEF Handlers, HandlerPcs
<1>8. handler' = [handler EXCEPT ![s] = to]
  BY <1>2, <1>3
<1>9. /\ PrintTypes' /\ SoundLine \subseteq SoundLine'
      /\ handler'[s] = to /\ \A t \in Symbols : t # s => handler'[t] = handler[t]
  <2>1. handler[s].pc # "idle" /\ bars' = bars
    BY <1>2
  <2> QED
    BY <1>0, <1>7, <1>8, <2>1, HandlerMoves
<1>10. LogLines'
  <2>1. tradeLog' \in Seq(SoundLine')
    BY <1>2, <1>4, <1>9, SeqMonotonic
  <2>2. new \in Seq(SoundLine) /\ <<>> \in Seq(SoundLine')
    BY <1>5, EmptySeq DEF Lines
  <2>3. new \in Seq(SoundLine')
    BY <1>9, <2>2, SeqMonotonic
  <2>4. \A t \in Symbols : handler'[t].lines = handler[t].lines
                           \/ handler'[t].lines \in Seq(SoundLine')
    BY <1>7, <1>9, <2>2, <2>3
  <2> QED
    BY <1>0, <1>9, <2>1, <2>4, LinesMove
<1>11. CASE ~due
  <2>1. \A t \in Symbols : \/ handler'[t] = handler[t]
                           \/ /\ handler'[t].pc \in {"read", "print"} /\ handler'[t].lines = <<>>
                              /\ ~Saving(t)
    BY <1>2, <1>7, <1>9, <1>11 DEF Saving
  <2>2. UNCHANGED <<tradeLog, printed, judged, exposed>>
    BY <1>2, <1>11
  <2>3. KnownInv' /\ TextsInv' /\ ExposedInv'
    BY <1>0, <2>1, <2>2, QuietStep
  <2> QED
    BY <1>9, <1>10, <2>3 DEF TextInv
<1>12. CASE due
  <2>1. KnownInv'
    BY <1>0, <1>2, <1>5, <1>7, <1>9, <1>12 DEF KnownInv
  <2>2. \A t \in Symbols : Saving(t)' <=> Saving(t)
    BY <1>2, <1>7, <1>9, <1>12 DEF Saving
  <2>3. CASE \E t \in Symbols : Saving(t)
    <3>1. printed' \subseteq exposed'
      BY <1>2, <1>12, <2>3
    <3>2. TextsInv' /\ ExposedInv'
      BY <2>1, <3>1, AllExposed
    <3> QED
      BY <1>9, <1>10, <2>1, <3>2 DEF TextInv
  <2>4. CASE FileAtRest
    <3>1. exposed' = exposed /\ FileAtRest'
      BY <1>2, <2>2, <2>4 DEF FileAtRest
    <3>2. Has(tradeLog) /\ Has(new)
      BY <1>0, <1>5, <2>4 DEF TextsInv
    <3>3. \A t \in Symbols \ {s} : Rewriting(t)' => Rewriting(t) /\ handler'[t].lines = handler[t].lines
      BY <1>9 DEF Rewriting
    <3>4. ASSUME NEW t \in Symbols, Rewriting(t)' PROVE Has(handler[t].lines)'
      <4>1. CASE t = s
        BY <1>2, <1>7, <1>9, <1>12, <3>1, <3>2, <4>1 DEF Has
      <4>2. CASE t # s
        BY <1>0, <1>2, <3>1, <3>3, <3>4, <4>2 DEF Has, TextsInv
      <4> QED
        BY <4>1, <4>2
    <3>5. Has(tradeLog)'
      BY <1>2, <3>1, <3>2 DEF Has
    <3>6. TextsInv'
      BY <3>4, <3>5 DEF TextsInv
    <3>7. ExposedInv'
      BY <2>2, <2>4, <3>1 DEF ExposedInv, FileAtRest
    <3> QED
      BY <1>9, <1>10, <2>1, <3>6, <3>7 DEF TextInv
  <2> QED
    BY <2>3, <2>4 DEF FileAtRest
<1> QED
  BY <1>11, <1>12

\* empties the file,
LEMMA EmptyKeeps ==
  ASSUME TextInv, NEW s \in Symbols, EmptyLog(s) PROVE TextInv'
<1>0. PrintTypes /\ LogLines /\ KnownInv /\ TextsInv /\ ExposedInv
  BY DEF TextInv
<1>1. /\ handler[s].pc = "write" /\ UNCHANGED <<bars, printed, judged>> /\ tradeLog' = <<>>
      /\ handler' = [handler EXCEPT ![s].pc = "saving"]
      /\ exposed' = IF \E t \in Symbols : Saving(t) THEN exposed \cup printed ELSE exposed
  BY DEF EmptyLog
<1>2. PICK to : to = [handler[s] EXCEPT !.pc = "saving"]
  OBVIOUS
<1>3. to \in Handlers /\ to.pc = "saving" /\ to.lines = handler[s].lines
  <2>1. handler[s] \in Handlers
    BY <1>0 DEF PrintTypes
  <2> QED
    BY <1>2, <2>1 DEF Handlers, HandlerPcs
<1>4. handler' = [handler EXCEPT ![s] = to]
  BY <1>1, <1>2
<1>5. /\ PrintTypes' /\ SoundLine \subseteq SoundLine'
      /\ handler'[s] = to /\ \A t \in Symbols : t # s => handler'[t] = handler[t]
  <2>1. handler[s].pc # "idle" /\ bars' = bars
    BY <1>1
  <2> QED
    BY <1>0, <1>3, <1>4, <2>1, HandlerMoves
<1>6. \A t \in Symbols : handler'[t].lines = handler[t].lines
  BY <1>3, <1>5
<1>7. LogLines'
  <2>1. tradeLog' \in Seq(SoundLine')
    BY <1>1, EmptySeq
  <2> QED
    BY <1>0, <1>5, <1>6, <2>1, LinesMove
<1>8. KnownInv'
  BY <1>0, <1>1, <1>6, EmptyLines DEF KnownInv
<1>9. CASE \E t \in Symbols : Saving(t)
  <2>1. printed' \subseteq exposed'
    BY <1>1, <1>9
  <2>2. TextsInv' /\ ExposedInv'
    BY <1>8, <2>1, AllExposed
  <2> QED
    BY <1>5, <1>7, <1>8, <2>2 DEF TextInv
<1>10. CASE FileAtRest
  <2>1. exposed' = exposed
    BY <1>1, <1>10 DEF FileAtRest
  <2>2. ~FileAtRest' /\ \A t \in Symbols : Saving(t)' => t = s
    BY <1>3, <1>5, <1>10 DEF FileAtRest, Saving
  <2>3. \A t \in Symbols : Rewriting(t)' => Rewriting(t)
    BY <1>1, <1>5 DEF Rewriting
  <2>4. TextsInv'
    BY <1>0, <1>1, <1>6, <2>1, <2>2, <2>3 DEF TextsInv, Has
  <2>5. ExposedInv'
    BY <1>1, <2>2, EmptyLines DEF ExposedInv
  <2> QED
    BY <1>5, <1>7, <1>8, <2>4, <2>5 DEF TextInv
<1> QED
  BY <1>9, <1>10 DEF FileAtRest

\* What is left of the file behind a text.
LEMMA TailIs ==
  ASSUME NEW S, tradeLog \in Seq(S), NEW tail \in Tails
  PROVE  tail \in Seq(S) /\ Ids(tail) \subseteq Ids(tradeLog)
<1>1. Len(tradeLog) \in Nat
  BY LenProperties
<1>2. PICK k \in (2..(Len(tradeLog) + 1)) \cup {Len(tradeLog) + 1} :
         tail = SubSeq(tradeLog, k, Len(tradeLog))
  BY DEF Tails
<1>3. k \in Nat \ {0} /\ Len(tradeLog) \in Int /\ Len(tradeLog) <= Len(tradeLog)
  BY <1>1
<1> QED
  BY <1>2, <1>3, PartIs

\* writes its text over it,
LEMMA SaveKeeps ==
  ASSUME TextInv, NEW s \in Symbols, SaveLog(s) PROVE TextInv'
<1>0. PrintTypes /\ LogLines /\ KnownInv /\ TextsInv /\ ExposedInv
  BY DEF TextInv
<1>1. PICK lines, settled : lines = handler[s].lines /\ settled = {e \in Range(lines) : e.outcome # "pending"}
  OBVIOUS
<1>2. PICK tail \in Tails : tradeLog' = lines \o tail
  BY <1>1 DEF SaveLog
<1>3. /\ Saving(s) /\ UNCHANGED <<bars, printed>> /\ judged' = judged \cup settled
      /\ exposed' = exposed \cup (IF \E t \in Symbols \ {s} : Rewriting(t)
                                  THEN {Identity(e) : e \in settled \ judged} ELSE {})
      /\ handler' = [handler EXCEPT ![s].pc = "print", ![s].lines = <<>>]
  BY <1>1 DEF SaveLog
<1>4. PICK to : to = [handler[s] EXCEPT !.pc = "print", !.lines = <<>>]
  OBVIOUS
<1>5. to \in Handlers /\ to.pc = "print" /\ to.lines = <<>>
  <2>1. handler[s] \in Handlers /\ <<>> \in Seq(Line)
    BY <1>0, EmptySeq DEF PrintTypes
  <2> QED
    BY <1>4, <2>1 DEF Handlers, HandlerPcs
<1>6. handler' = [handler EXCEPT ![s] = to]
  BY <1>3, <1>4
<1>7. /\ PrintTypes' /\ SoundLine \subseteq SoundLine'
      /\ handler'[s] = to /\ \A t \in Symbols : t # s => handler'[t] = handler[t]
  <2>1. handler[s].pc # "idle" /\ bars' = bars
    BY <1>3 DEF Saving
  <2> QED
    BY <1>0, <1>5, <1>6, <2>1, HandlerMoves
<1>8. lines \in Seq(SoundLine) /\ tradeLog \in Seq(SoundLine)
  BY <1>0, <1>1 DEF LogLines, Lines
<1>9. tail \in Seq(SoundLine) /\ Ids(tail) \subseteq Ids(tradeLog)
  BY <1>8, TailIs
<1>10. PICK log : log = lines \o tail
  OBVIOUS
<1>11. log \in Seq(SoundLine) /\ Ids(log) \subseteq Ids(lines) \cup Ids(tail)
  BY <1>8, <1>9, <1>10, JoinIs
<1>12. LogLines'
  <2>1. tradeLog' \in Seq(SoundLine')
    BY <1>2, <1>7, <1>10, <1>11, SeqMonotonic
  <2>2. <<>> \in Seq(SoundLine')
    BY EmptySeq
  <2>3. \A t \in Symbols : handler'[t].lines = handler[t].lines
                           \/ handler'[t].lines \in Seq(SoundLine')
    BY <1>5, <1>7, <2>2
  <2> QED
    BY <1>0, <1>7, <2>1, <2>3, LinesMove
<1>13. DOMAIN lines = 1..Len(lines) /\ settled = {e \in {lines[i] : i \in 1..Len(lines)} : e.outcome # "pending"}
  <2>1. DOMAIN lines = 1..Len(lines)
    BY <1>8, LenProperties
  <2> QED
    BY <1>1, <2>1 DEF Range
<1>14. \A e \in settled : Identity(e) \in Ids(lines) /\ e.outcome # "pending"
                          /\ \E i \in 1..Len(lines) : lines[i] = e
  BY <1>13 DEF Ids
<1>15. Ids(lines) \subseteq printed /\ Ids(tradeLog) \subseteq printed
  BY <1>0, <1>1 DEF KnownInv
<1>16. KnownInv'
  <2>1. \A e \in judged' : Identity(e) \in printed' /\ e.outcome # "pending"
    BY <1>0, <1>3, <1>14, <1>15 DEF KnownInv
  <2>2. Ids(tradeLog') \subseteq printed'
    BY <1>2, <1>3, <1>9, <1>10, <1>11, <1>15
  <2>3. Ids(<<>>) = {}
    BY EmptyLines
  <2>4. \A t \in Symbols : Ids(handler'[t].lines) \subseteq printed'
    <3>1. \A t \in Symbols : Ids(handler[t].lines) \subseteq printed
      BY <1>0 DEF KnownInv
    <3> QED
      BY <1>3, <1>5, <1>7, <2>3, <3>1
  <2> QED
    BY <2>1, <2>2, <2>4 DEF KnownInv, Ids
<1>17. Has(lines) /\ Ids(tradeLog) \subseteq exposed
  <2>1. Rewriting(s) /\ ~FileAtRest
    BY <1>3 DEF Saving, Rewriting, FileAtRest
  <2> QED
    BY <1>0, <1>1, <2>1 DEF TextsInv, ExposedInv
<1>18. Holding(lines, printed', judged', exposed')
  BY <1>3, <1>14, <1>17 DEF Has, Holding
<1>19. \A p \in printed' \ exposed' : p \notin Ids(tail)
  BY <1>3, <1>9, <1>17
<1>20. Holding(log, printed', judged', exposed')
  BY <1>8, <1>9, <1>10, <1>18, <1>19, HoldingJoins
<1>21. ASSUME NEW t \in Symbols, Rewriting(t)' PROVE Has(handler[t].lines)'
  <2>1. t # s /\ handler'[t] = handler[t] /\ Rewriting(t)
    BY <1>5, <1>7, <1>21 DEF Rewriting
  <2>2. Holding(handler[t].lines, printed, judged, exposed)
    BY <1>0, <2>1 DEF TextsInv, Has
  <2>3. \A e \in judged' : e \in judged \/ Identity(e) \in exposed'
    BY <1>3, <2>1
  <2>4. printed' \ exposed' \subseteq printed \ exposed /\ exposed \subseteq exposed'
    BY <1>3
  <2>5. Holding(handler[t].lines, printed', judged', exposed')
    BY <2>2, <2>3, <2>4, HoldingGrows
  <2> QED
    BY <2>1, <2>5 DEF Has
<1>22. TextsInv'
  BY <1>2, <1>10, <1>20, <1>21 DEF TextsInv, Has
<1>23. ExposedInv'
  <2>1. \A t \in Symbols : Saving(t)' => Saving(t) /\ t # s
    BY <1>5, <1>7 DEF Saving
  <2>2. exposed \subseteq exposed' /\ printed' = printed
    BY <1>3
  <2>3. ASSUME ~FileAtRest' PROVE Ids(tradeLog') \subseteq exposed'
    <3>1. PICK t \in Symbols : Saving(t)'
      BY <2>3 DEF FileAtRest
    <3>2. Saving(t) /\ t # s
      BY <2>1, <3>1
    <3>3. printed \subseteq exposed
      BY <1>0, <1>3, <3>2 DEF ExposedInv
    <3>4. Ids(tradeLog') \subseteq printed
      BY <1>2, <1>9, <1>10, <1>11, <1>15
    <3> QED
      BY <2>2, <3>3, <3>4
  <2>4. \A r, t \in Symbols : Saving(r)' /\ Saving(t)' /\ r # t => printed' \subseteq exposed'
    BY <1>0, <2>1, <2>2 DEF ExposedInv
  <2> QED
    BY <2>3, <2>4 DEF ExposedInv, Ids
<1> QED
  BY <1>7, <1>12, <1>16, <1>22, <1>23 DEF TextInv

\* The lines of the prints of a bar are new, each is pending, and each is once in the list.
LEMMA FoundListed ==
  ASSUME PrintTypes, NEW s \in Symbols, handler[s].pc = "print", NEW found, found = PrintsFound(s),
         NEW more, more = SetToSeq(found)
  PROVE  /\ more \in Seq(found) /\ Len(more) = Cardinality(found) /\ Len(more) \in Nat
         /\ \A e \in found : /\ e \in Line /\ e.at = Len(bars[s]) /\ e.sym = s
                             /\ e.outcome = "pending"
         /\ Ids(more) \subseteq {Identity(e) : e \in found}
         /\ \A e \in found : Once(more, Identity(e))
<1>1. /\ handler[s].prints \in SUBSET Sides /\ Len(bars[s]) >= 1 /\ Len(bars[s]) \in Nat
  BY LenProperties DEF PrintTypes, Handlers
<1>2. IsFiniteSet(handler[s].prints)
  <2>1. IsFiniteSet(Sides)
    BY PairFinite DEF Sides
  <2> QED
    BY <1>1, <2>1, FS_Subset
<1>3. IsFiniteSet(found)
  <2> DEFINE f == [by \in Sides |-> Trade(s, Len(bars[s]), by)]
             T == {f[by] : by \in handler[s].prints}
  <2>1. found = T
    BY <1>1 DEF PrintsFound
  <2> HIDE DEF f
  <2>2. IsFiniteSet(T)
    BY <1>2, ValuesFinite
  <2> QED
    BY <2>1, <2>2
<1>4. /\ more \in [1..Cardinality(found) -> found] /\ Cardinality(found) \in Nat
      /\ \A i, j \in 1..Cardinality(found) : more[i] = more[j] => i = j
      /\ \A x \in found : \E i \in 1..Cardinality(found) : more[i] = x
  BY <1>3, SetListed
<1>5. \A e \in found : /\ e \in Line /\ e.at = Len(bars[s]) /\ e.sym = s /\ e.outcome = "pending"
                       /\ e = Trade(s, Len(bars[s]), e.by)
  BY <1>1 DEF PrintsFound, Trade, Line, Verdict
<1>6. Len(more) = Cardinality(found) /\ more \in Seq(found)
  BY <1>4
<1>7. \A i \in 1..Len(more) : more[i] \in found
  BY <1>4, <1>6
<1>8. \A e, d \in found : Identity(e) = Identity(d) => e = d
  BY <1>5 DEF Identity
<1>9. Ids(more) \subseteq {Identity(e) : e \in found}
  BY <1>7 DEF Ids
<1>10. ASSUME NEW e \in found PROVE Once(more, Identity(e))
  <2>1. PICK i \in 1..Len(more) : more[i] = e
    BY <1>4, <1>6
  <2>2. ASSUME NEW j \in 1..Len(more), Identity(more[j]) = Identity(e) PROVE j = i
    BY <1>4, <1>6, <1>7, <1>8, <2>1, <2>2
  <2> QED
    BY <2>1, <2>2 DEF Once
<1> QED
  BY <1>4, <1>5, <1>6, <1>9, <1>10

\* Lines that are appended stand behind the log, all of them unless it was cut at its end.
LEMMA LogWithIs ==
  ASSUME NEW S, tradeLog \in Seq(S), NEW more \in Seq(S)
  PROVE  \E piece \in Seq(S) : /\ LogWith(more) = tradeLog \o piece
                               /\ Ids(piece) \subseteq Ids(more)
                               /\ cut # "end" => piece = more
<1>1. CASE cut # "end"
  BY <1>1 DEF LogWith
<1>2. CASE cut = "end"
  <2>1. PICK piece : piece = SubSeq(more, 2, Len(more))
    OBVIOUS
  <2>2. Len(more) \in Int /\ Len(more) <= Len(more)
    BY LenProperties
  <2>3. piece \in Seq(S) /\ Ids(piece) \subseteq Ids(more)
    BY <2>1, <2>2, PartIs
  <2>4. LogWith(more) = tradeLog \o piece
    BY <1>2, <2>1 DEF LogWith
  <2> QED
    BY <1>2, <2>3, <2>4
<1> QED
  BY <1>1, <1>2

\* A print of the bar a handler is at is in no text yet.
LEMMA FoundIsNew ==
  ASSUME PrintTypes, Lines(tradeLog), NEW s \in Symbols, handler[s].pc = "print",
         NEW d, d.sym = s, d.at = Len(bars[s])
  PROVE  Identity(d) \notin Ids(tradeLog)
<1> SUFFICES ASSUME NEW i \in 1..Len(tradeLog), Identity(tradeLog[i]) = Identity(d) PROVE FALSE
  BY DEF Ids
<1>1. PICK e : e = tradeLog[i]
  OBVIOUS
<1>2. e \in SoundLine
  BY <1>1, ElementOfSeq DEF Lines
<1>3. e \in Line /\ e.at <= Through(e.sym)
  BY <1>2 DEF SoundLine
<1>4. e.sym = s /\ e.at = Len(bars[s])
  BY <1>1 DEF Identity
<1>5. Through(s) = Len(bars[s]) - 1 /\ Len(bars[s]) \in Nat
  BY LenProperties DEF Through, PrintTypes
<1> QED
  BY <1>3, <1>4, <1>5

\* and appends the prints of its bar.
LEMMA PrintKeeps ==
  ASSUME TextInv, NEW s \in Symbols, LogPrints(s) PROVE TextInv'
<1>0. PrintTypes /\ LogLines /\ KnownInv /\ TextsInv /\ ExposedInv
  BY DEF TextInv
<1>1. PICK found, more, ids : /\ found = PrintsFound(s) /\ more = SetToSeq(found)
                              /\ ids = {Identity(e) : e \in found}
  OBVIOUS
<1>2. /\ handler[s].pc = "print" /\ UNCHANGED <<bars, judged>>
      /\ tradeLog' = LogWith(more) /\ printed' = printed \cup ids
      /\ exposed' = exposed \cup (IF cut = "end" \/ \E t \in Symbols : Rewriting(t) THEN ids ELSE {})
      /\ handler' = [handler EXCEPT ![s] = IdleHandler]
  BY <1>1 DEF LogPrints
<1>3. /\ more \in Seq(found)
      /\ \A e \in found : /\ e \in Line /\ e.at = Len(bars[s]) /\ e.sym = s
                          /\ e.outcome = "pending"
      /\ Ids(more) \subseteq ids
      /\ \A e \in found : Once(more, Identity(e))
  BY <1>0, <1>1, <1>2, FoundListed
<1>4. /\ PrintTypes' /\ SoundLine \subseteq SoundLine'
      /\ handler'[s] = IdleHandler /\ \A t \in Symbols : t # s => handler'[t] = handler[t]
  <2>1. handler[s].pc # "idle" /\ bars' = bars
    BY <1>2
  <2> QED
    BY <1>0, <1>2, <2>1, IdleTyped, HandlerMoves
<1>5. Through(s)' = Len(bars[s]) /\ Len(bars[s]) \in Nat
  <2>1. Len(bars[s]) \in Nat
    BY <1>0, LenProperties DEF PrintTypes
  <2> QED
    BY <1>2, <1>4, <2>1, IdleTyped DEF Through
<1>6. found \subseteq SoundLine'
  <2>1. ASSUME NEW e \in found PROVE e \in Line /\ e.at <= Through(e.sym)' /\ Earned(e)'
    BY <1>3, <1>5 DEF Earned
  <2> QED
    BY <2>1 DEF SoundLine, Line, Verdict
<1>7. more \in Seq(SoundLine') /\ tradeLog \in Seq(SoundLine')
  <2>1. tradeLog \in Seq(SoundLine)
    BY <1>0 DEF LogLines, Lines
  <2> QED
    BY <1>3, <1>4, <1>6, <2>1, SeqMonotonic
<1>8. PICK piece \in Seq(SoundLine') : /\ LogWith(more) = tradeLog \o piece
                                       /\ Ids(piece) \subseteq Ids(more)
                                       /\ cut # "end" => piece = more
  BY <1>7, LogWithIs
<1>9. PICK log : log = tradeLog \o piece
  OBVIOUS
<1>10. /\ log \in Seq(SoundLine') /\ Ids(log) \subseteq Ids(tradeLog) \cup Ids(piece)
  BY <1>7, <1>8, <1>9, JoinIs
<1>11. tradeLog' = log
  BY <1>2, <1>8, <1>9
<1>12. LogLines'
  <2>1. <<>> \in Seq(SoundLine')
    BY EmptySeq
  <2>2. \A t \in Symbols : handler'[t].lines = handler[t].lines
                           \/ handler'[t].lines \in Seq(SoundLine')
    BY <1>4, <2>1, IdleTyped
  <2> QED
    BY <1>0, <1>4, <1>10, <1>11, <2>2, LinesMove
<1>13. KnownInv'
  <2>1. \A e \in judged' : Identity(e) \in printed' /\ e.outcome # "pending"
    BY <1>0, <1>2 DEF KnownInv
  <2>2. Ids(tradeLog') \subseteq printed'
    BY <1>0, <1>2, <1>3, <1>8, <1>10, <1>11 DEF KnownInv
  <2>3. Ids(<<>>) = {}
    BY EmptyLines
  <2>4. \A t \in Symbols : Ids(handler'[t].lines) \subseteq printed'
    <3>1. \A t \in Symbols : Ids(handler[t].lines) \subseteq printed
      BY <1>0 DEF KnownInv
    <3> QED
      BY <1>2, <1>4, <2>3, <3>1, IdleTyped
  <2> QED
    BY <2>1, <2>2, <2>4 DEF KnownInv, Ids
<1>14. \A t \in Symbols : /\ Rewriting(t)' => t # s /\ Rewriting(t) /\ handler'[t] = handler[t]
                          /\ Saving(t)' <=> Saving(t)
                          /\ Saving(t) => Rewriting(t)
  BY <1>2, <1>4, IdleTyped DEF Rewriting, Saving
<1>15. FileAtRest' <=> FileAtRest
  BY <1>14 DEF FileAtRest
<1>16. CASE cut = "end" \/ \E t \in Symbols : Rewriting(t)
  <2>1. exposed' = exposed \cup ids
    BY <1>2, <1>16
  <2>2. printed' \ exposed' \subseteq printed \ exposed /\ exposed \subseteq exposed'
    BY <1>2, <2>1
  <2>3. \A e \in judged' : e \in judged \/ Identity(e) \in exposed'
    BY <1>2
  <2>4. ASSUME FileAtRest' PROVE Has(tradeLog)'
    <3>1. Holding(tradeLog, printed, judged, exposed)
      BY <1>0, <1>15, <2>4 DEF TextsInv, Has
    <3>2. Holding(tradeLog, printed', judged', exposed')
      BY <2>2, <2>3, <3>1, HoldingGrows
    <3>3. \A p \in printed' \ exposed' : p \notin Ids(piece)
      BY <1>3, <1>8, <2>1
    <3>4. Holding(log, printed', judged', exposed')
      BY <1>7, <1>8, <1>9, <3>2, <3>3, HoldingJoins
    <3> QED
      BY <1>11, <3>4 DEF Has
  <2>5. ASSUME NEW t \in Symbols, Rewriting(t)' PROVE Has(handler[t].lines)'
    <3>1. Rewriting(t) /\ handler'[t] = handler[t]
      BY <1>14, <2>5
    <3>2. Holding(handler[t].lines, printed, judged, exposed)
      BY <1>0, <3>1 DEF TextsInv, Has
    <3>3. Holding(handler[t].lines, printed', judged', exposed')
      BY <2>2, <2>3, <3>2, HoldingGrows
    <3> QED
      BY <3>1, <3>3 DEF Has
  <2>6. TextsInv'
    BY <2>4, <2>5 DEF TextsInv
  <2>7. ~FileAtRest' => Ids(tradeLog') \subseteq exposed'
    BY <1>0, <1>3, <1>8, <1>10, <1>11, <1>15, <2>1 DEF ExposedInv
  <2>8. \A r, t \in Symbols : Saving(r)' /\ Saving(t)' /\ r # t => printed' \subseteq exposed'
    BY <1>0, <1>2, <1>14, <2>1 DEF ExposedInv
  <2>9. ExposedInv'
    BY <2>7, <2>8 DEF ExposedInv, Ids
  <2> QED
    BY <1>4, <1>12, <1>13, <2>6, <2>9 DEF TextInv
<1>17. CASE cut # "end" /\ \A t \in Symbols : ~Rewriting(t)
  <2>1. exposed' = exposed /\ piece = more /\ FileAtRest /\ \A t \in Symbols : ~Saving(t)
    BY <1>2, <1>8, <1>14, <1>17 DEF FileAtRest
  <2>2. Holding(tradeLog, printed, judged, exposed)
    BY <1>0, <2>1 DEF TextsInv, Has
  <2>3. \A p \in ids : p \notin Ids(tradeLog)
    <3>1. Lines(tradeLog)
      BY <1>0 DEF LogLines
    <3> QED
      BY <1>0, <1>1, <1>2, <1>3, <3>1, FoundIsNew
  <2>4. \A p \in printed \ exposed : p \notin Ids(piece)
    <3>1. ASSUME NEW p \in printed \ exposed PROVE p \notin Ids(piece)
      <4>1. p \in Ids(tradeLog)
        BY <2>2 DEF Holding, Once, Ids
      <4> QED
        BY <1>3, <2>1, <2>3, <4>1
    <3> QED
      BY <3>1
  <2>5. Holding(log, printed, judged, exposed)
    BY <1>7, <1>8, <1>9, <2>2, <2>4, HoldingJoins
  <2>6. ASSUME NEW p \in ids PROVE Once(log, p)
    <3>1. Once(piece, p) /\ p \notin Ids(tradeLog)
      BY <1>1, <1>3, <2>1, <2>3
    <3> QED
      BY <1>7, <1>8, <1>9, <3>1, OnceInSecond
  <2>7. Holding(log, printed', judged', exposed')
    BY <1>2, <2>1, <2>5, <2>6 DEF Holding
  <2>8. TextsInv'
    BY <1>11, <1>14, <1>17, <2>7 DEF TextsInv, Has
  <2>9. ExposedInv'
    BY <1>14, <2>1 DEF ExposedInv, FileAtRest
  <2> QED
    BY <1>4, <1>12, <1>13, <2>8, <2>9 DEF TextInv
<1> QED
  BY <1>16, <1>17

\* When the server dies no handler holds a text, and nobody writes.
LEMMA DiesMove ==
  ASSUME TextInv, Dies, printed \subseteq printed',
         tradeLog' \in Seq(SoundLine'), Ids(tradeLog') \subseteq printed',
         Holding(tradeLog', printed', judged', exposed')
  PROVE  TextInv'
<1>0. PrintTypes /\ LogLines /\ KnownInv /\ TextsInv /\ ExposedInv
  BY DEF TextInv
<1>1. handler' = [t \in Symbols |-> IdleHandler] /\ UNCHANGED <<bars, judged>>
  BY DEF Dies
<1>2. \A t \in Symbols : handler'[t] = IdleHandler /\ handler'[t].pc = "idle" /\ handler'[t].lines = <<>>
  BY <1>1, IdleTyped
<1>3. handler' \in [Symbols -> Handlers]
  BY <1>1, IdleTyped
<1>4. PrintTypes' /\ SoundLine \subseteq SoundLine'
  BY <1>0, <1>1, <1>2, <1>3, HandlersMove
<1>5. LogLines'
  <2>1. <<>> \in Seq(SoundLine')
    BY EmptySeq
  <2>2. \A t \in Symbols : handler'[t].lines \in Seq(SoundLine')
    BY <1>2, <2>1
  <2> QED
    BY <1>0, <1>4, <2>2, LinesMove
<1>6. KnownInv'
  <2>1. \A t \in Symbols : Ids(handler'[t].lines) \subseteq printed'
    <3>1. Ids(<<>>) = {}
      BY EmptyLines
    <3> QED
      BY <1>2, <3>1
  <2>2. \A e \in judged' : Identity(e) \in printed' /\ e.outcome # "pending"
    BY <1>0, <1>1 DEF KnownInv
  <2> QED
    BY <2>1, <2>2 DEF KnownInv, Ids
<1>7. \A t \in Symbols : ~Rewriting(t)' /\ ~Saving(t)'
  BY <1>2 DEF Rewriting, Saving
<1>8. TextsInv'
  BY <1>7 DEF TextsInv, Has
<1>9. ExposedInv'
  BY <1>7 DEF ExposedInv, FileAtRest
<1> QED
  BY <1>4, <1>5, <1>6, <1>8, <1>9 DEF TextInv

\* Where it dies inside a writing everything is exposed,
LEMMA DiesSaved ==
  ASSUME TextInv, Dies, NEW ids, printed' = printed \cup ids, exposed' = exposed \cup AtRisk \cup ids,
         \E t \in Symbols : Saving(t)
  PROVE  Holding(tradeLog', printed', judged', exposed')
<1>1. \A e \in judged' : Identity(e) \in printed
  BY DEF TextInv, KnownInv, Dies
<1>2. printed' \subseteq exposed'
  BY DEF AtRisk
<1> QED
  BY <1>1, <1>2 DEF Holding

\* and elsewhere the prints that were being appended are.
LEMMA DiesResting ==
  ASSUME TextInv, Dies, NEW ids, printed' = printed \cup ids, exposed' = exposed \cup AtRisk \cup ids,
         NEW S, tradeLog \in Seq(S), NEW piece \in Seq(S), Ids(piece) \subseteq ids, FileAtRest
  PROVE  Holding(tradeLog \o piece, printed', judged', exposed')
<1>1. Holding(tradeLog, printed, judged, exposed)
  BY DEF TextInv, TextsInv, Has
<1>2. Holding(tradeLog, printed', judged', exposed')
  <2>1. /\ printed' \ exposed' \subseteq printed \ exposed /\ exposed \subseteq exposed'
        /\ \A e \in judged' : e \in judged \/ Identity(e) \in exposed'
    BY DEF Dies
  <2> QED
    BY <1>1, <2>1, HoldingGrows
<1>3. \A p \in printed' \ exposed' : p \notin Ids(piece)
  OBVIOUS
<1> QED
  BY <1>2, <1>3, HoldingJoins

\* The lines are sound when the handlers are gone.
LEMMA DiesSound == ASSUME TextInv, Dies PROVE SoundLine \subseteq SoundLine'
<1>1. handler' = [t \in Symbols |-> IdleHandler] /\ bars' = bars
  BY DEF Dies
<1>2. /\ handler' \in [Symbols -> Handlers] /\ \A t \in Symbols : handler'[t].pc = "idle"
  BY <1>1, IdleTyped
<1> QED
  BY <1>1, <1>2, HandlersMove DEF TextInv

LEMMA DiesBetweenKeeps == ASSUME TextInv, DiesBetween PROVE TextInv'
<1>0. Dies /\ UNCHANGED <<tradeLog, printed>> /\ exposed' = exposed \cup AtRisk
  BY DEF DiesBetween
<1>1. tradeLog \in Seq(SoundLine) /\ Ids(tradeLog) \subseteq printed
  BY DEF TextInv, LogLines, Lines, KnownInv
<1>2. tradeLog \in Seq(SoundLine') /\ <<>> \in Seq(SoundLine')
  BY <1>0, <1>1, DiesSound, SeqMonotonic, EmptySeq
<1>3. PICK ids : ids = {}
  OBVIOUS
<1>4. printed' = printed \cup ids /\ exposed' = exposed \cup AtRisk \cup ids
  BY <1>0, <1>3
<1>5. Holding(tradeLog', printed', judged', exposed')
  <2>1. CASE \E t \in Symbols : Saving(t)
    BY <1>0, <1>4, <2>1, DiesSaved
  <2>2. CASE FileAtRest
    <3>1. Ids(<<>>) \subseteq ids
      BY EmptyLines
    <3>2. Holding(tradeLog \o <<>>, printed', judged', exposed')
      BY <1>0, <1>2, <1>4, <2>2, <3>1, DiesResting
    <3>3. tradeLog \o <<>> = tradeLog
      BY <1>1, ConcatEmptySeq
    <3> QED
      BY <1>0, <3>2, <3>3
  <2> QED
    BY <2>1, <2>2 DEF FileAtRest
<1> QED
  BY <1>0, <1>1, <1>2, <1>4, <1>5, DiesMove DEF Ids

LEMMA DiesSavingKeeps == ASSUME TextInv, NEW s \in Symbols, DiesSaving(s) PROVE TextInv'
<1>0. Dies /\ printed' = printed /\ exposed' = exposed \cup AtRisk /\ Saving(s)
  BY DEF DiesSaving
<1>1. PICK k \in 0..(Len(handler[s].lines) - 1), tail \in Tails :
         tradeLog' = SubSeq(handler[s].lines, 1, k) \o tail
  BY DEF DiesSaving
<1>2. PICK lines : lines = handler[s].lines
  OBVIOUS
<1>3. /\ tradeLog \in Seq(SoundLine) /\ Ids(tradeLog) \subseteq printed
      /\ lines \in Seq(SoundLine) /\ Ids(lines) \subseteq printed
  BY <1>2 DEF TextInv, LogLines, Lines, KnownInv
<1>4. tail \in Seq(SoundLine) /\ Ids(tail) \subseteq Ids(tradeLog)
  BY <1>3, TailIs
<1>5. PICK piece : piece = SubSeq(lines, 1, k)
  OBVIOUS
<1>6. piece \in Seq(SoundLine) /\ Ids(piece) \subseteq Ids(lines)
  <2>1. Len(lines) \in Nat
    BY <1>3, LenProperties
  <2>2. k \in Int /\ k <= Len(lines)
    BY <1>1, <1>2, <2>1
  <2> QED
    BY <1>3, <1>5, <2>2, PartIs
<1>7. PICK log : log = piece \o tail
  OBVIOUS
<1>8. log \in Seq(SoundLine) /\ Ids(log) \subseteq Ids(piece) \cup Ids(tail)
  BY <1>4, <1>6, <1>7, JoinIs
<1>9. tradeLog' = log
  BY <1>1, <1>2, <1>5, <1>7
<1>10. tradeLog' \in Seq(SoundLine')
  BY <1>0, <1>8, <1>9, DiesSound, SeqMonotonic
<1>11. PICK ids : ids = {}
  OBVIOUS
<1>12. printed' = printed \cup ids /\ exposed' = exposed \cup AtRisk \cup ids
  BY <1>0, <1>11
<1>13. Holding(tradeLog', printed', judged', exposed')
  BY <1>0, <1>12, DiesSaved
<1>14. Ids(tradeLog') \subseteq printed'
  BY <1>0, <1>3, <1>4, <1>6, <1>8, <1>9
<1> QED
  BY <1>0, <1>10, <1>13, <1>14, DiesMove

LEMMA DiesAppendingKeeps == ASSUME TextInv, NEW s \in Symbols, DiesAppending(s) PROVE TextInv'
<1>0. PrintTypes /\ LogLines /\ KnownInv
  BY DEF TextInv
<1>1. PICK found, more, ids : /\ found = PrintsFound(s) /\ more = SetToSeq(found)
                              /\ ids = {Identity(e) : e \in found}
  OBVIOUS
<1>2. /\ Dies /\ handler[s].pc = "print" /\ printed' = printed \cup ids
      /\ exposed' = exposed \cup AtRisk \cup ids
  BY <1>1 DEF DiesAppending
<1>3. PICK k \in 0..(Cardinality(found) - 1) : tradeLog' = LogWith(SubSeq(more, 1, k))
  BY <1>1 DEF DiesAppending
<1>4. /\ more \in Seq(found) /\ Len(more) = Cardinality(found) /\ Len(more) \in Nat
      /\ \A e \in found : /\ e \in Line /\ e.at = Len(bars[s]) /\ e.sym = s
                          /\ e.outcome = "pending"
      /\ Ids(more) \subseteq ids
  BY <1>0, <1>1, <1>2, FoundListed
<1>5. Through(s)' = Len(bars[s]) /\ Len(bars[s]) \in Nat
  <2>1. Len(bars[s]) \in Nat
    BY <1>0, LenProperties DEF PrintTypes
  <2>2. handler'[s].pc = "idle" /\ bars' = bars
    BY <1>2, IdleTyped DEF Dies
  <2> QED
    BY <2>1, <2>2 DEF Through
<1>6. found \subseteq SoundLine'
  <2>1. ASSUME NEW e \in found PROVE e \in Line /\ e.at <= Through(e.sym)' /\ Earned(e)'
    BY <1>4, <1>5 DEF Earned
  <2> QED
    BY <2>1 DEF SoundLine, Line, Verdict
<1>7. more \in Seq(SoundLine') /\ tradeLog \in Seq(SoundLine')
  <2>1. tradeLog \in Seq(SoundLine) /\ SoundLine \subseteq SoundLine'
    BY <1>0, <1>2, DiesSound DEF LogLines, Lines
  <2> QED
    BY <1>4, <1>6, <2>1, SeqMonotonic
<1>8. PICK some : some = SubSeq(more, 1, k)
  OBVIOUS
<1>9. some \in Seq(SoundLine') /\ Ids(some) \subseteq Ids(more)
  <2>1. k \in Int /\ k <= Len(more)
    BY <1>4
  <2> QED
    BY <1>7, <1>8, <2>1, PartIs
<1>10. PICK piece \in Seq(SoundLine') : LogWith(some) = tradeLog \o piece /\ Ids(piece) \subseteq Ids(some)
  BY <1>7, <1>9, LogWithIs
<1>11. tradeLog' = tradeLog \o piece
  BY <1>3, <1>8, <1>10
<1>12. PICK log : log = tradeLog \o piece
  OBVIOUS
<1>13. log \in Seq(SoundLine') /\ Ids(log) \subseteq Ids(tradeLog) \cup Ids(piece)
  BY <1>7, <1>10, <1>12, JoinIs
<1>14. Ids(piece) \subseteq ids
  BY <1>4, <1>9, <1>10
<1>15. Ids(tradeLog') \subseteq printed'
  BY <1>0, <1>2, <1>11, <1>12, <1>13, <1>14 DEF KnownInv
<1>16. Holding(tradeLog', printed', judged', exposed')
  <2>1. CASE \E t \in Symbols : Saving(t)
    BY <1>2, <2>1, DiesSaved
  <2>2. CASE FileAtRest
    <3>1. Holding(tradeLog \o piece, printed', judged', exposed')
      BY <1>2, <1>7, <1>10, <1>14, <2>2, DiesResting
    <3> QED
      BY <1>11, <3>1
  <2> QED
    BY <2>1, <2>2 DEF FileAtRest
<1>17. printed \subseteq printed' /\ tradeLog' \in Seq(SoundLine')
  BY <1>2, <1>11, <1>12, <1>13
<1> QED
  BY <1>2, <1>15, <1>16, <1>17, DiesMove

\* A file has one place at most where a line is not whole.
LEMMA CutTyped ==
  ASSUME cut \in {"nowhere", "inside", "end"}, [TradeNext]_tradeVars
  PROVE  cut' \in {"nowhere", "inside", "end"}
  BY DEF TradeNext, TickArrives, ReadLog, EmptyLog, SaveLog, LogPrints, TradeRestart,
         DiesBetween, DiesSaving, DiesAppending, CutOver, tradeVars

\* Every step keeps the log.
LEMMA TradeStep ==
  ASSUME TradeInv, [TradeNext]_tradeVars PROVE TradeInv'
<1>0. TextInv /\ cut' \in {"nowhere", "inside", "end"}
  BY CutTyped DEF TradeInv
<1>1. CASE TradeRestart
  BY <1>0, <1>1, DiesBetweenKeeps, DiesSavingKeeps, DiesAppendingKeeps DEF TradeRestart, TradeInv
<1>2. CASE UNCHANGED tradeVars
  <2>1. UNCHANGED <<bars, tradeLog, handler, printed, judged, exposed>>
    BY <1>2 DEF tradeVars
  <2>2. SoundLine' = SoundLine
    BY <2>1 DEF SoundLine, Through, Earned, Outcome
  <2>3. PrintTypes' /\ LogLines'
    BY <1>0, <2>1, <2>2 DEF TextInv, PrintTypes, LogLines, Lines
  <2>4. KnownInv' /\ TextsInv' /\ ExposedInv'
    BY <1>0, <2>1, QuietStep DEF TextInv
  <2> QED
    BY <1>0, <2>3, <2>4 DEF TradeInv, TextInv
<1>3. ASSUME NEW s \in Symbols,
             TickArrives(s) \/ ReadLog(s) \/ EmptyLog(s) \/ SaveLog(s) \/ LogPrints(s)
      PROVE  TextInv'
  BY <1>0, <1>3, ArriveKeeps, ReadKeeps, EmptyKeeps, SaveKeeps, PrintKeeps
<1> QED
  BY <1>0, <1>1, <1>2, <1>3 DEF TradeNext, TradeInv

\* What the runs check of the log follows.
LEMMA TradeHolds ==
  TradeInv => TradeTypeOK /\ PrintsKept /\ OutcomesStand /\ OutcomesAreEarned
<1> SUFFICES ASSUME TradeInv PROVE TradeTypeOK /\ PrintsKept /\ OutcomesStand /\ OutcomesAreEarned
  OBVIOUS
<1>0. PrintTypes /\ LogLines /\ KnownInv /\ TextsInv
  BY DEF TradeInv, TextInv
<1>1. tradeLog \in Seq(SoundLine) /\ DOMAIN tradeLog = 1..Len(tradeLog) /\ Len(tradeLog) \in Nat
  BY <1>0, LenProperties DEF LogLines, Lines
<1>2. ASSUME NEW i \in DOMAIN tradeLog
      PROVE  /\ tradeLog[i].sym \in Symbols /\ tradeLog[i].by \in Sides
             /\ tradeLog[i].outcome \in {"pending", "pushed", "absorbed", "exhausted"}
             /\ tradeLog[i].at \in 1..Len(bars[tradeLog[i].sym])
             /\ LET e == tradeLog[i]
                    over == (e.upto - OutcomeBars + 1)..e.upto
                IN  e.outcome # "pending" =>
                      Min(over) > e.at /\ e.outcome = Outcome(e.sym, e.by, over)
  <2>1. PICK e : e = tradeLog[i]
    OBVIOUS
  <2>2. e \in Line /\ e.at <= Through(e.sym) /\ Earned(e)
    <3>1. e \in SoundLine
      BY <1>1, <2>1, ElementOfSeq
    <3> QED
      BY <3>1 DEF SoundLine
  <2>3. e.sym \in Symbols /\ e.by \in Sides /\ e.outcome \in Verdict /\ e.at \in Nat \ {0} /\ e.upto \in Nat
    BY <2>2 DEF Line
  <2>4. Through(e.sym) \in Int /\ Through(e.sym) <= Len(bars[e.sym]) /\ Len(bars[e.sym]) \in Nat
    <3>1. Len(bars[e.sym]) \in Nat
      BY <1>0, <2>3, LenProperties DEF PrintTypes
    <3> QED
      BY <3>1 DEF Through
  <2>5. e.at \in 1..Len(bars[e.sym])
    BY <2>2, <2>3, <2>4
  <2>6. ASSUME e.outcome # "pending"
        PROVE  Min(JudgedBy(e)) > e.at /\ e.outcome = Outcome(e.sym, e.by, JudgedBy(e))
    <3>1. /\ e.at < e.upto - OutcomeBars + 1 /\ e.outcome = Outcome(e.sym, e.by, JudgedBy(e))
      BY <2>2, <2>6 DEF Earned
    <3>2. PICK a, b : a = e.upto - OutcomeBars + 1 /\ b = e.upto
      OBVIOUS
    <3>3. a \in Int /\ b \in Int /\ a <= b
      BY <2>3, <3>2, TradeAssumption
    <3>4. Min(a..b) = a
      BY <3>3, IntervalEnds
    <3>5. JudgedBy(e) = a..b
      BY <3>2 DEF JudgedBy
    <3>6. PICK m : m = e.at
      OBVIOUS
    <3>7. m < a /\ m \in Int
      BY <2>3, <3>1, <3>2, <3>6
    <3>8. a > m
      BY <3>3, <3>7
    <3> QED
      BY <3>1, <3>4, <3>5, <3>6, <3>8
  <2> QED
    BY <2>1, <2>3, <2>5, <2>6 DEF Verdict, JudgedBy
<1>3. TradeTypeOK
  <2>1. \A s \in Symbols : handler[s].pc \in {"idle", "read", "write", "saving", "print"}
    BY <1>0 DEF PrintTypes, Handlers, HandlerPcs
  <2>2. cut \in {"nowhere", "inside", "end"}
    BY DEF TradeInv
  <2> QED
    BY <1>2, <2>1, <2>2 DEF TradeTypeOK
<1>4. OutcomesAreEarned
  BY <1>2 DEF OutcomesAreEarned
<1>5. PrintsKept
  <2>1. SUFFICES ASSUME FileAtRest, NEW p \in printed \ exposed
                 PROVE  Cardinality({i \in DOMAIN tradeLog : Identity(tradeLog[i]) = p}) = 1
    BY DEF PrintsKept
  <2>2. PICK i \in 1..Len(tradeLog) :
           /\ Identity(tradeLog[i]) = p
           /\ \A j \in 1..Len(tradeLog) : Identity(tradeLog[j]) = p => j = i
    BY <1>0, <2>1 DEF TextsInv, Has, Holding, Once
  <2>3. {j \in DOMAIN tradeLog : Identity(tradeLog[j]) = p} = {i}
    BY <1>1, <2>2
  <2> QED
    BY <2>3, FS_Singleton
<1>6. OutcomesStand
  <2>1. FileAtRest => \A e \in judged : Identity(e) \in exposed \/ \E i \in 1..Len(tradeLog) : tradeLog[i] = e
    BY <1>0 DEF TextsInv, Has, Holding
  <2>2. \A e : (\E i \in 1..Len(tradeLog) : tradeLog[i] = e) => e \in Range(tradeLog)
    BY <1>1 DEF Range
  <2> QED
    BY <2>1, <2>2 DEF OutcomesStand
<1> QED
  BY <1>3, <1>4, <1>5, <1>6

-----------------------------------------------------------------------------
(***************************************************************************)
(* Anchors and divergences.  The registry holds the anchors that are in the  *)
(* newest MaxAnchors of those a scan would find, in the order of their bars, *)
(* so that an anchor has as many newer ones as stand after it.               *)
(***************************************************************************)
AnchorRecord == [at : Nat, sign : {"bull", "bear"}, age : Nat]
Rising(r) == \A k, l \in 1..Len(r) : k < l => r[k].at < r[l].at
Holds(r, d) == \E k \in 1..Len(r) : r[k] = d
\* An anchor a bar later.
AgedTo(a, d) == a.age + 1 <= StaleBars /\ d = [a EXCEPT !.age = @ + 1]

\* One more at the end.
LEMMA RisingAppend ==
  ASSUME NEW r \in Seq(AnchorRecord), Rising(r), NEW d \in AnchorRecord,
         \A k \in 1..Len(r) : r[k].at < d.at, NEW new, new = Append(r, d)
  PROVE  /\ new \in Seq(AnchorRecord) /\ Len(new) = Len(r) + 1 /\ Len(r) \in Nat
         /\ Rising(new) /\ new[Len(r) + 1] = d /\ \A k \in 1..Len(r) : new[k] = r[k]
         /\ \A x : Holds(new, x) <=> Holds(r, x) \/ x = d
<1>1. /\ new \in Seq(AnchorRecord) /\ Len(new) = Len(r) + 1 /\ Len(r) \in Nat
      /\ new[Len(r) + 1] = d /\ \A k \in 1..Len(r) : new[k] = r[k]
  BY AppendProperties, LenProperties
<1>2. ASSUME NEW k \in 1..Len(new), NEW l \in 1..Len(new), k < l PROVE new[k].at < new[l].at
  <2>1. k \in 1..Len(r) /\ new[k] = r[k]
    BY <1>1, <1>2
  <2>2. CASE l \in 1..Len(r)
    BY <1>1, <1>2, <2>1, <2>2 DEF Rising
  <2>3. CASE l = Len(r) + 1
    BY <1>1, <2>1, <2>3
  <2> QED
    BY <1>1, <2>2, <2>3
<1>3. \A k : k \in 1..Len(new) <=> k \in 1..Len(r) \/ k = Len(r) + 1
  BY <1>1
<1>4. \A x : Holds(new, x) <=> Holds(r, x) \/ x = d
  BY <1>1, <1>3 DEF Holds
<1> QED
  BY <1>1, <1>2, <1>4 DEF Rising

\* The joined pieces of the first k anchors.
OlderUpTo(olds, f, k) ==
    /\ f \in Seq(AnchorRecord) /\ Len(f) <= k /\ Rising(f)
    /\ \A d : Holds(f, d) <=> \E i \in 1..k : AgedTo(olds[i], d)

\* An anchor a bar later is an anchor of the same bar.
LEMMA AgedTyped ==
  ASSUME NEW a, NEW d, a \in AnchorRecord, d = [a EXCEPT !.age = @ + 1]
  PROVE  d \in AnchorRecord /\ d.at = a.at
<1> QED
  BY DEF AnchorRecord

\* A piece joined to what is joined.
Joined(f, piece, new) == new = f \o piece

\* One anchor more is kept, if it is not stale, behind the others.
LEMMA OlderStep ==
  ASSUME NEW olds, NEW k, NEW f, NEW new, olds \in Seq(AnchorRecord), Rising(olds),
         k \in Nat, k + 1 <= Len(olds), OlderUpTo(olds, f, k), Joined(f, OneOlder(olds[k + 1]), new)
  PROVE  OlderUpTo(olds, new, k + 1)
<1>a. f \in Seq(AnchorRecord) /\ Len(f) <= k
  BY DEF OlderUpTo
<1>b. Len(olds) \in Nat /\ Len(f) \in Nat
  BY <1>a, LenProperties
<1>c. k + 1 \in 1..Len(olds)
  BY <1>b
<1>1. k + 1 \in 1..Len(olds) /\ Len(olds) \in Nat /\ f \in Seq(AnchorRecord) /\ Len(f) \in Nat /\ Len(f) <= k
  BY <1>a, <1>b, <1>c
<1>2. PICK a \in AnchorRecord : a = olds[k + 1]
  BY <1>1, ElementOfSeq
<1>3. \A i : i \in 1..(k + 1) <=> i \in 1..k \/ i = k + 1
  OBVIOUS
<1>4. \A d : (\E i \in 1..(k + 1) : AgedTo(olds[i], d)) <=> (Holds(f, d) \/ AgedTo(a, d))
  BY <1>2, <1>3 DEF OlderUpTo
<1>5. CASE ~(a.age + 1 <= StaleBars)
  <2>1. new = f \o <<>>
    BY <1>2, <1>5 DEF OneOlder, Joined
  <2>2. new = f
    BY <1>1, <2>1, ConcatEmptySeq
  <2>3. \A d : ~AgedTo(a, d)
    BY <1>5 DEF AgedTo
  <2>4. Len(f) <= k + 1
    BY <1>1
  <2> QED
    BY <1>4, <2>2, <2>3, <2>4 DEF OlderUpTo
<1>6. CASE a.age + 1 <= StaleBars
  <2>1. PICK d : d = [a EXCEPT !.age = @ + 1]
    OBVIOUS
  <2>2. d \in AnchorRecord /\ d.at = a.at
    <3>1. a \in AnchorRecord
      BY <1>2
    <3> QED
      BY <2>1, <3>1, AgedTyped
  <2>3. new = f \o <<d>>
    BY <1>2, <1>6, <2>1 DEF OneOlder, Joined
  <2>4. new = Append(f, d)
    BY <1>1, <2>2, <2>3, AppendIsConcat, SMT
  <2>5. ASSUME NEW j \in 1..Len(f) PROVE f[j].at < d.at
    <3>1. Holds(f, f[j])
      BY DEF Holds
    <3>2. PICK i \in 1..k : AgedTo(olds[i], f[j])
      BY <3>1 DEF OlderUpTo
    <3>3. i \in 1..Len(olds) /\ i < k + 1
      BY <1>1
    <3>4. olds[i] \in AnchorRecord /\ olds[i].at < a.at
      BY <1>1, <1>2, <3>3, ElementOfSeq DEF Rising
    <3>5. f[j].at = olds[i].at
      BY <3>2, <3>4 DEF AgedTo, AnchorRecord
    <3> QED
      BY <2>2, <3>4, <3>5
  <2>6. Rising(f)
    BY DEF OlderUpTo
  <2>7. /\ new \in Seq(AnchorRecord) /\ Len(new) = Len(f) + 1 /\ Rising(new)
        /\ \A x : Holds(new, x) <=> Holds(f, x) \/ x = d
    BY <1>1, <2>2, <2>4, <2>5, <2>6, RisingAppend
  <2>8. \A x : AgedTo(a, x) <=> x = d
    BY <1>6, <2>1 DEF AgedTo
  <2>9. Len(new) <= k + 1
    BY <1>1, <2>7
  <2> QED
    BY <1>4, <2>7, <2>8, <2>9 DEF OlderUpTo
<1> QED
  BY <1>5, <1>6

\* The pieces are sequences of anchors.
LEMMA OneOlderTyped ==
  ASSUME NEW a, a \in AnchorRecord
  PROVE  OneOlder(a) \in Seq(AnchorRecord)
<1>1. PICK d : d = [a EXCEPT !.age = @ + 1]
  OBVIOUS
<1>2. d \in AnchorRecord
  BY <1>1 DEF AnchorRecord
<1>3. <<d>> \in Seq(AnchorRecord)
  BY <1>2
<1>4. \A S : <<>> \in Seq(S)
  BY EmptySeq
<1>5. OneOlder(a) = IF a.age + 1 <= StaleBars THEN <<d>> ELSE <<>>
  BY <1>1 DEF OneOlder
<1> QED
  BY <1>3, <1>4, <1>5

\* The pieces, in a sequence.
OlderPieces(olds) == [i \in DOMAIN olds |-> OneOlder(olds[i])]

\* What they are.
LEMMA OlderPiecesAre ==
  ASSUME NEW olds, olds \in Seq(AnchorRecord)
  PROVE  /\ OlderPieces(olds) \in Seq(Seq(AnchorRecord)) /\ Len(OlderPieces(olds)) = Len(olds) /\ Len(olds) \in Nat
         /\ \A i \in 1..Len(olds) : OlderPieces(olds)[i] = OneOlder(olds[i])
<1>1. PICK n \in Nat : n = Len(olds)
  BY LenProperties
<1>2. DOMAIN olds = 1..n
  BY <1>1, LenProperties
<1>3. \A i \in 1..n : olds[i] \in AnchorRecord
  BY <1>1, ElementOfSeq
<1>4. \A i \in 1..n : OneOlder(olds[i]) \in Seq(AnchorRecord)
  BY <1>3, OneOlderTyped
<1>5. OlderPieces(olds) = [i \in 1..n |-> OneOlder(olds[i])]
  BY <1>2 DEF OlderPieces
<1>6. OlderPieces(olds) \in [1..n -> Seq(AnchorRecord)]
  BY <1>4, <1>5
<1>7. OlderPieces(olds) \in Seq(Seq(AnchorRecord))
  BY <1>1, <1>6, IsASeq
<1>8. Len(OlderPieces(olds)) = n
  BY <1>1, <1>5, <1>7, LenProperties
<1> QED
  BY <1>1, <1>5, <1>7, <1>8

\* What a bar leaves of the registry: the anchors that are not stale, a bar older.
LEMMA OlderKeeps ==
  ASSUME NEW olds, olds \in Seq(AnchorRecord), Rising(olds)
  PROVE  OlderUpTo(olds, Older(olds), Len(olds))
<1>1. PICK n \in Nat : n = Len(olds)
  BY LenProperties
<1>2. PICK s : s = OlderPieces(olds)
  OBVIOUS
<1>3. s \in Seq(Seq(AnchorRecord)) /\ Len(s) = n /\ \A i \in 1..n : s[i] = OneOlder(olds[i])
  BY <1>1, <1>2, OlderPiecesAre
<1>4. OlderUpTo(olds, <<>>, 0)
  <2>1. Len(<<>>) = 0 /\ 1..0 = {}
    OBVIOUS
  <2>2. <<>> \in Seq(AnchorRecord)
    BY EmptySeq
  <2> QED
    BY <2>1, <2>2 DEF OlderUpTo, Rising, Holds
<1>5. Older(olds) = FlattenSeq(s)
  BY <1>2 DEF Older, OlderPieces
<1>6. CASE n = 0
  <2>1. s = <<>>
    BY <1>3, <1>6
  <2>2. FlattenSeq(s) = <<>>
    BY <2>1 DEF FlattenSeq
  <2> QED
    BY <1>1, <1>4, <1>5, <1>6, <2>2
<1>7. CASE n # 0
  <2>1. s # <<>>
    BY <1>3, <1>7
  <2>2. PICK g : Joins(g, s) /\ FlattenSeq(s) = g[Len(s)]
    BY <1>3, <2>1, FlattenUnfolds
  <2> DEFINE P(k) == k + 1 <= n => OlderUpTo(olds, g[k + 1], k + 1)
             N == {k \in Nat : P(k)}
  <2>3. 0 \in N
    <3>1. g[1] = s[1] /\ 1 \in 1..n
      BY <1>3, <1>7, <2>2 DEF Joins
    <3>2. PICK p : p = s[1]
      OBVIOUS
    <3>3. p = OneOlder(olds[1]) /\ p \in Seq(AnchorRecord)
      BY <1>3, <3>1, <3>2, ElementOfSeq
    <3>4. Joined(<<>>, OneOlder(olds[0 + 1]), g[1])
      BY <3>1, <3>2, <3>3, ConcatEmptySeq DEF Joined
    <3>5. 0 + 1 <= Len(olds)
      BY <1>1, <1>7
    <3>6. OlderUpTo(olds, g[1], 0 + 1)
      BY <1>4, <3>4, <3>5, OlderStep
    <3> QED
      BY <3>6
  <2>4. ASSUME NEW k \in N PROVE k + 1 \in N
    <3>1. k \in Nat /\ P(k)
      OBVIOUS
    <3>2. ASSUME (k + 1) + 1 <= n PROVE OlderUpTo(olds, g[(k + 1) + 1], (k + 1) + 1)
      <4>1. k + 1 \in Nat /\ k + 1 \in Nat \ {0} /\ k + 1 <= n /\ (k + 1) + 1 \in 1..n
        BY <3>1, <3>2
      <4>2. OlderUpTo(olds, g[k + 1], k + 1)
        BY <3>1, <4>1
      <4>3. (k + 1) + 1 <= Len(s)
        BY <1>3, <3>2
      <4>4. g[(k + 1) + 1] = g[k + 1] \o s[(k + 1) + 1]
        <5>1. Len(s) \in Nat
          BY <1>3
        <5>2. \A m \in Nat \ {0} : m + 1 <= Len(s) => g[m + 1] = g[m] \o s[m + 1]
          BY <2>2, <5>1, JoinNext
        <5> HIDE DEF N, P
        <5> QED
          BY <4>1, <4>3, <5>2, Zenon
      <4>5. Joined(g[k + 1], OneOlder(olds[(k + 1) + 1]), g[(k + 1) + 1])
        BY <1>3, <4>1, <4>4, Zenon DEF Joined
      <4>6. (k + 1) + 1 <= Len(olds)
        BY <1>1, <3>2
      <4> HIDE DEF N, P
      <4> QED
        BY <4>1, <4>2, <4>5, <4>6, OlderStep
    <3> QED
      BY <3>1, <3>2
  <2>5. N = Nat
    <3>1. N \in SUBSET Nat
      OBVIOUS
    <3> HIDE DEF N
    <3> QED
      BY <2>3, <2>4, <3>1, Induction
  <2>6. PICK k \in Nat : k + 1 = n
    <3>1. n - 1 \in Nat /\ (n - 1) + 1 = n
      BY <1>7
    <3> QED
      BY <3>1
  <2>7. P(k)
    BY <2>5
  <2>8. OlderUpTo(olds, g[n], n)
    BY <2>6, <2>7
  <2> QED
    BY <1>1, <1>3, <1>5, <2>2, <2>8
<1> QED
  BY <1>6, <1>7

\* The bars of the anchors that stand, and of a set of bars those from one on and the newest.
Places(r) == {r[k].at : k \in DOMAIN r}
OnFrom(W, i) == {j \in W : j >= i}
NewestOf(W) == {i \in W : Cardinality({j \in W : j >= i}) <= MaxAnchors}

\* The newest are those with at most MaxAnchors from them on.
LEMMA NewestIs ==
  ASSUME NEW W
  PROVE  NewestOf(W) = {i \in W : Cardinality(OnFrom(W, i)) <= MaxAnchors}
  BY DEF NewestOf, OnFrom

\* An anchor of the registry has as many newer ones as stand after it.
LEMMA RankOf ==
  ASSUME NEW r, NEW k, r \in Seq(AnchorRecord), Rising(r), k \in 1..Len(r)
  PROVE  Cardinality(OnFrom(Places(r), r[k].at)) = Len(r) - k + 1
<1>1. PICK n \in Nat : n = Len(r)
  BY LenProperties
<1>2. \A i \in 1..n : r[i] \in AnchorRecord
  BY <1>1, ElementOfSeq
<1>3. DOMAIN r = 1..n
  BY <1>1, LenProperties
<1>4. k \in 1..n /\ k \in Int /\ n \in Int /\ k..n \subseteq 1..n
  BY <1>1
<1>5. \A i \in 1..n : r[i].at \in Nat
  BY <1>2 DEF AnchorRecord
<1>6. \A i, j \in 1..n : i < j => r[i].at < r[j].at
  BY <1>1 DEF Rising
<1> DEFINE f == [i \in k..n |-> r[i].at]
           T == OnFrom(Places(r), r[k].at)
<1>7. \A i \in k..n : f[i] = r[i].at /\ r[i].at >= r[k].at
  <2>1. \A i \in k..n : i = k \/ k < i
    BY <1>4
  <2> QED
    BY <1>4, <1>5, <1>6, <2>1
<1>8. f \in [k..n -> T]
  BY <1>3, <1>4, <1>7 DEF Places, OnFrom
<1>9. \A i, j \in k..n : f[i] = f[j] => i = j
  <2>1. \A i, j \in k..n : i = j \/ i < j \/ j < i
    BY <1>4
  <2> QED
    BY <1>4, <1>5, <1>6, <1>7, <2>1
<1>10. ASSUME NEW t \in T PROVE \E i \in k..n : f[i] = t
  <2>1. t \in Places(r) /\ t >= r[k].at
    BY DEF OnFrom
  <2>2. PICK i \in 1..n : t = r[i].at
    BY <1>3, <2>1 DEF Places
  <2>3. ~(i < k)
    BY <1>4, <1>5, <1>6, <2>1, <2>2
  <2>4. i \in k..n
    BY <1>4, <2>3
  <2> QED
    BY <1>7, <2>2, <2>4
<1>11. f \in Bijection(k..n, T)
  BY <1>8, <1>9, <1>10 DEF Bijection, Injection, Surjection, IsInjective
<1>12. ExistsBijection(k..n, T)
  BY <1>11 DEF ExistsBijection
<1>13. IsFiniteSet(k..n) /\ Cardinality(k..n) = n - k + 1
  <2>1. ~(k > n)
    BY <1>4
  <2> QED
    BY <1>4, <2>1, FS_Interval
<1> HIDE DEF f, T
<1>14. Cardinality(T) = n - k + 1
  BY <1>12, <1>13, FS_Bijection
<1> QED
  BY <1>1, <1>14 DEF T

\* What is kept of a registry of any length: its newest anchors, in their order.
LEMMA KeptAre ==
  ASSUME NEW r, NEW q, r \in Seq(AnchorRecord), Rising(r), q = LastOnes(r, MaxAnchors)
  PROVE  /\ q \in Seq(AnchorRecord) /\ Rising(q) /\ Len(q) <= MaxAnchors
         /\ Places(q) = NewestOf(Places(r)) /\ \A d : Holds(q, d) => Holds(r, d)
<1>1. PICK n \in Nat : n = Len(r)
  BY LenProperties
<1>2. MaxAnchors \in Nat \ {0}
  BY MemoryAssumption
<1>3. PICK m : m = Max({0, n - MaxAnchors})
  OBVIOUS
<1>4. m \in Nat /\ m <= n /\ (m = 0 \/ m = n - MaxAnchors) /\ m >= n - MaxAnchors
  <2>1. IsFiniteSet({0, n - MaxAnchors})
    BY PairFinite
  <2>2. {0, n - MaxAnchors} # {} /\ {0, n - MaxAnchors} \subseteq Int
    BY <1>2
  <2>3. m \in {0, n - MaxAnchors} /\ \A y \in {0, n - MaxAnchors} : m >= y
    BY <1>3, <2>1, <2>2, ExtremesIn
  <2> QED
    BY <1>2, <2>3
<1>5. q = SubSeq(r, m + 1, n)
  BY <1>1, <1>3 DEF LastOnes
<1>6. \A i \in 1..n : r[i] \in AnchorRecord
  BY <1>1, ElementOfSeq
<1>7. PICK p \in Nat : p = n - m
  BY <1>4
<1>8. /\ q \in Seq(AnchorRecord) /\ Len(q) = p /\ \A i \in 1..p : q[i] = r[m + i]
  <2>1. m + 1 \in Int /\ n \in Int /\ \A i \in (m + 1)..n : r[i] \in AnchorRecord
    BY <1>4, <1>6
  <2>2. /\ SubSeq(r, m + 1, n) \in Seq(AnchorRecord)
        /\ Len(SubSeq(r, m + 1, n)) = IF m + 1 <= n THEN n - (m + 1) + 1 ELSE 0
        /\ \A i \in 1..(n - (m + 1) + 1) : SubSeq(r, m + 1, n)[i] = r[(m + 1) + i - 1]
    BY <2>1, SubSeqProperties
  <2>3. (IF m + 1 <= n THEN n - (m + 1) + 1 ELSE 0) = p /\ n - (m + 1) + 1 = p
    BY <1>4, <1>7
  <2>4. \A i \in 1..p : (m + 1) + i - 1 = m + i
    BY <1>4, <1>7
  <2> QED
    BY <1>5, <2>2, <2>3, <2>4
<1>9. \A i \in 1..p : m + i \in 1..n
  BY <1>4, <1>7
<1>10. Rising(q)
  <2>1. \A i, j \in 1..n : i < j => r[i].at < r[j].at
    BY <1>1 DEF Rising
  <2>2. ASSUME NEW i \in 1..p, NEW j \in 1..p, i < j PROVE q[i].at < q[j].at
    <3>1. m + i < m + j
      BY <1>4, <1>7, <2>2
    <3> QED
      BY <1>8, <1>9, <2>1, <3>1
  <2> QED
    BY <1>8, <2>2 DEF Rising
<1>11. \A d : Holds(q, d) => Holds(r, d)
  BY <1>1, <1>8, <1>9 DEF Holds
<1>12. Len(q) <= MaxAnchors
  BY <1>2, <1>4, <1>7, <1>8
<1>13. DOMAIN q = 1..p /\ DOMAIN r = 1..n
  BY <1>1, <1>8, LenProperties
<1>14. ASSUME NEW k \in 1..n PROVE Cardinality(OnFrom(Places(r), r[k].at)) <= MaxAnchors <=> m < k
  <2>1. Cardinality(OnFrom(Places(r), r[k].at)) = n - k + 1
    BY <1>1, RankOf
  <2>2. n - k + 1 <= MaxAnchors <=> m < k
    BY <1>2, <1>4
  <2> QED
    BY <2>1, <2>2
<1>15. ASSUME NEW x \in NewestOf(Places(r)) PROVE x \in Places(q)
  <2>1. x \in Places(r) /\ Cardinality(OnFrom(Places(r), x)) <= MaxAnchors
    BY NewestIs
  <2>2. PICK k \in 1..n : x = r[k].at
    BY <1>13, <2>1 DEF Places
  <2>3. m < k
    BY <1>14, <2>1, <2>2
  <2>4. PICK i \in 1..p : m + i = k
    <3>1. k - m \in 1..p /\ m + (k - m) = k
      BY <1>4, <1>7, <2>3
    <3> QED
      BY <3>1
  <2> QED
    BY <1>8, <1>13, <2>2, <2>4 DEF Places
<1>16. ASSUME NEW x \in Places(q) PROVE x \in NewestOf(Places(r))
  <2>1. PICK i \in 1..p : x = q[i].at
    BY <1>13 DEF Places
  <2>2. PICK k \in 1..n : k = m + i
    BY <1>9
  <2>3. x = r[k].at
    BY <1>8, <2>1, <2>2
  <2>4. m < k
    BY <1>4, <2>2
  <2>5. x \in Places(r)
    BY <1>13, <2>3 DEF Places
  <2>6. Cardinality(OnFrom(Places(r), x)) <= MaxAnchors
    BY <1>14, <2>3, <2>4
  <2> QED
    BY <2>5, <2>6, NewestIs
<1> QED
  BY <1>8, <1>10, <1>11, <1>12, <1>15, <1>16

\* Those from a bar on of the newest are the newest of those from it on.
LEMMA NewestOnFrom ==
  ASSUME NEW W, NEW c, W \subseteq Int, c \in Int
  PROVE  OnFrom(NewestOf(W), c) = NewestOf(OnFrom(W, c))
<1>1. ASSUME NEW i \in W, i >= c PROVE OnFrom(OnFrom(W, c), i) = OnFrom(W, i)
  <2>1. \A j \in W : j >= i => j >= c
    BY <1>1
  <2> QED
    BY <2>1 DEF OnFrom
<1>2. \A i : i \in OnFrom(NewestOf(W), c) <=> i \in W /\ i >= c /\ Cardinality(OnFrom(W, i)) <= MaxAnchors
  BY DEF OnFrom, NewestOf
<1>3. \A i : i \in NewestOf(OnFrom(W, c)) <=> i \in W /\ i >= c /\ Cardinality(OnFrom(OnFrom(W, c), i)) <= MaxAnchors
  BY NewestIs DEF OnFrom
<1> QED
  BY <1>1, <1>2, <1>3

\* A bar more is one of the newest, and what of the others still is was one of the newest.
LEMMA NewestAgain ==
  ASSUME NEW X, NEW top, IsFiniteSet(X), X \subseteq Int, top \in Int, \A x \in X : x < top
  PROVE  NewestOf(NewestOf(X) \cup {top}) = NewestOf(X \cup {top})
<1>1. MaxAnchors \in Nat \ {0}
  BY MemoryAssumption
<1> DEFINE A == NewestOf(X) \cup {top}
           B == X \cup {top}
<1>2. A \subseteq B
  BY NewestIs
<1>3. ASSUME NEW Y, Y \subseteq B, top \in Y PROVE top \in NewestOf(Y)
  <2>1. OnFrom(Y, top) = {top}
    <3>1. \A y \in Y : y = top \/ (y \in Int /\ y < top)
      BY <1>3
    <3>2. \A y \in Y : y >= top => y = top
      BY <3>1
    <3>3. top >= top
      OBVIOUS
    <3> QED
      BY <1>3, <3>2, <3>3 DEF OnFrom
  <2>2. Cardinality({top}) = 1
    BY FS_Singleton
  <2>3. 1 <= MaxAnchors
    BY <1>1
  <2> QED
    BY <1>3, <2>1, <2>2, <2>3, NewestIs
<1>4. \A i \in X : IsFiniteSet(OnFrom(X, i)) /\ IsFiniteSet(OnFrom(B, i))
  <2>1. IsFiniteSet(B)
    <3>1. IsFiniteSet({top})
      BY FS_Singleton
    <3> QED
      BY <3>1, FS_Union
  <2>2. \A i \in X : OnFrom(X, i) \in SUBSET X /\ OnFrom(B, i) \in SUBSET B
    BY DEF OnFrom
  <2> HIDE DEF B
  <2> QED
    BY <2>1, <2>2, FS_Subset
<1>5. ASSUME NEW i \in NewestOf(X) PROVE OnFrom(A, i) = OnFrom(B, i)
  <2>1. i \in X /\ Cardinality(OnFrom(X, i)) <= MaxAnchors
    BY NewestIs
  <2>2. ASSUME NEW j \in X, j >= i PROVE j \in NewestOf(X)
    <3>1. OnFrom(X, j) \in SUBSET OnFrom(X, i)
      <4>1. \A x \in X : x \in Int
        OBVIOUS
      <4>2. i \in Int /\ j \in Int
        BY <2>1, <2>2, <4>1
      <4>3. \A x \in X : x >= j => x >= i
        BY <2>2, <4>1, <4>2
      <4> QED
        BY <4>3 DEF OnFrom
    <3>2. Cardinality(OnFrom(X, j)) <= Cardinality(OnFrom(X, i))
      BY <1>4, <2>1, <3>1, FS_Subset
    <3>3. Cardinality(OnFrom(X, j)) \in Nat /\ Cardinality(OnFrom(X, i)) \in Nat
      BY <1>4, <2>1, FS_CardinalityType
    <3>4. Cardinality(OnFrom(X, j)) <= MaxAnchors
      BY <1>1, <2>1, <3>2, <3>3
    <3> QED
      BY <3>4, NewestIs
  <2> QED
    BY <1>2, <2>2 DEF OnFrom
<1>6. ASSUME NEW i \in X, i \notin NewestOf(X) PROVE i \notin NewestOf(B)
  <2>1. ~(Cardinality(OnFrom(X, i)) <= MaxAnchors)
    BY <1>6, NewestIs
  <2>2. OnFrom(X, i) \in SUBSET OnFrom(B, i)
    BY DEF OnFrom
  <2>3. Cardinality(OnFrom(X, i)) <= Cardinality(OnFrom(B, i))
    BY <1>4, <2>2, FS_Subset
  <2>4. Cardinality(OnFrom(X, i)) \in Nat /\ Cardinality(OnFrom(B, i)) \in Nat
    BY <1>4, FS_CardinalityType
  <2>5. ~(Cardinality(OnFrom(B, i)) <= MaxAnchors)
    BY <1>1, <2>1, <2>3, <2>4
  <2> QED
    BY <2>5, NewestIs
<1>7. top \in NewestOf(A) /\ top \in NewestOf(B)
  BY <1>2, <1>3
<1>8. ASSUME NEW i, i # top PROVE i \in NewestOf(A) <=> i \in NewestOf(B)
  <2>1. CASE i \in NewestOf(X)
    <3>1. i \in A /\ i \in B
      BY <1>2, <2>1
    <3>2. OnFrom(A, i) = OnFrom(B, i)
      BY <1>5, <2>1
    <3> HIDE DEF A, B
    <3> QED
      BY <3>1, <3>2, NewestIs
  <2>2. CASE i \notin NewestOf(X)
    <3>1. i \notin A
      BY <1>8, <2>2
    <3>2. i \in NewestOf(B) => i \in X
      BY <1>8 DEF NewestOf
    <3> HIDE DEF A, B
    <3>3. i \notin NewestOf(A)
      BY <3>1, NewestIs
    <3> QED
      BY <1>6, <2>2, <3>2, <3>3
  <2> QED
    BY <2>1, <2>2
<1> HIDE DEF A, B
<1>9. NewestOf(A) = NewestOf(B)
  BY <1>7, <1>8
<1> QED
  BY <1>9 DEF A, B

\* The bars since the start that were anchors when they closed, and are not stale.
Were(fl, b) == {i \in (b + 1)..Len(fl) : Len(fl) - i <= StaleBars /\ IsAnchor(SubSeq(fl, 1, i))}

\* The first elements of a sequence.
LEMMA PrefixIs ==
  ASSUME NEW S, NEW s, NEW i, s \in Seq(S), i \in 1..Len(s)
  PROVE  /\ SubSeq(s, 1, i) \in Seq(S) /\ Len(SubSeq(s, 1, i)) = i
         /\ \A j \in 1..i : SubSeq(s, 1, i)[j] = s[j]
<1>1. Len(s) \in Nat /\ \A j \in 1..Len(s) : s[j] \in S
  BY LenProperties, ElementOfSeq
<1>2. i \in Int /\ 1 \in Int /\ 1 <= i /\ i - 1 + 1 = i /\ \A j \in 1..i : j \in 1..Len(s) /\ 1 + j - 1 = j
  BY <1>1
<1>3. \A j \in 1..i : s[j] \in S
  BY <1>1, <1>2
<1>4. /\ SubSeq(s, 1, i) \in Seq(S)
      /\ Len(SubSeq(s, 1, i)) = IF 1 <= i THEN i - 1 + 1 ELSE 0
      /\ \A j \in 1..(i - 1 + 1) : SubSeq(s, 1, i)[j] = s[1 + j - 1]
  BY <1>2, <1>3, SubSeqProperties
<1> QED
  BY <1>2, <1>4

\* A bar later the stale ones are gone, and this bar may be one more.
LEMMA WereGrows ==
  ASSUME NEW fl, NEW b, NEW x, NEW new, fl \in Seq(Flows), b \in 0..Len(fl), x \in Flows,
         new = Append(fl, x)
  PROVE  /\ new \in Seq(Flows) /\ Len(new) = Len(fl) + 1 /\ Len(fl) \in Nat
         /\ Were(new, b) = OnFrom(Were(fl, b), Len(fl) + 1 - StaleBars)
                           \cup (IF IsAnchor(new) THEN {Len(fl) + 1} ELSE {})
<1>1. PICK n \in Nat : n = Len(fl)
  BY LenProperties
<1>2. /\ new \in Seq(Flows) /\ Len(new) = n + 1
      /\ \A i \in 1..n : new[i] = fl[i]
  BY <1>1, AppendProperties
<1>3. \A i \in 1..(n + 1) : new[i] \in Flows
  BY <1>2, ElementOfSeq
<1>4. \A i \in 1..n : fl[i] \in Flows
  BY <1>1, ElementOfSeq
<1>5. ASSUME NEW i \in 1..n PROVE SubSeq(new, 1, i) = SubSeq(fl, 1, i)
  <2>1. i \in 1..Len(fl) /\ i \in 1..Len(new) /\ \A j \in 1..i : j \in 1..n
    BY <1>1, <1>2
  <2>2. /\ SubSeq(new, 1, i) \in Seq(Flows) /\ Len(SubSeq(new, 1, i)) = i
        /\ \A j \in 1..i : SubSeq(new, 1, i)[j] = new[j]
    BY <1>2, <2>1, PrefixIs
  <2>3. /\ SubSeq(fl, 1, i) \in Seq(Flows) /\ Len(SubSeq(fl, 1, i)) = i
        /\ \A j \in 1..i : SubSeq(fl, 1, i)[j] = fl[j]
    BY <2>1, PrefixIs
  <2>4. PICK p : p = SubSeq(new, 1, i)
    OBVIOUS
  <2>5. PICK q : q = SubSeq(fl, 1, i)
    OBVIOUS
  <2>6. /\ p \in Seq(Flows) /\ Len(p) = i /\ q \in Seq(Flows) /\ Len(q) = i
        /\ \A j \in 1..i : p[j] = q[j]
    BY <1>2, <2>1, <2>2, <2>3, <2>4, <2>5
  <2>7. p = q
    BY <2>6, SeqEqual
  <2> QED
    BY <2>4, <2>5, <2>7
<1>6. SubSeq(new, 1, n + 1) = new
  BY <1>2, SubSeqFull
<1>7. PICK c \in Int : c = n + 1 - StaleBars
  BY MemoryAssumption
<1>8. b \in Nat /\ b <= n
  BY <1>1
<1>9. \A i : i \in Were(fl, b) <=> i \in (b + 1)..n /\ n - i <= StaleBars /\ IsAnchor(SubSeq(fl, 1, i))
  BY <1>1 DEF Were
<1>10. \A i : i \in Were(new, b) <=> i \in (b + 1)..(n + 1) /\ (n + 1) - i <= StaleBars /\ IsAnchor(SubSeq(new, 1, i))
  BY <1>2 DEF Were
<1>11. ASSUME NEW i \in (b + 1)..n
       PROVE  i \in Were(new, b) <=> i \in OnFrom(Were(fl, b), c)
  <2>1. i \in 1..n /\ i \in (b + 1)..(n + 1)
    BY <1>8
  <2>2. /\ ((n + 1) - i <= StaleBars <=> i >= c)
        /\ (i >= c => n - i <= StaleBars)
    BY <1>7, <1>8, <2>1, MemoryAssumption
  <2> QED
    BY <1>5, <1>9, <1>10, <2>1, <2>2 DEF OnFrom
<1>12. n + 1 \in Were(new, b) <=> IsAnchor(new)
  <2>1. n + 1 \in (b + 1)..(n + 1) /\ (n + 1) - (n + 1) <= StaleBars
    BY <1>8, MemoryAssumption
  <2> QED
    BY <1>6, <1>10, <2>1
<1>13. \A i : i \in (b + 1)..(n + 1) <=> i \in (b + 1)..n \/ i = n + 1
  BY <1>8
<1>14. \A i : i \in OnFrom(Were(fl, b), c) => i \in (b + 1)..n
  BY <1>9 DEF OnFrom
<1>15. \A i : i \in Were(new, b) <=> i \in OnFrom(Were(fl, b), c) \/ (i = n + 1 /\ IsAnchor(new))
  BY <1>10, <1>11, <1>12, <1>13, <1>14
<1>16. Were(new, b) = OnFrom(Were(fl, b), c) \cup (IF IsAnchor(new) THEN {n + 1} ELSE {})
  BY <1>15
<1> QED
  BY <1>1, <1>2, <1>7, <1>16

\* They are finitely many, and none is later than the last bar.
LEMMA WereAre ==
  ASSUME NEW fl, NEW b, Len(fl) \in Nat, b \in Nat
  PROVE  IsFiniteSet(Were(fl, b)) /\ Were(fl, b) \subseteq Int /\ \A i \in Were(fl, b) : i <= Len(fl)
<1>1. IsFiniteSet((b + 1)..Len(fl))
  BY FS_Interval
<1>2. Were(fl, b) \in SUBSET ((b + 1)..Len(fl))
  BY DEF Were
<1>3. \A i \in (b + 1)..Len(fl) : i \in Int /\ i <= Len(fl)
  OBVIOUS
<1> QED
  BY <1>1, <1>2, <1>3, FS_Subset

\* Each anchor is as old as the bars since its own.
AgesAre(r, n) == \A k \in 1..Len(r) : r[k].age = n - r[k].at /\ r[k].age <= StaleBars

MemInv ==
    /\ flow \in Seq(Flows) /\ born \in 0..Len(flow) /\ deaths \in Nat
    /\ anchors \in Seq(AnchorRecord) /\ Rising(anchors) /\ Len(anchors) <= MaxAnchors
    /\ AgesAre(anchors, Len(flow))
    /\ Places(anchors) = NewestOf(Were(flow, born))
    /\ lastDiv \in [Types -> 0..Len(flow)] /\ divFile \in [Types -> 0..Len(flow)]
    /\ \A t \in Types : divFile[t] <= lastDiv[t]

\* Nothing is remembered at first.
LEMMA MemoryStart == MemoryInit => MemInv
<1> SUFFICES ASSUME MemoryInit PROVE MemInv
  OBVIOUS
<1>1. /\ flow = <<>> /\ anchors = <<>> /\ lastDiv = NoDivs /\ divFile = NoDivs
      /\ born = 0 /\ deaths = 0
  BY DEF MemoryInit
<1>2. Len(<<>>) = 0 /\ 1..0 = {} /\ DOMAIN <<>> = {}
  OBVIOUS
<1>3. \A S : <<>> \in Seq(S)
  BY EmptySeq
<1>4. Places(<<>>) = {}
  BY <1>2 DEF Places
<1>5. Were(<<>>, 0) = {}
  <2>1. (0 + 1)..0 = {}
    OBVIOUS
  <2> QED
    BY <1>2, <2>1 DEF Were
<1>6. NewestOf({}) = {}
  BY DEF NewestOf
<1>7. NoDivs \in [Types -> 0..0] /\ \A t \in Types : NoDivs[t] <= NoDivs[t]
  BY DEF NoDivs
<1>8. Rising(<<>>) /\ AgesAre(<<>>, 0)
  BY <1>2 DEF Rising, AgesAre
<1>9. 0 <= MaxAnchors /\ 0 \in 0..0 /\ 0 \in Nat
  BY MemoryAssumption
<1> QED
  BY <1>1, <1>2, <1>3, <1>4, <1>5, <1>6, <1>7, <1>8, <1>9 DEF MemInv

\* The registry after a bar, before this bar is looked at.
LEMMA OlderRegistry ==
  ASSUME NEW n, NEW old, NEW W, n \in Nat, old \in Seq(AnchorRecord), Rising(old), Len(old) <= MaxAnchors,
         AgesAre(old, n), Places(old) = NewestOf(W), W \subseteq Int
  PROVE  LET o == Older(old)
         IN  /\ o \in Seq(AnchorRecord) /\ Rising(o) /\ Len(o) <= MaxAnchors /\ AgesAre(o, n + 1)
             /\ Places(o) = NewestOf(OnFrom(W, n + 1 - StaleBars))
<1>1. PICK o : o = Older(old)
  OBVIOUS
<1>2. PICK l \in Nat : l = Len(old)
  BY LenProperties
<1>3. OlderUpTo(old, o, l)
  BY <1>1, <1>2, OlderKeeps
<1>4. /\ o \in Seq(AnchorRecord) /\ Len(o) <= l /\ Rising(o)
      /\ \A d : Holds(o, d) <=> \E i \in 1..l : AgedTo(old[i], d)
  BY <1>3 DEF OlderUpTo
<1>5. PICK p \in Nat : p = Len(o)
  BY <1>4, LenProperties
<1>6. DOMAIN old = 1..l /\ DOMAIN o = 1..p
  BY <1>2, <1>4, <1>5, LenProperties
<1>7. Len(o) <= MaxAnchors
  BY <1>2, <1>4, <1>5, MemoryAssumption
<1>8. ASSUME NEW i \in 1..l
      PROVE  /\ old[i] \in AnchorRecord /\ old[i].at \in Nat /\ old[i].age \in Nat
             /\ old[i].age = n - old[i].at
  <2>1. old[i] \in AnchorRecord
    BY <1>2, ElementOfSeq
  <2> QED
    BY <1>2, <2>1 DEF AnchorRecord, AgesAre
<1>9. ASSUME NEW i \in 1..l, NEW d, AgedTo(old[i], d)
      PROVE  d.at = old[i].at /\ d.age = old[i].age + 1 /\ old[i].age + 1 <= StaleBars
  BY <1>8, <1>9 DEF AgedTo, AnchorRecord
<1>10. ASSUME NEW k \in 1..p PROVE \E i \in 1..l : AgedTo(old[i], o[k])
  <2>1. Holds(o, o[k])
    BY <1>5 DEF Holds
  <2> QED
    BY <1>4, <2>1
<1>11. ASSUME NEW k \in 1..p PROVE o[k].age = (n + 1) - o[k].at /\ o[k].age <= StaleBars
  <2>1. PICK i \in 1..l : AgedTo(old[i], o[k])
    BY <1>10
  <2>2. o[k].at = old[i].at /\ o[k].age = old[i].age + 1 /\ old[i].age + 1 <= StaleBars
    BY <1>9, <2>1
  <2>3. old[i].at \in Nat /\ old[i].age = n - old[i].at
    BY <1>8
  <2> QED
    BY <2>2, <2>3
<1>12. PICK c \in Int : c = n + 1 - StaleBars
  BY MemoryAssumption
<1>13. ASSUME NEW i \in 1..l PROVE old[i].age + 1 <= StaleBars <=> old[i].at >= c
  BY <1>8, <1>12, MemoryAssumption
<1>14. ASSUME NEW x \in Places(o) PROVE x \in OnFrom(Places(old), c)
  <2>1. PICK k \in 1..p : x = o[k].at
    BY <1>6 DEF Places
  <2>2. PICK i \in 1..l : AgedTo(old[i], o[k])
    BY <1>10
  <2>3. x = old[i].at /\ x >= c
    BY <1>9, <1>13, <2>1, <2>2
  <2> QED
    BY <1>6, <2>3 DEF Places, OnFrom
<1>15. ASSUME NEW x \in OnFrom(Places(old), c) PROVE x \in Places(o)
  <2>1. x \in Places(old) /\ x >= c
    BY DEF OnFrom
  <2>2. PICK i \in 1..l : x = old[i].at
    BY <1>6, <2>1 DEF Places
  <2>3. old[i].age + 1 <= StaleBars
    BY <1>13, <2>1, <2>2
  <2>4. PICK d : d = [old[i] EXCEPT !.age = @ + 1]
    OBVIOUS
  <2>5. AgedTo(old[i], d)
    BY <2>3, <2>4 DEF AgedTo
  <2>6. PICK k \in 1..p : o[k] = d
    BY <1>4, <1>5, <2>5 DEF Holds
  <2>7. x = o[k].at
    BY <1>9, <2>2, <2>5, <2>6
  <2> QED
    BY <1>6, <2>7 DEF Places
<1>16. Places(o) = OnFrom(NewestOf(W), c)
  BY <1>14, <1>15
<1>17. Places(o) = NewestOf(OnFrom(W, c))
  BY <1>16, NewestOnFrom
<1>18. AgesAre(o, n + 1)
  <2>1. \A k \in 1..Len(o) : o[k].age = (n + 1) - o[k].at /\ o[k].age <= StaleBars
    BY <1>5, <1>11, Zenon
  <2> QED
    BY <2>1, Zenon DEF AgesAre
<1> QED
  BY <1>1, <1>4, <1>7, <1>12, <1>17, <1>18

\* update(): with this bar at the end if it is an anchor.
LEMMA RegistryKeeps ==
  ASSUME NEW new, NEW n, NEW old, NEW W, n \in Nat, new \in Seq(Flows), Len(new) = n + 1,
         old \in Seq(AnchorRecord), Rising(old), Len(old) <= MaxAnchors,
         AgesAre(old, n), Places(old) = NewestOf(W), IsFiniteSet(W), W \subseteq Int,
         \A i \in W : i <= n
  PROVE  LET q == AnchorsAfter(old, new)
         IN  /\ q \in Seq(AnchorRecord) /\ Rising(q) /\ Len(q) <= MaxAnchors /\ AgesAre(q, n + 1)
             /\ Places(q) = NewestOf(OnFrom(W, n + 1 - StaleBars)
                                     \cup (IF IsAnchor(new) THEN {n + 1} ELSE {}))
<1>1. PICK o : o = Older(old)
  OBVIOUS
<1>2. PICK X : X = OnFrom(W, n + 1 - StaleBars)
  OBVIOUS
<1>3. /\ o \in Seq(AnchorRecord) /\ Rising(o) /\ Len(o) <= MaxAnchors /\ AgesAre(o, n + 1)
      /\ Places(o) = NewestOf(X)
  BY <1>1, <1>2, OlderRegistry
<1>4. X \in SUBSET W /\ X \subseteq Int /\ \A x \in X : x < n + 1
  <2>1. X \subseteq W
    BY <1>2 DEF OnFrom
  <2>2. \A x \in W : x \in Int /\ x <= n
    OBVIOUS
  <2>3. \A x \in W : x < n + 1
    BY <2>2
  <2> QED
    BY <2>1, <2>2, <2>3
<1>5. IsFiniteSet(X)
  BY <1>4, FS_Subset
<1>6. CASE ~IsAnchor(new)
  <2>1. AnchorsAfter(old, new) = o
    BY <1>1, <1>6 DEF AnchorsAfter
  <2>2. X \cup (IF IsAnchor(new) THEN {n + 1} ELSE {}) = X
    BY <1>6
  <2> QED
    BY <1>2, <1>3, <2>1, <2>2
<1>7. CASE IsAnchor(new)
  <2>1. PICK a : a = Anchor(new)
    OBVIOUS
  <2>2. a \in AnchorRecord /\ a.at = n + 1 /\ a.age = 0
    BY <2>1 DEF Anchor, AnchorRecord
  <2>3. PICK r : r = Append(o, a)
    OBVIOUS
  <2>4. PICK q : q = LastOnes(r, MaxAnchors)
    OBVIOUS
  <2>5. AnchorsAfter(old, new) = q
    BY <1>1, <1>7, <2>1, <2>3, <2>4 DEF AnchorsAfter, Registered
  <2>6. PICK p \in Nat : p = Len(o)
    BY <1>3, LenProperties
  <2>7. DOMAIN o = 1..p
    BY <1>3, <2>6, LenProperties
  <2>8. ASSUME NEW k \in 1..Len(o) PROVE o[k].at < a.at
    <3>1. o[k].at \in Places(o)
      BY <2>6, <2>7, <2>8 DEF Places
    <3>2. o[k].at \in X
      BY <1>3, <3>1 DEF NewestOf
    <3> QED
      BY <1>4, <2>2, <3>2
  <2>9. /\ r \in Seq(AnchorRecord) /\ Len(r) = p + 1 /\ Rising(r) /\ r[p + 1] = a
        /\ \A k \in 1..p : r[k] = o[k]
        /\ \A x : Holds(r, x) <=> Holds(o, x) \/ x = a
    <3>1. /\ r \in Seq(AnchorRecord) /\ Len(r) = Len(o) + 1 /\ Rising(r) /\ r[Len(o) + 1] = a
          /\ \A k \in 1..Len(o) : r[k] = o[k]
          /\ \A x : Holds(r, x) <=> Holds(o, x) \/ x = a
      <4>1. o \in Seq(AnchorRecord) /\ Rising(o)
        BY <1>3
      <4>2. a \in AnchorRecord
        BY <2>2
      <4>3. \A k \in 1..Len(o) : o[k].at < a.at
        BY <2>8
      <4>4. r \in Seq(AnchorRecord) /\ Rising(r) /\ \A x : Holds(r, x) <=> Holds(o, x) \/ x = a
        BY <2>3, <4>1, <4>2, <4>3, RisingAppend
      <4>5. Len(r) = Len(o) + 1 /\ r[Len(o) + 1] = a /\ \A k \in 1..Len(o) : r[k] = o[k]
        BY <2>3, <4>1, <4>2, AppendProperties
      <4> QED
        BY <4>4, <4>5, Zenon
    <3> QED
      BY <2>6, <3>1
  <2>10. /\ q \in Seq(AnchorRecord) /\ Rising(q) /\ Len(q) <= MaxAnchors
         /\ Places(q) = NewestOf(Places(r)) /\ \A d : Holds(q, d) => Holds(r, d)
    BY <2>4, <2>9, KeptAre
  <2>11. Places(r) = Places(o) \cup {n + 1}
    <3>1. DOMAIN r = 1..(p + 1)
      BY <2>9, LenProperties
    <3>2. \A k : k \in 1..(p + 1) <=> k \in 1..p \/ k = p + 1
      BY <2>6
    <3> QED
      BY <2>2, <2>7, <2>9, <3>1, <3>2 DEF Places
  <2>12. NewestOf(NewestOf(X) \cup {n + 1}) = NewestOf(X \cup {n + 1})
    <3>1. PICK top \in Int : top = n + 1
      OBVIOUS
    <3>2. \A x \in X : x < top
      BY <1>4, <3>1
    <3>3. NewestOf(NewestOf(X) \cup {top}) = NewestOf(X \cup {top})
      BY <1>4, <1>5, <3>2, NewestAgain
    <3> QED
      BY <3>1, <3>3
  <2>13. Places(q) = NewestOf(X \cup {n + 1})
    BY <1>3, <2>10, <2>11, <2>12
  <2>14. AgesAre(q, n + 1)
    <3>1. ASSUME NEW k \in 1..Len(q) PROVE q[k].age = (n + 1) - q[k].at /\ q[k].age <= StaleBars
      <4>1. Holds(q, q[k])
        BY DEF Holds
      <4>2. Holds(o, q[k]) \/ q[k] = a
        BY <2>9, <2>10, <4>1
      <4>3. CASE q[k] = a
        BY <2>2, <4>3, MemoryAssumption
      <4>4. CASE Holds(o, q[k])
        <5>1. PICK j \in 1..Len(o) : o[j] = q[k]
          BY <4>4 DEF Holds
        <5>2. o[j].age = (n + 1) - o[j].at /\ o[j].age <= StaleBars
          BY <1>3 DEF AgesAre
        <5> QED
          BY <5>1, <5>2
      <4> QED
        BY <4>2, <4>3, <4>4
    <3> QED
      BY <3>1, Zenon DEF AgesAre
  <2> QED
    BY <1>2, <1>7, <2>5, <2>10, <2>13, <2>14
<1> QED
  BY <1>6, <1>7

\* A bar keeps the registry and moves no divergence back.
LEMMA FlowKeeps ==
  ASSUME MemInv, FlowCloses
  PROVE  MemInv' /\ deaths' = deaths /\ \A t \in Types : lastDiv'[t] >= lastDiv[t]
<1>1. PICK b \in Flows : flow' = Append(flow, b)
  BY DEF FlowCloses
<1>2. PICK n \in Nat : n = Len(flow)
  BY LenProperties DEF MemInv
<1>3. flow \in Seq(Flows) /\ born \in 0..Len(flow)
  BY DEF MemInv
<1>4. PICK new : new = flow'
  OBVIOUS
<1>5. /\ new \in Seq(Flows) /\ Len(new) = n + 1
      /\ Were(new, born) = OnFrom(Were(flow, born), n + 1 - StaleBars)
                           \cup (IF IsAnchor(new) THEN {n + 1} ELSE {})
  BY <1>1, <1>2, <1>3, <1>4, WereGrows
<1>6. PICK W : W = Were(flow, born)
  OBVIOUS
<1>7. IsFiniteSet(W) /\ W \subseteq Int /\ \A i \in W : i <= n
  BY <1>2, <1>3, <1>6, WereAre
<1>8. /\ anchors \in Seq(AnchorRecord) /\ Rising(anchors) /\ Len(anchors) <= MaxAnchors
      /\ AgesAre(anchors, n) /\ Places(anchors) = NewestOf(W)
  BY <1>2, <1>6 DEF MemInv
<1>9. PICK q : q = AnchorsAfter(anchors, new)
  OBVIOUS
<1>10. /\ q \in Seq(AnchorRecord) /\ Rising(q) /\ Len(q) <= MaxAnchors /\ AgesAre(q, n + 1)
       /\ Places(q) = NewestOf(Were(new, born))
  <2>1. /\ q \in Seq(AnchorRecord) /\ Rising(q) /\ Len(q) <= MaxAnchors /\ AgesAre(q, n + 1)
        /\ Places(q) = NewestOf(OnFrom(W, n + 1 - StaleBars)
                                \cup (IF IsAnchor(new) THEN {n + 1} ELSE {}))
    BY <1>5, <1>7, <1>8, <1>9, RegistryKeeps
  <2> QED
    BY <1>5, <1>6, <2>1, Zenon
<1>11. anchors' = q /\ born' = born /\ deaths' = deaths
  BY <1>4, <1>9 DEF FlowCloses
<1>12. PICK found \in [Types -> 0..(n + 1)] : lastDiv' = Remembered(found) /\ divFile' \in {divFile, lastDiv'}
  BY <1>4, <1>5 DEF FlowCloses
<1>13. /\ lastDiv \in [Types -> 0..n] /\ divFile \in [Types -> 0..n]
       /\ \A t \in Types : divFile[t] <= lastDiv[t]
  BY <1>2 DEF MemInv
<1>14. PICK d : d = Remembered(found)
  OBVIOUS
<1>15. d = [t \in Types |-> IF found[t] = 0 THEN lastDiv[t] ELSE Newest(lastDiv[t], found[t])]
  BY <1>14 DEF Remembered
<1>16. \A t \in Types : d[t] \in 0..(n + 1) /\ d[t] >= lastDiv[t]
  <2> TAKE t \in Types
  <2>1. PICK x \in 0..n : x = lastDiv[t]
    BY <1>13
  <2>2. PICK y \in 0..(n + 1) : y = found[t]
    BY <1>12
  <2>3. d[t] = IF y = 0 THEN x ELSE IF y >= x THEN y ELSE x
    BY <1>15, <2>1, <2>2 DEF Newest
  <2> QED
    BY <2>1, <2>2, <2>3
<1>17. d \in [Types -> 0..(n + 1)]
  BY <1>15, <1>16
<1>18. PICK e : e = divFile'
  OBVIOUS
<1>19. e \in [Types -> 0..(n + 1)] /\ \A t \in Types : e[t] <= d[t]
  <2>1. CASE e = d
    BY <1>16, <1>17, <2>1
  <2>2. CASE e = divFile
    <3>1. \A t \in Types : divFile[t] \in 0..(n + 1) /\ divFile[t] <= d[t]
      <4> TAKE t \in Types
      <4>1. PICK x \in 0..n : x = lastDiv[t]
        BY <1>13
      <4>2. PICK y \in 0..n : y = divFile[t]
        BY <1>13
      <4>3. PICK z \in 0..(n + 1) : z = d[t]
        BY <1>16
      <4> QED
        BY <1>13, <1>16, <4>1, <4>2, <4>3
    <3> QED
      BY <1>13, <2>2, <3>1
  <2> QED
    BY <1>12, <1>14, <1>18, <2>1, <2>2
<1>20. born \in 0..(n + 1)
  BY <1>2, <1>3
<1>21. deaths \in Nat
  BY DEF MemInv
<1>22. lastDiv' = d /\ Len(flow') = n + 1
  BY <1>4, <1>5, <1>12, <1>14
<1> QED
  BY <1>4, <1>5, <1>10, <1>11, <1>16, <1>17, <1>18, <1>19, <1>20, <1>21, <1>22 DEF MemInv

\* Every step keeps the memory, and a restart brings nothing newer.
LEMMA MemoryStands ==
  ASSUME MemInv, [MemoryNext]_memoryVars
  PROVE  MemInv' /\ DivergenceNeverOlder
<1>1. CASE FlowCloses
  BY <1>1, FlowKeeps DEF DivergenceNeverOlder
<1>2. CASE MemoryRestart
  <2>1. /\ anchors' = <<>> /\ lastDiv' = divFile /\ born' = Len(flow) /\ deaths' = deaths + 1
        /\ flow' = flow /\ divFile' = divFile
    BY <1>2 DEF MemoryRestart
  <2>2. PICK n \in Nat : n = Len(flow)
    BY LenProperties DEF MemInv
  <2>3. /\ lastDiv \in [Types -> 0..n] /\ divFile \in [Types -> 0..n]
        /\ \A t \in Types : divFile[t] <= lastDiv[t]
    BY <2>2 DEF MemInv
  <2>4. Len(<<>>) = 0 /\ 1..0 = {} /\ DOMAIN <<>> = {}
    OBVIOUS
  <2>5. <<>> \in Seq(AnchorRecord)
    BY EmptySeq
  <2>6. Places(<<>>) = {} /\ NewestOf({}) = {}
    BY <2>4 DEF Places, NewestOf
  <2>7. Were(flow, n) = {}
    <3>1. (n + 1)..n = {}
      OBVIOUS
    <3> QED
      BY <2>2, <3>1 DEF Were
  <2>8. Rising(<<>>) /\ AgesAre(<<>>, n)
    BY <2>4 DEF Rising, AgesAre
  <2>9. 0 <= MaxAnchors /\ n \in 0..n
    BY MemoryAssumption
  <2>10. deaths + 1 \in Nat /\ deaths + 1 # deaths
    BY DEF MemInv
  <2>11. \A t \in Types : divFile[t] <= divFile[t]
    BY <2>3
  <2>12. flow \in Seq(Flows)
    BY DEF MemInv
  <2>13. MemInv'
    BY <2>1, <2>2, <2>3, <2>4, <2>5, <2>6, <2>7, <2>8, <2>9, <2>10, <2>11, <2>12 DEF MemInv
  <2> QED
    BY <2>1, <2>3, <2>10, <2>13 DEF DivergenceNeverOlder
<1>3. CASE UNCHANGED memoryVars
  BY <1>3 DEF memoryVars, MemInv, DivergenceNeverOlder
<1> QED
  BY <1>1, <1>2, <1>3 DEF MemoryNext

\* What BarMemory promises follows from its invariant.
LEMMA MemoryHolds ==
  ASSUME MemInv
  PROVE  MemoryTypeOK /\ AnchorsAsScanned
<1>1. PICK l \in Nat : l = Len(anchors)
  BY LenProperties DEF MemInv
<1>2. DOMAIN anchors = 1..l
  BY <1>1, LenProperties DEF MemInv
<1>3. PICK n \in Nat : n = Len(flow)
  BY LenProperties DEF MemInv
<1>4. \A k \in 1..l : anchors[k] \in AnchorRecord
  BY <1>1, ElementOfSeq DEF MemInv
<1>5. \A k \in 1..l : anchors[k].age = n - anchors[k].at /\ anchors[k].age <= StaleBars
  BY <1>1, <1>3 DEF MemInv, AgesAre
<1>6. \A k \in 1..l : anchors[k].age \in Nat
  BY <1>4 DEF AnchorRecord
<1>7. \A k \in 1..l : anchors[k].age \in 0..StaleBars
  BY <1>5, <1>6, MemoryAssumption
<1>8. MemoryTypeOK
  BY <1>2, <1>7 DEF MemoryTypeOK, MemInv
<1>9. {anchors[k].at : k \in DOMAIN anchors} = NewestOf(Were(flow, born))
  BY DEF MemInv, Places
<1>10. \A k \in DOMAIN anchors : anchors[k].age = n - anchors[k].at
  BY <1>2, <1>5
<1>11. \A k \in 1..(Len(anchors) - 1) : anchors[k].at < anchors[k + 1].at
  <2>1. \A k \in 1..(l - 1) : k \in 1..l /\ k + 1 \in 1..l /\ k < k + 1
    OBVIOUS
  <2> QED
    BY <1>1, <2>1 DEF MemInv, Rising
<1>12. AnchorsAsScanned
  BY <1>3, <1>9, <1>10, <1>11 DEF AnchorsAsScanned, NewestOf, Were
<1> QED
  BY <1>8, <1>12

-----------------------------------------------------------------------------
(***************************************************************************)
(* All parts together.                                                     *)
(***************************************************************************)
\* What holds of every part between two steps.
PartsInv ==
    /\ CycleInv /\ CycleTypes /\ TrendCounts
    /\ SweepInv /\ SweepTypes
    /\ TradeInv
    /\ MemInv
    /\ LimitInv
    /\ VpTypes /\ SessionsInv /\ BuildInv

\* Every part begins in order,
LEMMA PartsStart == BarInit => PartsInv
<1>1. BarInit => Init /\ SweepInit /\ TradeInit /\ MemoryInit /\ VpInit
  BY DEF BarInit
<1>2. Init => CycleInv /\ CycleTypes /\ TrendCounts
  BY CycleStart, CycleTypesStart
<1>3. SweepInit => SweepInv /\ SweepTypes
  BY SweepStart, SweepTypesStart
<1>4. VpInit => VpTypes /\ SessionsInv /\ BuildInv
  BY VpStart, BuildStart
<1> QED
  BY <1>1, <1>2, <1>3, <1>4, TradeStart, MemoryStart, LimitsStart DEF PartsInv

\* Every step is one of each part, or leaves it alone.
LEMMA EachPart ==
  [BarNext]_barVars =>
      /\ [Next]_vars /\ [SweepNext]_sweepVars /\ [TradeNext]_tradeVars
      /\ [MemoryNext]_memoryVars /\ [LimitNext]_limitVars /\ [VpNext]_vpVars
  BY DEF BarNext, Others, barVars, Parts

\* What no step does.
Stands ==
    /\ StopLoosensOnFillOnly /\ NoEscapeOnFill
    /\ VerdictStands /\ DivergenceNeverOlder /\ SwingsStay
    /\ TodayIsWhole /\ ClosedSessionStands

\* and every step keeps it so and undoes nothing that is settled.
LEMMA PartsStep == PartsInv /\ [BarNext]_barVars => PartsInv' /\ Stands
<1> SUFFICES ASSUME PartsInv, [BarNext]_barVars PROVE PartsInv' /\ Stands
  OBVIOUS
<1>1. /\ [Next]_vars /\ [SweepNext]_sweepVars /\ [TradeNext]_tradeVars
      /\ [MemoryNext]_memoryVars /\ [LimitNext]_limitVars /\ [VpNext]_vpVars
  BY EachPart
<1>2. CycleInv /\ CycleTypes /\ TrendCounts
  BY DEF PartsInv
<1>3. CycleInv' /\ CycleTypes' /\ TrendCounts' /\ StopLoosensOnFillOnly /\ NoEscapeOnFill
  <2>1. CycleInv'
    BY <1>1, <1>2, CycleTyped
  <2>2. CycleStands
    BY <1>1, <1>2, CycleStep
  <2> QED
    BY <2>1, <2>2 DEF CycleStands
<1>4. SweepInv' /\ SweepTypes' /\ VerdictStands
  <2>1. SweepInv /\ SweepTypes
    BY DEF PartsInv
  <2>2. SweepInv'
    BY <1>1, <2>1, SweepKeeps
  <2>3. SweepTypes' /\ VerdictStands
    BY <1>1, <2>1, SweepStands
  <2> QED
    BY <2>2, <2>3
<1>5. TradeInv'
  <2>1. TradeInv
    BY DEF PartsInv
  <2> QED
    BY <1>1, <2>1, TradeStep
<1>6. MemInv' /\ DivergenceNeverOlder
  <2>1. MemInv
    BY DEF PartsInv
  <2> QED
    BY <1>1, <2>1, MemoryStands
<1>7. LimitInv' /\ SwingsStay
  <2>1. LimitInv
    BY DEF PartsInv
  <2>2. LimitInv'
    BY <1>1, <2>1, LimitStep
  <2>3. SwingsStay
    BY <1>1, <2>1, SwingsStayed
  <2> QED
    BY <2>2, <2>3
<1>8. VpTypes' /\ SessionsInv' /\ BuildInv' /\ TodayIsWhole /\ ClosedSessionStands
  <2>1. VpTypes /\ SessionsInv /\ BuildInv
    BY DEF PartsInv
  <2>2. VpTypes' /\ SessionsInv'
    BY <1>1, <2>1, VpTyped
  <2>3. BuildInv' /\ TodayIsWhole /\ ClosedSessionStands
    BY <1>1, <2>1, BuildStands
  <2> QED
    BY <2>2, <2>3
<1> QED
  BY <1>3, <1>4, <1>5, <1>6, <1>7, <1>8 DEF PartsInv, Stands

\* Whatever the parts are put through, what is settled stands: while a position is open its
\* stop loosens on a fill only, and no bar that filled a leg escapes; a sweep keeps its
\* verdict; no restart brings a newer divergence, and no bar repaints a swing; a build leaves
\* out nothing of today that closed before its second, and while builds are apart the profile
\* of a session that is over is not rewritten.
THEOREM WhatIsSettledStands == BarSpec => SettledStands
<1>1. PartsInv /\ [BarNext]_barVars => PartsInv'
  BY PartsStep
<1>2. PartsInv /\ [BarNext]_barVars =>
        (/\ StopLoosensOnFillOnly /\ NoEscapeOnFill
         /\ VerdictStands /\ DivergenceNeverOlder /\ SwingsStay
         /\ TodayIsWhole /\ ClosedSessionStands)
  BY PartsStep DEF Stands
<1> QED
  BY <1>1, <1>2, PartsStart, PTL DEF BarSpec, SettledStands

\* Handlers that read, empty, write and append the log at once, and a crash between any two
\* of these, lose no print and take no outcome back but those they exposed, and each line was
\* judged by the bars after it as they were; the anchors kept are those a scan of the bars
\* since the start would find, with their ages (big_trade.py, anchor_bar.py).
THEOREM ThePastIsRecorded == BarSpec => []PastIsRecorded
<1>1. PartsInv /\ [BarNext]_barVars => PartsInv'
  BY PartsStep
<1>2. PartsInv => PastIsRecorded
  BY TradeHolds, MemoryHolds DEF PartsInv, PastIsRecorded
<1> QED
  BY <1>1, <1>2, PartsStart, PTL DEF BarSpec

\* Every part keeps its variables in their types.
THEOREM BarsTypeCorrect == BarSpec => []BarTypeOK
<1>1. PartsInv /\ [BarNext]_barVars => PartsInv'
  BY PartsStep
<1>2. PartsInv => BarTypeOK
  <2> SUFFICES ASSUME PartsInv PROVE BarTypeOK
    OBVIOUS
  <2>1. TypeOK /\ SweepTypeOK /\ TradeTypeOK
    BY CycleTypesHold, SweepTypesHold, TradeHolds DEF PartsInv
  <2>2. MemoryTypeOK /\ LimitTypeOK
    BY MemoryHolds, LimitHolds DEF PartsInv
  <2> QED
    BY <2>1, <2>2 DEF BarTypeOK
<1> QED
  BY <1>1, <1>2, PartsStart, PTL DEF BarSpec
=============================================================================
