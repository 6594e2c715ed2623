-------------------------------- MODULE Composed --------------------------------
(***************************************************************************)
(* strategies/composed/engine.py runs a strategy wired from components      *)
(* (components.py): a trigger that returns a signal, and one engine for the  *)
(* limit, the memory and the commit.  engine.py:3-6 promises the outputs of  *)
(* the strategy classes it replaces; scripts/parity_composed.py samples that *)
(* promise on recorded bars.  LimitEntry is those classes, and IsLegacy says *)
(* that this engine implements it.                                           *)
(***************************************************************************)
EXTENDS Structure

CONSTANTS Wirings,      \* "choch", "wave", "climax" (reversal_flip), "vote"
          Candles, Histories, MaxBarsOf, MaxGaps, MaxRestarts,    \* as in LimitEntry
          SwingN, ArmWithin, LimitLife, StopBuf, StopMin, Retrace, Extend, LegLevel(_, _)

ASSUME ComposedAssumption ==
    /\ Wirings \subseteq {"choch", "wave", "climax", "vote"} /\ LimitLife \in Nat
    /\ \A past \in Histories : past \in Seq([h : Nat, l : Nat, c : Nat])

VARIABLES cWired,       \* the trigger wired in
          cBars,        \* the bars of decide_tf
          cState,       \* the engine's state: [acted, pending, seen]
          cOpen,        \* the strategy holds a position
          cLife,        \* process lives so far, and gaps in the feed
          cArmed,       \* history: [ts, life] of every limit armed
          cFills        \* history: every entry from a limit
composedVars == <<cWired, cBars, cState, cOpen, cLife, cArmed, cFills>>

Blank0 == [acted |-> 0, pending |-> None, seen |-> 0]

-----------------------------------------------------------------------------
(* Triggers: what was seen, and the signal if there is one *)
Quiet0(seen) == [seen |-> seen, signal |-> None]
Signal(limit, ts, long, level, raw, tp) ==
    [kind |-> "signal", limit |-> limit, dedup |-> ts, long |-> long, level |-> level, tp |-> tp,
     sl |-> IF long THEN Min({1000 * raw - StopBuf, level - StopMin})
            ELSE Max({1000 * raw + StopBuf, level + StopMin})]
Limit(ts, long, level, raw, tp) == Signal(TRUE, ts, long, level, raw, tp)
Waits(s, close) == IF s.long THEN s.level < 1000 * close ELSE s.level > 1000 * close
Ordered(s) == IF s.long THEN s.sl < s.level /\ s.level < s.tp ELSE s.tp < s.level /\ s.level < s.sl

\* The signal, or none where it would not rest or has no order.
IfSound(s, bars) == IF Waits(s, Last(bars).c) /\ Ordered(s) THEN s ELSE None

\* _choch_fib
ChochLimit(ts, leg, long) ==
    LET span == leg.extreme - leg.origin
    IN  Limit(ts, long, 1000 * leg.extreme - Retrace * span, leg.origin,
              1000 * leg.extreme + (Extend - 1000) * span)
ChochBack(bars, seen, event, leg) ==
    LET ts == bars[event.at].t
        long == event.kind = "bull"
    IN  IF ts = seen \/ ~Found(leg) THEN Quiet0(seen)
        ELSE IF event.at - 1 < Len(bars) - ArmWithin THEN Quiet0(ts)
        ELSE IF (IF long THEN leg.extreme <= leg.origin ELSE leg.extreme >= leg.origin)
        THEN Quiet0(seen)
        ELSE [seen |-> ts, signal |-> IfSound(ChochLimit(ts, leg, long), bars)]
ChochBroken(bars, seen, event) ==
    IF ~Found(event) THEN Quiet0(seen)
    ELSE ChochBack(bars, seen, event, ImpulseLeg(bars, event, SwingN))
ChochFib(bars, seen) ==
    IF Len(bars) < 2 * SwingN + 6 THEN Quiet0(seen) ELSE ChochBroken(bars, seen, Choch(bars, SwingN))

\* _wave_fib: the first of three levels that falls inside the pullback.  A structure is
\* seen before its levels are looked at.
Falls(level, st) ==
    /\ level \in Int
    /\ IF st.kind = "long" THEN 1000 * st.pullback < level /\ level < 1000 * st.impulse
       ELSE 1000 * st.impulse < level /\ level < 1000 * st.pullback
WaveLimit(bars, st) ==
    LET span == st.impulse - st.origin
        fib == 1000 * st.impulse - Retrace * span
        level == IF Falls(LegLevel(bars, st), st) THEN LegLevel(bars, st)
                 ELSE IF Falls(fib, st) THEN fib
                 ELSE (1000 * st.pullback + 1000 * st.impulse) \div 2
    IN  Limit(bars[st.at].t, st.kind = "long", level, st.pullback, 1000 * st.pullback + Extend * span)
WaveBack(bars, seen, st) ==
    LET ts == bars[st.at].t
    IN  IF ~Found(st) THEN Quiet0(seen)
        ELSE IF ts = seen THEN Quiet0(seen)
        ELSE IF \/ st.at - 1 < Len(bars) - ArmWithin
                \/ IF st.kind = "long" THEN st.impulse <= st.origin ELSE st.impulse >= st.origin
        THEN Quiet0(ts)
        ELSE [seen |-> ts, signal |-> IfSound(WaveLimit(bars, st), bars)]
WaveFib(bars, seen) ==
    IF Len(bars) < 2 * SwingN + 6 THEN Quiet0(seen)
    ELSE WaveBack(bars, seen, ContinuationLeg(bars, SwingN))

\* The level of a marker or of an aggression zone: anywhere on the bar it stands on.
MarkOn(bar, limit, long, level) ==
    Signal(limit, bar.t, long, level, IF long THEN bar.l ELSE bar.h,
           IF long THEN level + 2 * StopMin ELSE level - 2 * StopMin)
OnBar(bar, limit) ==
    {MarkOn(bar, limit, long, 1000 * p) : long \in BOOLEAN, p \in {bar.l, bar.h}}

\* _reversal_flip: a marker on the bar just closed, once; it may enter at once.
ReversalFlip(bars, seen, acted) ==
    LET bar == Last(bars)
        markers == OnBar(bar, FALSE) \cup {s \in OnBar(bar, TRUE) : Waits(s, bar.c)}
    IN  {Quiet0(seen)} \cup
        (IF acted = bar.t THEN {} ELSE {[seen |-> seen, signal |-> s] : s \in markers})

\* _vote_agg_imbalance: a limit behind the vote of the bar, as often as there is one.
VoteAggImbalance(bars, seen) ==
    {Quiet0(seen)} \cup
    {[seen |-> seen, signal |-> s] : s \in {x \in OnBar(Last(bars), TRUE) : Waits(x, Last(bars).c)}}

Fired(bars, seen, acted) ==
    CASE cWired = "choch" -> {ChochFib(bars, seen)}
      [] cWired = "wave" -> {WaveFib(bars, seen)}
      [] cWired = "climax" -> ReversalFlip(bars, seen, acted)
      [] cWired = "vote" -> VoteAggImbalance(bars, seen)

-----------------------------------------------------------------------------
(* ComposedStrategy.decide: where it leaves [acted, pending, seen, open, armed, fills] *)
StoodAt(acted, pending, seen, open, armed, fills) ==
    [acted |-> acted, pending |-> pending, seen |-> seen, open |-> open, armed |-> armed,
     fills |-> fills]

\* Mutant: the commit forgets what it acted on.
CommitUnmarked(dedup, seen, opens, fills) ==
    StoodAt(cState.acted, None, seen, opens, cArmed, fills)
\* _commit; the planner or a cap may still refuse the trade.
Commit(dedup, seen, opens, fills) == StoodAt(dedup, None, seen, opens, cArmed, fills)

Pends(s, due) == [kind |-> "limit", signal |-> s, due |-> due]
Take(fired, bar, opens) ==
    LET s == fired.signal
    IN  IF ~Found(s) THEN StoodAt(cState.acted, None, fired.seen, FALSE, cArmed, cFills)
        ELSE IF s.limit
        THEN StoodAt(cState.acted, Pends(s, bar.t + LimitLife), fired.seen, FALSE,
                     Append(cArmed, [ts |-> s.dedup, life |-> cLife.starts]), cFills)
        ELSE Commit(s.dedup, fired.seen, opens, cFills)

Answers(bars) ==
    LET bar == Last(bars)
        p == cState.pending
        over == bar.t > p.due \/ cState.acted = p.signal.dedup
        touched == 1000 * bar.l <= p.signal.level /\ p.signal.level <= 1000 * bar.h
        filled == Append(cFills, [of |-> p, at |-> bar.t, life |-> cLife.starts])
        scan == {Take(f, bar, opens) :
                    f \in Fired(bars, cState.seen, cState.acted), opens \in BOOLEAN}
    IN  IF Found(p) => over THEN scan
        ELSE IF touched
        THEN {Commit(p.signal.dedup, cState.seen, opens, filled) : opens \in BOOLEAN}
        ELSE {StoodAt(cState.acted, p, cState.seen, FALSE, cArmed, cFills)}

-----------------------------------------------------------------------------
WireNow == IF cBars = <<>> THEN 0 ELSE Last(cBars).t
WireBar(candle, t) == [t |-> t, h |-> candle.h, l |-> candle.l, c |-> candle.c, d |-> 0]

ComposedInit ==
    /\ cWired \in Wirings
    /\ \E past \in Histories : cBars = [i \in DOMAIN past |-> WireBar(past[i], i)]
    /\ cState = Blank0 /\ cOpen = FALSE /\ cLife = [starts |-> 1, gaps |-> 0]
    /\ cArmed = <<>> /\ cFills = <<>>

\* A bar of decide_tf closes; the manager asks the strategy if it holds nothing.
ComposedBar(candle, gap, closes) ==
    /\ Len(cBars) < MaxBarsOf[cWired] /\ cLife.gaps + gap <= MaxGaps
    /\ gap > 0 => Found(cState.pending)
    /\ closes => cOpen
    /\ cBars' = Append(cBars, WireBar(candle, WireNow + 1 + gap * LimitLife))
    /\ cLife' = [cLife EXCEPT !.gaps = @ + gap]
    /\ IF cOpen /\ ~closes THEN UNCHANGED <<cState, cOpen, cArmed, cFills>>
       ELSE \E a \in Answers(cBars') :
                /\ cState' = [acted |-> a.acted, pending |-> a.pending, seen |-> a.seen]
                /\ cOpen' = a.open /\ cArmed' = a.armed /\ cFills' = a.fills
    /\ UNCHANGED cWired

ComposedRestart ==
    /\ cLife.starts <= MaxRestarts
    /\ cLife' = [cLife EXCEPT !.starts = @ + 1]
    /\ cState' = Blank0
    /\ UNCHANGED <<cWired, cBars, cOpen, cArmed, cFills>>

ComposedNext ==
    \/ \E candle \in Candles, gap \in 0..1, closes \in BOOLEAN : ComposedBar(candle, gap, closes)
    \/ ComposedRestart
ComposedSpec == ComposedInit /\ [][ComposedNext]_composedVars

-----------------------------------------------------------------------------
(* The classes it replaces.  Congress keeps no mark of what it acted on, and *)
(* the port of reversal_choch has no tp_mode "vp": it is compared with the   *)
(* class in its Fib mode, which never finds a level beyond the leg.          *)
NoTarget(bars, leg) == 1000 * leg.extreme

AsSetup(s) ==
    [kind |-> "setup", ts |-> s.dedup, side |-> IF s.long THEN "long" ELSE "short",
     entry |-> s.level, sl |-> s.sl, tp |-> s.tp]
Legacy ==
    INSTANCE LimitEntry
        WITH TargetLevel <- NoTarget, Kinds <- Wirings,
             lKind <- cWired, lPath <- cBars, lSeen <- cState.seen,
             lActed <- IF cWired = "vote" THEN 0 ELSE cState.acted,
             lPend <- IF Found(cState.pending)
                      THEN [kind |-> "limit", m |-> AsSetup(cState.pending.signal),
                            due |-> cState.pending.due]
                      ELSE None,
             lOpen <- cOpen, lLife <- cLife, lArmed <- cArmed,
             lFills <- [i \in DOMAIN cFills |->
                           [m |-> AsSetup(cFills[i].of.signal), due |-> cFills[i].of.due,
                            at |-> cFills[i].at, life |-> cFills[i].life]]

\* A composed strategy is the class it replaces, bar by bar: the same structures seen, the
\* same limits armed and filled or voided, with gaps in the feed, exits and restarts.
IsLegacy == Legacy!LimitSpec
=============================================================================
