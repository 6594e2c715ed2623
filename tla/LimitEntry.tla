------------------------------- MODULE LimitEntry -------------------------------
(***************************************************************************)
(* The strategies that wait for a price: strategies/reversal_choch.py,      *)
(* wave_fib.py, reversal.py and congress.py read the bars, arm one limit    *)
(* per symbol, and enter when a later bar touches it; the manager asks them *)
(* only while they hold no position (manager._run_one).                     *)
(*                                                                          *)
(* One strategy of one symbol.  A bar is [t, h, l, c], t counting bars of   *)
(* the decision timeframe; the feed may skip one (a gap).  Levels of a      *)
(* setup are thousandths of a price, and the ATR distances are constants.   *)
(***************************************************************************)
EXTENDS Structure

CONSTANTS Kinds,      \* the strategies: "choch", "wave", "climax", "vote"
          Candles,    \* [h, l, c]
          Histories,  \* the series of candles before the first bar
          MaxBarsOf,  \* bars of a behaviour, by strategy
          MaxGaps, MaxRestarts,
          SwingN, ArmWithin, LimitLife,      \* swing_n, arm_within, entry_expiry_bars
          StopBuf, StopMin,                  \* sl_buf_atr, min_sl_atr_mult times the ATR
          Retrace, Extend,                   \* fib_entry, fib_ext
          LegLevel(_, _),       \* the level of the volume profile of a leg (wave_fib._vp_entry)
          TargetLevel(_, _)     \* the nearest level beyond a leg (reversal_choch._vp_tp)

\* The code runs every structure strategy with swing_n = 2, and its Fib extensions are no
\* shorter than the leg (fib_ext is 1.0 and more).
ASSUME LimitAssumption ==
    /\ Kinds # {} /\ Kinds \subseteq {"choch", "wave", "climax", "vote"}
    /\ Candles \subseteq [h : Int, l : Int, c : Int]
    /\ \A past \in Histories : past \in Seq(Candles)
    /\ MaxBarsOf \in [Kinds -> Nat] /\ MaxGaps \in Nat /\ MaxRestarts \in Nat
    /\ SwingN \in 1..2 /\ ArmWithin \in Nat /\ LimitLife \in Nat
    /\ StopBuf \in Nat /\ StopMin \in Nat \ {0}
    /\ Retrace \in 1..999 /\ Extend \in Nat /\ Extend >= 1000

VARIABLES lKind,       \* the strategy, chosen once
          lPath,       \* the bars of the decision timeframe
          lSeen,       \* _seen_choch, _seen: the structure handled last (0: none)
          lActed,      \* _acted: the setup entered last
          lPend,       \* _pending_entry, _pending
          lOpen,       \* the strategy holds a position
          lLife,       \* process lives so far, and gaps in the feed
          lArmed,      \* history: [ts, life] of every setup armed
          lFills       \* history: [setup, due, bar] of every entry from a limit
limitVars == <<lKind, lPath, lSeen, lActed, lPend, lOpen, lLife, lArmed, lFills>>

-----------------------------------------------------------------------------
(* What a strategy arms *)
StopBeyond(side, anchor, entry) ==
    IF side = "long" THEN Min({1000 * anchor - StopBuf, entry - StopMin})
    ELSE Max({1000 * anchor + StopBuf, entry + StopMin})
Setup(ts, side, entry, anchor, tp) ==
    [kind |-> "setup", ts |-> ts, side |-> side, entry |-> entry,
     sl |-> StopBeyond(side, anchor, entry), tp |-> tp]

InOrder(m) == IF m.side = "long" THEN m.sl < m.entry /\ m.entry < m.tp
              ELSE m.tp < m.entry /\ m.entry < m.sl
Pullback(m, bar) == IF m.side = "long" THEN m.entry < 1000 * bar.c ELSE m.entry > 1000 * bar.c

\* The Fib retrace of a leg from one price to another, either way up.
FibLevel(from, to) == 1000 * to - Retrace * (to - from)

\* Beyond the end of the leg (tp_mode "vp"), and worth the risk (vp_tp_min_rr is 1).
Worthwhile(m, level, extreme) ==
    /\ level \in Int
    /\ IF m.side = "long" THEN level > 1000 * extreme /\ level - m.entry >= m.entry - m.sl
       ELSE level < 1000 * extreme /\ m.entry - level >= m.sl - m.entry

\* reversal_choch._arm_signal: the setup of a change of character, and of the leg it broke.
ChochFibSetup(bars, event, leg) ==
    Setup(bars[event.at].t, IF event.kind = "bull" THEN "long" ELSE "short",
          FibLevel(leg.origin, leg.extreme), leg.origin,
          1000 * leg.extreme + (Extend - 1000) * (leg.extreme - leg.origin))
ChochSetup(bars, event, leg) ==
    LET m == ChochFibSetup(bars, event, leg)
        level == TargetLevel(bars, leg)
    IN  IF Worthwhile(m, level, leg.extreme) THEN [m EXCEPT !.tp = level] ELSE m

\* wave_fib._arm_signal: the entry is the level of the leg's profile (entry_mode "vp"), where
\* that falls outside the pullback the Fib retrace, and then the middle of the pullback.
Inside(level, st) ==
    /\ level \in Int
    /\ IF st.kind = "long" THEN 1000 * st.pullback < level /\ level < 1000 * st.impulse
       ELSE 1000 * st.impulse < level /\ level < 1000 * st.pullback
FibOrMid(fib, st) ==
    IF Inside(fib, st) THEN fib ELSE (1000 * st.pullback + 1000 * st.impulse) \div 2
WaveEntry(level, st) ==
    IF Inside(level, st) THEN level ELSE FibOrMid(FibLevel(st.origin, st.impulse), st)
WaveSetup(bars, st) ==
    Setup(bars[st.at].t, st.kind, WaveEntry(LegLevel(bars, st), st), st.pullback,
          1000 * st.pullback + Extend * (st.impulse - st.origin))

FreshAt(i, bars) == ~(i - 1 < Len(bars) - ArmWithin)
\* A leg from one price to another goes the way of the trade.
Runs(long, from, to) == ~(IF long THEN to <= from ELSE to >= from)

\* The structure a strategy reads on its bars: its time stamp, whether it is recent and its
\* leg runs the right way, and the setup that is armed then.
Reading(at, bars, runs, setup) ==
    [kind |-> "read", ts |-> bars[at].t, fresh |-> FreshAt(at, bars) /\ runs, setup |-> setup]
ChochRead(bars, event, leg) ==
    LET runs == Found(leg) /\ Runs(event.kind = "bull", leg.origin, leg.extreme)
    IN  IF ~Found(leg) \/ (FreshAt(event.at, bars) /\ ~runs) THEN None
        ELSE Reading(event.at, bars, runs, ChochSetup(bars, event, leg))
ChochLeg(bars, event) ==
    IF ~Found(event) THEN None ELSE ChochRead(bars, event, ImpulseLeg(bars, event, SwingN))
ChochSignal(bars) ==
    IF Len(bars) < 2 * SwingN + 6 THEN None ELSE ChochLeg(bars, Choch(bars, SwingN))
WaveRead(bars, st) ==
    IF ~Found(st) THEN None
    ELSE Reading(st.at, bars, Runs(st.kind = "long", st.origin, st.impulse),
                 WaveSetup(bars, st))
WaveSignal(bars) ==
    IF Len(bars) < 2 * SwingN + 6 THEN None ELSE WaveRead(bars, ContinuationLeg(bars, SwingN))

Sound(read, bars) == read.fresh /\ Pullback(read.setup, Last(bars)) /\ InOrder(read.setup)

-----------------------------------------------------------------------------
(* Where a strategy stands after a bar: [seen, acted, pend, open, armed, fills] *)
Resting(m, due) == [kind |-> "limit", m |-> m, due |-> due]
LeftAt(seen, acted, pend, open, armed, fills) ==
    [seen |-> seen, acted |-> acted, pend |-> pend, open |-> open, armed |-> armed, fills |-> fills]
Waiting == LeftAt(lSeen, lActed, None, FALSE, lArmed, lFills)
Saw(ts) == LeftAt(ts, lActed, None, FALSE, lArmed, lFills)
ArmedAt(seen, m, due) ==
    LeftAt(seen, lActed, Resting(m, due), FALSE, Append(lArmed, [ts |-> m.ts, life |-> lLife.starts]),
           lFills)

\* Mutant: a structure is not marked when it is armed.
ArmUnseen(m, due) == ArmedAt(lSeen, m, due)
Armed(m, due) == ArmedAt(m.ts, m, due)

\* _build_decision; a cap or the planner may still refuse the trade.
Entered(acted, fills, opens) == LeftAt(lSeen, acted, None, opens, lArmed, fills)

\* The signal of a structure strategy: seen structures are left alone.
Read(read, bars) ==
    IF ~Found(read) THEN Waiting
    ELSE IF read.ts = lSeen THEN Waiting
    ELSE IF Sound(read, bars) THEN Armed(read.setup, Last(bars).t + LimitLife)
    ELSE Saw(read.ts)

\* A reversal marker or a vote on the last bar, at any level around its close.
Marked(bars, side, entry, limit, opens) ==
    LET m == Setup(Last(bars).t, side, entry, IF side = "long" THEN Last(bars).l ELSE Last(bars).h,
                   IF side = "long" THEN entry + 2 * StopMin ELSE entry - 2 * StopMin)
    IN  IF lKind = "climax" /\ lActed = m.ts THEN Waiting
        ELSE IF lKind = "climax" /\ ~limit THEN Entered(m.ts, lFills, opens)
        ELSE IF Pullback(m, Last(bars)) THEN ArmedAt(lSeen, m, Last(bars).t + LimitLife)
        ELSE Waiting

\* Where a scan of the bars may leave the strategy.
Scanned(bars) ==
    IF lKind = "choch" THEN {Read(ChochSignal(bars), bars)}
    ELSE IF lKind = "wave" THEN {Read(WaveSignal(bars), bars)}
    ELSE {Waiting} \cup
         {Marked(bars, side, 1000 * p, limit, opens) :
            side \in {"long", "short"}, p \in {Last(bars).l, Last(bars).h},
            limit \in BOOLEAN, opens \in BOOLEAN}

Touches(bar, m) == 1000 * bar.l <= m.entry /\ m.entry <= 1000 * bar.h
\* The limit is over: out of time, or its setup was entered (congress keeps no such mark).
Lapsed(bar) == bar.t > lPend.due \/ (lKind # "vote" /\ lActed = lPend.m.ts)

\* decide: the resting limit first; a limit that is over lets the scan through.
Decided(bars) ==
    LET bar == Last(bars)
        filled == Append(lFills, [m |-> lPend.m, due |-> lPend.due, at |-> bar.t,
                                  life |-> lLife.starts])
        acted == IF lKind = "vote" THEN lActed ELSE lPend.m.ts
    IN  IF Found(lPend) => Lapsed(bar) THEN Scanned(bars)
        ELSE IF Touches(bar, lPend.m)
        THEN {Entered(acted, filled, opens) : opens \in BOOLEAN}
        ELSE {LeftAt(lSeen, lActed, lPend, FALSE, lArmed, lFills)}

-----------------------------------------------------------------------------
Now == IF lPath = <<>> THEN 0 ELSE Last(lPath).t
BarOf(candle, t) == [t |-> t, h |-> candle.h, l |-> candle.l, c |-> candle.c, d |-> 0]

LimitInit ==
    /\ lKind \in Kinds
    /\ \E past \in Histories : lPath = [i \in DOMAIN past |-> BarOf(past[i], i)]
    /\ lSeen = 0 /\ lActed = 0 /\ lPend = None
    /\ lOpen = FALSE /\ lLife = [starts |-> 1, gaps |-> 0] /\ lArmed = <<>> /\ lFills = <<>>

Leaves(next) ==
    /\ lSeen' = next.seen /\ lActed' = next.acted /\ lPend' = next.pend
    /\ lOpen' = next.open /\ lArmed' = next.armed /\ lFills' = next.fills

\* A bar closes: an open position is managed first, and may close on it.  A gap in the
\* feed is tried where it matters, while a limit rests.
LimitBar(candle, gap, closes) ==
    /\ Len(lPath) < MaxBarsOf[lKind]
    /\ lLife.gaps + gap <= MaxGaps /\ (gap > 0 => Found(lPend))
    /\ lPath' = Append(lPath, BarOf(candle, Now + 1 + gap * LimitLife))
    /\ lLife' = [lLife EXCEPT !.gaps = @ + gap]
    /\ closes => lOpen
    /\ IF lOpen /\ ~closes THEN UNCHANGED <<lSeen, lActed, lPend, lOpen, lArmed, lFills>>
       ELSE \E next \in Decided(lPath') : Leaves(next)
    /\ UNCHANGED lKind

\* The server restarts: what a strategy remembers is gone, its position and the bars are not.
LimitRestart ==
    /\ lLife.starts <= MaxRestarts
    /\ lLife' = [lLife EXCEPT !.starts = @ + 1]
    /\ lSeen' = 0 /\ lActed' = 0 /\ lPend' = None
    /\ UNCHANGED <<lKind, lPath, lOpen, lArmed, lFills>>

LimitDone == /\ Len(lPath) = MaxBarsOf[lKind]
             /\ UNCHANGED limitVars

LimitNext ==
    \/ \E candle \in Candles, gap \in 0..1, closes \in BOOLEAN : LimitBar(candle, gap, closes)
    \/ LimitRestart
    \/ LimitDone
LimitSpec == LimitInit /\ [][LimitNext]_limitVars

-----------------------------------------------------------------------------
(* Properties *)
\* A strategy's memory holds one limit at most, armed before its end, and no limit
\* rests while it holds a position.
LimitTypeOK ==
    /\ lKind \in Kinds /\ lSeen \in 0..Now /\ lActed \in 0..Now /\ lOpen \in BOOLEAN
    /\ Found(lPend) => ~lOpen /\ lPend.m.ts <= Now

\* A structure is attempted once per life of the process: "already armed/acted this
\* ChoCh", "one attempt per structure" (reversal_choch.py, wave_fib.py), however the
\* scan re-reads the same bars on every close.
OneAttempt ==
    lKind \in {"choch", "wave"} =>
        \A i, j \in DOMAIN lArmed :
            lArmed[i] = lArmed[j] => i = j

\* No limit fills after it expired, whatever bars the feed skipped in between.
FillsInTime == \A i \in DOMAIN lFills : lFills[i].at <= lFills[i].due

\* Every structure that is recent gives a plan that can win and lose: stop, entry and target
\* stand in order, so the check before arming never costs a setup.
PlansInOrder ==
    \A read \in {ChochSignal(lPath), WaveSignal(lPath)} :
        Found(read) /\ read.fresh => InOrder(read.setup)

\* A confirmed swing stays: a bar more never repaints the swings read before.
SwingsStay ==
    lPath' # lPath => IsPrefix(Swings(lPath, SwingN), Swings(lPath', SwingN))
=============================================================================
