---------------------------- MODULE MCBarHandlers ----------------------------
(***************************************************************************)
(* What one bar sets off, part by part: the cycle tick, the sweep registry, *)
(* the log of large prints, the memories of anchors and divergences, limit  *)
(* entries, the fades, the rules tick and the profile cache.  The parts     *)
(* share no state, so a behaviour is a behaviour of one of them.            *)
(***************************************************************************)
EXTENDS CycleTick, SweepRegistry, BigTrades, BarMemory, LimitEntry, FadeEntry, RulesTick,
        VpCache

VARIABLE part

Parts == {"cycle", "sweep", "prints", "memory", "limit", "fade", "rules", "profiles"}
\* The other parts are at rest.
Others(p) ==
    /\ UNCHANGED part
    /\ p # "cycle" => UNCHANGED vars
    /\ p # "sweep" => UNCHANGED sweepVars
    /\ p # "prints" => UNCHANGED tradeVars
    /\ p # "memory" => UNCHANGED memoryVars
    /\ p # "limit" => UNCHANGED limitVars
    /\ p # "fade" => UNCHANGED fader
    /\ p # "rules" => UNCHANGED tickVars
    /\ p # "profiles" => UNCHANGED vpVars

\* No bar read yet: what the readings of LimitEntry cost least on.
NoLimits ==
    /\ lKind = (CHOOSE k \in Kinds : TRUE) /\ lPath = <<>>
    /\ lSeen = 0 /\ lActed = 0 /\ lPend = None
    /\ lOpen = FALSE /\ lLife = [starts |-> 1, gaps |-> 0] /\ lArmed = <<>> /\ lFills = <<>>
BarInit ==
    /\ part \in Parts
    /\ Init /\ SweepInit /\ TradeInit /\ MemoryInit /\ RulesInit /\ VpInit
    /\ IF part = "limit" THEN LimitInit ELSE NoLimits
    /\ FadeInit /\ (part # "fade" => fader.strategy = "eqhl")

BarNext ==
    \/ part = "cycle" /\ Others("cycle") /\ Next
    \/ part = "sweep" /\ Others("sweep") /\ SweepNext
    \/ part = "prints" /\ Others("prints") /\ TradeNext
    \/ part = "memory" /\ Others("memory") /\ MemoryNext
    \/ part = "limit" /\ Others("limit") /\ LimitNext
    \/ part = "fade" /\ Others("fade") /\ FadeNext
    \/ part = "rules" /\ Others("rules") /\ RulesNext
    \/ part = "profiles" /\ Others("profiles") /\ VpNext
barVars ==
    <<part, vars, sweepVars, tradeVars, memoryVars, limitVars, fader, tickVars, vpVars>>
BarSpec == BarInit /\ [][BarNext]_barVars

-----------------------------------------------------------------------------
(* What the parts promise; the modules state and explain each conjunct.      *)
\* Every part keeps its variables in their types.
BarTypeOK ==
    /\ TypeOK /\ SweepTypeOK /\ TradeTypeOK /\ MemoryTypeOK /\ LimitTypeOK

\* A position between two bars (CycleTick): its target is ahead of the average entry, no
\* loss is booked inside the disaster floor, and every exit books the R that was made.
PositionSound == TargetAhead /\ LossesBeyondFloor /\ BookedAsMade

\* Sweeps (SweepRegistry): one event a level, judged by its next bars, gone once its level
\* is broken, and logged once by a backfill and the live route together.
SweepsOnce == OneEventPerLevel /\ FollowUpIsNextBar /\ BrokenLevelsGone /\ BackfillLogsOnce

\* What the features remember (BigTrades, BarMemory): handlers that rewrite the log keep the
\* prints and the outcomes of the others but for those an overlap or a crash exposed, judge
\* each by the bars after it, and the anchors kept are those a scan of the bars would find.
PastIsRecorded == PrintsKept /\ OutcomesStand /\ OutcomesAreEarned /\ AnchorsAsScanned

\* Limits and fades (LimitEntry, FadeEntry): a structure is attempted once, filled in time
\* at a plan in price order; a fade pays its risk, trades an anchor once, one on a bar.
OneEntryPerSetup ==
    /\ OneAttempt /\ FillsInTime /\ PlansInOrder
    /\ FadesPay /\ AnchorTradedOnce /\ OneFadePerBar

\* The rules tick (RulesTick): overlapping callers open one grid a bar, a bar fires at most
\* once for each handler that raced, and the marks it remembers stay bounded.
OneTickPerBar == MarksBounded /\ OneGridPerBar /\ FiresOncePerRacer

\* The profile cache (VpCache): a cached profile is made of bars of its own session, and
\* the snapshot raises for bars that come late, or once a week for the first of a Thursday.
ProfilesOfTheirSession == ProfileOfItsSession /\ RaisesOnceAWeek

\* What is settled stands, over every step: a stop loosens on a fill only and no bar that
\* filled a leg escapes; a sweep keeps its verdict; a restart brings no newer divergence and
\* a bar repaints no swing; a build leaves out nothing of today that closed before it, and
\* the profile of a session that is over is not rewritten.
SettledStands ==
    [][/\ StopLoosensOnFillOnly /\ NoEscapeOnFill
       /\ VerdictStands /\ DivergenceNeverOlder /\ SwingsStay
       /\ TodayIsWhole /\ ClosedSessionStands]_barVars

-----------------------------------------------------------------------------
(* Small instances *)
CyclePrices == {6, 12, 18, 24, 30, 42}
CyclePlans == {[entry |-> 30, tp |-> 42, sl |-> 6, legs |-> {18, 24}],
               [entry |-> 24, tp |-> 42, sl |-> 6, legs |-> {12}],
               [entry |-> 18, tp |-> 42, sl |-> 12, legs |-> {}]}
CycleRules == {{"server"}, {"hard_sl", "marked", "si_trail"}}

\* A bar that sweeps the highs and closes beyond the old one, and one that breaks down.
SweepShapes == {[o |-> 5, h |-> 14, l |-> 5, c |-> 6, ok |-> TRUE],
                [o |-> 4, h |-> 7, l |-> 1, c |-> 1, ok |-> FALSE]}
SweepRefs == {[label |-> "prior_day_high", at |-> 5]}

PrintMoves == {[low |-> 0, high |-> 0], [low |-> -1, high |-> 0]}
PrintTicks == [s \in Symbols |-> IF s = "xau" THEN 3 ELSE 2]

MemoryFlows == {[vol |-> 1, delta |-> 0], [vol |-> 4, delta |-> 2], [vol |-> 16, delta |-> -8],
                [vol |-> 64, delta |-> 32]}

Candle(h, l, c) == [h |-> h, l |-> l, c |-> c]
LimitCandles == {Candle(4, 1, 2), Candle(5, 3, 4), Candle(6, 2, 5), Candle(7, 4, 6),
                 Candle(9, 6, 8)}
\* Rising and falling swings: two lows and a high, two highs and a low.
LimitPast ==
    LET A == Candle(4, 1, 2)
        B == Candle(5, 3, 4)
        C == Candle(7, 4, 6)
        D == Candle(9, 6, 8)
    IN  {<<B, A, C, B, D>>, <<C, D, B, C, A>>}
\* A profile gathers where a pullback closed, or outside it, and beyond a leg two of its
\* lengths away.
LimitLevel(path, st) == IF st.at % 2 = 0 THEN 1000 * path[st.at].c ELSE 0
LimitTarget(path, leg) == 1000 * (3 * leg.extreme - 2 * leg.origin)
LimitBars == [k \in Kinds |-> IF k \in {"choch", "wave"} THEN 10 ELSE 7]

VpStarts == [s \in VpSymbols |-> IF s = "btc" THEN 0 ELSE 3]
VpLate == [s \in VpSymbols |-> IF s = "btc" THEN 1 ELSE 0]

\* A fade's scene: a bar that closed between a high and a low, and what is near it.
Scene(closed, sweeps, nodes, highs, lows, divergence, defended, regime, poc) ==
    [bar |-> closed, sweeps |-> sweeps, nodes |-> nodes, highs |-> highs, lows |-> lows,
     divergence |-> divergence, anchors |-> defended, regime |-> regime, profile |-> poc # 0,
     poc |-> poc, vah |-> 160, val |-> 60]
FadeBars == {[h |-> 112, l |-> 98, c |-> 102, delta |-> 4],
             [h |-> 106, l |-> 92, c |-> 100, delta |-> -4]}
SweepAt(high, level, wick, age, class, conf) ==
    [high |-> high, level |-> level, wick |-> wick, equal |-> TRUE, confirms |-> TRUE,
     age |-> age, class |-> class, conf |-> conf]
HighSwept == SweepAt(TRUE, 110, 112, 1, "", 70)
LowSwept == SweepAt(FALSE, 94, 92, 3, "reversal", 80)
LowBroken == SweepAt(FALSE, 90, 88, 0, "breakout", 99)
Defence(id, lo, hi, bull, z) == [id |-> id, lo |-> lo, hi |-> hi, bull |-> bull, z |-> z]
Defences == {Defence("a", 95, 104, TRUE, 3), Defence("b", 99, 108, FALSE, 4),
             Defence("c", 100, 106, TRUE, 2)}
Calm == [bull |-> 9, bear |-> 9]
FadeScenes ==
    {Scene(b, w, {}, {121}, {84}, Calm, {}, "range", p) :
        b \in FadeBars, w \in {{}, {HighSwept}, {HighSwept, LowSwept, LowBroken}}, p \in {96, 170, 0}}
    \cup
    {Scene(b, {}, n, v[1], v[2], [bull |-> d, bear |-> 3 - d], {}, "range", p) :
        b \in FadeBars, n \in {{[lo |-> 95, hi |-> 110]},
                               {[lo |-> 94, hi |-> 105], [lo |-> 90, hi |-> 109]}},
        v \in {<<{111, 130}, {80}>>, <<{130}, {80, 95}>>}, d \in {0, 2}, p \in {96, 130}}
    \cup
    {Scene(b, {}, {}, {}, {}, Calm, a, r, 0) :
        b \in FadeBars, a \in {Defences} \cup {{x, y} : x, y \in Defences},
        r \in {"trend_up", "trend_down"}}
=============================================================================
