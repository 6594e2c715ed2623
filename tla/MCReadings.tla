------------------------------ MODULE MCReadings ------------------------------
(***************************************************************************)
(* What the code reads off a market and plans from it, part by part: the    *)
(* direction, the volume profile, the footprint of a bar, the gates of an   *)
(* entry, the plan of a grid, the climax flip, the count of waves, an entry *)
(* from its signal to its orders, a strategy wired from components, the     *)
(* replays of a strategy, a series with its cumulative delta and gaps, and  *)
(* the patterns that confirm an entry.  The parts share no state, so a      *)
(* behaviour is a behaviour of one of them.                                 *)
(***************************************************************************)
EXTENDS Direction, Profile, Footprint, EntryGates, GridPlan, ClimaxFlip,
        WaveReading, EntryPlan, Composed, WalkForward, SeriesReading, Confirmation

VARIABLE part
entryVars == vars

Parts == {"direction", "profile", "print", "gates", "plan", "flip", "wave", "entry",
          "composed", "walk", "series", "confirm"}
\* The other parts are at rest.
Others(p) ==
    /\ UNCHANGED part
    /\ p # "direction" => UNCHANGED reading
    /\ p # "profile" => UNCHANGED auction
    /\ p # "print" => UNCHANGED print
    /\ p # "gates" => UNCHANGED gate
    /\ p # "plan" => UNCHANGED gplan
    /\ p # "flip" => UNCHANGED climax
    /\ p # "wave" => UNCHANGED chart
    /\ p # "entry" => UNCHANGED entryVars
    /\ p # "composed" => UNCHANGED composedVars
    /\ p # "walk" => UNCHANGED tape
    /\ p # "series" => UNCHANGED series
    /\ p # "confirm" => UNCHANGED evidence

NoEntry ==
    /\ pc = "done" /\ levels = {} /\ side = 1
    /\ how = [policy |-> "vote", close |-> Anchor, bias |-> 3, live |-> FALSE,
              regime |-> "other", limit |-> FALSE]
    /\ plan = [anchor |-> Anchor, legs |-> <<>>, tp |-> 0, sl |-> 0]
    /\ book = NoGrid
NotWired ==
    /\ cWired = "choch" /\ cBars = <<>> /\ cState = Blank0 /\ cOpen = FALSE
    /\ cLife = [starts |-> 1, gaps |-> 0] /\ cArmed = <<>> /\ cFills = <<>>
ReadInit ==
    /\ part \in Parts
    /\ DirectionInit /\ ProfileInit /\ PrintInit /\ GatesInit /\ PlanInit /\ FlipInit /\ WaveInit
    /\ WalkInit /\ SeriesInit /\ ConfirmInit
    /\ IF part = "entry" THEN Init ELSE NoEntry
    /\ IF part = "composed" THEN ComposedInit ELSE NotWired

ReadNext ==
    \/ part = "direction" /\ Others("direction") /\ DirectionNext
    \/ part = "profile" /\ Others("profile") /\ ProfileNext
    \/ part = "print" /\ Others("print") /\ PrintNext
    \/ part = "gates" /\ Others("gates") /\ GatesNext
    \/ part = "plan" /\ Others("plan") /\ PlanNext
    \/ part = "flip" /\ Others("flip") /\ FlipNext
    \/ part = "wave" /\ Others("wave") /\ WaveNext
    \/ part = "entry" /\ Others("entry") /\ Next
    \/ part = "composed" /\ Others("composed") /\ ComposedNext
    \/ part = "walk" /\ Others("walk") /\ WalkNext
    \/ part = "series" /\ Others("series") /\ SeriesNext
    \/ part = "confirm" /\ Others("confirm") /\ ConfirmNext
readVars == <<part, reading, auction, print, gate, gplan, climax, chart, entryVars, composedVars,
              tape, series, evidence>>
\* What tells two states apart: the part that runs, the others being at rest.
ReadView ==
    <<part, CASE part = "direction" -> reading [] part = "profile" -> auction
              [] part = "print" -> print [] part = "gates" -> gate [] part = "plan" -> gplan
              [] part = "flip" -> climax [] part = "wave" -> chart [] part = "entry" -> entryVars
              [] part = "composed" -> composedVars [] part = "walk" -> tape
              [] part = "series" -> series [] part = "confirm" -> evidence>>
ReadSpec == ReadInit /\ [][ReadNext]_readVars

-----------------------------------------------------------------------------
(* What the parts promise; the modules state and explain each conjunct.      *)
\* The votes (Direction, EntryGates): a vote against only weakens and unanimity decides; a
\* day in range never blocks an entry, and the order of the thin zones only breaks ties.
VotesWeighed ==
    OppositionOnlyWeakens /\ UnanimityDecides /\ RangeNeverBlocks /\ OrderOnlyBreaksTies

\* The readings (Profile, Footprint, WaveReading, SeriesReading, Confirmation): value areas
\* hold their share and no more than they need, zones lie apart, imbalances are of one side of
\* a diagonal and stacks are runs of them, the two readings of absorption never agree, pivots
\* alternate, the candles count a session's delta and a mark on them stands, open gaps lie
\* behind the price, and a pattern that confirms rests on several conditions.
ReadingsSound ==
    /\ ProfileTypeOK /\ AreaIsTight /\ BarAreaHolds /\ ZonesLieApart
    /\ OneSideADiagonal /\ StacksAreRuns /\ ModesExclude
    /\ PivotsAlternate
    /\ CandlesCount /\ SurerMasks /\ MarksStand /\ WindowAddsNoMark /\ GapsBehindPrice
    /\ FiredHasGrounds /\ FadeIsMomentum

\* Nothing prefers a side: turned upside down, the market is read and planned upside down.
LongMirrorsShort ==
    /\ NoSideOfItsOwn /\ ShapeMirrors /\ SetupMirrors
    /\ AbsorptionMirrors /\ UnfinishedMirrors /\ DivergenceMirrors
    /\ RegimeMirrors /\ EntryMirrors /\ ScoreMirrors
    /\ PlanMirrors /\ AddMirrors
    /\ FlipMirrors /\ WaveMirrors /\ CountMirrors
    /\ DominantMirrors /\ MarksMirror /\ GapsMirror /\ PatternsMirror

\* The plans (GridPlan, ClimaxFlip): targets clear every leg and pay the risk, the favoured
\* side carries the lots, a flip's stop protects its entry, and its limit improves on it.
PlansSound ==
    TargetsClearLegs /\ SkewLoadsWinner /\ TargetsPayTheRisk /\ StopsProtect /\ LimitsWait

\* From zones to orders (EntryPlan): the strongest of merged zones stands, every target is
\* beyond and every stop behind what has filled, resting legs can rest at the venue, and a
\* tactical entry leaves no leg beyond its stop.
OrdersSound ==
    /\ TypeOK /\ StrongestStands /\ TargetBeyondFills /\ StopBehindGrid
    /\ MarketStopBehindFill /\ RestsAtVenue /\ TacticalIsCovered

\* A composed strategy is the class it replaces, bar by bar: the same structures seen, the
\* same limits armed and filled or voided, with gaps in the feed, exits and restarts
\* (IsLegacy of Composed, for the part that runs one).
ComposedIsLegacy ==
    (part = "composed" => Legacy!LimitInit) /\ [][Legacy!LimitNext]_(Legacy!limitVars)

\* What a replay books (WalkForward): the worst any order of a bar's prices would have
\* made, parts and labels and lots in step with it.
BookingsSound == WorstCase /\ HorizonWorst /\ TrancheWorst /\ StudiesFollow /\ LotsBalance

\* Which trades a replay makes (WalkForward): one at a time, none from bars to come, one
\* for a structure, and the same in the programs that replay the same strategy.
ReplaysCausal ==
    TradesApart /\ NoFutureLeak /\ OneEntryAStructure /\ CoupMirrored /\ PartialEndsAlike

-----------------------------------------------------------------------------
(* The direction: one reading per voter, each way, weak and strong. *)
Detected ==
    [cvd : {-1000, 0, 300}, shape : {"D", "P", "b"}, place : {"above", "inside", "below"},
     gaps : {[bull |-> 1, bear |-> 0], [bull |-> 2, bear |-> 1], [bull |-> 0, bear |-> 8]},
     sweep : {[type |-> "none", conf |-> 0], [type |-> "sweep_high", conf |-> 900],
              [type |-> "sweep_low", conf |-> 600]},
     absorption : {[fired |-> FALSE, side |-> "long", conf |-> 0],
                   [fired |-> TRUE, side |-> "short", conf |-> 700]},
     exhaustion : {[fired |-> FALSE, side |-> "long", conf |-> 0],
                   [fired |-> TRUE, side |-> "long", conf |-> 950]},
     stack : {[side |-> "buy", count |-> 0], [side |-> "sell", count |-> 12]},
     divergence : {"none", "bullish"},
     unfinished : {[side |-> "none", ratio |-> 0], [side |-> "down", ratio |-> 9]},
     young : BOOLEAN]
\* A divergence takes fifteen bars, eight gaps ten.
ModelReadings == {r \in Detected : r.young => r.divergence = "none" /\ r.gaps.bear < 8}

(* The profile: every histogram of six bins, up to three zones, and what an auction sees
   at, within and beyond its value area. *)
ModelProfiles == [1..6 -> {0, 1, 2, 4}]
Spans == {z \in [low : {0, 1, 3, 5}, high : {2, 4, 6, 7}] : z.low < z.high}
ZoneBefore(x, y) == x.low < y.low \/ (x.low = y.low /\ x.high < y.high)
ModelZones == {SetToSortSeq(zs, ZoneBefore) : zs \in {s \in SUBSET Spans : Cardinality(s) \in 1..3}}
ModelMoments ==
    [price : {-50, -40, -20, 0, 20, 40, 50}, prev : {-50, -40, 40, 50},
     poc : {-20, 0, 10}, vah : {40}, val : {-40}, prior : {{}, {-30}, {30}},
     nodes : {<<>>, <<[low |-> -30, high |-> -10]>>,
              <<[low |-> -20, high |-> 10], [low |-> 20, high |-> 60]>>},
     pocs : {<<>>, <<-30, 0, 30>>, <<30, 0, -30>>},
     fib50 : {{}, {-30}, {30}}, fib618 : {{}, {0}}]

(* A footprint of four prices, and a path of four closes with their deltas. *)
ModelFootprints ==
    [bid : [1..4 -> {0, 1, 6}], ask : [1..4 -> {0, 1, 6}], o : {2}, c : {1, 3}]
ModelPaths == [close : [1..4 -> {-1, 0, 1}], delta : [1..4 -> {-1, 0, 1}]]

(* The gates: quiet and running bars, with and without a profile, and a level above, on
   and below the thin and heavy zones. *)
GateBars ==
    {[o |-> 10, h |-> 12, l |-> 9, c |-> 12, vol |-> 3, delta |-> 2],
     [o |-> 11, h |-> 11, l |-> 8, c |-> 8, vol |-> 1, delta |-> -1],
     [o |-> 12, h |-> 16, l |-> 12, c |-> 15, vol |-> 9, delta |-> 3],
     [o |-> 9, h |-> 10, l |-> 3, c |-> 4, vol |-> 9, delta |-> -5]}
GateThin == {<<>>, <<[lo |-> 9, hi |-> 11], [lo |-> 13, hi |-> 14]>>,
             <<[lo |-> 7, hi |-> 14], [lo |-> 4, hi |-> 5]>>}
ModelMarkets ==
    [kind : {"market"}, bars : UNION {[1..n -> GateBars] : n \in {2, 4}},
     profile : {NoProfile} \cup [shape : {"D", "P"}, vah : {12}, val : {9}, thin : GateThin],
     widths : {<<>>, <<10, 11, 12>>}, side : {"long", "short"}, held : {"none"}, adds : {FALSE}]
ModelAsked ==
    [kind : {"zone"}, price : {3, 8, 12}, side : {"long", "short"}, cvd : {-60, 0, 30},
     bias : {"bullish", "bearish", "neutral"},
     absorbed : {<<>>, <<[side |-> "sell", near |-> FALSE, share |-> 200],
                         [side |-> "buy", near |-> TRUE, share |-> 160]>>},
     heavy : {<<>>, <<[lo |-> 7, hi |-> 8]>>, <<[lo |-> 9, hi |-> 11], [lo |-> 8, hi |-> 8]>>},
     thin : {<<[lo |-> 2, hi |-> 4]>>}, control : {12}, span : {100}]

(* The plan: one or no node on each side, and levels near, far and on the way. *)
PlanNodes ==
    {<<>>, <<[lo |-> 100, hi |-> 116, daily |-> TRUE]>>,
     <<[lo |-> 99, hi |-> 104, daily |-> FALSE], [lo |-> 80, hi |-> 92, daily |-> TRUE]>>}
ModelSurroundings ==
    {[ask |-> "levels", price |-> 101, hint |-> h, bar |-> b, imbalances |-> im, nodes |-> n,
      anchors |-> a, profile |-> TRUE, vah |-> 111, val |-> 85, place |-> pl, regime |-> r,
      divergence |-> d, levels |-> l, atr |-> 8, conviction |-> 50, balance |-> n = <<>>,
      expanded |-> FALSE] :
        h \in {"", "va"},
        b \in {[h |-> 105, l |-> 98, c |-> 101, delta |-> 4],
               [h |-> 102, l |-> 90, c |-> 91, delta |-> -9]},
        im \in {<<>>, <<[price |-> 99, ratio |-> 8], [price |-> 104, ratio |-> 3]>>},
        n \in PlanNodes,
        a \in {<<>>, <<[lo |-> 99, hi |-> 106, bull |-> TRUE]>>,
               <<[lo |-> 95, hi |-> 103, bull |-> FALSE]>>},
        pl \in {"inside", "above_vah"}, r \in {"range", "trend_up", "uncertain"},
        d \in {"none", "bearish"},
        l \in {{}, {[price |-> 104, strength |-> 90]},
               {[price |-> 90, strength |-> 90], [price |-> 119, strength |-> 50]},
               {[price |-> 99, strength |-> 70], [price |-> 60, strength |-> 70]}}}
ModelLegQuestions ==
    {[ask |-> "leg", side |-> s, bar |-> b, delta |-> b.delta, entry |-> 100,
      stop |-> IF s = "long" THEN 90 ELSE 110, legs |-> n,
      absorbedAtEntry |-> x, stacked |-> y] :
        s \in {"long", "short"},
        b \in {[h |-> 104, l |-> 92, c |-> 101, delta |-> 0],
               [h |-> 111, l |-> 95, c |-> 101, delta |-> -4]},
        n \in {1, 3}, x \in SUBSET {"buy", "sell"}, y \in SUBSET {"buy", "sell"}}

(* A climax down and the flip after it; the properties turn each one over. *)
PeakBars ==
    [o : {96}, h : {98}, l : {90}, c : {93}, vol : {5, 9}, delta : {-6}, poc : {95},
     cells : {<<[price |-> 91, total |-> 2], [price |-> 93, total |-> 1], [price |-> 96, total |-> 0]>>,
              <<[price |-> 94, total |-> 1], [price |-> 95, total |-> 3]>>},
     stacks : {<<>>, <<[side |-> "sell", lo |-> 91, hi |-> 93, count |-> 3],
                       [side |-> "sell", lo |-> 96, hi |-> 98, count |-> 4]>>,
               <<[side |-> "sell", lo |-> 91, hi |-> 93, count |-> 3],
                 [side |-> "buy", lo |-> 95, hi |-> 97, count |-> 3]>>}]
FlipBars ==
    [o : {93}, h : {97, 98}, l : {92}, c : {95}, vol : {6}, delta : {-1, 1, 3}, poc : {94},
     cells : {<<>>},
     stacks : {<<>>, <<[side |-> "buy", lo |-> 93, hi |-> 94, count |-> 3]>>,
               <<[side |-> "buy", lo |-> 96, hi |-> 97, count |-> 5],
                 [side |-> "buy", lo |-> 93, hi |-> 94, count |-> 3]>>}]
FlipProfiles ==
    {[known |-> FALSE, poc |-> 100, vah |-> 110, val |-> 92, heavy |-> <<>>, thin |-> <<>>],
     [known |-> TRUE, poc |-> 100, vah |-> 110, val |-> 92, heavy |-> <<>>,
      thin |-> <<[lo |-> 96, hi |-> 97], [lo |-> 102, hi |-> 104], [lo |-> 80, hi |-> 84]>>],
     [known |-> TRUE, poc |-> 100, vah |-> 110, val |-> 95,
      heavy |-> <<[lo |-> 89, hi |-> 91]>>, thin |-> <<>>]}
ModelClimaxes ==
    [leftH : {99}, leftL : {89, 92}, peak : PeakBars, flip : FlipBars, usual : {4}, buf : {1},
     vp : FlipProfiles, gated : {TRUE}, gaps : {{}, {[lo |-> 97, hi |-> 98], [lo |-> 101, hi |-> 103]}},
     mode : {"market", "lvn", "imbalance"}]

(* Every chart of seven bars of a low, a middle and a high candle. *)
WaveCandle(h, l, c) == [h |-> h, l |-> l, c |-> c]
ModelCharts == [1..7 -> {WaveCandle(4, 1, 2), WaveCandle(6, 3, 4), WaveCandle(9, 2, 8)}]

EntryPrices == {70, 94, 96, 104, 118}

(* A composed strategy: two histories that break a structure within a few bars. *)
WireCandles == {WaveCandle(4, 1, 2), WaveCandle(6, 2, 5), WaveCandle(7, 4, 6), WaveCandle(9, 6, 8)}
WirePasts ==
    LET A == WaveCandle(4, 1, 2)
        B == WaveCandle(5, 3, 4)
        C == WaveCandle(7, 4, 6)
        D == WaveCandle(9, 6, 8)
    IN  {<<B, A, C, B, D>>, <<C, D, B, C, A>>}
WireLevel(bars, st) == IF st.at % 2 = 0 THEN 1000 * bars[st.at].c ELSE 0
WireLengths == [k \in Wirings |-> IF k \in {"choch", "wave"} THEN 10 ELSE 7]

(* Tapes of five bars, quiet, rising, falling and wide, with a signal on each, and longer
   ones that rise and fall. *)
ModelGrid ==
    [lots |-> <<2, 2, 4>>, step |-> 2, target |-> 3, stop |-> 4, escape |-> 1, escapeBars |-> 2,
     bounce |-> 1]
WalkBars == {[h |-> 11, l |-> 9, c |-> 10, absorbed |-> "", anchor |-> ""],
             [h |-> 14, l |-> 10, c |-> 13, absorbed |-> "short", anchor |-> "long"],
             [h |-> 10, l |-> 6, c |-> 7, absorbed |-> "long", anchor |-> "short"],
             [h |-> 14, l |-> 6, c |-> 11, absorbed |-> "", anchor |-> ""]}
WalkPlans == {Ticket("long", 8, 6, 13), Ticket("short", 12, 14, 7)}
ModelTapes ==
    [bars : [1..5 -> WalkBars], plan : WalkPlans, signals : {1..5}]
    \cup [bars : [1..7 -> {b \in WalkBars : b.c \in {7, 13}}], plan : WalkPlans, signals : {{3, 5}}]

(* Series of seven bars in one session and across two, read from disk and fed. *)
SeriesBar(t, x, d, path) == [t |-> t, h |-> x[1], l |-> x[2], c |-> x[3], d |-> d, path |-> path]
SeriesCandles ==
    <<<<4, 1, 2>>, <<6, 3, 4>>, <<9, 2, 8>>, <<12, 9, 11>>, <<2, 0, 0>>, <<14, 0, 3>>>>
\* A series from the shapes of its bars, their deltas and the time before its first bar; the
\* feed opens a bar with a trade of 1 and overshoots by 1.
FromDisk(shape, delta, t) ==
    [i \in DOMAIN shape |-> SeriesBar(t + i, SeriesCandles[shape[i]], delta[i], <<>>)]
Fed(from, d) == <<from + 1, Max({from + 1, from + d}) + 1, Min({from + 1, from + d}) - 1, from + d>>
FromFeed(shape, delta, t) ==
    [i \in DOMAIN shape |->
        SeriesBar(t + i, SeriesCandles[shape[i]], delta[i],
                  Fed(10 + MapThenSumSet(LAMBDA j : delta[j], 1..(i - 1)), delta[i]))]
SeriesShapes ==
    {<<1, 3, 2, 3, 1, 3, 4>>, <<2, 3, 2, 2, 1, 3, 5>>, <<1, 4, 1, 4, 4, 1, 4>>, <<2, 1, 3, 1, 2, 1, 1>>,
     <<4, 6, 4, 2, 1, 1, 2>>, <<3, 2, 1, 2, 5, 1, 6>>}
SeriesDeltas == [1..7 -> {-2, 1}]
Swells ==
    {<<40, -2, 1, -1, 2, 1, -2>>, <<-40, 2, -1, 1, -2, -1, 4>>, <<2, -1, 1, -1, -2, -1, 1>>,
     <<-2, -2, 1, 1, -2, 1, 3>>, <<2, 2, -1, -1, 2, -1, -3>>, <<1, 1, 1, 1, -3, 1, 1>>}
ModelSeries ==
    UNION {{FromDisk(s, d, 24), FromDisk(s, d, 39), FromFeed(s, d, 42)} :
              s \in SeriesShapes, d \in SeriesDeltas \cup Swells}

(* Evidence: bars of three prices and of twelve for the absorption, and plain bars with what
   the other features may have found for the exhaustion and the continuation. *)
Traded(price, outcome, by, thin) == [price |-> price, outcome |-> outcome, by |-> by, thin |-> thin]
ShortBars == [bid : [1..3 -> {0, 2, 6}], ask : [1..3 -> {0, 2, 6}], o : {2}, c : {1, 3}]
\* A stack reaches into a tenth of the range only where the bar has more than ten prices.
TallBars ==
    {[bid |-> [i \in 1..12 |-> IF i < 10 THEN 2 ELSE b[i]],
      ask |-> [i \in 1..12 |-> IF i < 10 THEN 2 ELSE a[i]], o |-> 8, c |-> 6] :
        b \in [10..12 -> {2, 6}], a \in [10..12 -> {0, 2}]}
PlainBars == {[bid |-> <<2, 2, 2>>, ask |-> <<2, 2, 2>>, o |-> 2, c |-> c] : c \in {1, 3}}
             \cup {[bid |-> <<2, 2, 6>>, ask |-> <<0, 2, 2>>, o |-> 3, c |-> 1]}
CvdSignals == {"none", "breakout_long", "hidden_selling", "reclaim", "wick_trap", "divergence_bear"}
NoStacks == [buy |-> 0, sell |-> 0]
ModelEvidence ==
    [f : ShortBars, usual : {3}, atr : {2}, levels : {{3}},
     trades : {{}, {Traded(2, "absorbed", "buy", FALSE)}}, poc : {{}}, area : {{}},
     cvd : {"none"}, won : {{}}, gaps : {{}}, defended : {{}}, stacked : {NoStacks}, day : {"range"}]
    \cup
    [f : TallBars, usual : {3, 40}, atr : {2}, levels : {{6}, {3}},
     trades : {{}, {Traded(5, "absorbed", "buy", FALSE)}}, poc : {{}}, area : {{}},
     cvd : {"none"}, won : {{}}, gaps : {{}}, defended : {{}}, stacked : {NoStacks}, day : {"range"}]
    \cup
    [f : PlainBars, usual : {3}, atr : {0, 1, 3}, levels : {{}},
     trades : {{}, {Traded(2, "exhausted", "sell", TRUE)}}, poc : {{}, {1}, {2}},
     area : {{}, {[vah |-> 3, val |-> 1]}}, cvd : CvdSignals, won : SUBSET {"buy", "sell"},
     gaps : {{}}, defended : {{}}, stacked : {NoStacks}, day : {"range"}]
    \cup
    [f : PlainBars, usual : {3}, atr : {2}, levels : {{}},
     trades : {{}, {Traded(2, "pushed", "sell", TRUE)}, {Traded(1, "pushed", "buy", TRUE)}},
     poc : {{}}, area : {{}}, cvd : CvdSignals, won : {{}},
     gaps : {{}, {"bull"}, {"bear"}}, defended : {{}, {"bull"}},
     stacked : {NoStacks, [buy |-> 2, sell |-> 0]}, day : {"range", "trend_up", "trend_down"}]
=============================================================================
