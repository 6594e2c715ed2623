---------------------------- MODULE SeriesReading ----------------------------
(***************************************************************************)
(* What is read off a series of bars besides its structure: the cumulative *)
(* delta as candles that start anew with each session, the dominant pattern *)
(* and the divergences of it (pipeline/features/cvd_candlestick.py), the    *)
(* gate the strategy manager makes of them, and the fair value gaps that    *)
(* are still open (pipeline/features/fvg.py).                               *)
(*                                                                          *)
(* A bar is [t, h, l, c, d, path].  path is how the feed's running delta    *)
(* moved within the bar, <<open, high, low, close>>; it is <<>> for a bar   *)
(* read from disk or merged from others.                                    *)
(***************************************************************************)
EXTENDS Structure

CONSTANTS
    Day,         \* a day, in the unit of the close times
    OpensAt,     \* the time of day at which a session starts
    CvdWindow,   \* bars the dominant pattern is looked for in (SWING_LOOKBACK)
    DivHalf,     \* half-window of the pivots of a divergence (lookback)
    GateLeast,   \* bars the manager's gate asks for (10)
    GapAge,      \* bars a gap is looked for in (max_age_bars)
    SeriesRead   \* the series looked at

SeriesBars == {b \in [t : Nat, h : Int, l : Int, c : Int, d : Int, path : Seq(Int)] :
                  b.l <= b.c /\ b.c <= b.h}
ASSUME SeriesAssumption ==
    /\ Day \in Nat \ {0} /\ OpensAt \in 0..(Day - 1) /\ GapAge \in Nat
    /\ \A bars \in SeriesRead : bars \in Seq(SeriesBars)

VARIABLE series

SeriesInit == series = <<>>
SeriesNext == IF series = <<>> THEN series' \in SeriesRead ELSE series' = <<>>
SeriesSpec == SeriesInit /\ [][SeriesNext]_series

-----------------------------------------------------------------------------
(* The cumulative delta as candles *)
SessionStart(t) ==
    LET today == (t \div Day) * Day + OpensAt
    IN  IF t < today THEN today - Day ELSE today

\* The anchor a bar is shown from: that of its session, or a new one.
AnchorOf(s, b) ==
    IF SessionStart(b.t) = s.start THEN s.anchor
    ELSE IF b.path # <<>> THEN b.path[1] ELSE s.running

\* Without a path all three cases of the code come to the extremes of open and close.
CvdCandle(s, b, anchor) ==
    IF b.path # <<>>
    THEN [o |-> b.path[1] - anchor, h |-> b.path[2] - anchor,
          l |-> b.path[3] - anchor, c |-> b.path[4] - anchor]
    ELSE [o |-> s.running - anchor, c |-> s.running + b.d - anchor,
          h |-> Max({s.running, s.running + b.d}) - anchor,
          l |-> Min({s.running, s.running + b.d}) - anchor]

CvdNext(s, b) ==
    LET anchor == AnchorOf(s, b)
        candle == CvdCandle(s, b, anchor)
    IN  [start |-> SessionStart(b.t), anchor |-> anchor, running |-> candle.c + anchor,
         candles |-> Append(s.candles, candle)]
NoSession == -Day
CvdCandles(bars) ==
    FoldLeft(CvdNext, [start |-> NoSession, anchor |-> 0, running |-> 0, candles |-> <<>>],
             bars).candles

-----------------------------------------------------------------------------
(* The dominant pattern of the last bars: the first of the surest.          *)
Shows(cond, pattern, way, conf) ==
    IF cond THEN <<[pattern |-> pattern, side |-> way, conf |-> conf]>> ELSE <<>>
Magnitude(x) == Max({x, -x})
\* How sure a breakout is, in thousandths.
Surge(by, from) == Min({900, 650 + (2000 * by) \div (Magnitude(from) + 1)})

PatternsOf(cvd, bars) ==
    LET n == Len(bars)
        before == 1..(n - 3)
        cur == cvd[n]
        close == bars[n].c
        top == Max({cvd[i].h : i \in before})
        floor == Min({cvd[i].l : i \in before})
        newHigh == \A i \in before : close > bars[i].c
        newLow == \A i \in before : close < bars[i].c
    IN  Shows(cur.h > top, "breakout_long", "long", Surge(cur.h - top, top))
        \o Shows(cur.l < floor, "breakout_short", "short", Surge(floor - cur.l, floor))
        \o Shows(newLow /\ cur.c > floor, "hidden_buying", "long", 750)
        \o Shows(newHigh /\ cur.c < top, "hidden_selling", "short", 750)
        \o Shows(newHigh /\ 100 * cur.c <= 95 * top, "divergence_bear", "short", 700)
        \o Shows(newLow /\ 100 * cur.c >= 95 * floor, "divergence_bull", "long", 700)
        \o Shows(cvd[n - 1].c < floor /\ cur.c >= floor, "reclaim", "long", 650)
        \o Shows(cur.h > top /\ cur.c < cur.o, "wick_trap", "short", 720)
        \o Shows(cur.l < floor /\ cur.c > cur.o, "wick_trap", "long", 720)

NoPattern == [pattern |-> "none", side |-> "neutral", conf |-> 0]
Surest(found) ==
    IF found = <<>> THEN NoPattern
    ELSE found[Min({i \in DOMAIN found : \A j \in DOMAIN found : found[j].conf <= found[i].conf})]
LastOnes(bars, n) == SubSeq(bars, Max({1, Len(bars) - n + 1}), Len(bars))
DominantIn(bars) == IF Len(bars) < 6 THEN NoPattern ELSE Surest(PatternsOf(CvdCandles(bars), bars))
Dominant(bars) == DominantIn(LastOnes(bars, CvdWindow))

-----------------------------------------------------------------------------
(* Divergences of the price from the cumulative delta, at pivots           *)
PivotPrice(bars, i, end) == IF end = "H" THEN bars[i].h ELSE bars[i].l
Follow(bars, end) ==
    LET at == Pivots(bars, DivHalf, end)
    IN  {p \in at \X at : p[1] < p[2] /\ \A k \in at : ~(p[1] < k /\ k < p[2])}
\* The price comes back to the pivot or beyond it, within 0.15 %, and the delta does not.
Retests(end, now, was) ==
    IF end = "H" THEN 10000 * now >= 9985 * was ELSE 10000 * now <= 10015 * was
Fails(end, now, was) == IF end = "H" THEN now < was ELSE now > was
Diverges(bars, cvd, end, i, j) ==
    /\ Retests(end, PivotPrice(bars, j, end), PivotPrice(bars, i, end))
    /\ Fails(end, cvd[j].c, cvd[i].c)

DivMark(end, at) == [type |-> IF end = "H" THEN "bear" ELSE "bull", at |-> at]
Enough(bars) == Len(bars) >= 2 * DivHalf + 3
Ends == {"H", "L"}
SettledMarks(bars) ==
    LET cvd == CvdCandles(bars)
    IN  IF ~Enough(bars) THEN {}
        ELSE UNION {{DivMark(end, p[2]) :
                        p \in {q \in Follow(bars, end) : Diverges(bars, cvd, end, q[1], q[2])}} :
                    end \in Ends}
\* The bar still forming against the last pivot.
LiveMarks(bars) ==
    LET cvd == CvdCandles(bars)
        diverges(end) ==
            LET at == Pivots(bars, DivHalf, end)
            IN  at # {} /\ Diverges(bars, cvd, end, Max(at), Len(bars))
    IN  IF ~Enough(bars) THEN {} ELSE {DivMark(end, Len(bars)) : end \in {x \in Ends : diverges(x)}}
ScanDivergences(bars) == SettledMarks(bars) \cup LiveMarks(bars)

\* Of two marks on one bar the bearish one was found first.
LatestMark(marks) ==
    LET at == Max({m.at : m \in marks})
    IN  IF DivMark("H", at) \in marks THEN DivMark("H", at) ELSE DivMark("L", at)
\* _cvd_div_opposes: the entry gate of the strategy manager.
DivOpposes(bars, way) ==
    LET marks == ScanDivergences(bars)
    IN  Len(bars) >= GateLeast /\ marks # {} /\ (way = "long") # (LatestMark(marks).type = "bull")

-----------------------------------------------------------------------------
(* Fair value gaps *)
GapAt(bars, i) ==
    IF bars[i - 2].h < bars[i].l
    THEN {[side |-> "bull", low |-> bars[i - 2].h, high |-> bars[i].l, at |-> i]}
    ELSE IF bars[i - 2].l > bars[i].h
    THEN {[side |-> "bear", low |-> bars[i].h, high |-> bars[i - 2].l, at |-> i]}
    ELSE {}
IsFilled(gap, bars) ==
    \E j \in (gap.at + 1)..Len(bars) :
        IF gap.side = "bull" THEN bars[j].l <= gap.low ELSE bars[j].h >= gap.high
OpenGaps(bars) ==
    {gap \in UNION {GapAt(bars, i) : i \in Max({3, Len(bars) - GapAge + 1})..Len(bars)} :
        ~IsFilled(gap, bars)}

-----------------------------------------------------------------------------
(* Properties *)
SessionTill(bars, i) == {j \in 1..i : SessionStart(bars[j].t) = SessionStart(bars[i].t)}
\* The delta of a session's first trade, which opens the path instead of moving along it.
Unseen(b) == IF b.path = <<>> THEN 0 ELSE b.path[1] - (b.path[4] - b.d)
OneKind(bars) == \A i \in DOMAIN bars : (bars[i].path = <<>>) = (bars[1].path = <<>>)

\* build_cvd_candles: a candle closes at the delta of its session up to then, but for the
\* first trade of a session of the feed, and lies within its wicks.  For bars from disk and
\* from the feed in one series it does not: the two are measured from different zeros.
CandlesCount ==
    \A i \in {j \in DOMAIN series : OneKind(series)} :
        LET k == CvdCandles(series)[i]
            session == SessionTill(series, i)
        IN  /\ k.c = MapThenSumSet(LAMBDA j : series[j].d, session) - Unseen(series[Min(session)])
            /\ k.l <= Min({k.o, k.c}) /\ Max({k.o, k.c}) <= k.h

\* detect: two of the patterns announced hardly ever show.  The regular divergence is only
\* reported when the delta never was on its side of zero and closes on zero: everywhere else
\* the surer hidden pattern covers it, since a window opens at zero.  A reclaim within a
\* session starts below the floor and so breaks out downwards too, which is surer.
SurerMasks ==
    LET bars == LastOnes(series, CvdWindow)
        cvd == CvdCandles(bars)
        before == 1..(Len(bars) - 3)
        found == DominantIn(bars).pattern
        onward == /\ SessionStart(bars[Len(bars) - 1].t) = SessionStart(Last(bars).t)
                  /\ Last(bars).path = <<>>
    IN  /\ found = "divergence_bear" => Last(cvd).c = 0 /\ \A i \in before : cvd[i].h <= 0
        /\ found = "divergence_bull" => Last(cvd).c = 0 /\ \A i \in before : cvd[i].l >= 0
        /\ found = "reclaim" => ~onward

\* Turned upside down, buyers for sellers.
Ceiling == 20
BarTurned(b) ==
    [b EXCEPT !.h = Ceiling - b.l, !.l = Ceiling - b.h, !.c = Ceiling - b.c, !.d = -b.d,
              !.path = IF @ = <<>> THEN <<>> ELSE <<-@[1], -@[3], -@[2], -@[4]>>]
SeriesTurned(bars) == [i \in DOMAIN bars |-> BarTurned(bars[i])]
WayTurned(way) == CASE way = "long" -> "short" [] way = "short" -> "long" [] OTHER -> way
PatternTurned(p) ==
    CASE p = "breakout_long" -> "breakout_short" [] p = "breakout_short" -> "breakout_long"
      [] p = "hidden_buying" -> "hidden_selling" [] p = "hidden_selling" -> "hidden_buying"
      [] p = "divergence_bear" -> "divergence_bull" [] p = "divergence_bull" -> "divergence_bear"
      [] OTHER -> p
Outside(bars) ==
    LET cvd == CvdCandles(LastOnes(bars, CvdWindow))
        n == Len(cvd)
    IN  n > 3 /\ \A i \in 1..(n - 3) : cvd[i].h < cvd[n].h /\ cvd[n].l < cvd[i].l

\* detect: a series turned upside down shows the pattern of the other side, except where the
\* last bar breaks out both ways and for the reclaim, which only longs have.
DominantMirrors ==
    LET a == Dominant(series)
        b == Dominant(SeriesTurned(series))
    IN  (~Outside(series) /\ "reclaim" \notin {a.pattern, b.pattern}) =>
            b = [a EXCEPT !.pattern = PatternTurned(@), !.side = WayTurned(@)]

MarksTurned(marks) == {[m EXCEPT !.type = IF @ = "bear" THEN "bull" ELSE "bear"] : m \in marks}
\* scan_divergences and the gate: nor do they prefer a side, unless one bar has both marks.
MarksMirror ==
    LET marks == ScanDivergences(series)
        turned == SeriesTurned(series)
    IN  /\ ScanDivergences(turned) = MarksTurned(marks)
        /\ (\A x, y \in marks : x.at = y.at => x = y) =>
              \A way \in {"long", "short"} :
                  DivOpposes(turned, WayTurned(way)) = DivOpposes(series, way)

\* scan_divergences ("markers are placed only at confirmed swing pivots"): a mark once settled
\* stays when bars are added, so the memory of divergences and the gate never took back one.
MarksStand ==
    \A k \in DOMAIN series : SettledMarks(SubSeq(series, 1, k)) \subseteq SettledMarks(series)

\* Nor does the window that moves along a session make a mark that the longer series lacks.
\* (Across sessions it does: the first one of the window is measured from the window's start.)
WindowAddsNoMark ==
    (series # <<>> /\ OneKind(series) /\ SessionTill(series, Len(series)) = DOMAIN series) =>
        \A m \in SettledMarks(Tail(series)) : [m EXCEPT !.at = @ + 1] \in SettledMarks(series)

\* detect_fvgs: what is still open of a gap up lies below the price and of a gap down above
\* it, so that neither is a target of its own side ("TP target = nearest unfilled bullish FVG
\* above (long)", fvg.py:13).
GapsBehindPrice ==
    \A gap \in OpenGaps(series) :
        IF gap.side = "bull" THEN gap.low < Last(series).c ELSE gap.high > Last(series).c

GapsTurned(gaps) ==
    {[side |-> IF g.side = "bull" THEN "bear" ELSE "bull", low |-> Ceiling - g.high,
      high |-> Ceiling - g.low, at |-> g.at] : g \in gaps}
\* detect_fvgs: gaps up and gaps down are found and filled alike.
GapsMirror == OpenGaps(SeriesTurned(series)) = GapsTurned(OpenGaps(series))
===============================================================================
