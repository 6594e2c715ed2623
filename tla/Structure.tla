------------------------------- MODULE Structure -------------------------------
(***************************************************************************)
(* Market structure as the strategies read it from a series of bars:        *)
(* fractal swings, changes of character, impulse and continuation legs      *)
(* (pipeline/features/choch.py), and the pivots, phase, Fibonacci levels    *)
(* and wave count of pipeline/features/wave.py.                             *)
(*                                                                          *)
(* A bar is [h, l, c, d]: high, low, close, signed volume.  Bars are        *)
(* numbered from 1, a series is shorter than every lookback of the code,    *)
(* and a ratio is in thousandths.                                           *)
(***************************************************************************)
EXTENDS Integers, Sequences, FiniteSets, FiniteSetsExt, SequencesExt

None == [kind |-> "none"]
Found(x) == x.kind # "none"
HighsFrom(bars, i) == {bars[j].h : j \in i..Len(bars)}
LowsFrom(bars, i) == {bars[j].l : j \in i..Len(bars)}

-----------------------------------------------------------------------------
(* choch.py: fractal swings *)
\* The n bars on either side of bar i, none unless all of them are there.
Around(bars, i, n) ==
    IF i - n >= 1 /\ i + n <= Len(bars) THEN ((i - n)..(i + n)) \ {i} ELSE {}

IsHigh(bars, i, n) ==
    Around(bars, i, n) # {} /\ \A j \in Around(bars, i, n) : bars[i].h > bars[j].h
IsLow(bars, i, n) ==
    Around(bars, i, n) # {} /\ \A j \in Around(bars, i, n) : bars[i].l < bars[j].l

Swing(kind, i, price) == [kind |-> kind, idx |-> i, price |-> price]
Swings(bars, n) ==
    FlattenSeq([i \in 1..Len(bars) |->
        (IF IsHigh(bars, i, n) THEN <<Swing("high", i, bars[i].h)>> ELSE <<>>) \o
        (IF IsLow(bars, i, n) THEN <<Swing("low", i, bars[i].l)>> ELSE <<>>)])

\* The last swing of a kind that satisfies a bound on its bar.
LastSwing(sw, kind, upTo) ==
    LET S == {i \in DOMAIN sw : sw[i].kind = kind /\ sw[i].idx <= upTo}
    IN  IF S = {} THEN None ELSE sw[Max(S)]

TrendOf(highs, lows) ==
    IF Len(highs) # 2 THEN "none"
    ELSE IF highs[2].price > highs[1].price /\ lows[2].price > lows[1].price THEN "up"
    ELSE IF highs[2].price < highs[1].price /\ lows[2].price < lows[1].price THEN "down" ELSE "none"
OfKind(sw, kind) ==
    SelectSeq(SubSeq(sw, Len(sw) - 3, Len(sw)), LAMBDA s : s.kind = kind)
Trend(sw) ==
    IF Len(sw) < 4 THEN "none" ELSE TrendOf(OfKind(sw, "high"), OfKind(sw, "low"))

\* detect_choch: the first close through the last low of an uptrend (or the last high of
\* a downtrend) after the last swing; the trend is that before the last swing.
BrokenAt(bars, from, kind, guard) ==
    LET broke == {i \in from..Len(bars) : IF kind = "bear" THEN bars[i].c < guard.price
                                          ELSE bars[i].c > guard.price}
    IN  IF ~Found(guard) \/ broke = {} THEN None
        ELSE [kind |-> kind, at |-> Min(broke), level |-> guard.price]
ChochIn(bars, sw, trend) ==
    CASE trend = "up" -> BrokenAt(bars, Last(sw).idx + 1, "bear", LastSwing(sw, "low", Len(bars)))
      [] trend = "down" -> BrokenAt(bars, Last(sw).idx + 1, "bull", LastSwing(sw, "high", Len(bars)))
      [] OTHER -> None
ChochOf(bars, sw) ==
    IF Len(sw) < 4 THEN None ELSE ChochIn(bars, sw, Trend(IF Len(sw) >= 5 THEN Front(sw) ELSE sw))
Choch(bars, n) == IF Len(bars) < 2 * n + 4 THEN None ELSE ChochOf(bars, Swings(bars, n))

LegFrom(bars, kind, origin) ==
    IF ~Found(origin) THEN None
    ELSE [kind |-> "leg", origin |-> origin.price,
          extreme |-> IF kind = "bull" THEN Max(HighsFrom(bars, origin.idx))
                      ELSE Min(LowsFrom(bars, origin.idx))]
ImpulseLeg(bars, event, n) ==
    LegFrom(bars, event.kind,
            LastSwing(Swings(bars, n), IF event.kind = "bull" THEN "low" ELSE "high", event.at))

\* continuation_leg: the four last alternating swings, both pairs in the direction.
OtherEnd(kind) == IF kind = "low" THEN "high" ELSE "low"
Before(sw, swing) ==
    IF Found(swing) THEN LastSwing(sw, OtherEnd(swing.kind), swing.idx - 1) ELSE None
LegOf(before, origin, impulse, pull) ==
    IF ~Found(before) THEN None
    ELSE IF pull.kind = "low" /\ impulse.price > before.price /\ pull.price > origin.price
    THEN [kind |-> "long", origin |-> origin.price, impulse |-> impulse.price,
          pullback |-> pull.price, at |-> pull.idx]
    ELSE IF pull.kind = "high" /\ impulse.price < before.price /\ pull.price < origin.price
    THEN [kind |-> "short", origin |-> origin.price, impulse |-> impulse.price,
          pullback |-> pull.price, at |-> pull.idx]
    ELSE None
LegBehind(sw, origin, impulse, pull) == LegOf(Before(sw, origin), origin, impulse, pull)
LegInto(sw, impulse, pull) == LegBehind(sw, Before(sw, impulse), impulse, pull)
LegEnding(sw, pull) == LegInto(sw, Before(sw, pull), pull)
ContinuationIn(sw) == IF Len(sw) < 4 THEN None ELSE LegEnding(sw, Last(sw))
ContinuationLeg(bars, n) == ContinuationIn(Swings(bars, n))

-----------------------------------------------------------------------------
(* wave.py: pivots may be equal to their neighbours *)
Pivots(bars, half, side) ==
    {i \in (half + 1)..(Len(bars) - half) :
        IF side = "H" THEN bars[i].h = Max({bars[j].h : j \in (i - half)..(i + half)})
        ELSE bars[i].l = Min({bars[j].l : j \in (i - half)..(i + half)})}

PivotAt(bars, i, side) == [idx |-> i, price |-> IF side = "H" THEN bars[i].h ELSE bars[i].l,
                           side |-> side]
PivotSeq(bars, half) ==
    FlattenSeq([i \in 1..Len(bars) |->
        (IF i \in Pivots(bars, half, "H") THEN <<PivotAt(bars, i, "H")>> ELSE <<>>) \o
        (IF i \in Pivots(bars, half, "L") THEN <<PivotAt(bars, i, "L")>> ELSE <<>>)])

MoreExtreme(a, b) == IF a.side = "H" THEN a.price > b.price ELSE a.price < b.price

\* Of two pivots of one side in a row the more extreme stays.
Collapsed(seq, s) ==
    IF seq = <<>> THEN <<s>>
    ELSE IF Last(seq).side # s.side THEN Append(seq, s)
    ELSE IF MoreExtreme(s, Last(seq)) THEN Append(Front(seq), s) ELSE seq
Alternating(bars, half) == FoldLeft(Collapsed, <<>>, PivotSeq(bars, half))

\* Swings smaller than the least (0.1 % of the first price) are merged.
Filtered(seq, least) ==
    LET gap(a, b) == IF a.price > b.price THEN a.price - b.price ELSE b.price - a.price
        step(acc, s) ==
            IF gap(s, Last(acc)) >= least THEN Append(acc, s)
            ELSE IF MoreExtreme(s, Last(acc)) THEN Append(Front(acc), s) ELSE acc
    IN  IF seq = <<>> THEN <<>> ELSE FoldLeft(step, <<seq[1]>>, Tail(seq))

LowestAt(seq) ==
    LET lows == {i \in DOMAIN seq : seq[i].side = "L"}
    IN  Min({i \in lows : \A j \in lows : seq[i].price <= seq[j].price})
HighestAt(seq) ==
    LET highs == {i \in DOMAIN seq : seq[i].side = "H"}
    IN  Min({i \in highs : \A j \in highs : seq[i].price >= seq[j].price})
Anchored(seq) == Min({LowestAt(seq), HighestAt(seq)})
\* _count_waves: legs from the first of the lowest low and the highest high; 0: unknown.
WaveCount(seq) ==
    IF Len(seq) < 3 \/ {s.side : s \in ToSet(seq)} # {"H", "L"} THEN 0
    ELSE Len(seq) - Anchored(seq)

\* classify: the leg between the last pivot of each side.
Leg(bars) ==
    LET hs == Pivots(bars, 2, "H")
        ls == Pivots(bars, 2, "L")
    IN  IF hs = {} \/ ls = {} THEN None
        ELSE IF Max(ls) = Max(hs) \/ bars[Max(hs)].h <= bars[Max(ls)].l THEN None
        ELSE [kind |-> IF Max(ls) < Max(hs) THEN "up" ELSE "down", low |-> bars[Max(ls)].l,
              high |-> bars[Max(hs)].h, start |-> Min({Max(ls), Max(hs)}),
              end |-> Max(ls \cup hs)]

Clamp(x, lo, hi) == Max({lo, Min({hi, x})})
\* How far the close has come back, in thousandths of the leg.
Retraced(leg, close) ==
    Clamp((1000 * (IF leg.kind = "up" THEN leg.high - close ELSE close - leg.low))
            \div (leg.high - leg.low), 0, 1000)

Phase(retraced) == IF retraced < 100 THEN "impulse" ELSE "correction"

\* The fib_retrace and fib_extend levels, thousandths of a price.
RetraceLevel(leg, r) ==
    IF leg.kind = "up" THEN 1000 * leg.high - r * (leg.high - leg.low)
    ELSE 1000 * leg.low + r * (leg.high - leg.low)
ExtendLevel(leg, e) ==
    IF leg.kind = "up" THEN 1000 * leg.low + e * (leg.high - leg.low)
    ELSE 1000 * leg.high - e * (leg.high - leg.low)

\* target_tier: the first extension still ahead; the furthest one when none is.
Tiers == <<1000, 1272, 1618>>
StillAhead(leg, price, level) == IF leg.kind = "up" THEN 1000 * price < level ELSE 1000 * price > level
TargetTier(leg, price) ==
    LET open == {k \in 1..2 : StillAhead(leg, price, ExtendLevel(leg, Tiers[k]))}
    IN  IF open = {} THEN 3 ELSE Min(open)
=============================================================================
