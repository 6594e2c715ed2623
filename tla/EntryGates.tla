------------------------------ MODULE EntryGates ------------------------------
(***************************************************************************)
(* The gates an entry passes in execution/router.dispatch: the regime gate  *)
(* (features/day_type.py), the same-direction guard, and the veto layer of  *)
(* execution/decision_validator.py with the auction signal of               *)
(* features/auction.py.  features/confluence.py scores the zones the prompt *)
(* offers.                                                                  *)
(*                                                                          *)
(* get_regime hands classify the cached profile as a dict, on which         *)
(* `daily_vp.shape` raises: with a profile the regime is always uncertain.  *)
(* Without one there are no thin zones, and the auction is silent.  Three   *)
(* checks of the validator raise before they judge (in_active_hours and     *)
(* get_thresholds do not exist, htf_bias gets a string) and let the entry   *)
(* pass.  Points are halves, confidences hundredths, scores thousandths.    *)
(***************************************************************************)
EXTENDS Integers, SequencesExt

CONSTANTS MinBars,    \* bars below which a session is not classified
          IbBars,     \* IB_BARS
          Steps,      \* the run of rising readings that makes a CVD trend
          SignTail,       \* the readings among which its sign changes are counted
          Dwell,      \* DWELL_WINDOW
          Axis,       \* twice the price about which the properties reflect
          Markets, ZonesAsked   \* the inputs tried

ASSUME GatesAssumption ==
    /\ Dwell \in Nat \ {0}
    /\ \A m \in Markets :
          /\ m.kind = "market" /\ m.profile.shape \in {"none", "D", "P", "b"}
          /\ m.profile.thin \in Seq([lo : Int, hi : Int])
          /\ m.bars \in Seq([o : Int, h : Int, l : Int, c : Int, vol : Nat, delta : Int])
          /\ \A i \in DOMAIN m.bars : m.bars[i].l <= m.bars[i].h
    /\ \A z \in ZonesAsked : z.kind = "zone"

VARIABLE gate         \* the entry being decided

HighOf(bars) == Max({bars[i].h : i \in DOMAIN bars})
LowOf(bars) == Min({bars[i].l : i \in DOMAIN bars})
RoundTo(a, b) == (2 * a + b) \div (2 * b)
Least(a, b) == IF a < b THEN a ELSE b
SizeOf(x) == IF x < 0 THEN -x ELSE x
LastOf(s, n) == SubSeq(s, Max({1, Len(s) - n + 1}), Len(s))

-----------------------------------------------------------------------------
(* The day type *)
NoPoints == [trend |-> 0, range |-> 0]
ForTrend(n) == [trend |-> n, range |-> 0]
ForRange(n) == [trend |-> 0, range |-> n]

\* How far the session went beyond its initial balance.
InitialBalance(bars) ==
    LET ib == SubSeq(bars, 1, IbBars)
        width == HighOf(ib) - LowOf(ib)
        beyond == Max({0, HighOf(bars) - HighOf(ib), LowOf(ib) - LowOf(bars)})
    IN  IF Len(bars) < IbBars \/ width = 0 THEN NoPoints
        ELSE IF beyond >= width THEN ForTrend(5)
        ELSE IF 2 * beyond >= width THEN ForTrend(2) ELSE ForRange(3)

ShapePoints(profile) ==
    CASE profile.shape = "none" -> NoPoints
      [] profile.shape = "D" -> ForRange(4)
      [] profile.shape \in {"P", "b"} -> ForTrend(3)

\* _cvd_history: the running delta after each bar.
Running(bars) == [i \in DOMAIN bars |-> FoldSeq(LAMBDA b, sum : sum + b.delta, 0, SubSeq(bars, 1, i))]

\* Mutant: one fall is enough for a bearish trend.
CvdTrendHasty(cvd) ==
    LET last == LastOf(cvd, Steps + 1)
        signs == [i \in DOMAIN LastOf(cvd, SignTail) |-> LastOf(cvd, SignTail)[i] >= 0]
        turns == {i \in 2..Len(signs) : signs[i] # signs[i - 1]}
    IN  IF Len(cvd) < Steps + 1 THEN "insufficient"
        ELSE IF \A i \in 2..Len(last) : last[i] > last[i - 1] THEN "bullish"
        ELSE IF \E i \in 2..Len(last) : last[i] < last[i - 1] THEN "bearish"
        ELSE IF Cardinality(turns) >= 2 THEN "oscillating" ELSE "neutral"
CvdTrend(cvd) ==
    LET last == LastOf(cvd, Steps + 1)
        signs == [i \in DOMAIN LastOf(cvd, SignTail) |-> LastOf(cvd, SignTail)[i] >= 0]
        turns == {i \in 2..Len(signs) : signs[i] # signs[i - 1]}
    IN  IF Len(cvd) < Steps + 1 THEN "insufficient"
        ELSE IF \A i \in 2..Len(last) : last[i] > last[i - 1] THEN "bullish"
        ELSE IF \A i \in 2..Len(last) : last[i] < last[i - 1] THEN "bearish"
        ELSE IF Cardinality(turns) >= 2 THEN "oscillating" ELSE "neutral"

CvdPoints(state) == CASE state \in {"bullish", "bearish"} -> ForTrend(4)
                      [] state = "oscillating" -> ForRange(3)
                      [] OTHER -> NoPoints

\* _va_rotation: two tests of an edge, and a close back inside after one.
Rotation(bars, profile) ==
    LET width == profile.vah - profile.val      \* a fiftieth of it is the tolerance
        outside(b) == 50 * b.h > 50 * profile.vah + width \/ 50 * b.l < 50 * profile.val - width
        inside(b) == 50 * b.c > 50 * profile.val - width /\ 50 * b.c < 50 * profile.vah + width
        step(b, s) == IF outside(b) THEN [s EXCEPT !.tests = @ + 1, !.out = TRUE]
                      ELSE IF inside(b) /\ s.out
                           THEN [s EXCEPT !.returns = @ + 1, !.out = FALSE] ELSE s
        seen == FoldLeft(LAMBDA s, b : step(b, s), [tests |-> 0, returns |-> 0, out |-> FALSE], bars)
    IN  IF profile.shape # "none" /\ width > 0 /\ seen.tests >= 2 /\ seen.returns >= 1
        THEN ForRange(2) ELSE NoPoints

\* get_va_regime: the value areas of the last sessions, oldest first, and how surely they
\* widen or narrow.
WidthPoints(widths) ==
    LET n == Len(widths)
        move == (1000 * (widths[n] - widths[1])) \div widths[1]
        oneWay == \/ \A i \in 2..n : widths[i] > widths[i - 1]
                  \/ \A i \in 2..n : widths[i] < widths[i - 1]
    IN  IF n < 2 THEN NoPoints
        ELSE IF (IF oneWay THEN 13 ELSE 10) * SizeOf(move) < 790 THEN NoPoints
        ELSE IF move >= 50 THEN ForTrend(2)
        ELSE IF move <= -50 THEN ForRange(2) ELSE NoPoints

DayType(type, conf) == [type |-> type, conf |-> conf]
Unknown == DayType("uncertain", 0)

\* The signs added up: more than a point apart, or uncertain.
Weighed(trend, range, dir) ==
    LET total == trend + range
        apart == SizeOf(trend - range)
        sure == Least(90, RoundTo(40 * total + 60 * apart, total))
    IN  IF total = 0 THEN Unknown
        ELSE IF trend - range > 2 THEN DayType(dir, sure)
        ELSE IF range - trend > 2 THEN DayType("range", sure)
        ELSE DayType("uncertain", Max({25, RoundTo(50 * apart, total)}))

\* What each sign of the day says, and the signs added up.
Signs == {"ib", "shape", "cvd", "rotation", "width"}
SignPoints(bars, profile, widths) ==
    [s \in Signs |-> CASE s = "ib" -> InitialBalance(bars)
                       [] s = "shape" -> ShapePoints(profile)
                       [] s = "cvd" -> CvdPoints(CvdTrend(Running(bars)))
                       [] s = "rotation" -> Rotation(bars, profile)
                       [] s = "width" -> WidthPoints(widths)]
TrendPoints(points) == MapThenSumSet(LAMBDA s : points[s].trend, Signs)
RangePoints(points) == MapThenSumSet(LAMBDA s : points[s].range, Signs)

\* The way a trend goes: the running delta's, or of its last reading.
Upward(cvd) == LET state == CvdTrend(cvd)
               IN  state = "bullish" \/ (state # "bearish" /\ cvd[Len(cvd)] >= 0)

\* classify
DayRead(bars, profile, widths) ==
    LET points == SignPoints(bars, profile, widths)
    IN  IF Len(bars) < MinBars THEN Unknown
        ELSE Weighed(TrendPoints(points), RangePoints(points),
                     IF Upward(Running(bars)) THEN "trend_up" ELSE "trend_down")

NoProfile == [shape |-> "none", vah |-> 0, val |-> 0, thin |-> <<>>]
\* get_regime: the error with a cached profile ends as "uncertain".
Regime(m) == IF m.profile # NoProfile THEN Unknown ELSE DayRead(m.bars, NoProfile, m.widths)

\* is_blocked_by_regime, at the floor of the settings
BlockFloor == 75
Fights(regime, side) == \/ regime.type = "trend_up" /\ side = "short"
                        \/ regime.type = "trend_down" /\ side = "long"
Blocked(regime, side) == regime.conf >= BlockFloor /\ Fights(regime, side)

-----------------------------------------------------------------------------
(* The auction in the thin zones *)
Quiet == [type |-> "none", conf |-> 0]
Percent(x) == Max({0, Least(100, x)})

\* Of 100 bars' ranges, where the bar closed.
ClosePct(b) == IF b.h = b.l THEN 50 ELSE (100 * (b.c - b.l)) \div (b.h - b.l)

\* _failure_confidence
FailureConf(ratio, dwelt, strength) ==
    LET thin == Max({0, (100 * (40 - ratio)) \div 40})
    IN  Max({35, Least(90, RoundTo(40 * thin + 35 * (100 \div dwelt) + 25 * Percent(strength), 100) + 30)})

\* Heavy trade over two bars, closing on one side of the middle.
Accepts(last, zone, ratio, dwelt) ==
    LET conf == Least(75, 40 + (15 * (ratio - 120)) \div 100)
    IN  IF ratio < 120 \/ dwelt < 2 THEN Quiet
        ELSE IF 2 * last.c > zone.lo + zone.hi /\ last.c >= zone.lo
             THEN [type |-> "acceptance_long", conf |-> conf]
        ELSE IF 2 * last.c < zone.lo + zone.hi /\ last.c <= zone.hi
             THEN [type |-> "acceptance_short", conf |-> conf]
        ELSE Quiet

\* _classify_zone_visit: thin trade that left the zone failed, wherever it came from.
Visit(last, zone, ratio, dwelt) ==
    IF ratio < 40 /\ last.c > zone.hi
    THEN [type |-> "failure_long", conf |-> FailureConf(ratio, dwelt, ClosePct(last))]
    ELSE IF ratio < 40 /\ last.c < zone.lo
    THEN [type |-> "failure_short", conf |-> FailureConf(ratio, dwelt, 100 - ClosePct(last))]
    ELSE Accepts(last, zone, ratio, dwelt)

VolumeOf(bars, at) == MapThenSumSet(LAMBDA i : bars[i].vol, at)
\* The signal of one zone: the volume of the recent bars that touched it, against the average.
InZone(bars, zone) ==
    LET inside == {i \in DOMAIN bars : /\ i > Len(bars) - Dwell
                                       /\ bars[i].l <= zone.hi /\ bars[i].h >= zone.lo}
        traded == {i \in DOMAIN bars : bars[i].vol > 0}
        ratio == (100 * VolumeOf(bars, inside) * Cardinality(traded))
                     \div (Cardinality(inside) * VolumeOf(bars, traded))
    IN  IF Len(bars) < Dwell \/ inside = {} \/ traded = {} THEN Quiet
        ELSE Visit(bars[Len(bars)], zone, ratio, Cardinality(inside))

Surer(best, signal) == IF signal.conf > best.conf THEN signal ELSE best
\* detect, over the thin zones of the cached profile
Auction(bars, thin) == FoldLeft(LAMBDA best, z : Surer(best, InZone(bars, z)), Quiet, thin)

-----------------------------------------------------------------------------
(* The way in *)
\* validate: what is left of its six checks.
Veto(m) ==
    LET auction == Auction(m.bars, m.profile.thin).type
    IN  IF Blocked(Regime(m), m.side) THEN "regime_mismatch"
        ELSE IF \/ auction = "acceptance_long" /\ m.side = "short"
                \/ auction = "acceptance_short" /\ m.side = "long"
             THEN "auction_acceptance" ELSE "ok"

\* dispatch, before the grid is built
Gated(m) ==
    IF Blocked(Regime(m), m.side) THEN "regime"
    ELSE IF m.held = m.side /\ ~m.adds THEN "held"
    ELSE Veto(m)

-----------------------------------------------------------------------------
(* The zones offered to the prompt *)
CvdAligns(side, cvd) ==
    LET with == IF side = "long" THEN cvd ELSE -cvd
    IN  IF with > 10 THEN Least(1000, 10 * with) ELSE 0

HtfAligns(side, bias) == IF bias = (IF side = "long" THEN "bullish" ELSE "bearish") THEN 1000
                         ELSE IF bias = "neutral" THEN 500 ELSE 0

\* The first absorption within reach of the zone that takes the trade's side.
Absorbs(z) ==
    LET side == IF z.side = "long" THEN "buy" ELSE "sell"
        mine == SelectSeq(z.absorbed, LAMBDA a : a.near /\ a.side = side)
    IN  IF mine = <<>> THEN 0 ELSE Least(1000, 4 * mine[1].share)

\* Inside a heavy node, or within a fiftieth of the range of one, or near the control price.
NearNode(z) ==
    LET dist(n) == Least(SizeOf(z.price - n.lo), SizeOf(z.price - n.hi))
        hit == {i \in DOMAIN z.heavy : z.heavy[i].lo <= z.price /\ z.price <= z.heavy[i].hi}
        close == {i \in DOMAIN z.heavy : 50 * dist(z.heavy[i]) < z.span}
    IN  IF hit \cup close # {}
        THEN IF Min(hit \cup close) \in hit THEN 1000 ELSE 700
        ELSE IF 100 * SizeOf(z.price - z.control) < z.span THEN 800 ELSE 0

\* score_zone; its imbalance part compares "buy" with "bid" and is always nothing.
ZoneScore(z) ==
    LET sum == 300 * Absorbs(z) + 200 * NearNode(z) + 150 * CvdAligns(z.side, z.cvd)
                 + 100 * HtfAligns(z.side, z.bias)
        score == Least(1000, RoundTo(sum, 1000))
    IN  IF \E i \in DOMAIN z.thin : z.thin[i].lo <= z.price /\ z.price <= z.thin[i].hi
        THEN [skip |-> TRUE, score |-> 0, qty |-> 0]
        ELSE [skip |-> FALSE, score |-> score, qty |-> 300 + RoundTo(7 * score, 10)]

-----------------------------------------------------------------------------
GatesInit == gate = [kind |-> "none"]
\* A decision arrives at the router, or a zone at the prompt.
GatesNext == IF gate.kind # "none" THEN gate' = [kind |-> "none"]
             ELSE \/ \E m \in Markets : gate' = m
                  \/ \E z \in ZonesAsked : gate' = z
GatesSpec == GatesInit /\ [][GatesNext]_gate

-----------------------------------------------------------------------------
(* Properties *)
Swapped(x, a, b) == IF x = a THEN b ELSE IF x = b THEN a ELSE x
Reflected(p) == Axis - p
ZonesMirror(zones) == [i \in DOMAIN zones |-> [lo |-> Reflected(zones[i].hi), hi |-> Reflected(zones[i].lo)]]
BarMirror(b) == [o |-> Reflected(b.o), h |-> Reflected(b.l), l |-> Reflected(b.h),
                 c |-> Reflected(b.c), vol |-> b.vol, delta |-> -b.delta]
BarsMirror(bars) == [i \in DOMAIN bars |-> BarMirror(bars[i])]
ProfileMirror(p) ==
    IF p = NoProfile THEN p
    ELSE [shape |-> Swapped(p.shape, "P", "b"), vah |-> Reflected(p.val), val |-> Reflected(p.vah),
          thin |-> ZonesMirror(p.thin)]
MarketMirror(m) ==
    [m EXCEPT !.bars = BarsMirror(@), !.profile = ProfileMirror(@),
              !.side = Swapped(@, "long", "short"), !.held = Swapped(@, "long", "short")]
\* A running delta of exactly nothing counts as bought: it has no mirror image.
CvdBalanced(bars) == \E i \in DOMAIN bars : Running(bars)[i] = 0

\* The day type has no side: the mirrored session is the same day turned over, with the
\* same confidence, through the initial balance, the shape, the running delta, the rotation.
RegimeMirrors ==
    (gate.kind = "market" /\ ~CvdBalanced(gate.bars)) =>
        LET d == DayRead(gate.bars, gate.profile, gate.widths)
            e == DayRead(BarsMirror(gate.bars), ProfileMirror(gate.profile), gate.widths)
        IN  e = [d EXCEPT !.type = Swapped(@, "trend_up", "trend_down")]

\* What the router answers a long, it answers the mirrored short.
EntryMirrors ==
    (gate.kind = "market" /\ ~CvdBalanced(gate.bars)) => Gated(MarketMirror(gate)) = Gated(gate)

\* A sign of a range never turns an allowed entry into a fight against the trend: value
\* areas that narrow block nothing that steady ones let through.
RangeNeverBlocks ==
    gate.kind = "market" =>
        LET steady == DayRead(gate.bars, gate.profile, <<>>)
            narrowed == DayRead(gate.bars, gate.profile, <<20, 15, 10>>)
        IN  Blocked(narrowed, gate.side) => Blocked(steady, gate.side)

\* The order of the thin zones in the profile decides between equally sure signals only.
OrderOnlyBreaksTies ==
    gate.kind = "market" =>
        LET zones == gate.profile.thin
            sure(z) == InZone(gate.bars, z).conf
        IN  \/ Auction(gate.bars, Reverse(zones)) = Auction(gate.bars, zones)
            \/ \E i, j \in DOMAIN zones : i # j /\ sure(zones[i]) = sure(zones[j])

\* The score of a zone for a long is the score of its mirror image for a short.
ScoreMirrors ==
    gate.kind = "zone" =>
        ZoneScore([gate EXCEPT !.price = Reflected(@), !.control = Reflected(@),
                               !.side = Swapped(@, "long", "short"), !.cvd = -@,
                               !.bias = Swapped(@, "bullish", "bearish"),
                               !.absorbed = [i \in DOMAIN @ |->
                                   [@[i] EXCEPT !.side = Swapped(@, "buy", "sell")]],
                               !.heavy = ZonesMirror(@), !.thin = ZonesMirror(@)]) = ZoneScore(gate)

\* "Regime gate — refuse trades against confirmed trends" (router.py): what the profile and
\* the bars together call a confirmed trend is not fought.
AgainstTrendIsRefused ==
    gate.kind = "market" =>
        (Blocked(DayRead(gate.bars, gate.profile, gate.widths), gate.side) => Gated(gate) # "ok")

\* "Acceptance in OPPOSITE direction to trade = bad signal": no zone accepts against a
\* trade that passes.
AcceptanceIsHeeded ==
    gate.kind = "market" =>
        (Gated(gate) = "ok" =>
            \A i \in DOMAIN gate.profile.thin :
                InZone(gate.bars, gate.profile.thin[i]).type #
                    (IF gate.side = "long" THEN "acceptance_short" ELSE "acceptance_long"))
=============================================================================
