-------------------------------- MODULE Profile --------------------------------
(***************************************************************************)
(* The volume profile (pipeline/features/volume_profile.py), the value area *)
(* of one bar (pipeline/footprint.py) and the set-ups read off a profile    *)
(* (pipeline/features/vp_setup.py).  Prices are whole bins.  Where peaks of *)
(* the smoothed profile lie is the library's (scipy), so zones are inputs.  *)
(***************************************************************************)
EXTENDS Integers, Sequences, FiniteSets, FiniteSetsExt, SequencesExt, Functions

CONSTANTS
    AreaPct,       \* VALUE_AREA_PCT, in per cent
    BarAreaPct,    \* the share a bar's value area covers, in per cent
    PeakGap,       \* bins a second peak keeps from the point of control
    ZoneGap,       \* bins between zones that are one (merge_tol)
    Profiles,      \* the profiles looked at: sequences of volumes
    ZoneLists,     \* the zones looked at: sequences of [low, high], by low
    Moments        \* the moments looked at: see Setup

VARIABLE auction   \* what is looked at: [kind, of]

Nothing == [kind |-> "none"]

-----------------------------------------------------------------------------
(* Point of control and value area *)
Volume(bins, lo, hi) == SumFunctionOnSet(bins, lo..hi)
Whole(bins) == Volume(bins, 1, Len(bins))
\* Of the fullest bins the upper middle one.
Control(bins) ==
    LET top == {i \in DOMAIN bins : \A j \in DOMAIN bins : bins[j] <= bins[i]}
    IN  CHOOSE i \in top : Cardinality({j \in top : j < i}) = Cardinality(top) \div 2

VolumeAt(bins, i) == IF i \in DOMAIN bins THEN bins[i] ELSE 0
AreaFull(bins, lo, hi, pct) == 100 * Volume(bins, lo, hi) >= pct * Whole(bins)

\* The next bin with volume on either side; one past the end when there is none.
LookUp(bins, hi) == Min({i \in DOMAIN bins : i > hi /\ bins[i] > 0} \cup {Len(bins) + 1})
LookDown(bins, lo) == Max({i \in DOMAIN bins : i < lo /\ bins[i] > 0} \cup {0})
PairUp(bins, hi) == LET k == LookUp(bins, hi) IN VolumeAt(bins, k) + VolumeAt(bins, k + 1)
PairDown(bins, lo) == LET k == LookDown(bins, lo) IN VolumeAt(bins, k) + VolumeAt(bins, k - 1)

StepUp(bins, lo, hi) == <<lo, LookUp(bins, hi)>>
StepDown(bins, lo, hi) == <<LookDown(bins, lo), hi>>

ValueArea(bins) ==
    LET from[area \in (0..(Len(bins) + 1)) \X (0..(Len(bins) + 1))] ==
            LET lo == area[1]
                hi == area[2]
                up == PairUp(bins, hi)
                down == PairDown(bins, lo)
            IN  IF AreaFull(bins, lo, hi, AreaPct) \/ (up = 0 /\ down = 0) THEN area
                ELSE IF hi < Len(bins) /\ (lo = 1 \/ up >= down) THEN from[StepUp(bins, lo, hi)]
                ELSE from[StepDown(bins, lo, hi)]
    IN  from[<<Control(bins), Control(bins)>>]

\* The value area of a bar's footprint: from the first fullest price, a price at
\* a time to the heavier side, the upper one first.
BarEnds(up, down) == up < 0 /\ down < 0

BarArea(cells) ==
    LET from[area \in (DOMAIN cells) \X (DOMAIN cells)] ==
            LET lo == area[1]
                hi == area[2]
                up == IF hi < Len(cells) THEN cells[hi + 1] ELSE -1
                down == IF lo > 1 THEN cells[lo - 1] ELSE -1
            IN  IF AreaFull(cells, lo, hi, BarAreaPct) \/ BarEnds(up, down) THEN area
                ELSE from[IF up >= down THEN <<lo, hi + 1>> ELSE <<lo - 1, hi>>]
        poc == Min({i \in DOMAIN cells : \A j \in DOMAIN cells : cells[j] <= cells[i]})
    IN  from[<<poc, poc>>]

-----------------------------------------------------------------------------
(* Shape *)
UpperThird(bins) == Volume(bins, 2 * (Len(bins) \div 3) + 1, Len(bins))
LowerThird(bins) == Volume(bins, 1, Len(bins) \div 3)
MiddleThird(bins) == Whole(bins) - UpperThird(bins) - LowerThird(bins)
Peak(bins) == bins[Control(bins)]
SecondPeak(bins, poc) ==
    \E i \in DOMAIN bins : (i - poc > PeakGap \/ poc - i > PeakGap)
                             /\ 100 * bins[i] > 65 * Peak(bins)

TopHeavy(bins, poc) == poc > 2 * (Len(bins) \div 3) /\ 100 * UpperThird(bins) > 45 * Whole(bins)
BottomHeavy(bins, poc) == poc <= Len(bins) \div 3 /\ 100 * LowerThird(bins) > 45 * Whole(bins)
BalancedShape(bins) ==
    /\ 100 * MiddleThird(bins) > 40 * Whole(bins)
    /\ 100 * (UpperThird(bins) - LowerThird(bins)) < 15 * Whole(bins)
    /\ 100 * (LowerThird(bins) - UpperThird(bins)) < 15 * Whole(bins)
ProfileShape(bins, poc) ==
    IF Whole(bins) = 0 THEN "thin"
    ELSE IF TopHeavy(bins, poc) THEN "P"
    ELSE IF BottomHeavy(bins, poc) THEN "b"
    ELSE IF BalancedShape(bins) THEN "D"
    ELSE IF SecondPeak(bins, poc) THEN "B"
    ELSE IF Peak(bins) * Len(bins) < 2 * Whole(bins) THEN "thin"
    ELSE "D"

-----------------------------------------------------------------------------
(* Zones *)
\* Mutant: the joined zone ends where the later one does.
JoinedLast(a, b) == [a EXCEPT !.high = b.high]
Joined(a, b) == [a EXCEPT !.high = Max({a.high, b.high})]

MergeNext(merged, z) ==
    IF merged # <<>> /\ z.low - Last(merged).high <= ZoneGap
    THEN Front(merged) \o <<Joined(Last(merged), z)>>
    ELSE Append(merged, z)
MergedZones(zones) == FoldLeft(MergeNext, <<>>, zones)

-----------------------------------------------------------------------------
(* Set-ups.  A moment m has the price and the close before it, the area of the *)
(* day, the control price of the day before (a set, at most one), the nodes,   *)
(* the control prices of the last days and the retracements of a correction.   *)
NoSetup == [type |-> "none", bias |-> "neutral", entries |-> <<>>, targets |-> <<>>]
Setup(type, bias, entries, targets) ==
    [type |-> type, bias |-> bias, entries |-> entries, targets |-> targets]

Distinct(zones) == FoldLeft(LAMBDA seen, z : IF z \in ToSet(seen) THEN seen ELSE Append(seen, z),
                            <<>>, zones)
FirstOf(n, seq) == SubSeq(seq, 1, Min({n, Len(seq)}))
Rising(set) == SetToSortSeq(set, <)
Falling(set) == SetToSortSeq(set, >)
Range10(m) == (m.vah - m.val) \div 10

LongZones(m) ==
    LET between == {z.low : z \in {n \in ToSet(m.nodes) : m.val < n.low /\ n.low < m.poc}}
        half == SetToSeq({f \in m.fib50 : m.val <= f /\ f <= m.poc})
        deep == SetToSeq({f \in m.fib618 : m.val <= f /\ f <= m.poc})
    IN  Distinct(<<m.val>> \o half \o FirstOf(2, Rising(between)) \o deep)
ShortZones(m) ==
    LET between == {z.high : z \in {n \in ToSet(m.nodes) : m.poc < n.high /\ n.high < m.vah}}
        half == SetToSeq({f \in m.fib50 : m.poc <= f /\ f <= m.vah})
        deep == SetToSeq({f \in m.fib618 : m.poc <= f /\ f <= m.vah})
    IN  Distinct(<<m.vah>> \o half \o FirstOf(2, Falling(between)) \o deep)

Reclaims(m) == m.prev < m.val /\ m.price >= m.val
Rejects(m) == m.prev > m.vah /\ m.price <= m.vah
Reclaim(m) ==
    Setup("val_reclaim", "long", FirstOf(3, LongZones(m)),
          FirstOf(2, Rising({m.poc, m.vah} \cup {p \in m.prior : p > m.price})))
Reject(m) ==
    Setup("vah_rejection", "short", FirstOf(3, ShortZones(m)),
          FirstOf(2, Falling({m.poc, m.val} \cup {p \in m.prior : p < m.price})))

WithinNode(m, z) == z.low <= m.price /\ m.price <= z.high
AboveMiddle(m, z) == 2 * m.price > z.low + z.high
Bounce(m, z) ==
    IF AboveMiddle(m, z)
    THEN Setup("hvn_bounce", "long", Distinct(<<z.low, z.low - Range10(m)>>),
               IF m.price < m.poc THEN <<m.poc, m.vah>> ELSE <<m.vah>>)
    ELSE Setup("hvn_bounce", "short", Distinct(<<z.high, z.high + Range10(m)>>),
               IF m.price > m.poc THEN <<m.poc, m.val>> ELSE <<m.val>>)

Climbs(pocs) == \A i \in 1..(Len(pocs) - 1) : pocs[i] < pocs[i + 1]
Sinks(pocs) == \A i \in 1..(Len(pocs) - 1) : pocs[i] > pocs[i + 1]
Migration(m) ==
    LET n == Len(m.pocs)
        aside == (15 * (m.vah - m.val)) \div 100
    IN  IF Climbs(m.pocs)
        THEN Setup("poc_migration", "long", Distinct(<<m.price, m.price - aside>>),
                   <<m.price + 2 * ((m.pocs[n] - m.pocs[1]) \div n)>>)
        ELSE Setup("poc_migration", "short", Distinct(<<m.price, m.price + aside>>),
                   <<m.price - 2 * ((m.pocs[1] - m.pocs[n]) \div n)>>)

SetupRead(m) ==
    LET inside == SelectSeq(m.nodes, LAMBDA z : WithinNode(m, z))
    IN  IF m.vah <= m.val THEN NoSetup
        ELSE IF Reclaims(m) THEN Reclaim(m)
        ELSE IF Rejects(m) THEN Reject(m)
        ELSE IF inside # <<>> THEN Bounce(m, Head(inside))
        ELSE IF Len(m.pocs) >= 3 /\ (Climbs(m.pocs) \/ Sinks(m.pocs)) THEN Migration(m)
        ELSE NoSetup

-----------------------------------------------------------------------------
Auctions ==
    [kind : {"profile"}, of : Profiles] \cup [kind : {"zones"}, of : ZoneLists]
        \cup [kind : {"moment"}, of : Moments]
ProfileInit == auction = Nothing
ProfileNext == IF auction = Nothing THEN auction' \in Auctions ELSE auction' = Nothing
ProfileSpec == ProfileInit /\ [][ProfileNext]_auction

-----------------------------------------------------------------------------
(* Properties *)
OfProfile(P(_)) == (auction.kind = "profile" /\ Whole(auction.of) > 0) => P(auction.of)

\* Shapes are those the readers know; a set-up has one to three entries and one
\* or two targets.
ProfileTypeOK ==
    /\ auction = Nothing \/ auction \in Auctions
    /\ OfProfile(LAMBDA b : ProfileShape(b, Control(b)) \in {"P", "b", "D", "B", "thin"})
    /\ auction.kind = "moment" =>
          LET c == SetupRead(auction.of)
          IN  c # NoSetup => Len(c.entries) \in 1..3 /\ Len(c.targets) \in 1..2

\* The area holds its share of the volume and without the bin taken in last it
\* would not: it is widened as far as needed, over empty bins too, and no further.
AreaIsTight ==
    OfProfile(LAMBDA b :
        LET lo == ValueArea(b)[1]
            hi == ValueArea(b)[2]
        IN  /\ lo <= Control(b) /\ Control(b) <= hi /\ AreaFull(b, lo, hi, AreaPct)
            /\ \/ lo = hi
               \/ hi > Control(b) /\ b[hi] > 0 /\ ~AreaFull(b, lo, hi - 1, AreaPct)
               \/ lo < Control(b) /\ b[lo] > 0 /\ ~AreaFull(b, lo + 1, hi, AreaPct))

\* The area of a bar's footprint holds its share of the volume as well, and gives
\* up at neither end of the ladder while volume is left at the other.
BarAreaHolds ==
    OfProfile(LAMBDA b : AreaFull(b, BarArea(b)[1], BarArea(b)[2], BarAreaPct))

\* A profile turned upside down, with its control price, has the mirrored shape.
ShapeMirrors ==
    OfProfile(LAMBDA b :
        LET turned == [P |-> "b", b |-> "P", D |-> "D", B |-> "B", thin |-> "thin"]
            n == Len(b)
        IN  \A poc \in DOMAIN b :
                (b[poc] = Peak(b) /\ n % 3 = 0)
                    => ProfileShape(Reverse(b), n + 1 - poc) = turned[ProfileShape(b, poc)])

\* Merged zones lie apart by more than the gap and cover all that was merged.
ZonesLieApart ==
    auction.kind = "zones" =>
        LET merged == MergedZones(auction.of)
        IN  /\ \A i \in 1..(Len(merged) - 1) : merged[i + 1].low - merged[i].high > ZoneGap
            /\ \A z \in ToSet(auction.of) :
                \E m \in ToSet(merged) : m.low <= z.low /\ z.high <= m.high

Opposite(bias) == IF bias = "long" THEN "short" ELSE IF bias = "short" THEN "long" ELSE bias
Negated(seq) == [i \in DOMAIN seq |-> -seq[i]]
MomentFlipped(m) ==
    [m EXCEPT !.price = -@, !.prev = -@, !.poc = -@, !.vah = -m.val, !.val = -m.vah,
              !.prior = {-p : p \in @}, !.fib50 = {-p : p \in @}, !.fib618 = {-p : p \in @},
              !.nodes = Reverse([i \in DOMAIN @ |-> [low |-> -@[i].high, high |-> -@[i].low]]),
              !.pocs = Negated(@)]

\* The two sides, written out twice in the code, are one: the set-up of a market
\* turned upside down is the set-up of the market turned upside down, save for a
\* price in the very middle of a node, which the code counts to the short side.
SetupMirrors ==
    auction.kind = "moment" =>
        LET m == auction.of
            here == SetupRead(m)
            there == SetupRead(MomentFlipped(m))
        IN  (\A z \in ToSet(m.nodes) : 2 * m.price # z.low + z.high) =>
                /\ there.bias = Opposite(here.bias)
                /\ there.entries = Negated(here.entries) /\ there.targets = Negated(here.targets)

\* Fails: the targets of a set-up lie beyond the price, on the side of its bias.
TargetsAhead ==
    auction.kind = "moment" =>
        \A t \in ToSet(SetupRead(auction.of).targets) :
            IF SetupRead(auction.of).bias = "long" THEN t > auction.of.price
            ELSE t < auction.of.price
===============================================================================
