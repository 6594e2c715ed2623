------------------------------- MODULE GridPlan -------------------------------
(***************************************************************************)
(* POST /grid_levels: execution/zone_triggers.py finds the decision points  *)
(* near the price, execution/grid_planner.py picks one and straddles it     *)
(* with two ladders of stop orders; execution/grid_manager.py says whether  *)
(* an open grid may get another leg.                                        *)
(*                                                                          *)
(* Prices and steps are integers, confidences, strengths and the conviction *)
(* hundredths.  The boost of an imbalance inside a stacked wall is left     *)
(* out: stacked_imbalances gets a list where it needs a footprint, and      *)
(* raises.  A lot is a number of base lots.                                 *)
(***************************************************************************)
EXTENDS Integers, SequencesExt

CONSTANTS Surroundings,   \* the markets a plan is asked for in
          LegQuestions    \* the grids that ask for another leg

ASSUME PlanAssumption ==
    /\ \A m \in Surroundings :
          /\ m.ask = "levels" /\ m.atr \in Nat
          /\ {m.price, m.vah, m.val, m.bar.h, m.bar.l, m.conviction} \subseteq Int
          /\ m.imbalances \in Seq([price : Int, ratio : Int])
          /\ m.nodes \in Seq([lo : Int, hi : Int, daily : BOOLEAN])
          /\ m.anchors \in Seq([lo : Int, hi : Int, bull : BOOLEAN])
          /\ m.levels \subseteq [price : Int, strength : Int] /\ IsFiniteSet(m.levels)
    /\ \A q \in LegQuestions : q.ask = "leg"

VARIABLE gplan             \* the request being answered

AbsOf(x) == IF x < 0 THEN -x ELSE x
Lesser(a, b) == IF a < b THEN a ELSE b
Greater(a, b) == IF a > b THEN a ELSE b
Rounded(a, b) == LET half == (2 * a + b) \div (2 * b)
                 IN  IF (2 * a + b) % (2 * b) = 0 /\ half % 2 = 1 THEN half - 1 ELSE half

-----------------------------------------------------------------------------
(* zone_triggers.py *)
Trigger(kind, fulcrum, range, conf, interp, bias) ==
    [kind |-> kind, fulcrum |-> fulcrum, range |-> range, conf |-> conf, interp |-> interp, bias |-> bias]
\* The first of the nearest, of distances by index.
NearestAt(dist) == Min({i \in DOMAIN dist : \A j \in DOMAIN dist : dist[i] <= dist[j]})

\* _t_imbalance: the nearest diagonal imbalance of the last bar.
ImbalanceAt(m) ==
    LET im == m.imbalances[NearestAt([i \in DOMAIN m.imbalances |-> AbsOf(m.imbalances[i].price - m.price)])]
    IN  IF m.imbalances = <<>> THEN {}
        ELSE {Trigger("imbalance", im.price, 0, Lesser(95, 40 + (im.ratio - 3) * 5), "", "none")}

\* _t_hvn_edge: the nearest edge of a heavy node, surer the nearer in widths.
EdgesOf(nodes) ==
    [k \in 1..(2 * Len(nodes)) |->
        LET n == nodes[(k + 1) \div 2]
        IN  [at |-> IF k % 2 = 1 THEN n.lo ELSE n.hi, width |-> n.hi - n.lo]]
NodeConf(off, width) ==
    LET far == Lesser(100, (100 * off) \div width)
    IN  IF width > 0 THEN Lesser(90, 50 + (40 * (100 - far)) \div 100) ELSE 50
NodeEdge(m) ==
    LET edges == EdgesOf(m.nodes)
        e == edges[NearestAt([k \in DOMAIN edges |-> AbsOf(edges[k].at - m.price)])]
    IN  IF m.nodes = <<>> THEN {}
        ELSE {Trigger("hvn_edge", e.at, e.width, NodeConf(AbsOf(e.at - m.price), e.width), "", "none")}

\* anchor_bar.test_retest of the last bar against an anchor
Retest(a, bar) ==
    IF bar.l > a.hi \/ bar.h < a.lo THEN "none"
    ELSE IF a.bull THEN IF bar.c < a.lo THEN "reversal"
                        ELSE IF bar.c > a.lo /\ bar.delta > 0 THEN "continuation" ELSE "none"
    ELSE IF bar.c > a.hi THEN "reversal"
         ELSE IF bar.c < a.hi /\ bar.delta < 0 THEN "continuation" ELSE "none"

\* With the anchor while it is defended, against it once it breaks.
Lean(a, pattern) == IF a.bull = (pattern = "continuation") THEN "buy" ELSE "sell"

\* _t_anchor: the nearest defended extreme among the anchors the price is back at.
AnchorBack(m) ==
    LET near == {i \in DOMAIN m.anchors : /\ 10 * m.price >= 10 * m.anchors[i].lo - 3 * m.atr
                                          /\ 10 * m.price <= 10 * m.anchors[i].hi + 3 * m.atr
                                          /\ Retest(m.anchors[i], m.bar) # "none"}
        edge(x) == IF x.bull THEN x.lo ELSE x.hi
        a == m.anchors[NearestAt([i \in near |-> AbsOf(edge(m.anchors[i]) - m.price)])]
        pattern == Retest(a, m.bar)
    IN  IF m.atr = 0 \/ near = {} THEN {}
        ELSE {Trigger("anchor", edge(a), a.hi - a.lo, IF pattern = "reversal" THEN 75 ELSE 80,
                      pattern, Lean(a, pattern))}

\* _t_va: the nearer edge of the value area, joined in a trend, faded in a range.
ValueEdge(m) ==
    LET top == AbsOf(m.price - m.vah) <= AbsOf(m.price - m.val)
        edge == IF top THEN m.vah ELSE m.val
        width == m.vah - m.val
    IN  IF ~m.profile THEN {}
        ELSE IF m.regime \in {"trend_up", "trend_down"} /\ m.place \in {"above_vah", "below_val"}
        THEN {Trigger("va", edge, width, 70, "break_sustain", IF m.place = "above_vah" THEN "buy" ELSE "sell")}
        ELSE IF m.regime = "range"
        THEN {Trigger("va", edge, width, 65, "reclaim", IF top THEN "sell" ELSE "buy")} ELSE {}

\* _t_cvd_div: the extreme on which price and delta parted.
DivergenceAt(m) ==
    IF m.divergence = "none" THEN {}
    ELSE {Trigger("cvd_div", IF m.divergence = "bearish" THEN m.bar.h ELSE m.bar.l, m.bar.h - m.bar.l,
                  50, "reversal", IF m.divergence = "bearish" THEN "sell" ELSE "buy")}

\* detect_all: one of each kind at most; a hint keeps its own kind if it is there.
Hinted(m, all) ==
    IF \E t \in all : t.kind = m.hint THEN {t \in all : t.kind = m.hint} ELSE all
Triggers(m) ==
    Hinted(m, ImbalanceAt(m) \cup NodeEdge(m) \cup AnchorBack(m) \cup ValueEdge(m)
                  \cup DivergenceAt(m))

-----------------------------------------------------------------------------
(* grid_planner.py *)
\* _score_and_pick: its own confidence, agreement with another level, with the regime.
Confluence(m, t) ==
    LET agrees == \E z \in m.levels : 1000 * AbsOf(z.price - t.fulcrum) <= m.price
        fits == \/ m.regime = "range" /\ t.interp \in {"reclaim", "reversal"}
                \/ /\ m.regime \in {"trend_up", "trend_down"}
                   /\ t.interp \in {"break_sustain", "continuation"}
    IN  t.conf + (IF agrees THEN 15 ELSE 0) + (IF fits THEN 10 ELSE 0)
\* The first of the best, in the order of the detectors.
Turn == [imbalance |-> 1, hvn_edge |-> 2, anchor |-> 3, va |-> 4, cvd_div |-> 5]
Picked(m, triggers) ==
    CHOOSE t \in triggers : \A u \in triggers :
        \/ Confluence(m, t) > Confluence(m, u)
        \/ Confluence(m, t) = Confluence(m, u) /\ Turn[t.kind] <= Turn[u.kind]

\* _should_skip
InNode(m, price) == \E i \in DOMAIN m.nodes : m.nodes[i].daily /\ m.nodes[i].lo <= price /\ price <= m.nodes[i].hi
Skips(m, t) == \/ t.kind # "hvn_edge" /\ InNode(m, t.fulcrum)
               \/ m.profile /\ m.place = "at_poc"
               \/ m.regime = "uncertain" /\ m.balance /\ ~m.expanded

\* _resolve_skew
Skew(m, t) == IF t.bias # "none" THEN t.bias
              ELSE IF m.regime = "trend_up" THEN "buy"
              ELSE IF m.regime = "trend_down" THEN "sell" ELSE "none"

\* _opposing_swing_range: the levels of a long lie below its anchor, and the long is looked
\* up first: the nearest level below, else the nearest above, else the value area.
Reach(m, fulcrum) ==
    LET above == {z.price - fulcrum : z \in {x \in m.levels : x.price > fulcrum}}
        below == {fulcrum - z.price : z \in {x \in m.levels : x.price < fulcrum}}
    IN  IF below # {} THEN Min(below) ELSE IF above # {} THEN Min(above)
        ELSE IF m.profile /\ m.vah > m.val THEN m.vah - m.val ELSE 3 * m.atr

\* _size_grid: the step, a quarter of a node at least, and how many legs it takes.
MaxLegsOf(regime) == CASE regime = "range" -> 6 [] regime \in {"trend_up", "trend_down"} -> 3
                       [] OTHER -> 2
Step(m, t) ==
    LET byAtr == IF m.regime \in {"trend_up", "trend_down"} THEN (35 * m.atr) \div 100 ELSE m.atr \div 2
    IN  Greater(1, Greater(byAtr, (t.range + 3) \div 4))
Count(m, t) ==
    LET most == MaxLegsOf(m.regime)
        cover == Greater(2, Lesser(most, Reach(m, t.fulcrum) \div Step(m, t)))
    IN  Greater(2, Lesser(most, Rounded(cover * (70 + (60 * m.conviction) \div 100), 100)))

\* Mutant: the favoured ladder is the light one.
LadderLight(n, heavy) == [i \in 1..n |-> IF heavy THEN i ELSE 1 + n - i]
\* _ladder: heavy near the fulcrum, or light.
Ladder(n, heavy) == [i \in 1..n |-> IF heavy THEN 1 + n - i ELSE i]

\* _build_legs, one side of the straddle: sign 1 above the fulcrum, -1 below.
Side(fulcrum, n, step, sign, favoured) ==
    LET legs == IF favoured THEN n + 1 ELSE n
        lots == Ladder(legs, favoured)
    IN  [i \in 1..legs |-> [price |-> fulcrum + sign * i * step, lot |-> lots[i]]]

\* _resolve_tps: the nearest strong level beyond the outer leg, or an ATR and a half.
Target(m, outer, sign, fulcrum) ==
    LET beyond == {sign * z.price : z \in {x \in m.levels : x.strength >= 60 /\ sign * (x.price - outer) > 0}}
    IN  IF beyond # {} THEN sign * Min(beyond) ELSE outer + sign * ((3 * m.atr) \div 2)

\* plan_grid_levels, and grid_levels' own refusal without a bar
Skipped == [verdict |-> "skip"]
Armed(m, t, skew, step, buys, sells) ==
    [verdict |-> "arm", fulcrum |-> t.fulcrum, kind |-> t.kind, skew |-> skew, step |-> step,
     buys |-> buys, sells |-> sells,
     buyTp |-> Target(m, buys[Len(buys)].price, 1, t.fulcrum),
     sellTp |-> Target(m, sells[Len(sells)].price, -1, t.fulcrum)]
Straddled(m, t, skew, step, count) ==
    Armed(m, t, skew, step, Side(t.fulcrum, count, step, 1, skew = "buy"),
          Side(t.fulcrum, count, step, -1, skew = "sell"))
Straddle(m, t) == IF Skips(m, t) THEN Skipped
                  ELSE Straddled(m, t, Skew(m, t), Step(m, t), Count(m, t))
PlanFrom(m, triggers) == IF triggers = {} THEN Skipped ELSE Straddle(m, Picked(m, triggers))
Planned(m) == PlanFrom(m, Triggers(m))

-----------------------------------------------------------------------------
(* grid_manager.should_add_leg *)
\* The bar's delta does not speak against the grid.
Confirms(q, way) == way * q.delta >= 0

\* A leg is added when the stop held, the delta agrees, the side absorbs at the entry or is
\* stacked anywhere on the bar, and the other side does not absorb at the entry.
AddsLeg(q) ==
    LET way == IF q.side = "long" THEN 1 ELSE -1
        mine == IF q.side = "long" THEN "buy" ELSE "sell"
        other == IF q.side = "long" THEN "sell" ELSE "buy"
    IN  /\ q.legs < 3
        /\ way * (IF q.side = "long" THEN q.bar.l ELSE q.bar.h) > way * q.stop
        /\ Confirms(q, way)
        /\ mine \in q.absorbedAtEntry \/ mine \in q.stacked
        /\ other \notin q.absorbedAtEntry

\* The entry it suggests, in tenths: three tenths of the risk beyond the bar.
Suggested(q) ==
    IF q.side = "long" THEN 10 * Lesser(q.bar.l, q.entry) - 3 * (q.entry - q.stop)
    ELSE 10 * Greater(q.bar.h, q.entry) + 3 * (q.stop - q.entry)

-----------------------------------------------------------------------------
NoPlan == [ask |-> "none"]
PlanInit == gplan = NoPlan
\* A terminal asks for levels, or the decide route for another leg.
PlanNext == IF gplan # NoPlan THEN gplan' = NoPlan
            ELSE \/ \E m \in Surroundings : gplan' = m
                 \/ \E q \in LegQuestions : gplan' = q
PlanSpec == PlanInit /\ [][PlanNext]_gplan

-----------------------------------------------------------------------------
(* Properties *)
Flip(x, a, b) == IF x = a THEN b ELSE IF x = b THEN a ELSE x
MirrorPrice(p) == 200 - p
BarFlip(b) == [h |-> MirrorPrice(b.l), l |-> MirrorPrice(b.h), c |-> MirrorPrice(b.c), delta |-> -b.delta]
MarketFlipped(m) ==
    [m EXCEPT !.price = MirrorPrice(@), !.bar = BarFlip(@),
              !.imbalances = [i \in DOMAIN @ |-> [@[i] EXCEPT !.price = MirrorPrice(@)]],
              !.nodes = [i \in DOMAIN @ |-> [@[i] EXCEPT !.lo = MirrorPrice(m.nodes[i].hi),
                                                         !.hi = MirrorPrice(m.nodes[i].lo)]],
              !.anchors = [i \in DOMAIN @ |-> [lo |-> MirrorPrice(@[i].hi), hi |-> MirrorPrice(@[i].lo),
                                               bull |-> ~@[i].bull]],
              !.vah = MirrorPrice(m.val), !.val = MirrorPrice(m.vah),
              !.place = Flip(@, "above_vah", "below_val"),
              !.regime = Flip(@, "trend_up", "trend_down"),
              !.divergence = Flip(@, "bearish", "bullish"),
              !.levels = {[z EXCEPT !.price = MirrorPrice(@)] : z \in @}]
PlanFlip(p) ==
    IF p.verdict = "skip" THEN p
    ELSE LET legs(s) == [i \in DOMAIN s |-> [s[i] EXCEPT !.price = MirrorPrice(@)]]
         IN  [p EXCEPT !.fulcrum = MirrorPrice(@), !.skew = Flip(@, "buy", "sell"),
                       !.buys = legs(p.sells), !.sells = legs(p.buys),
                       !.buyTp = MirrorPrice(p.sellTp), !.sellTp = MirrorPrice(p.buyTp)]
\* No level on one side of the fulcrum.
OneWay(m, p) == p.verdict = "arm" =>
    \/ \A z \in m.levels : z.price >= p.fulcrum
    \/ \A z \in m.levels : z.price <= p.fulcrum

\* A neutral grid is neutral: the mirrored market gets the mirrored plan, through the
\* detectors, the choice of the fulcrum, the skew, the ladders and the targets.  (Structure
\* on both sides is left out: _opposing_swing_range always prefers the one below.)
PlanMirrors ==
    gplan.ask = "levels" =>
        \A p \in {Planned(gplan)} :
            OneWay(gplan, p) => Planned(MarketFlipped(gplan)) = PlanFlip(p)

\* Every target lies beyond the whole of its ladder, whatever levels the price stands
\* among: no leg can fill past its own take-profit.
TargetsClearLegs ==
    (gplan.ask = "levels" /\ gplan.atr > 0) =>
        \A p \in {Planned(gplan)} :
            p.verdict = "arm" => /\ \A i \in DOMAIN p.buys : p.buys[i].price < p.buyTp
                                 /\ \A i \in DOMAIN p.sells : p.sells[i].price > p.sellTp

\* One ladder carries more than another, on its first leg and in all.
LotsIn(legs) == MapThenSumSet(LAMBDA i : legs[i].lot, DOMAIN legs)
Heavier(a, b) == a[1].lot > b[1].lot /\ LotsIn(a) > LotsIn(b)

\* The skew loads the winner: the first break toward the bias carries more than the first
\* break against it, and so does the ladder as a whole.
SkewLoadsWinner ==
    gplan.ask = "levels" =>
        \A p \in {Planned(gplan)} :
            p.verdict = "arm" => /\ p.skew = "buy" => Heavier(p.buys, p.sells)
                                 /\ p.skew = "sell" => Heavier(p.sells, p.buys)

\* A long grid gets its next leg exactly when the mirrored short one does, at the
\* mirrored price.
AddMirrors ==
    gplan.ask = "leg" =>
        LET q == gplan
            r == [q EXCEPT !.side = Flip(@, "long", "short"), !.bar = BarFlip(@), !.delta = -@,
                           !.entry = MirrorPrice(@), !.stop = MirrorPrice(@),
                           !.absorbedAtEntry = {Flip(x, "buy", "sell") : x \in @},
                           !.stacked = {Flip(x, "buy", "sell") : x \in @}]
        IN  AddsLeg(r) = AddsLeg(q) /\ Suggested(r) = 2000 - Suggested(q)

\* "take nearest non-trivial structure either side" (_opposing_swing_range)
ReachIsNearest ==
    gplan.ask = "levels" =>
        \A p \in {Planned(gplan)} :
            p.verdict = "arm" =>
                \A z \in gplan.levels : z.price # p.fulcrum => Reach(gplan, p.fulcrum) <= AbsOf(z.price - p.fulcrum)

\* "ensure legs straddle the whole node, not a sliver of it" (_size_grid)
LegsSpanNode ==
    gplan.ask = "levels" =>
        \A p \in {Planned(gplan)} :
            (p.verdict = "arm" /\ p.kind = "hvn_edge") =>
                \E i \in DOMAIN gplan.nodes :
                    /\ p.fulcrum \in {gplan.nodes[i].lo, gplan.nodes[i].hi}
                    /\ p.sells[Len(p.sells)].price <= gplan.nodes[i].lo
                    /\ p.buys[Len(p.buys)].price >= gplan.nodes[i].hi
=============================================================================
