------------------------------ MODULE FadeEntry ------------------------------
(***************************************************************************)
(* Three fades: strategies/reversal_eqhl.py (a swept cluster of equal       *)
(* highs or lows), reversal_hvn.py (a swept edge of a heavy node, with a    *)
(* divergence) and reversal_anchor.py (an anchor bar defended with the      *)
(* trend).  Each remembers, in memory only, what it has acted on.           *)
(*                                                                          *)
(* A scene is what the registries hold when a bar closes.  Prices are       *)
(* tenths of an ATR, so ten is one ATR.                                     *)
(***************************************************************************)
EXTENDS Integers, FiniteSets, SequencesExt

CONSTANTS Scenes,        \* the scenes a bar may close in
          MaxFadeBars, MaxLapses   \* bounds: bars of a behaviour, restarts

\* Prices are whole tenths of an ATR, and a registry holds finitely many things.
ASSUME FadeAssumption ==
    /\ MaxFadeBars \in Nat /\ MaxLapses \in Nat
    /\ \A s \in Scenes :
          /\ {s.bar.h, s.bar.l, s.bar.c, s.poc, s.vah, s.val} \subseteq Int
          /\ IsFiniteSet(s.sweeps) /\ IsFiniteSet(s.nodes) /\ IsFiniteSet(s.anchors)
          /\ \A w \in s.sweeps : w.high \in BOOLEAN /\ {w.level, w.wick, w.conf} \subseteq Int
          /\ \A z \in s.nodes : {z.lo, z.hi} \subseteq Int
          /\ \A a \in s.anchors : a.bull \in BOOLEAN /\ {a.lo, a.hi, a.z} \subseteq Int

VARIABLE fader     \* the strategy, its memory, and the fades it made

Atr == 10
Buffer == 1          \* sl_buf_atr
MinRisk == 5         \* min_sl_atr_mult
FadeReach == 20           \* proximity_atr
MinLeg == 25         \* min_swing_range_atr
Coincide == 3        \* coincide_atr
MaxSweepAge == 3
DivWindow == 2       \* cvd_div_window

Nor(x, y) == IF x < y THEN y - x ELSE x - y
Signed(short) == IF short THEN -1 ELSE 1
\* The higher of two for a short, the lower for a long.
HigherFor(a, b, short) == IF short THEN (IF a > b THEN a ELSE b) ELSE IF a < b THEN a ELSE b

-----------------------------------------------------------------------------
(* What is common *)
\* _leg_significant: the leg from a level to the nearest opposite pivot is long enough.
Significant(level, high, s) ==
    LET across == IF high THEN {level - p : p \in {q \in s.lows : q < level}}
                  ELSE {p - level : p \in {q \in s.highs : q > level}}
    IN  across # {} => Min(across) >= MinLeg

\* At most four risks away.
Capped(level, entry, risk, short) == HigherFor(level, entry + Signed(short) * 4 * risk, short)

WorthIt(tp, entry, risk) == Nor(tp, entry) >= risk

\* _vp_fade_tp and its limits: the control price, else the far edge of the value area, at
\* most four risks away, and two risks when that is less than one.
FadeTarget(s, entry, risk, short) ==
    LET beyond(x) == Signed(short) * (x - entry) > MinRisk
        far == IF short THEN s.val ELSE s.vah
        tp == Capped(IF beyond(s.poc) THEN s.poc ELSE far, entry, risk, short)
    IN  IF s.profile /\ (beyond(s.poc) \/ beyond(far)) /\ WorthIt(tp, entry, risk)
        THEN tp ELSE entry + Signed(short) * 2 * risk

Fade(of, short, entry, sl, tp) == [of |-> of, short |-> short, entry |-> entry, sl |-> sl, tp |-> tp]
\* The stop beyond an extreme, at least half an ATR away.
StopAt(extreme, entry, short) ==
    HigherFor(extreme - Signed(short) * Buffer, entry - Signed(short) * MinRisk, short)

-----------------------------------------------------------------------------
(* The three ways in *)
\* reversal_eqhl: the strongest fresh, confirmed, significant sweep near the price.
Candidates(s) ==
    {w \in s.sweeps : /\ w.equal /\ w.confirms /\ w.age <= MaxSweepAge
                      /\ w.class \in {"reversal", "liquidity_grab", ""}
                      /\ Nor(w.level, s.bar.c) <= FadeReach
                      /\ Significant(w.level, w.high, s)}
Cluster(w) == [high |-> w.high, level |-> w.level]
EqhlFade(s, memory) ==
    LET c == Candidates(s)
        w == CHOOSE x \in c : \A y \in c : x.conf >= y.conf
        sl == StopAt(w.wick, s.bar.c, w.high)
    IN  IF c = {} THEN {}
        ELSE IF memory.cluster = Cluster(w) THEN {}
        ELSE {Fade(Cluster(w), w.high, s.bar.c, sl, FadeTarget(s, s.bar.c, Nor(sl, s.bar.c), w.high))}

\* reversal_hvn: of the nodes the bar closed in, the edge it swept deepest on a pivot.
SweptEdges(s) ==
    {e \in UNION {{[edge |-> z.hi, high |-> TRUE, past |-> s.bar.h - z.hi],
                   [edge |-> z.lo, high |-> FALSE, past |-> z.lo - s.bar.l]} :
                  z \in {y \in s.nodes : y.lo < s.bar.c /\ s.bar.c < y.hi}} :
        /\ e.past > 0
        /\ Nor(e.edge, s.bar.c) <= FadeReach
        /\ \E p \in IF e.high THEN s.highs ELSE s.lows :
               Nor(e.edge, p) <= Coincide /\ Significant(p, e.high, s)}
HvnFade(s, now, memory) ==
    LET c == SweptEdges(s)
        e == CHOOSE x \in c : \A y \in c : x.past >= y.past
        sl == StopAt(IF e.high THEN s.bar.h ELSE s.bar.l, s.bar.c, e.high)
    IN  IF c = {} \/ memory.at = now THEN {}
        ELSE IF s.divergence[IF e.high THEN "bear" ELSE "bull"] > DivWindow THEN {}
        ELSE {Fade(e.edge, e.high, s.bar.c, sl, FadeTarget(s, s.bar.c, Nor(sl, s.bar.c), e.high))}

WithTrend(a, regime) == regime = (IF a.bull THEN "trend_up" ELSE "trend_down")
\* anchor_bar.test_retest, as far as "continuation".
Defended(a, bar) == /\ bar.l <= a.hi /\ bar.h >= a.lo
                    /\ IF a.bull THEN bar.c > a.lo /\ bar.delta > 0 ELSE bar.c < a.hi /\ bar.delta < 0
\* reversal_anchor: the strongest unused anchor the price is at, defended with the trend.
AnchorFade(s, now, memory) ==
    LET c == {a \in s.anchors : /\ a.id \notin memory.anchors
                                /\ s.bar.c >= a.lo - 3 /\ s.bar.c <= a.hi + 3
                                /\ Defended(a, s.bar) /\ WithTrend(a, s.regime)}
        a == CHOOSE x \in c : \A y \in c : x.z >= y.z
        sl == StopAt(IF a.bull THEN a.lo ELSE a.hi, s.bar.c, ~a.bull)
    IN  IF c = {} \/ memory.at = now THEN {}
        ELSE {Fade(a.id, ~a.bull, s.bar.c, sl, s.bar.c + Signed(~a.bull) * 2 * Nor(sl, s.bar.c))}

FadeOf(strategy, s, now, memory) == CASE strategy = "eqhl" -> EqhlFade(s, memory)
                                 [] strategy = "hvn" -> HvnFade(s, now, memory)
                                 [] strategy = "anchor" -> AnchorFade(s, now, memory)

-----------------------------------------------------------------------------
Forgot == [cluster |-> [high |-> FALSE, level |-> 0], at |-> 0, anchors |-> {}]
ActedOn(memory, f, strategy, now) ==
    [memory EXCEPT !.cluster = IF strategy = "eqhl" THEN f.of ELSE @, !.at = now,
                   !.anchors = IF strategy = "anchor" THEN @ \cup {f.of} ELSE @]

FadeInit == fader \in [strategy : {"eqhl", "hvn", "anchor"}, memory : {Forgot}, bars : {0},
                       scene : {{}}, taken : {<<>>}, lapses : {0}]
\* decide at the bar of this number, in this scene.
Faded(seen, made, now) ==
    IF made = {} THEN {seen}
    ELSE {[seen EXCEPT !.taken = Append(@, [fade |-> f, at |-> now]),
                       !.memory = ActedOn(@, f, fader.strategy, now)] : f \in made}
Evaluate(s, now) ==
    fader' \in Faded([fader EXCEPT !.bars = now, !.scene = {s}],
                     FadeOf(fader.strategy, s, now, fader.memory), now)
FadeBar == fader.bars < MaxFadeBars /\ \E s \in Scenes : Evaluate(s, fader.bars + 1)
\* The route is called again at the same bar.
FadeAgain == \E s \in fader.scene : Evaluate(s, fader.bars)
\* The server restarts, and the strategies are made anew.
FadeLapse == /\ fader.lapses < MaxLapses
             /\ fader' = [fader EXCEPT !.memory = Forgot, !.lapses = @ + 1]
FadeNext == FadeBar \/ FadeAgain \/ FadeLapse
FadeSpec == FadeInit /\ [][FadeNext]_fader

-----------------------------------------------------------------------------
(* Properties *)
Taken(strategy) == IF fader.strategy = strategy THEN fader.taken ELSE <<>>

\* Every fade risks half an ATR or more on the losing side, and pays between one and four
\* times that on the other, whichever level its target came from.
FadesPay ==
    \A i \in DOMAIN fader.taken :
        LET f == fader.taken[i].fade
            risk == Signed(f.short) * (f.entry - f.sl)
            gain == Signed(f.short) * (f.tp - f.entry)
        IN  risk >= MinRisk /\ gain >= risk /\ gain <= 4 * risk

\* While the server runs, an anchor is traded once, however often the price returns.
AnchorTradedOnce ==
    fader.lapses = 0 =>
        \A i, j \in DOMAIN Taken("anchor") :
            i # j => fader.taken[i].fade.of # fader.taken[j].fade.of

\* While the server runs, a bar makes one fade, however often it is evaluated.
OneFadePerBar ==
    fader.lapses = 0 =>
        \A i, j \in DOMAIN fader.taken : i # j => fader.taken[i].at # fader.taken[j].at

\* "already faded this cluster": a swept cluster is faded once.
ClusterFadedOnce ==
    fader.lapses = 0 =>
        \A i, j \in DOMAIN Taken("eqhl") :
            i # j => fader.taken[i].fade.of # fader.taken[j].fade.of
=============================================================================
