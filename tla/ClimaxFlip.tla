------------------------------ MODULE ClimaxFlip ------------------------------
(***************************************************************************)
(* pipeline/features/reversal_pattern.py: a climax bar at a local extreme   *)
(* whose next bar flips the delta and closes the other way, at an extreme   *)
(* of the value area.  Three strategies trade it: coup (climax_flip) at the *)
(* close, reversal by a limit into the climax bar, reversal_si beyond a     *)
(* fresh stack of imbalances with a target in the next thin zone.           *)
(*                                                                          *)
(* A market holds the climax bar (peak), the bar after it (flip), the       *)
(* extremes of the bars before, the median volume, and the trailing         *)
(* profile.  Prices are integers, a tenth of an ATR is Buffer.              *)
(***************************************************************************)
EXTENDS Integers, SequencesExt

CONSTANTS VolMult,     \* vol_mult
          DeltaSwing,  \* delta_swing
          Climaxes     \* the markets tried

\* Bars of trades: the prices of their cells and of the stacks on them, three cells at
\* least, lie within them; a stack has two edges.
ASSUME ClimaxAssumption ==
    \A m \in Climaxes :
        /\ m.buf \in Nat \ {0}
        /\ m.vp.thin \in Seq([lo : Int, hi : Int]) /\ IsFiniteSet(m.gaps)
        /\ m.gaps \subseteq [lo : Int, hi : Int]
        /\ \A b \in {m.peak, m.flip} :
              /\ {b.o, b.h, b.l, b.c} \subseteq Int
              /\ b.l <= b.o /\ b.l <= b.c /\ b.o <= b.h /\ b.c <= b.h
              /\ \A i \in DOMAIN b.cells : b.cells[i].price \in b.l..b.h
              /\ \A i \in DOMAIN b.stacks :
                    LET z == b.stacks[i] IN z.lo \in b.l..b.h /\ z.hi \in b.l..b.h /\ z.lo < z.hi

VARIABLE climax        \* the market being read

Best(a, b, long) == IF long THEN (IF a < b THEN a ELSE b) ELSE IF a > b THEN a ELSE b
Way(long) == IF long THEN 1 ELSE -1
Gap(a, b) == IF a < b THEN b - a ELSE a - b

-----------------------------------------------------------------------------
(* The pattern *)
IsTop(m) == m.peak.h >= m.leftH /\ m.peak.h > m.flip.h
IsBottom(m) == m.peak.l <= m.leftL /\ m.peak.l < m.flip.l

\* The next bar's delta turned, far enough, and the bar closed with it.
TurnsOver(m, way) == /\ way * (m.flip.c - m.flip.o) > 0
                  /\ way * m.flip.delta > 0
                  /\ way * (m.flip.delta - m.peak.delta) >= DeltaSwing

\* _vp_gate: outside the value area on the faded side, and no heavy node is nearest.
Marks(vp) == <<[at |-> 2 * vp.poc, heavy |-> FALSE], [at |-> 2 * vp.vah, heavy |-> FALSE],
               [at |-> 2 * vp.val, heavy |-> FALSE]>>
             \o [i \in DOMAIN vp.heavy |-> [at |-> vp.heavy[i].lo + vp.heavy[i].hi, heavy |-> TRUE]]
             \o [i \in DOMAIN vp.thin |-> [at |-> vp.thin[i].lo + vp.thin[i].hi, heavy |-> FALSE]]
OnExtreme(vp, price, long) ==
    LET marks == Marks(vp)
        near == Min({i \in DOMAIN marks : \A j \in DOMAIN marks :
                        Gap(2 * price, marks[i].at) <= Gap(2 * price, marks[j].at)})
    IN  vp.known => /\ IF long THEN price <= vp.val ELSE price >= vp.vah
                    /\ ~marks[near].heavy

\* The longest stack of one side on a bar, the first of equals: none, or one.
Longest(bar, side) ==
    LET mine == {i \in DOMAIN bar.stacks : bar.stacks[i].side = side}
    IN  {bar.stacks[i] : i \in {j \in mine : \A k \in mine :
            \/ bar.stacks[j].count > bar.stacks[k].count
            \/ bar.stacks[j].count = bar.stacks[k].count /\ j <= k}}
Taker(long) == IF long THEN "buy" ELSE "sell"
Trapped(long) == IF long THEN "sell" ELSE "buy"

\* _entry_level: where a limit waits on the climax bar.
ThinCell(bar, long) ==
    LET region == {i \in DOMAIN bar.cells : /\ bar.cells[i].total > 0
                                            /\ Way(long) * (bar.poc - bar.cells[i].price) >= 0}
    IN  {bar.cells[i].price : i \in {j \in region : Cardinality(region) >= 2 /\ \A k \in region :
            \/ bar.cells[j].total < bar.cells[k].total
            \/ bar.cells[j].total = bar.cells[k].total /\ j <= k}}
EntryLevel(bar, long, mode) ==
    CASE mode = "imbalance" -> {IF long THEN z.hi ELSE z.lo : z \in Longest(bar, Trapped(long))}
      [] mode = "lvn" -> ThinCell(bar, long)
      [] OTHER -> {}

\* The far edge of a stack, a buffer beyond: where the stop goes.
Beyond(z, long, buf) == IF long THEN z.lo - buf ELSE z.hi + buf

\* Whether a stop was found, on the losing side of the entry.
Protects(sl, entry, long) == \A x \in sl : Way(long) * (entry - x) > 0

\* A limit improves on the close, or the market takes it.
Improves(level, close, long) == Way(long) * (close - level) > 0

\* The stop of the mode's stack if it protects the entry, else beyond both candles.
StopFor(m, long, entry, stack) ==
    IF stack # {} /\ Protects(stack, entry, long) THEN CHOOSE x \in stack : TRUE
    ELSE IF long THEN Best(m.peak.l, m.flip.l, TRUE) - m.buf
    ELSE Best(m.peak.h, m.flip.h, FALSE) + m.buf
Mark(long, entry, isLimit, sl) ==
    [long |-> long, entry |-> entry, isLimit |-> isLimit, sl |-> sl,
     tp |-> entry + Way(long) * 2 * Gap(entry, sl)]
Priced(m, long, limit, stacks) ==
    LET entry == IF limit # {} THEN CHOOSE x \in limit : TRUE ELSE m.flip.c
    IN  Mark(long, entry, limit # {},
             StopFor(m, long, entry, {Beyond(z, long, m.buf) : z \in stacks}))
Fits(m, long) ==
    /\ IsTop(m) \/ IsBottom(m)
    /\ m.peak.vol >= VolMult * m.usual
    /\ TurnsOver(m, Way(long))
    /\ m.gated => OnExtreme(m.vp, IF long THEN m.peak.l ELSE m.peak.h, long)
    /\ m.mode = "si_flip" => Longest(m.flip, Taker(long)) # {}
StackUsed(m, long) ==
    IF m.mode = "si_flip" THEN Longest(m.flip, Taker(long)) ELSE Longest(m.peak, Trapped(long))

\* What detect appends for one climax, or nothing.
Marker(m) ==
    LET long == ~IsTop(m)
    IN  IF Fits(m, long)
        THEN {Priced(m, long,
                     {x \in EntryLevel(m.peak, long, m.mode) : Improves(x, m.flip.c, long)},
                     StackUsed(m, long))}
        ELSE {}

-----------------------------------------------------------------------------
(* The strategies *)
\* coup._decide_climax_flip: at the close, the stop at least half an ATR away, 2R.
CoupTakes(m) ==
    {LET sl == Best(k.sl, m.flip.c - Way(k.long) * 5 * m.buf, k.long)
     IN  [long |-> k.long, entry |-> m.flip.c, sl |-> sl,
          tp |-> m.flip.c + Way(k.long) * 2 * Gap(m.flip.c, sl)] : k \in Marker([m EXCEPT !.mode = "market"])}

FarEnough(x, entry, risk, long) == Way(long) * (x - entry) >= risk

\* reversal_si._vp_target: the nearest thin zone a risk away, else the nearest gap.
Retargeted(m, k) ==
    LET risk == Gap(k.entry, k.sl)
        thin == {(z.lo + z.hi) \div 2 : z \in {y \in Range(m.vp.thin) : FarEnough((y.lo + y.hi) \div 2, k.entry, risk, k.long)}}
        gaps == {IF k.long THEN g.lo ELSE g.hi : g \in {y \in m.gaps :
                     FarEnough(IF k.long THEN y.lo ELSE y.hi, k.entry, risk, k.long)}}
        first(S) == IF k.long THEN Min(S) ELSE Max(S)
    IN  [k EXCEPT !.tp = IF thin # {} THEN first(thin) ELSE IF gaps # {} THEN first(gaps) ELSE k.tp]
SiTakes(m) == {Retargeted(m, k) : k \in Marker([m EXCEPT !.mode = "si_flip"])}

-----------------------------------------------------------------------------
NoClimax == [mode |-> "none"]
FlipInit == climax = NoClimax
\* A bar closes, and the last two bars are read.
FlipNext == IF climax = NoClimax THEN climax' \in Climaxes ELSE climax' = NoClimax
FlipSpec == FlipInit /\ [][FlipNext]_climax

-----------------------------------------------------------------------------
(* Properties *)
Over(p) == 200 - p
ZoneOver(z) == [z EXCEPT !.lo = Over(z.hi), !.hi = Over(z.lo)]
SideOver(s) == IF s = "buy" THEN "sell" ELSE "buy"
BarOver(b) ==
    [o |-> Over(b.o), h |-> Over(b.l), l |-> Over(b.h), c |-> Over(b.c), vol |-> b.vol, delta |-> -b.delta,
     poc |-> Over(b.poc), cells |-> [i \in DOMAIN b.cells |-> [b.cells[i] EXCEPT !.price = Over(@)]],
     stacks |-> [i \in DOMAIN b.stacks |-> [ZoneOver(b.stacks[i]) EXCEPT !.side = SideOver(@)]]]
MarketOver(m) ==
    [m EXCEPT !.leftH = Over(m.leftL), !.leftL = Over(m.leftH), !.peak = BarOver(@), !.flip = BarOver(@),
              !.vp = [@ EXCEPT !.poc = Over(@), !.vah = Over(m.vp.val), !.val = Over(m.vp.vah),
                               !.heavy = [i \in DOMAIN @ |-> ZoneOver(@[i])],
                               !.thin = [i \in DOMAIN @ |-> ZoneOver(@[i])]],
              !.gaps = {ZoneOver(g) : g \in @}]
TakesOver(S) == {[k EXCEPT !.long = ~@, !.entry = Over(@), !.sl = Over(@), !.tp = Over(@)] : k \in S}
Shown == climax # NoClimax

\* A bottom is faded as its mirrored top is: marker, coup and reversal_si, to the tick.  (A
\* bar that is both a top and a bottom counts as a top, and has no mirror image.)
FlipMirrors ==
    (Shown /\ ~(IsTop(climax) /\ IsBottom(climax))) =>
        LET n == MarketOver(climax)
        IN  /\ Marker(n) = TakesOver(Marker(climax))
            /\ CoupTakes(n) = TakesOver(CoupTakes(climax))
            /\ SiTakes(n) = TakesOver(SiTakes(climax))

\* Whatever the footprint offered, the stop is on the losing side of the entry the trade is
\* made at, and the target on the other: a limit, a stack or a thin zone never turns it over.
StopsProtect ==
    Shown => \A k \in Marker(climax) \cup CoupTakes(climax) \cup SiTakes(climax) :
                 /\ Way(k.long) * (k.entry - k.sl) > 0
                 /\ Way(k.long) * (k.tp - k.entry) > 0

\* A limit cannot fill on the bar that armed it at a worse price than its close, and no
\* marker is made of a bar whose delta still runs with the climax.
LimitsWait ==
    Shown => \A k \in Marker(climax) :
                 /\ k.isLimit => Way(k.long) * (climax.flip.c - k.entry) > 0
                 /\ Way(k.long) * climax.flip.delta > 0

\* The thin zone that replaces the 2R target is worth the risk at least.
TargetsPayTheRisk ==
    Shown => \A k \in SiTakes(climax) : Gap(k.tp, k.entry) >= Gap(k.entry, k.sl)
=============================================================================
