------------------------------- MODULE EntryPlan -------------------------------
(***************************************************************************)
(* From a decision to the orders of a grid: the price levels the features   *)
(* know (zone_collector), the legs, lots, target and disaster stop laid on  *)
(* them (grid_placer, tp_resolver), the hook by which a strategy changes    *)
(* the plan (republic, senate, congress, coup), the cap of the router, and  *)
(* then either the paper fill of leg 1 (paper.submit_grid) or the move of   *)
(* the plan to the broker's own price (venue_translator) and one limit      *)
(* order per leg (mt5_adapter.submit_grid).                                 *)
(*                                                                          *)
(* Prices are integers, twice the finest price step, so that a half of a    *)
(* difference and a mid between two ticks are integers too.  A side is its  *)
(* sign: 1 is long, -1 is short, and Depth measures how far a price is on   *)
(* the side where the limit orders of a grid rest.                          *)
(***************************************************************************)
EXTENDS Integers, Sequences, FiniteSets, FiniteSetsExt, SequencesExt

CONSTANTS
    Prices,         \* where a feature may have a level
    Anchor,         \* price of the decision
    Touch,          \* how far a bar that touches a limit may close from it
    Kinds,          \* kinds of level (zone sources)
    MaxLevels,      \* bound: levels known at once
    Atr,            \* ATR of 15 minutes
    Floor,          \* disaster offset in price (3 % or 1.5 % of the anchor)
    MinGap,         \* max(0.05 ATR, 0.05)
    BaseLot,        \* execution.default_lots, in hundredths of a lot
    Tick,           \* tick of the broker
    Mids,           \* mids the broker may quote
    StopsLevels     \* minimum distances of the broker, 0: none

\* Strength, in hundredths, of the zones of each source.
Strength == [hvn |-> 100, naked |-> 92, poc |-> 90, sweep |-> 85, va |-> 72, fvg |-> 70,
             cvd |-> 60, lvn |-> 50]
\* Sources tp_resolver reads; the two it and the stop check read of the profile.
TargetKinds == {"naked", "poc", "va", "fvg", "cvd"}
ProfileKinds == {"hvn", "poc", "va"}

Policies == {"vote", "republic", "senate", "congress", "coup"}
Fib == <<1, 1, 2, 3, 5, 8, 13>>

ASSUME EntryPlanAssumption ==
    /\ Kinds \subseteq DOMAIN Strength
    /\ \A p \in Prices \cup {Anchor} : p \in Nat /\ p % 2 = 0
    /\ {Atr, Tick} \subseteq Nat \ {0} /\ Atr % 4 = 0
    /\ {Floor, MinGap, BaseLot} \cup StopsLevels \subseteq Nat

VARIABLES
    pc,         \* signal, plan, adjust, cap, submit, done
    levels,     \* the levels the features know
    side,       \* 1 or -1
    how,        \* what the decision is and where it goes
    plan,       \* the GridPlan
    book        \* what was opened: nothing, a paper cycle, or limit orders

vars == <<pc, levels, side, how, plan, book>>

-----------------------------------------------------------------------------

Level == [price : Prices, kind : Kinds]
OrderLeg == [price : Int, lots : Nat \ {0}]

MaxOf(a, b) == IF a >= b THEN a ELSE b
Depth(p, from) == side * (from - p)
Toward(p, distance) == p + side * distance      \* distance in the trade's favour
Nearest(S) == IF side = 1 THEN Min(S) ELSE Max(S)
\* Of two prices, the one farther against the trade, and the one farther with it.
Deeper(p, q) == IF Depth(p, q) >= 0 THEN p ELSE q
Shallower(p, q) == IF Depth(p, q) >= 0 THEN q ELSE p

\* Python's round: to the nearest integer, a half to the even one.
RoundDiv(n, d) ==
    LET q == n \div d
        r == n % d
    IN  IF 2 * r < d \/ (2 * r = d /\ q % 2 = 0) THEN q ELSE q + 1

-----------------------------------------------------------------------------
(* zone_collector.collect                                                   *)

Stronger(z, y) == Strength[z.kind] > Strength[y.kind]

\* Mutant: a nearby zone is dropped whatever its strength.
MergeZoneFirst(kept, z) ==
    IF kept # <<>> /\ Depth(z.price, Last(kept).price) <= MinGap
    THEN kept
    ELSE Append(kept, z)

MergeZone(kept, z) ==
    IF kept # <<>> /\ Depth(z.price, Last(kept).price) <= MinGap
    THEN IF Stronger(z, Last(kept)) THEN Append(Front(kept), z) ELSE kept
    ELSE Append(kept, z)

Candidates == {l \in levels : Depth(l.price, Anchor) > 0}

\* Nearest first; of two at one price MergeZone keeps the stronger in any order.
Collect ==
    FoldLeft(MergeZone, <<>>,
             SetToSortSeq(Candidates,
                 LAMBDA x, y : \/ Depth(x.price, y.price) < 0
                               \/ x.price = y.price /\ Stronger(x, y)))

-----------------------------------------------------------------------------
(* tp_resolver.resolve_tp                                                   *)

TargetsFrom(p, distance, kinds) ==
    {l.price : l \in {m \in levels : m.kind \in kinds /\ -Depth(m.price, p) >= distance}}

ResolveTp(p, distance) ==
    IF TargetsFrom(p, distance, TargetKinds) # {}
    THEN Nearest(TargetsFrom(p, distance, TargetKinds))
    ELSE Toward(p, 3 * Atr)

-----------------------------------------------------------------------------
(* grid_placer.plan_grid                                                    *)

\* With the trend, no clear day, and all the rest.
Regimes == {"with", "uncertain", "other"}

\* grid_shape_for_regime: legs, least target distance and stop distance (ATRs,
\* in halves).
Shape(regime) ==
    CASE regime = "with"      -> [legs |-> 5, tp |-> 5, stop |-> 6]
      [] regime = "uncertain" -> [legs |-> 3, tp |-> 2, stop |-> 14]
      [] OTHER                -> [legs |-> 7, tp |-> 4, stop |-> 10]

Lots(i, bias) == MaxOf(RoundDiv(BaseLot * Fib[i] * bias, 5), 1)

LegPrices(regime) ==
    LET far == SelectSeq(Collect, LAMBDA z : Depth(z.price, Anchor) >= MinGap)
    IN  IF far = <<>>
        THEN <<Anchor>>
        ELSE [i \in 1..Min({Shape(regime).legs, Len(far)}) |-> far[i].price]

GridStop(prices, regime) ==
    Toward(Last(prices), -MaxOf((Shape(regime).stop * Atr) \div 2, Floor))

GridTarget(prices, regime) == ResolveTp(prices[1], (Shape(regime).tp * Atr) \div 2)

PlanGrid(regime, bias) ==
    LET prices == LegPrices(regime)
    IN  [anchor |-> Anchor,
         legs   |-> [i \in DOMAIN prices |-> [price |-> prices[i], lots |-> Lots(i, bias)]],
         tp     |-> GridTarget(prices, regime),
         sl     |-> GridStop(prices, regime)]

-----------------------------------------------------------------------------
(* Strategy.adjust_plan                                                     *)

ConfluentAt(p) ==
    \E l \in levels :
        \/ l.kind \in ProfileKinds /\ 4 * MaxOf(l.price - p, p - l.price) <= Atr
        \/ l.kind = "lvn" /\ l.price = p

AtrStop == Toward(Anchor, -((3 * Atr) \div 2))

\* Republic: behind the extreme of the bar where the profile agrees.
StructStop(extreme) == Toward(extreme, -(Atr \div 4))
RepublicStop(extreme) ==
    IF ConfluentAt(StructStop(extreme)) THEN StructStop(extreme) ELSE AtrStop

\* Senate: behind the farthest wall; congress: behind the imbalance of the bar.
SenateStop(walls) ==
    IF walls = {} THEN AtrStop ELSE Toward(FoldSet(Deeper, Anchor, walls), -(Atr \div 4))
CongressStop(zone) == Toward(zone, -(Atr \div 2))

\* Republic, senate and congress: tighten the stop, push a confirmed target.
Tighten(stop) ==
    LET far == TargetsFrom(plan.legs[1].price, 3 * Atr, TargetKinds \ {"fvg"})
        pushed == IF how.bias >= 4 /\ far # {} THEN Nearest(far) ELSE plan.tp
    IN  [plan EXCEPT !.sl = Shallower(stop, plan.sl),
                     !.tp = Shallower(plan.tp, pushed)]

\* Coup and its subclasses: one leg, the stop and the target of the signal.
SingleLeg(sl, tp) == [plan EXCEPT !.legs = <<plan.legs[1]>>, !.sl = sl, !.tp = tp]

-----------------------------------------------------------------------------
(* The states of an entry.                                                  *)

NoGrid == [legs |-> <<>>, tp |-> 0, sl |-> 0, market |-> 0, least |-> 0]

Init ==
    /\ pc = "signal"
    /\ levels \in UNION {kSubset(n, Level) : n \in 0..MaxLevels}
    /\ side \in {1, -1}
    /\ how = [policy |-> "vote", close |-> Anchor, bias |-> 3, live |-> FALSE,
              regime |-> "other", limit |-> FALSE]
    /\ plan = [anchor |-> Anchor, legs |-> <<>>, tp |-> 0, sl |-> 0]
    /\ book = NoGrid

\* The decision: a vote at the close of the bar, or a limit level the bar
\* touched, whatever side of it the bar closed on.  Only the routes go live,
\* and they have no adjust_plan.
Decide(policy, close, bias, regime, live) ==
    /\ pc = "signal"
    /\ close # Anchor => policy \in {"congress", "coup"}
    /\ live => policy = "vote"
    /\ how' = [policy |-> policy, close |-> close, bias |-> bias, live |-> live,
               regime |-> regime, limit |-> close # Anchor]
    /\ pc' = "plan"
    /\ UNCHANGED <<levels, side, plan, book>>

Build ==
    /\ pc = "plan"
    /\ plan' = PlanGrid(how.regime, how.bias)
    /\ pc' = IF how.live THEN "submit" ELSE "adjust"
    /\ UNCHANGED <<levels, side, how, book>>

\* The extreme of the bar is at its close or beyond; walls of the footprint and
\* imbalances of the bar are where they are.
Adjust ==
    /\ pc = "adjust"
    /\ CASE how.policy = "vote" -> UNCHANGED plan
         [] how.policy = "republic" ->
              \E extreme \in {how.close, Toward(how.close, -Touch)} :
                 plan' = Tighten(RepublicStop(extreme))
         [] how.policy = "senate" ->
              \E walls \in SUBSET {Anchor, Toward(Anchor, -Touch)} :
                 plan' = Tighten(SenateStop(walls))
         [] how.policy = "congress" ->
              \E zone \in {how.close, Toward(how.close, -Touch), Anchor} :
                 plan' = Tighten(CongressStop(zone))
         [] how.policy = "coup" ->
              \E risk \in {Atr \div 2, Atr} :
                 plan' = SingleLeg(Toward(Anchor, -risk), Toward(Anchor, 2 * risk))
    /\ pc' = "cap"
    /\ UNCHANGED <<levels, side, how, book>>

\* apply_delta_div_tp_cap: half the distance, if the flow diverges against us.
Capped == plan.anchor + (plan.tp - plan.anchor) \div 2

Cap ==
    /\ pc = "cap"
    /\ plan' \in {plan, [plan EXCEPT !.tp = Capped]}
    /\ pc' = "submit"
    /\ UNCHANGED <<levels, side, how, book>>

-----------------------------------------------------------------------------
(* paper.submit_grid                                                        *)

Fill == Shallower(plan.legs[1].price, how.close)

Degenerate == Depth(Fill, plan.tp) <= 0

SubmitPaper ==
    /\ pc = "submit" /\ ~how.live
    /\ book' = IF Degenerate
               THEN NoGrid
               ELSE [legs |-> [plan.legs EXCEPT ![1].price = Fill], tp |-> plan.tp, sl |-> plan.sl, market |-> how.close, least |-> 0]
    /\ pc' = "done"
    /\ UNCHANGED <<levels, side, how, plan>>

-----------------------------------------------------------------------------
(* venue_translator.translate and mt5_adapter.submit_grid                   *)

ToTick(n, d) == RoundDiv(n, d * Tick) * Tick

\* The offset of p from the anchor of the plan, applied to the mid.
Rebased(p, mid) == ToTick(p * mid, plan.anchor)

PushOut(p, mid, least) ==
    IF least = 0 \/ MaxOf(p - mid, mid - p) >= least THEN p ELSE ToTick(mid - side * least, 1)

Translated(mid, least) ==
    [legs |-> [i \in DOMAIN plan.legs |->
                 [plan.legs[i] EXCEPT !.price = PushOut(Rebased(plan.legs[i].price, mid), mid, least)]],
     tp   |-> Rebased(plan.tp, mid),
     sl   |-> Rebased(plan.sl, mid),
     market |-> mid, least |-> least]

\* Without a quote the anchor of the analysis venue stands in for the mid.
SubmitLive(mid, least) ==
    /\ pc = "submit" /\ how.live
    /\ book' = Translated(mid, least)
    /\ pc' = "done"
    /\ UNCHANGED <<levels, side, how, plan>>

Next ==
    \/ \E policy \in Policies, close \in {Anchor, Anchor - Touch, Anchor + Touch},
          bias \in {1, 4}, regime \in Regimes, live \in BOOLEAN :
          Decide(policy, close, bias, regime, live)
    \/ Build \/ Adjust \/ Cap \/ SubmitPaper
    \/ \E mid \in Mids, least \in StopsLevels : SubmitLive(mid, least)
    \/ SubmitLive(plan.anchor, 0)

Spec == Init /\ [][Next]_vars

-----------------------------------------------------------------------------
(* Properties.                                                              *)

TypeOK ==
    /\ pc \in {"signal", "plan", "adjust", "cap", "submit", "done"}
    /\ levels \subseteq Level /\ side \in {1, -1}
    /\ how.policy \in Policies /\ how.regime \in Regimes
    /\ plan.legs \in Seq(OrderLeg) /\ plan.tp \in Int /\ plan.sl \in Int
    /\ book.legs \in Seq(OrderLeg) /\ book.tp \in Int /\ book.sl \in Int

Opened == book.legs # <<>>

\* Merging the zones a few cents apart (zone_collector.py:145-155) loses none
\* that matters: whatever was merged away, a zone at least as strong is left,
\* and those left are more than the gap apart.
StrongestStands ==
    LET zones == Collect IN
    /\ \A l \in Candidates : \E i \in DOMAIN zones : ~Stronger(l, zones[i])
    /\ \A i \in 1..(Len(zones) - 1) : Depth(zones[i + 1].price, zones[i].price) > MinGap

\* Whatever the levels, the regime, the hook of the strategy, the cap and the
\* move to the broker's price did to the plan, no order is opened whose target
\* is not on the profit side of each price it may fill at (paper.py:171: "Guard:
\* TP must be on profit side of the actual fill"; the live path has no guard).
TargetBeyondFills ==
    Opened => \A i \in DOMAIN book.legs : Depth(book.legs[i].price, book.tp) > 0

\* A grid nobody tightened can fill to its last leg before its stop: the
\* disaster stop is behind every leg (grid_placer.py:222), at the broker too.
StopBehindGrid ==
    Opened /\ how.policy = "vote"
        => \A i \in DOMAIN book.legs : Depth(book.sl, book.legs[i].price) > 0

\* An entry at the close of its bar, by any strategy, opens with its stop on the
\* losing side of the fill (_check_hard_sl books -1 R by the stop's side alone).
MarketStopBehindFill ==
    Opened /\ ~how.limit => Depth(book.sl, book.legs[1].price) > 0

\* Moving the plan to the broker's price keeps the grid a grid of resting
\* orders: in their order, and each on its side of the mid the quote named, no
\* nearer than the stops level allows but for the rounding to a tick.
RestsAtVenue ==
    Opened /\ how.live =>
        /\ \A i \in DOMAIN book.legs :
              2 * Depth(book.legs[i].price, book.market) >= 2 * book.least - Tick
        /\ \A i \in 1..(Len(book.legs) - 1) :
              Depth(book.legs[i + 1].price, book.legs[i].price) >= 0

\* One tactical entry of the coup family never leaves an order behind that its
\* stop no longer covers: what may still fill is on the near side of the stop.
TacticalIsCovered ==
    Opened /\ how.policy = "coup" /\ ~how.limit
        => \A i \in DOMAIN book.legs : Depth(book.sl, book.legs[i].price) > 0

\* coup.py:233 guards against "an SL on/near the wrong side of entry"; a limit
\* entry fills at the close of the bar that touched it, which the guard ignores.
LimitStopBehindFill ==
    Opened /\ how.limit => Depth(book.sl, book.legs[1].price) > 0

=============================================================================
