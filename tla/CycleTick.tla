------------------------------ MODULE CycleTick ------------------------------
(***************************************************************************)
(* One position on the way through a bar: the exit checks of /ingest, the  *)
(* stop adjustments of sl_manager, and cycle_manager.on_bar_close with its *)
(* fill pass, exits, trail and trend escape, in the order of the code.     *)
(*                                                                         *)
(* Prices are measured in the direction of the trade: for a short every    *)
(* price is negated and a bar's high and low change places, so that the    *)
(* mirrored branches of the code are one formula.  They are multiples of a *)
(* number that every leg count divides, so that averages are exact.        *)
(*                                                                         *)
(* What the model does not compute is chosen freely: order-flow signals,   *)
(* zones, trail levels.  Handlers do not overlap here (GridLifecycle lets  *)
(* them); the server may be restarted between any two steps, and loses the *)
(* memory of the trend escape.                                             *)
(***************************************************************************)
EXTENDS Integers, FiniteSets, FiniteSetsExt

CONSTANTS
    Price,          \* bar prices, legs, targets and stops
    Plan,           \* grid plans: [entry, tp, sl, legs]
    Rules,          \* sets of rules positions are managed by
    Floor,          \* the disaster floor: 3% or 1.5% of the price
    EscapeMove,     \* trend_escape.atr_mult * ATR
    EscapeBars,     \* trend_escape.bars
    Near            \* progress towards the target that counts as reached, in percent

Rule == {"server", "hard_sl", "marked", "si_trail"}

ASSUME TickAssumption ==
    /\ Price \subseteq Int
    /\ Plan \subseteq [entry : Price, tp : Price, sl : Price, legs : SUBSET Price]
    \* The legs are limit orders below the entry, and the stop is the offset of
    \* grid_placer or the tighter one of a strategy or of a single decision.
    /\ \A p \in Plan :
          /\ IsFiniteSet(p.legs) /\ p.sl < p.entry
          /\ \A q \in p.legs : q < p.entry
    \* The server's own positions have the floor and the stop manager; the
    \* other rules are a strategy's settings_override.
    /\ Rules \subseteq SUBSET Rule
    /\ \A r \in Rules : "server" \in r => r = {"server"}
    /\ Floor \in Nat \ {0}
    /\ EscapeMove \in Nat
    \* Two bars or more: with one, the bar of a fill would be enough (settings.yaml: 3).
    /\ EscapeBars \in Nat \ {0, 1}
    /\ Near \in 1..100

VARIABLES
    pos,        \* the position
    plan,       \* the plan it was opened with
    rules,      \* the rules it is managed by
    pending,    \* limit prices of its open orders
    trend,      \* _trend_escape_state of the position
    bar,        \* the bar at hand
    filled,     \* the bar filled a leg: actions["filled"]
    stage       \* the next step of the handler

vars == <<pos, plan, rules, pending, trend, bar, filled, stage>>

Bar == { b \in [l : Price, h : Price, c : Price, primary : BOOLEAN] :
            b.l <= b.c /\ b.c <= b.h }

Exit == {"sl_hit", "tp_hit", "tp_absorption",
         "cycle_tp", "hard_sl", "marked", "trend_escape"}

Sgn(x) == IF x > 0 THEN 1 ELSE IF x < 0 THEN -1 ELSE 0
Dist(x, y) == IF x > y THEN x - y ELSE y - x

IsOpen == pos.status = "open"
Avg == pos.sum \div pos.n
Risk == Dist(Avg, pos.sl)

\* Settle the position at the exit price, booking an R of the given sign.  The
\* rest of the handler passes over a closed position.
Close(via, exit, sign) ==
    /\ pos' = [pos EXCEPT !.status = "closed", !.via = via,
                          !.pnl = exit - Avg, !.booked = sign]
    /\ stage' = "idle"
    /\ UNCHANGED <<plan, rules, bar, filled>>

Goto(s) ==
    /\ stage' = s
    /\ UNCHANGED <<plan, rules, bar>>

Unseen == [seen |-> FALSE, streak |-> 0, last |-> 0, orders |-> 0]

-----------------------------------------------------------------------------
(* PaperExecutor.submit_grid and the arrival of a bar.                     *)

\* Leg 1 is filled at once, unless the target is not ahead of it.
OpenGrid(p, r) ==
    /\ stage = "idle"
    /\ ~IsOpen
    /\ p.tp > p.entry
    /\ pos' = [status |-> "open", n |-> 1, sum |-> p.entry, sl |-> p.sl,
               tp |-> p.tp, via |-> "", pnl |-> 0, booked |-> 0]
    /\ plan' = p
    /\ rules' = r
    /\ pending' = p.legs
    /\ trend' = Unseen
    /\ UNCHANGED <<bar, filled, stage>>

\* The server sees the bars of every timeframe, the cycle manager those of the
\* primary one.
BarArrives(b) ==
    /\ stage = "idle"
    /\ IsOpen
    /\ "server" \in rules \/ b.primary
    /\ bar' = b
    /\ filled' = FALSE
    /\ stage' = IF "server" \in rules THEN "check" ELSE "fill"
    /\ UNCHANGED <<pos, plan, rules, pending, trend>>

-----------------------------------------------------------------------------
(* _check_positions: one exit at most, in this order.                      *)

\* Closer stops are ignored.
StopHit == Risk >= Floor /\ bar.l <= pos.sl
TargetHit == pos.tp > Avg /\ bar.h >= pos.tp

\* check_tp_absorption's gate; a target behind the entry reverses the ratio.
NearTarget ==
    LET way == pos.tp - Avg
    IN  /\ way > 0 => 100 * (bar.h - Avg) >= Near * way
        /\ way < 0 => 100 * (bar.h - Avg) <= Near * way

CheckStop ==
    /\ stage = "check"
    /\ StopHit
    /\ Close("sl_hit", pos.sl, Sgn(pos.sl - Avg))
    /\ UNCHANGED <<pending, trend>>

CheckTarget ==
    /\ stage = "check"
    /\ ~StopHit
    /\ TargetHit
    /\ Close("tp_hit", pos.tp, IF Risk > 0 THEN Sgn(Dist(pos.tp, Avg)) ELSE 1)
    /\ pending' = {}
    /\ UNCHANGED trend

CheckAbsorption ==
    LET exit == IF bar.h < pos.tp THEN bar.h ELSE pos.tp
    IN  /\ stage = "check"
        /\ ~StopHit
        /\ ~TargetHit
        /\ NearTarget
        /\ Close("tp_absorption", exit, IF Risk > 0 THEN Sgn(Dist(exit, Avg)) ELSE 1)
        /\ UNCHANGED <<pending, trend>>

\* No signal; the strong-zone branch raises before it books anything.
CheckPasses ==
    /\ stage = "check"
    /\ ~StopHit
    /\ ~TargetHit
    /\ Goto("stop")
    /\ UNCHANGED <<pos, pending, trend, filled>>

-----------------------------------------------------------------------------
(* sl_manager.check_sl_adjustments.                                        *)

Ahead(k) == Risk > 0 /\ bar.c - Avg >= k * Risk

BreakEven == IF Ahead(1) /\ pos.sl < Avg THEN Avg ELSE pos.sl

\* The trail is the lowest low of the last bars, this one included.
AdjustStop ==
    /\ stage = "stop"
    /\ \E low \in { x \in Price : x <= bar.l } :
          pos' = [pos EXCEPT !.sl =
                     IF Ahead(2) /\ low > BreakEven THEN low ELSE BreakEven]
    /\ Goto(IF bar.primary THEN "fill" ELSE "idle")
    /\ UNCHANGED <<pending, trend, filled>>

-----------------------------------------------------------------------------
(* cycle_manager.on_bar_close.                                             *)

Crossed == { q \in pending : bar.l <= q }

\* _fill_pending_legs without a crossing.
FillNothing ==
    /\ stage = "fill"
    /\ Crossed = {}
    /\ Goto("target")
    /\ UNCHANGED <<pos, pending, trend, filled>>

\* nearest_strong_zone_toward: strictly between the average entry and the target.
Zones(avg) == { z \in Price : avg < z /\ z < plan.tp }

\* Mutant: an order crossed stays open, and is filled again.
FillLegsForever ==
    LET n == pos.n + Cardinality(Crossed)
        sum == pos.sum + SumSet(Crossed)
    IN  /\ stage = "fill"
        /\ Crossed # {}
        /\ \E tp \in {plan.tp} \cup Zones(sum \div n) :
              pos' = [pos EXCEPT !.n = n, !.sum = sum, !.sl = plan.sl, !.tp = tp]
        /\ filled' = TRUE
        /\ Goto("target")
        /\ UNCHANGED <<pending, trend>>

\* Every crossed order becomes a leg that carries the plan's own stop and
\* target; then the target may shrink to a zone.
FillLegs ==
    LET n == pos.n + Cardinality(Crossed)
        sum == pos.sum + SumSet(Crossed)
    IN  /\ stage = "fill"
        /\ Crossed # {}
        /\ \E tp \in {plan.tp} \cup Zones(sum \div n) :
              pos' = [pos EXCEPT !.n = n, !.sum = sum, !.sl = plan.sl, !.tp = tp]
        /\ pending' = pending \ Crossed
        /\ filled' = TRUE
        /\ Goto("target")
        /\ UNCHANGED trend

\* _check_cycle_tp
CycleTarget ==
    /\ stage = "target"
    /\ TargetHit
    /\ Close("cycle_tp", pos.tp, Sgn(pos.tp - Avg))
    /\ pending' = {}
    /\ UNCHANGED trend

\* Not reached, or held by a sweep or by CVD continuation.
TargetPasses ==
    /\ stage = "target"
    /\ Goto("hard_sl")
    /\ UNCHANGED <<pos, pending, trend, filled>>

HardStopHit == "hard_sl" \in rules /\ bar.l <= pos.sl

\* _check_hard_sl books -abs(adverse), whichever side of the entry the stop is.
HardStop ==
    /\ stage = "hard_sl"
    /\ HardStopHit
    /\ Close("hard_sl", pos.sl, -Sgn(Risk))
    /\ pending' = {}
    /\ trend' = Unseen

HardStopPasses ==
    /\ stage = "hard_sl"
    /\ ~HardStopHit
    /\ Goto("marked")
    /\ UNCHANGED <<pos, pending, trend, filled>>

\* Absorption flip, CVD divergence, delta divergence: out at the bar's close.
MarkedExit ==
    /\ stage = "marked"
    /\ "marked" \in rules
    /\ Close("marked", bar.c, Sgn(bar.c - Avg))
    /\ pending' = {}
    /\ trend' = Unseen

MarkedPasses ==
    /\ stage = "marked"
    /\ Goto("si_trail")
    /\ UNCHANGED <<pos, pending, trend, filled>>

\* _check_si_trail: "Tighten ONLY (never loosen), and never cross price".
TrailLevels == { z \in Price : pos.sl < z /\ z < bar.c }

TrailStop ==
    /\ stage = "si_trail"
    /\ \/ /\ "si_trail" \in rules
          /\ \E z \in TrailLevels : pos' = [pos EXCEPT !.sl = z]
       \/ UNCHANGED pos
    /\ Goto("escape")
    /\ UNCHANGED <<pending, trend, filled>>

-----------------------------------------------------------------------------
(* _check_catastrophic_trend_escape.                                       *)

Against == trend.seen /\ bar.c < trend.last

\* A fill, seen as a drop of the number of open orders, starts the count anew;
\* a close that is not against ends it.  Bound: it saturates at EscapeBars.
Streak ==
    LET before == IF trend.seen /\ Cardinality(pending) < trend.orders
                  THEN 0 ELSE trend.streak
        after == IF Against THEN before + 1 ELSE 0
    IN  IF after > EscapeBars THEN EscapeBars ELSE after

\* Mutant: the disaster floor is not required.
RunawayWithoutFloor == Streak >= EscapeBars /\ Avg - bar.c >= EscapeMove

Runaway ==
    /\ Streak >= EscapeBars
    /\ Avg - bar.c >= EscapeMove
    /\ Avg - bar.c >= Floor

Watch == trend' = [seen |-> TRUE, streak |-> Streak, last |-> bar.c,
                   orders |-> Cardinality(pending)]

Escape ==
    /\ stage = "escape"
    /\ Runaway
    /\ Close("trend_escape", bar.c, Sgn(bar.c - Avg))
    /\ pending' = {}
    /\ trend' = Unseen

NoEscape ==
    /\ stage = "escape"
    /\ ~Runaway
    /\ Goto("idle")
    /\ Watch
    /\ UNCHANGED <<pos, pending, filled>>

-----------------------------------------------------------------------------

\* The process ends between two steps: the stores are on disk, the tracker of
\* the trend escape and the bar are not.
Restart ==
    /\ stage' = "idle"
    /\ trend' = Unseen
    /\ UNCHANGED <<pos, plan, rules, pending, bar, filled>>

NoPlan == [entry |-> 0, tp |-> 0, sl |-> 0, legs |-> {}]
NoBar == [l |-> 0, h |-> 0, c |-> 0, primary |-> FALSE]
NoPosition == [status |-> "none", n |-> 1, sum |-> 0, sl |-> 0, tp |-> 0,
               via |-> "", pnl |-> 0, booked |-> 0]

Init ==
    /\ pos = NoPosition
    /\ plan = NoPlan
    /\ rules = {}
    /\ pending = {}
    /\ trend = Unseen
    /\ bar = NoBar
    /\ filled = FALSE
    /\ stage = "idle"

CheckPositions == CheckStop \/ CheckTarget \/ CheckAbsorption \/ CheckPasses

OnBarClose ==
    \/ FillNothing \/ FillLegs \/ CycleTarget \/ TargetPasses
    \/ HardStop \/ HardStopPasses \/ MarkedExit \/ MarkedPasses
    \/ TrailStop \/ Escape \/ NoEscape

Next ==
    \/ stage = "idle" /\ \E p \in Plan, r \in Rules : OpenGrid(p, r)
    \/ stage = "idle" /\ IsOpen /\ \E b \in Bar : BarArrives(b)
    \/ CheckPositions
    \/ AdjustStop
    \/ OnBarClose
    \/ Restart

Spec == Init /\ [][Next]_vars

-----------------------------------------------------------------------------
(* Properties.                                                             *)

TypeOK ==
    /\ pos.status \in {"none", "open", "closed"}
    /\ pos.n \in 1..(1 + Cardinality(plan.legs))
    /\ pos.via \in Exit \cup {""}
    /\ pos.booked \in {-1, 0, 1}
    /\ plan \in Plan \cup {NoPlan}
    /\ rules \in Rules \cup {{}}
    /\ pending \in SUBSET plan.legs
    /\ trend.streak \in 0..EscapeBars
    /\ trend.orders \in 0..Cardinality(plan.legs)
    /\ bar \in Bar \cup {NoBar}
    /\ filled \in BOOLEAN
    /\ stage \in {"idle", "check", "stop", "fill", "target", "hard_sl",
                  "marked", "si_trail", "escape"}

\* Through adverse fills, the plan's target coming back with each new leg and
\* shrinks towards a zone, the target of an open position stays on the profit
\* side of its average entry, so that reaching it is never a loss.
TargetAhead == IsOpen => pos.tp > Avg

\* The server's own positions lose at least the disaster floor or nothing:
\* "Closer SL is ignored; cycle exits only via TP / absorption / explicit
\* invalidation" (ingest.py:161-165), whatever the stop manager, the fills and
\* the trend escape did to the stop before.
LossesBeyondFloor ==
    pos.status = "closed" /\ rules = {"server"} /\ pos.pnl < 0 => pos.pnl <= -Floor

\* The booked R of every exit but the hard stop has the sign of what the
\* position made, although three branches take absolute values and a stop may
\* have been trailed past the entry ("trailed SLs that lock profit show +R",
\* ingest.py:188).
BookedAsMade ==
    pos.status = "closed" /\ pos.via # "hard_sl" => pos.booked = Sgn(pos.pnl)

\* The same for the hard stop.
HardStopAsMade ==
    pos.status = "closed" /\ pos.via = "hard_sl" => pos.booked = Sgn(pos.pnl)

\* Three writers move the stop, and a leg brings the plan's own: only a fill
\* ever loosens it ("Tighten ONLY (never loosen)", _check_si_trail).
StopLoosensOnFillOnly ==
    IsOpen /\ pos'.status = "open" /\ pos'.sl < pos.sl => pos'.n > pos.n

\* "K consecutive bars against avg WITHOUT a bounce (no leg fill, ...)"
\* (_check_catastrophic_trend_escape): no position is force-closed on a bar
\* that filled one of its legs, restarts between bars included.
NoEscapeOnFill ==
    IsOpen /\ pos'.via = "trend_escape" => ~filled

=============================================================================
