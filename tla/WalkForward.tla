------------------------------ MODULE WalkForward ------------------------------
(***************************************************************************)
(* The programs under scripts/ that replay a strategy over recorded bars:   *)
(* a signal, a fill, the first touch of stop or target, and no new signal    *)
(* while a trade is open.  Each program has a walk and a loop of its own.    *)
(* A tape holds the bars and, where a strategy would signal, the plan it     *)
(* would give; prices are small integers, and R is counted in price.         *)
(***************************************************************************)
EXTENDS Integers, Sequences, SequencesExt, FiniteSetsExt

CONSTANTS Tapes,      \* the tapes: bars, plan, signals
          Hold,       \* MAX_HOLD: bars before the time-stop
          FillIn,     \* FILL_WITHIN, or the expiry of a limit
          Rr,         \* DEFAULT_RR
          Tight,      \* republic: sl_atr_mult times the ATR
          PerBar,     \* dryrun_fleet: steps in a bar of structure
          Grid        \* grid_sim: legs and step, target, stop, escape and bounce distances
VARIABLE tape

Smaller(a, b) == IF a < b THEN a ELSE b
Larger(a, b) == IF a > b THEN a ELSE b
Abs(n) == IF n < 0 THEN -n ELSE n
Signum(side) == IF side = "long" THEN 1 ELSE -1
OtherWay(side) == IF side = "long" THEN "short" ELSE "long"
Gain(t, price) == Signum(t.side) * (price - t.entry)
Stopped(t, b) == IF t.side = "long" THEN b.l <= t.stop ELSE b.h >= t.stop
Reached(t, b) == IF t.side = "long" THEN b.h >= t.target ELSE b.l <= t.target
Touches(t, b) == Stopped(t, b) \/ Reached(t, b)
Ticket(side, entry, stop, target) ==
    [side |-> side, entry |-> entry, stop |-> stop, target |-> target]
AwayFrom(side, entry, distance) == entry + Signum(side) * distance

-----------------------------------------------------------------------------
(* The walks: where a ticket ends, from the bar "first" on *)
NoExit == [why |-> "none", at |-> 0, price |-> 0]
Exit(why, at, price) == [why |-> why, at |-> at, price |-> price]

\* Mutant: the target of a bar that touches both counts first.
AtTargetFirst(t, b, k) ==
    IF Reached(t, b) THEN Exit("tp", k, t.target)
    ELSE IF Stopped(t, b) THEN Exit("sl", k, t.stop) ELSE Exit("flip", k, b.c)
\* A bar that touches the stop and the target counts as the stop.
At(t, b, k) ==
    IF Stopped(t, b) THEN Exit("sl", k, t.stop)
    ELSE IF Reached(t, b) THEN Exit("tp", k, t.target) ELSE Exit("flip", k, b.c)

\* The bars from first to last that end the ticket.
Ending(t, bars, first, last, Quits(_)) ==
    {k \in first..Smaller(last, Len(bars)) : Touches(t, bars[k]) \/ Quits(k)}
Never(k) == FALSE

\* MAX_HOLD bars are tested; the one after them closes whatever it does.
Walk(t, bars, first, Quits(_)) ==
    LET over == first + Hold
        hits == Ending(t, bars, first, over - 1, Quits)
    IN  IF hits # {} THEN At(t, bars[Min(hits)], Min(hits))
        ELSE IF over <= Len(bars) THEN Exit("hold", over, bars[over].c)
        ELSE NoExit
\* ... and when the bars run out first, the last one closes.
WalkOut(t, bars, first) ==
    LET e == Walk(t, bars, first, Never)
    IN  IF e # NoExit \/ first > Len(bars) THEN e
        ELSE Exit("open", Len(bars), bars[Len(bars)].c)
\* The walks with a horizon: the last bar tested closes.
WalkWithin(t, bars, first, last, Quits(_)) ==
    LET hits == Ending(t, bars, first, last, Quits)
        end == Smaller(last, Len(bars))
    IN  IF hits # {} THEN At(t, bars[Min(hits)], Min(hits))
        ELSE Exit("time", end, bars[end].c)

\* strategy_replay, dryrun_fleet, reversal_fade_backtest.
ReplayExit(t, bars, first) == WalkOut(t, bars, first)
FleetExit(t, bars, first) == WalkOut(t, bars, first)
FadeExit(t, bars, first) ==
    IF first > Len(bars) THEN Exit("none", first, t.entry) ELSE WalkOut(t, bars, first)
\* coup_backtest: an absorption against the side closes too; no exit drops the trade.
FlipAgainst(t, b) == b.absorbed = t.side
CoupExit(t, bars, first) == Walk(t, bars, first, LAMBDA k : FlipAgainst(t, bars[k]))
\* reversal_pattern_backtest, reversal_choch_backtest, wave_fib_backtest.
PatternExit(t, bars, first) == Walk(t, bars, first, Never)
ChochExit(t, bars, first) == Walk(t, bars, first, Never)
WaveExit(t, bars, first) == Walk(t, bars, first, Never)
\* ab_analysis, from the bar after the entry; congress_vp_study, from the fill itself.
SignalExit(t, bars, at) == WalkWithin(t, bars, at + 1, at + Hold, Never)
CongressExit(t, bars, fill) == WalkWithin(t, bars, fill, fill + Hold, Never)
\* m2_synthetic_backtest: from the bar of the signal, with no time-stop.
MinuteExit(t, bars, at) == WalkWithin(t, bars, at, Len(bars), Never)
\* An opposing anchor's extreme is broken by a close.
BrokeOpposing(t, bars, k) ==
    \E a \in 1..(k - 1) : bars[a].anchor = OtherWay(t.side)
                          /\ IF t.side = "long" THEN bars[k].c < bars[a].l
                             ELSE bars[k].c > bars[a].h
OppAnchor(t, bars, k) == bars[k].anchor = OtherWay(t.side)
\* eqhl_anchor_study: the trigger of the policy closes the ticket as well.
AnchorFires(policy, t, bars, k) ==
    IF policy = "break_against" THEN BrokeOpposing(t, bars, k) ELSE OppAnchor(t, bars, k)
AnchorExit(policy, t, bars, at) ==
    WalkWithin(t, bars, at + 1, at + Hold, LAMBDA k : AnchorFires(policy, t, bars, k))

-----------------------------------------------------------------------------
(* The loops: the trades of a program on a tape *)
NoTrade == [sig |-> 0]
\* A ticket from the bar of its signal, filled at a bar, walked from another on.
Trade(sig, at, from, t, e) == [sig |-> sig, at |-> at, from |-> from, t |-> t, exit |-> e]

\* The first bar after i, within FillIn, that trades through the price; 0 is never.
FillAt(price, bars, i) ==
    LET through == {k \in (i + 1)..Smaller(i + FillIn, Len(bars)) :
                       bars[k].l <= price /\ price <= bars[k].h}
    IN  IF through = {} THEN 0 ELSE Min(through)

\* One trade at a time: bars up to "until" are passed over.
Loop(from, to, Try(_), Until(_)) ==
    FoldLeft(LAMBDA acc, i :
                 LET t == IF i <= acc.until THEN NoTrade ELSE Try(i)
                 IN  IF t = NoTrade THEN acc
                     ELSE [trades |-> Append(acc.trades, t), until |-> Until(t)],
             [trades |-> <<>>, until |-> 0], [k \in 1..Larger(0, to - from + 1) |-> from + k - 1]
    ).trades
Signals(tp, i) == i \in tp.signals

\* strategy_replay: republic's stop is pulled in; a target that is missing, a placeholder
\* or on the wrong side is set at Rr times the risk.
Tightened(name, side, entry, stop) ==
    IF name # "republic" THEN stop
    ELSE IF side = "long" THEN Larger(stop, entry - Tight) ELSE Smaller(stop, entry + Tight)
Targeted(name, side, entry, stop, target) ==
    IF name = "coup" /\ Signum(side) * (target - entry) > 0 THEN target
    ELSE AwayFrom(side, entry, Rr * Abs(entry - stop))
ReplayTrade(name, tp, i) ==
    LET p == tp.plan
        at == IF name = "coup" THEN FillAt(p.entry, tp.bars, i) ELSE i
        entry == IF name = "coup" THEN p.entry ELSE tp.bars[i].c
        stop == Tightened(name, p.side, entry, p.stop)
        t == Ticket(p.side, entry, stop, Targeted(name, p.side, entry, stop, p.target))
        e == ReplayExit(t, tp.bars, at + 1)
    IN  IF ~Signals(tp, i) \/ at = 0 \/ entry = stop \/ e = NoExit THEN NoTrade
        ELSE Trade(i, at, at + 1, t, e)
\* Mutant: the loop goes on with the bar after the signal.
ReplayUntilSignal(t) == t.sig
ReplayUntil(t) == t.exit.at
ReplayRun(name, tp) ==
    Loop(1, Len(tp.bars) - 2, LAMBDA i : ReplayTrade(name, tp, i), ReplayUntil)

\* coup_backtest: a market entry is walked from the second bar on, as if it had been
\* filled on the first one.
CoupTrade(limit, tp, i) ==
    LET p == tp.plan
        fill == IF limit THEN FillAt(p.entry, tp.bars, i) ELSE i + 1
        entry == IF limit THEN p.entry ELSE tp.bars[i].c
        t == Ticket(p.side, entry, p.stop, AwayFrom(p.side, entry, Rr * Abs(entry - p.stop)))
        e == CoupExit(t, tp.bars, fill + 1)
    IN  IF ~Signals(tp, i) \/ fill = 0 \/ e = NoExit THEN NoTrade
        ELSE Trade(i, IF limit THEN fill ELSE i, fill + 1, t, e)
CoupRun(limit, tp) ==
    Loop(1, Len(tp.bars) - 1, LAMBDA i : CoupTrade(limit, tp, i), LAMBDA t : t.exit.at)

\* coup_claude_backtest: the same exits for each candidate, trades free to overlap.
RulesTrade(limit, tp, i) ==
    LET p == tp.plan
        fill == IF limit THEN FillAt(p.entry, tp.bars, i) ELSE i
        entry == IF limit THEN p.entry ELSE tp.bars[i].c
        t == Ticket(p.side, entry, p.stop, AwayFrom(p.side, entry, Rr * Abs(entry - p.stop)))
        e == CoupExit(t, tp.bars, fill + 1)
    IN  IF fill = 0 \/ entry = p.stop \/ e = NoExit THEN NoTrade ELSE Trade(i, fill, fill + 1, t, e)
RulesRun(limit, tp) ==
    LET cand == {i \in tp.signals : i < Len(tp.bars)}
    IN  {RulesTrade(limit, tp, i) : i \in cand} \ {NoTrade}
\* The model enters at the close of the confirming candle.
ClaudeTrade(tp, i) ==
    LET p == tp.plan
        entry == tp.bars[i + 1].c
        wanted == Targeted("coup", p.side, entry, p.stop, p.target)
        t == Ticket(p.side, entry, p.stop, wanted)
        e == CoupExit(t, tp.bars, i + 2)
    IN  IF entry = p.stop \/ e = NoExit THEN NoTrade ELSE Trade(i, i + 1, i + 2, t, e)
ClaudeRun(tp) ==
    {ClaudeTrade(tp, i) : i \in {k \in tp.signals : k < Len(tp.bars)}} \ {NoTrade}

\* reversal_pattern_backtest: the pivot signals, the flip after it is the entry.
PatternTrade(tp, i) ==
    LET p == tp.plan
        entry == tp.bars[i + 1].c
        t == Ticket(p.side, entry, p.stop, AwayFrom(p.side, entry, Rr * Abs(entry - p.stop)))
        e == PatternExit(t, tp.bars, i + 2)
    IN  IF ~Signals(tp, i) \/ entry = p.stop \/ e = NoExit THEN NoTrade
        ELSE Trade(i, i + 1, i + 2, t, e)
PatternRun(tp) ==
    Loop(1, Len(tp.bars) - 2, LAMBDA i : PatternTrade(tp, i), LAMBDA t : t.sig + 1 + Hold)
\* entry_ab: the same pattern entered by a limit after the flip.
PatternLimitTrade(tp, i) ==
    LET p == tp.plan
        fill == FillAt(p.entry, tp.bars, i + 1)
        t == Ticket(p.side, p.entry, p.stop, AwayFrom(p.side, p.entry, Rr * Abs(p.entry - p.stop)))
        e == PatternExit(t, tp.bars, fill + 1)
    IN  IF ~Signals(tp, i) \/ fill = 0 \/ e = NoExit THEN NoTrade ELSE Trade(i, fill, fill + 1, t, e)
PatternLimitRun(tp) ==
    Loop(1, Len(tp.bars) - 2, LAMBDA i : PatternLimitTrade(tp, i), LAMBDA t : t.sig + 1 + Hold)

\* reversal_choch_backtest, wave_fib_backtest: a limit from the signal on.
ArmedTrade(tp, i, Ends(_, _, _)) ==
    LET p == tp.plan
        t == Ticket(p.side, p.entry, p.stop, p.target)
        fill == FillAt(p.entry, tp.bars, i)
        e == Ends(t, tp.bars, fill + 1)
    IN  IF ~Signals(tp, i) \/ fill = 0 \/ e = NoExit THEN NoTrade ELSE Trade(i, fill, fill + 1, t, e)
ChochRun(tp) ==
    Loop(1, Len(tp.bars) - 1, LAMBDA i : ArmedTrade(tp, i, ChochExit),
         LAMBDA t : t.sig + FillIn + Hold)
WaveRun(tp) ==
    Loop(1, Len(tp.bars) - 1, LAMBDA i : ArmedTrade(tp, i, WaveExit),
         LAMBDA t : t.sig + FillIn + Hold)

\* reversal_fade_backtest: market at the close.
FadeTrade(tp, i) ==
    LET p == tp.plan
        t == Ticket(p.side, tp.bars[i].c, p.stop, p.target)
    IN  IF ~Signals(tp, i) \/ t.entry = t.stop THEN NoTrade
        ELSE Trade(i, i, i + 1, t, FadeExit(t, tp.bars, i + 1))
FadeRun(tp) == Loop(1, Len(tp.bars) - 2, LAMBDA i : FadeTrade(tp, i), LAMBDA t : t.exit.at)

\* dryrun_fleet: a limit if the entry is better than the close; blocked as if the limit
\* had filled on its first bar; one attempt for a bar of structure.
FleetTrade(tp, i) ==
    LET p == tp.plan
        limit == Signum(p.side) * (tp.bars[i].c - p.entry) > 0
        fill == IF limit THEN FillAt(p.entry, tp.bars, i) ELSE i
        entry == IF limit THEN p.entry ELSE tp.bars[i].c
        t == Ticket(p.side, entry, p.stop, Targeted("coup", p.side, entry, p.stop, p.target))
        e == FleetExit(t, tp.bars, fill + 1)
    IN  IF ~Signals(tp, i) \/ fill = 0 \/ entry = p.stop \/ e = NoExit THEN NoTrade
        ELSE Trade(i, fill, fill + 1, t, e)
FleetUntil(t, n) ==
    LET base == IF t.at = t.sig THEN t.sig ELSE t.sig + 1
    IN  Smaller(base + t.exit.at - t.at, n)
StructureOf(i) == i \div PerBar
FleetStep(tp, acc, i) ==
    IF StructureOf(i) \in {0, acc.last} \/ i <= acc.until THEN acc
    ELSE LET t == FleetTrade(tp, i)
         IN  IF t = NoTrade THEN [acc EXCEPT !.last = StructureOf(i)]
             ELSE [trades |-> Append(acc.trades, t), until |-> FleetUntil(t, Len(tp.bars)),
                   last |-> StructureOf(i)]
FleetRun(tp) ==
    FoldLeft(LAMBDA acc, i : FleetStep(tp, acc, i), [trades |-> <<>>, until |-> 0, last |-> 0],
             [i \in 1..Larger(0, Len(tp.bars) - 2) |-> i]).trades

\* congress_vp_study: a limit on a pullback; the loop goes on after the fill.
CongressTrade(tp, i) ==
    LET p == tp.plan
        t == Ticket(p.side, p.entry, p.stop, AwayFrom(p.side, p.entry, Rr * Abs(p.entry - p.stop)))
        fill == FillAt(p.entry, tp.bars, i)
    IN  IF ~Signals(tp, i) \/ Signum(p.side) * (tp.bars[i].c - p.entry) <= 0 \/ fill = 0
        THEN NoTrade
        ELSE Trade(i, fill, fill, t, CongressExit(t, tp.bars, fill))
CongressRun(tp) ==
    Loop(1, Len(tp.bars) - Hold - 1, LAMBDA i : CongressTrade(tp, i), LAMBDA t : t.at)

-----------------------------------------------------------------------------
(* The studies: what a bar's future is labelled with *)
Window(bars, at) == (at + 1)..Smaller(at + Hold, Len(bars))
StopBar(t, bars, at) ==
    LET hits == {k \in Window(bars, at) : Stopped(t, bars[k])}
    IN  IF hits = {} THEN 0 ELSE Min(hits)
\* cvd_sweep_study: a target counts if it is reached before the bar of the stop.
CvdOutcome(t, second, bars, at) ==
    LET stop == StopBar(t, bars, at)
        seen == {k \in Window(bars, at) : stop = 0 \/ k < stop}
    IN  IF \E k \in seen : Reached([t EXCEPT !.target = second], bars[k]) THEN "T2"
        ELSE IF \E k \in seen : Reached(t, bars[k]) THEN "T1"
        ELSE IF stop # 0 THEN "SL" ELSE "TIME"
\* hvn2hvn_study: the stop overrides whatever was reached; a divergence against the trade
\* after the first target ends the walk.
HvnOutcome(t, second, bars, at) ==
    LET to == [t EXCEPT !.target = second]
        stop == StopBar(t, bars, at)
        live == {k \in Window(bars, at) : stop = 0 \/ k < stop}
        early == {k \in live : /\ bars[k].anchor = OtherWay(t.side)
                               /\ \E j \in live : j <= k /\ Reached(t, bars[j])
                               /\ \A j \in live : j <= k => ~Reached(to, bars[j])}
        seen == {k \in live : early = {} \/ k <= Min(early)}
    IN  IF stop # 0 /\ early = {} THEN "SL"
        ELSE IF \E k \in seen : Reached(to, bars[k]) THEN "T2"
        ELSE IF early # {} THEN "EARLY"
        ELSE IF \E k \in seen : Reached(t, bars[k]) THEN "T1" ELSE "TIME"

\* How far the bars of a window went for and against the ticket
\* (eqhl_anchor_study, stacked_edge_scan, analyze_since_restart).
MostFor(t, b) == IF t.side = "long" THEN b.h - t.entry ELSE t.entry - b.l
MostAgainst(t, b) == IF t.side = "long" THEN t.entry - b.l ELSE b.h - t.entry
Mfe(t, bars, at) == Max({0} \cup {MostFor(t, bars[k]) : k \in Window(bars, at)})
Mae(t, bars, at) == Max({0} \cup {MostAgainst(t, bars[k]) : k \in Window(bars, at)})
\* The 1:1 scalp: a bar that reaches both distances is a hit.
ScalpHit(t, bars, at, distance) ==
    LET ends == {k \in Window(bars, at) :
                    MostFor(t, bars[k]) >= distance \/ MostAgainst(t, bars[k]) >= distance}
    IN  IF ends = {} THEN "none"
        ELSE IF MostFor(t, bars[Min(ends)]) >= distance THEN "tgt" ELSE "stop"
\* What the report since a restart says was touched between open and close.
ReplayTouched(t, bars, first, last) ==
    [tp |-> \E k \in first..last : Reached(t, bars[k]),
     sl |-> \E k \in first..last : Stopped(t, bars[k])]

-----------------------------------------------------------------------------
(* partial_tp_test: a position in parts, each with a target of its own *)
Part(weight, target) == [weight |-> weight, target |-> target]
TrancheBar(t, w, b, beAfter) ==
    IF Stopped([t EXCEPT !.stop = w.stop], b)
    THEN [left |-> <<>>, stop |-> w.stop,
          booked |-> w.booked \o [i \in DOMAIN w.left |-> Part(w.left[i].weight, w.stop)]]
    ELSE LET hit == SelectSeq(w.left, LAMBDA p : Reached([t EXCEPT !.target = p.target], b))
             left == SelectSeq(w.left, LAMBDA p : ~Reached([t EXCEPT !.target = p.target], b))
         IN  [left |-> left, booked |-> w.booked \o hit,
              stop |-> IF Len(w.booked \o hit) >= beAfter THEN t.entry ELSE w.stop]
WalkTranches(t, parts, beAfter, bars, first) ==
    LET w == FoldLeft(LAMBDA acc, b : TrancheBar(t, acc, b, beAfter),
                      [left |-> parts, booked |-> <<>>, stop |-> t.stop],
                      SubSeq(bars, first, Len(bars)))
        out == IF first > Len(bars) THEN t.entry ELSE bars[Len(bars)].c
    IN  w.booked \o [i \in DOMAIN w.left |-> Part(w.left[i].weight, out)]
Summed(t, booked) ==
    FoldLeft(LAMBDA sum, p : sum + p.weight * Gain(t, p.target), 0, booked)

-----------------------------------------------------------------------------
(* grid_sim: a cycle of averaging legs, and the policies that book a bounce *)
LotsOf(filled) == FoldLeft(LAMBDA sum, f : sum + f.lots, 0, filled)
CostOf(filled) == FoldLeft(LAMBDA sum, f : sum + f.lots * f.price, 0, filled)
LegAt(side, anchor, n) == anchor - Signum(side) * (n - 1) * Grid.step
SimLegs(side, anchor) ==
    [n \in DOMAIN Grid.lots |-> [price |-> LegAt(side, anchor, n), lots |-> Grid.lots[n]]]
TradesTo(side, b, price) == IF side = "long" THEN b.l <= price ELSE b.h >= price
\* Legs fill in order while the bar reaches them.
Fills(side, anchor, s, b) ==
    LET legs == SimLegs(side, anchor)
        through == {m \in (s.next + 1)..Len(legs) :
                       \A k \in (s.next + 1)..m : TradesTo(side, b, legs[k].price)}
        n == s.next + Cardinality(through)
    IN  [s EXCEPT !.filled = @ \o SubSeq(legs, s.next + 1, n), !.next = n,
                  !.peak = Larger(@, LotsOf(s.filled \o SubSeq(legs, s.next + 1, n)))]
GridStart(side, anchor) ==
    [filled |-> <<[price |-> anchor, lots |-> Grid.lots[1]]>>, next |-> 1, booked |-> 0,
     taken |-> 0, scaled |-> 0, peak |-> Grid.lots[1], against |-> 0,
     sl |-> LegAt(side, anchor, Len(Grid.lots)) - Signum(side) * Grid.stop,
     end |-> [why |-> "none"]]
Profit(side, filled, price) == Signum(side) * (price * LotsOf(filled) - CostOf(filled))

\* On the first bounce of an averaged position: half of every leg, or all but the nearest
\* two, whose stop moves to their average.
ScalesOut(side, mode, s, b) ==
    /\ s.scaled = 0 /\ Len(s.filled) >= 2
    /\ Profit(side, s.filled, b.c) > Grid.bounce * LotsOf(s.filled)
    /\ mode = "conservative" \/ (mode = "aggressive" /\ Len(s.filled) > 2)
Halved(filled) == [i \in DOMAIN filled |-> [filled[i] EXCEPT !.lots = @ \div 2]]
Kept(mode, filled) == IF mode = "conservative" THEN Halved(filled) ELSE SubSeq(filled, 1, 2)
Sold(mode, filled) ==
    IF mode = "conservative" THEN Halved(filled) ELSE SubSeq(filled, 3, Len(filled))
ScaledOut(side, mode, s, price, k) ==
    LET kept == Kept(mode, s.filled)
    IN  [s EXCEPT !.booked = Profit(side, Sold(mode, s.filled), price), !.scaled = k,
                  !.taken = LotsOf(Sold(mode, s.filled)), !.filled = kept,
                  !.sl = IF mode = "aggressive" THEN CostOf(kept) \div LotsOf(kept) ELSE @]

\* The R of a cycle is its price by lots, shared by the lots held before the bar's own
\* scale-out and those booked: a bar that does both counts some twice.
Closes(side, s, why, k, price, lots) ==
    [s EXCEPT !.end = [why |-> why, at |-> k, lots |-> lots + s.taken,
                       r |-> s.booked + Profit(side, s.filled, price)]]
\* What ends the cycle: the stop before a scale-out of the bar, the rest after it.
GridEnds(side, anchor, mode, f, g, b, k) ==
    LET target == anchor + Signum(side) * Grid.target
        away == /\ f.next = Len(Grid.lots)
                /\ Signum(side) * (LegAt(side, anchor, f.next) - b.c) > Grid.escape
        run == IF away THEN f.against + 1 ELSE 0
    IN  IF TradesTo(side, b, f.sl)
        THEN Closes(side, f, IF mode = "aggressive" /\ f.scaled > 0 THEN "be" ELSE "sl",
                    k, f.sl, LotsOf(f.filled))
        ELSE IF Profit(side, f.filled, target) > 0 /\ TradesTo(OtherWay(side), b, target)
        THEN Closes(side, g, "tp", k, target, LotsOf(f.filled))
        ELSE IF run >= Grid.escapeBars THEN Closes(side, g, "escape", k, b.c, LotsOf(f.filled))
        ELSE [g EXCEPT !.against = run]
GridFilled(side, anchor, mode, f, b, k) ==
    GridEnds(side, anchor, mode, f,
             IF ScalesOut(side, mode, f, b) THEN ScaledOut(side, mode, f, b.c, k) ELSE f, b, k)
GridBar(side, anchor, mode, s, b, k) ==
    IF s.end.why # "none" THEN s
    ELSE GridFilled(side, anchor, mode, Fills(side, anchor, s, b), b, k)
TimedOut(side, bars, s) ==
    IF s.end.why # "none" THEN s
    ELSE Closes(side, s, "timeout", Len(bars), bars[Len(bars)].c, LotsOf(s.filled))
SimulateGrid(side, mode, bars, at) ==
    TimedOut(side, bars,
             FoldLeft(LAMBDA acc, k : GridBar(side, bars[at].c, mode, acc, bars[k], k),
                      GridStart(side, bars[at].c),
                      [i \in 1..(Len(bars) - at + 1) |-> at + i - 1]))

-----------------------------------------------------------------------------
\* One tape is judged at a time.
NoTape == [bars |-> <<>>, plan |-> Ticket("long", 0, 0, 0), signals |-> {}]
WalkInit == tape = NoTape
WalkNext == IF tape = NoTape THEN tape' \in Tapes ELSE tape' = NoTape

-----------------------------------------------------------------------------
(* Properties *)
Seqs(run) == {run[n] : n \in DOMAIN run}
Replays == {ReplayRun(name, tape) : name \in {"democracy", "republic", "coup"}}
\* The programs that hold one trade at a time.
OneAtATime ==
    Replays \cup {CoupRun(limit, tape) : limit \in BOOLEAN}
    \cup {PatternRun(tape), ChochRun(tape), WaveRun(tape), FadeRun(tape)}
Made ==
    UNION {Seqs(run) : run \in OneAtATime \cup {PatternLimitRun(tape), FleetRun(tape)}}
    \cup RulesRun(TRUE, tape) \cup RulesRun(FALSE, tape) \cup ClaudeRun(tape)
\* A ticket at the close of each bar.
Tickets ==
    {[at |-> i, t |-> Ticket(tape.plan.side, tape.bars[i].c, tape.plan.stop, tape.plan.target)] :
        i \in tape.signals \cap DOMAIN tape.bars}

\* Every way the prices of the bars may have gone, the low or the high first.
PathOf(bars, lowFirst, first, last) ==
    FlattenSeq([i \in 1..Larger(0, last - first + 1) |->
                   LET b == bars[first + i - 1]
                   IN  IF lowFirst[first + i - 1] THEN <<b.l, b.h>> ELSE <<b.h, b.l>>])
Point(p) == [h |-> p, l |-> p]
PathGain(t, path, closing) ==
    LET hits == {k \in DOMAIN path : Touches(t, Point(path[k]))}
    IN  IF hits = {} THEN Gain(t, closing)
        ELSE Gain(t, IF Stopped(t, Point(path[Min(hits)])) THEN t.stop ELSE t.target)
WorstOf(first, last, GainOn(_)) ==
    LET end == Smaller(last, Len(tape.bars))
    IN  Min({GainOn(PathOf(tape.bars, lowFirst, first, end)) :
                lowFirst \in [first..end -> BOOLEAN]})

\* "15m resolution can't order SL vs TP inside one bar -> SL assumed first (worst case)"
\* (strategy_replay.py:12, coup_backtest.py:16): what a program books is the least that
\* any order of the highs and lows of the bars it walked would have made.
WorstCase ==
    \A tr \in {x \in Made : x.exit.why # "flip"} :
        LET last == Smaller(tr.from + Hold - 1, Len(tape.bars))
        IN  Gain(tr.t, tr.exit.price)
                = WorstOf(tr.from, last, LAMBDA path : PathGain(tr.t, path, tr.exit.price))

\* So do the studies that close at their horizon (congress_vp_study, ab_analysis,
\* eqhl_anchor_study).
HorizonWorst ==
    /\ \A tr \in Seqs(CongressRun(tape)) :
          Gain(tr.t, tr.exit.price) =
              WorstOf(tr.from, tr.from + Hold, LAMBDA path : PathGain(tr.t, path, tr.exit.price))
    /\ \A k \in Tickets :
          LET last == Smaller(k.at + Hold, Len(tape.bars))
              e == SignalExit(k.t, tape.bars, k.at)
          IN  Gain(k.t, e.price) =
                  WorstOf(k.at + 1, last, LAMBDA path : PathGain(k.t, path, tape.bars[last].c))

\* "SL checked first each bar (pessimistic)" (partial_tp_test.py:31): with the stop left
\* alone, the parts together make the least that any order would; with the stop moved to
\* the entry, each part is still booked once.
PartsOf(t) == <<Part(1, t.target), Part(2, t.target + (t.target - t.entry) \div 2)>>
TrancheWorst ==
    \A k \in Tickets :
        LET n == Len(tape.bars)
            parts == PartsOf(k.t)
            whole(path) ==
                FoldLeft(LAMBDA sum, p :
                             sum + p.weight * PathGain([k.t EXCEPT !.target = p.target], path,
                                                       tape.bars[n].c), 0, parts)
        IN  /\ Summed(k.t, WalkTranches(k.t, parts, 9, tape.bars, k.at + 1))
                   = WorstOf(k.at + 1, n, whole)
            /\ LET booked == WalkTranches(k.t, parts, 1, tape.bars, k.at + 1)
               IN  FoldLeft(LAMBDA sum, p : sum + p.weight, 0, booked) = 3

\* The labels of the studies follow the first touch: cvd_sweep_study counts a target when
\* the first touch is one, hvn2hvn_study only then; a ticket makes no more than the window
\* went for it and loses no more than it went against it; what the first touch hit, the
\* replay of a decision reports as touched; and an anchor policy only ends a trade sooner.
StudiesFollow ==
    \A k \in Tickets :
        LET e == SignalExit(k.t, tape.bars, k.at)
            second == k.t.target + (k.t.target - k.t.entry)
            hvn == HvnOutcome(k.t, second, tape.bars, k.at)
            touched == ReplayTouched(k.t, tape.bars, k.at + 1, Smaller(k.at + Hold, Len(tape.bars)))
        IN  /\ (CvdOutcome(k.t, second, tape.bars, k.at) \in {"T1", "T2"}) <=> e.why = "tp"
            /\ hvn \in {"T1", "T2", "EARLY"} => e.why = "tp"
            /\ Gain(k.t, e.price) <= Mfe(k.t, tape.bars, k.at)
            /\ Gain(k.t, e.price) >= -Mae(k.t, tape.bars, k.at)
            /\ e.why \in {"sl", "tp"} => touched[e.why]
            /\ e.why = "time" => ~touched.sl /\ ~touched.tp
            /\ \A policy \in {"break_against", "opp_anchor"} :
                  \A a \in {AnchorExit(policy, k.t, tape.bars, k.at)} :
                     /\ a.at <= e.at
                     /\ a.why \in {"sl", "tp"} => a = e
                     /\ a.at = e.at => Gain(k.t, a.price) = Gain(k.t, e.price)

\* A cycle's R is shared by the lots it ever held, unless the bar that ends it also scales
\* out; the lots it holds at once are never more than without the policy.
BookingModes == {"off", "conservative", "aggressive"}
\* The cycles from the first bar on, one for each policy.
Cycles(side) == [mode \in BookingModes |-> SimulateGrid(side, mode, tape.bars, 1)]
Shares(s, side, anchor) ==
    s.end.at # s.scaled => s.end.lots = LotsOf(SubSeq(SimLegs(side, anchor), 1, s.next))
LotsBalance ==
    tape # NoTape =>
        \A side \in {"long", "short"} : \A run \in {Cycles(side)} : \A mode \in BookingModes :
            Shares(run[mode], side, tape.bars[1].c) /\ run[mode].peak <= run["off"].peak

\* "one open trade at a time" (strategy_replay.py:18, coup_backtest.py:10,
\* reversal_pattern_backtest.py, reversal_choch_backtest.py): the next trade fills after
\* the last one has ended.
TradesApart ==
    \A run \in OneAtATime : \A n \in 1..(Len(run) - 1) : run[n + 1].at > run[n].exit.at

\* "no future leak" (strategy_replay.py:5): a trade that ended within the first bars is
\* a trade of every longer replay, bar by bar the same.
Ended(trades) == {tr \in trades : tr.exit.why \in {"sl", "tp", "hold"}}
NoFutureLeak ==
    \A m \in 1..Len(tape.bars) :
        LET cut == [tape EXCEPT !.bars = SubSeq(tape.bars, 1, m)]
        IN  /\ \A name \in {"democracy", "republic", "coup"} :
                   Ended(Seqs(ReplayRun(name, cut))) \subseteq Seqs(ReplayRun(name, tape))
            /\ Ended(Seqs(FadeRun(cut))) \subseteq Seqs(FadeRun(tape))
            /\ Ended(Seqs(FleetRun(cut))) \subseteq Seqs(FleetRun(tape))

\* "a single HTF signal -> one LTF-timed entry" (dryrun_fleet.py:208).
OneEntryAStructure ==
    \A run \in {FleetRun(tape)} :
        \A m, n \in DOMAIN run : StructureOf(run[m].sig) = StructureOf(run[n].sig) => m = n

\* coup "filled only if a later bar trades through it (mirrors range mode)"
\* (strategy_replay.py:16): without a target of their own, the coup trades that end in the
\* replay are trades of the sweep with limits and no flips, and those of the sweep are
\* trades of the unblocked rules.
CoupMirrored ==
    LET calm == [tape EXCEPT !.plan.target = tape.plan.entry,
                             !.bars = [k \in DOMAIN tape.bars |->
                                          [tape.bars[k] EXCEPT !.absorbed = ""]]]
    IN  /\ Ended(Seqs(ReplayRun("coup", calm))) \subseteq Seqs(CoupRun(TRUE, calm))
        /\ Seqs(CoupRun(TRUE, tape)) \subseteq RulesRun(TRUE, tape)

\* Booking half of a bounce changes the size of a cycle, never when or why it ends.
SameEnd(half, off) ==
    half.end.why = off.end.why /\ half.end.at = off.end.at /\ half.next = off.next
PartialEndsAlike ==
    tape # NoTape =>
        \A side \in {"long", "short"} : \A run \in {Cycles(side)} :
            SameEnd(run["conservative"], run["off"])
=============================================================================
