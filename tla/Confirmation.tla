----------------------------- MODULE Confirmation -----------------------------
(***************************************************************************)
(* The three patterns that confirm an entry                                 *)
(* (pipeline/features/confirmation.py).  Each adds up the weights of the    *)
(* conditions it finds and fires from 0.60 on; absorption and exhaustion    *)
(* become the confirmation vote of the direction (Direction), continuation  *)
(* has no caller.                                                           *)
(*                                                                          *)
(* The evidence is the last bar's footprint with what the other features    *)
(* found; prices are rungs of that footprint, weights hundredths.           *)
(***************************************************************************)
EXTENDS Footprint

CONSTANTS
    Threshold,   \* CONFIRMATION_THRESHOLD (60)
    FarAtr,      \* ATRs from the point of control that are an extension
    Evidence     \* the evidence looked at

VARIABLE evidence

NoEvidence == [f |-> <<>>]
ConfirmInit == evidence = NoEvidence
ConfirmNext == IF evidence = NoEvidence THEN evidence' \in Evidence ELSE evidence' = NoEvidence
ConfirmSpec == ConfirmInit /\ [][ConfirmNext]_evidence

-----------------------------------------------------------------------------
\* A pattern from its weighted conditions: [side, total, met, fired].
Worth(cond, weight) == IF cond THEN <<weight>> ELSE <<>>
Summed100(weights) == FoldLeft(LAMBDA sum, w : sum + w, 0, weights)
Suffices(weights) == Summed100(weights) >= Threshold
Pattern(side, weights) ==
    [side |-> side, total |-> Summed100(weights), met |-> Len(weights), fired |-> Suffices(weights)]
NotSeen == [side |-> "neutral", total |-> 0, met |-> 0, fired |-> FALSE]

Apart(x, y) == IF x > y THEN x - y ELSE y - x
Close(e) == e.f.c
ImbOf(e) == Imbalances(e.f)
\* The stacks of a side, as the sets of their prices.
StacksOf(e, side) ==
    {{ImbOf(e)[i].price : i \in ToSet(s)} :
        s \in {x \in ToSet(Stacks(e.f)) : ImbOf(e)[x[1]].side = side}}

-----------------------------------------------------------------------------
(* Absorption: the winner already dominates the extreme the bar turned from *)
FadeSide(f) ==
    IF Bear(f) /\ Dominates(f.bid, f.ask, Upper(f)) THEN "short"
    ELSE IF Bull(f) /\ Dominates(f.ask, f.bid, Lower(f)) THEN "long" ELSE "neutral"

Compressed(e) == 10 * Span(e.f) < 7 * e.usual
AtLevel(e) == e.atr > 0 /\ \E level \in e.levels : 10 * Apart(Close(e), level) <= 3 * e.atr
AbsorbedNear(e) ==
    \E p \in e.trades : p.outcome = "absorbed"
        /\ 2 * Apart(p.price, Close(e)) <= IF e.atr > 0 THEN e.atr ELSE 1
StackConfirms(e) ==
    IF FadeSide(e.f) = "short" THEN \E prices \in StacksOf(e, "sell") : Max(prices) \in Upper(e.f)
    ELSE \E prices \in StacksOf(e, "buy") : Min(prices) \in Lower(e.f)

AbsorptionPattern(e) ==
    IF FadeSide(e.f) = "neutral" THEN NotSeen
    ELSE Pattern(FadeSide(e.f), <<30>> \o Worth(Compressed(e), 15) \o Worth(AtLevel(e), 20)
                                    \o Worth(AbsorbedNear(e), 20) \o Worth(StackConfirms(e), 15))

-----------------------------------------------------------------------------
(* Exhaustion: far from the point of control.  poc and area are sets of at  *)
(* most one member.                                                         *)
CounterSide(e) ==
    IF e.poc = {} THEN "neutral" ELSE IF \E p \in e.poc : Close(e) > p THEN "short" ELSE "long"
Extended(e) == \E p \in e.poc : Apart(Close(e), p) >= FarAtr * e.atr
ReversalPatterns ==
    {"divergence_bear", "divergence_bull", "hidden_buying", "hidden_selling", "wick_trap"}
\* The sides that won an absorption in the last five bars, this one among them.
WonLately(e) == e.won \cup {r.side : r \in Canonical(e.f, "momentum")}
WonAgainst(e) ==
    \/ CounterSide(e) = "short" /\ "buy" \in WonLately(e)
    \/ CounterSide(e) = "long" /\ "sell" \in WonLately(e)
NearArea(e) ==
    \E area \in e.area : 2 * Min({Apart(Close(e), area.vah), Apart(Close(e), area.val)}) < e.atr

ExhaustionScore(e) ==
    Worth(Extended(e), 25) \o Worth(e.cvd \in ReversalPatterns, 25) \o Worth(WonAgainst(e), 20)
        \o Worth(\E p \in e.trades : p.outcome = "exhausted", 20) \o Worth(NearArea(e), 10)
ExhaustionPattern(e) ==
    IF e.atr = 0 THEN NotSeen
    ELSE Pattern(IF Suffices(ExhaustionScore(e)) THEN CounterSide(e) ELSE "neutral",
                 ExhaustionScore(e))

-----------------------------------------------------------------------------
(* Continuation, asked for a side                                           *)
TakerOf(side) == IF side = "long" THEN "buy" ELSE "sell"
TrendDay(side) == IF side = "long" THEN "trend_up" ELSE "trend_down"
Sign2(side) == IF side = "long" THEN "bull" ELSE "bear"
MomentumPatterns(side) ==
    IF side = "long" THEN {"breakout_long", "reclaim", "hidden_buying"}
    ELSE {"breakout_short", "wick_trap", "hidden_selling"}
\* The stacks of the last five bars: those of the four before are counted in the evidence.
StackCount(e, taker) ==
    e.stacked[taker] + Cardinality({s \in ToSet(Stacks(e.f)) : ImbOf(e)[s[1]].side = taker})
ContinuationScore(e, side) ==
    Worth(StackCount(e, TakerOf(side)) >= 2, 10) \o Worth(e.cvd \in MomentumPatterns(side), 25)
        \o Worth(Sign2(side) \in e.gaps, 15)
        \o Worth(\E p \in e.trades : p.outcome = "pushed" /\ p.thin /\ p.by = TakerOf(side), 20)
        \o Worth(e.day = TrendDay(side), 10) \o Worth(Sign2(side) \in e.defended, 20)
ContinuationPattern(e, side) ==
    Pattern(IF Suffices(ContinuationScore(e, side)) THEN side ELSE "neutral",
            ContinuationScore(e, side))

-----------------------------------------------------------------------------
(* Properties *)
Seen(P(_)) == evidence # NoEvidence => P(evidence)
Both == {"long", "short"}
PatternsOn(e) ==
    {AbsorptionPattern(e), ExhaustionPattern(e)} \cup {ContinuationPattern(e, s) : s \in Both}

\* _confirmation_vote takes every fired pattern that is not long for a short: a pattern that
\* fires has a side, also when the profile has no point of control, and it rests on at least
\* three conditions, so that no two readings confirm an entry.
FiredHasGrounds ==
    Seen(LAMBDA e : \A p \in PatternsOn(e) : p.fired => p.side \in Both /\ p.met >= 3)

\* The rule for an absorbed bar is written twice, here and in absorption.py: both name the
\* same side (that of the momentum reading, although the text here says canonical).
FadeIsMomentum ==
    Seen(LAMBDA e :
        /\ FadeSide(e.f) = "short" <=> \E r \in Canonical(e.f, "momentum") : r.side = "sell"
        /\ FadeSide(e.f) = "long" <=> \E r \in Canonical(e.f, "momentum") : r.side = "buy")

\* Turned upside down, buyers for sellers.
FadeOver(side) == CASE side = "long" -> "short" [] side = "short" -> "long" [] OTHER -> side
PriceOver(e, p) == Highest(e.f) + 1 - p
SidesOver(sides) == {Other(s) : s \in sides}
SignsOver(signs) == {IF s = "bull" THEN "bear" ELSE "bull" : s \in signs}
CvdOver(p) ==
    CASE p = "breakout_long" -> "breakout_short" [] p = "breakout_short" -> "breakout_long"
      [] p = "hidden_buying" -> "hidden_selling" [] p = "hidden_selling" -> "hidden_buying"
      [] p = "divergence_bear" -> "divergence_bull" [] p = "divergence_bull" -> "divergence_bear"
      [] OTHER -> p
DayOver(d) == CASE d = "trend_up" -> "trend_down" [] d = "trend_down" -> "trend_up" [] OTHER -> d
EvidenceOver(e) ==
    [e EXCEPT !.f = Overturned(@), !.levels = {PriceOver(e, p) : p \in @},
              !.trades = {[t EXCEPT !.price = PriceOver(e, @), !.by = Other(@)] : t \in @},
              !.poc = {PriceOver(e, p) : p \in @}, !.cvd = CvdOver(@),
              !.area = {[vah |-> PriceOver(e, a.val), val |-> PriceOver(e, a.vah)] : a \in @},
              !.won = SidesOver(@), !.gaps = SignsOver(@), !.defended = SignsOver(@),
              !.stacked = [taker \in {"buy", "sell"} |-> @[Other(taker)]], !.day = DayOver(@)]
PatternOver(p) == [p EXCEPT !.side = FadeOver(@)]
WholeLots(f) == \A i \in Rungs(f) : f.bid[i] \notin 1..(Lot - 1) /\ f.ask[i] \notin 1..(Lot - 1)

\* No pattern prefers a side, for volumes of whole lots: exhaustion but for a close on the
\* point of control, which counts as below; continuation but for the reclaim, which only longs
\* have, and the wick trap, which counts for shorts whatever its side.
PatternsMirror ==
    Seen(LAMBDA e :
        LET over == EvidenceOver(e)
        IN  WholeLots(e.f) =>
            /\ AbsorptionPattern(over) = PatternOver(AbsorptionPattern(e))
            /\ Close(e) \notin e.poc => ExhaustionPattern(over) = PatternOver(ExhaustionPattern(e))
            /\ e.cvd \notin {"reclaim", "wick_trap"} =>
                  \A s \in Both :
                      ContinuationPattern(over, FadeOver(s)) = PatternOver(ContinuationPattern(e, s)))
===============================================================================
