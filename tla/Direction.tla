------------------------------- MODULE Direction -------------------------------
(***************************************************************************)
(* execution/direction_engine.py: the rules engine behind /grid_tick and    *)
(* the democracy strategy.  Each detector casts a vote of a direction and a *)
(* weight, the weighted mean is compared with FLAT_THRESHOLD, and its size  *)
(* becomes a bias of 1 to 5.                                                *)
(*                                                                          *)
(* What a detector found is a reading; directions, weights, ratios and      *)
(* confidences are thousandths.  The shape-by-regime multiplier damps the   *)
(* score only while there are fewer than ten bars: with more of them        *)
(* day_type.classify raises on its arguments here, and it stays at 1.       *)
(***************************************************************************)
EXTENDS Integers, FiniteSets, FiniteSetsExt

CONSTANT Readings     \* the combinations of readings tried

ASSUME DirectionAssumption ==
    \A r \in Readings :
        /\ r.cvd \in Int /\ r.gaps.bull \in Nat /\ r.gaps.bear \in Nat
        /\ {r.sweep.conf, r.absorption.conf, r.exhaustion.conf, r.stack.count} \subseteq Nat
        /\ r.unfinished.ratio \in Nat

VARIABLE reading      \* what the detectors find on the bar being decided

Toward0(a, b) == IF a >= 0 THEN a \div b ELSE -((-a) \div b)
Silent == [dir |-> 0, strength |-> 0]
Vote(dir, strength) == [dir |-> dir, strength |-> strength]
Scaled(x, weight) == (x * weight) \div 1000
AtMost(x, cap) == IF x > cap THEN cap ELSE x
Size(x) == IF x < 0 THEN -x ELSE x
Sign(x) == IF x > 0 THEN 1 ELSE IF x < 0 THEN -1 ELSE 0
CastFor(yes, strength) == IF yes THEN Vote(1000, strength) ELSE Vote(-1000, strength)

-----------------------------------------------------------------------------
(* The votes *)
CvdVote(ratio) ==
    IF Size(ratio) < 200 THEN Silent
    ELSE CastFor(ratio > 0, Scaled(AtMost(2 * Size(ratio), 1000), 650))

ShapeVote(shape) ==
    IF shape = "P" THEN Vote(-1000, 800)
    ELSE IF shape = "b" THEN Vote(1000, 800) ELSE Silent

\* Where the close stands: beyond the value area by half a percent, or not.
PositionVote(place) ==
    IF place = "above" THEN Vote(700, 600)
    ELSE IF place = "below" THEN Vote(-700, 600) ELSE Silent

\* Of the last eight gaps, how many are bullish and bearish.
FvgVote(gaps) ==
    LET total == gaps.bull + gaps.bear
        ratio == Toward0(1000 * (gaps.bull - gaps.bear), total)
    IN  IF total < 2 THEN Silent
        ELSE IF Size(ratio) < 150 THEN Silent
        ELSE CastFor(ratio > 0, Scaled(AtMost(Size(ratio), 1000), 800))

\* The regime is "uncertain" here: a half-strength reversal.
SweepVote(sweep) ==
    IF sweep.type = "none" THEN Silent
    ELSE CastFor(sweep.type = "sweep_low", Scaled(sweep.conf, 350))

\* Absorption first, whatever the confidence of the exhaustion beside it.
ConfirmationVote(absorption, exhaustion) ==
    LET cast(p) == CastFor(p.side = "long", Scaled(AtMost(p.conf, 1000), 850))
    IN  IF absorption.fired THEN cast(absorption)
        ELSE IF exhaustion.fired THEN cast(exhaustion) ELSE Silent

\* A column of stacked imbalances near the price, by its length.
StackVote(stack) ==
    IF stack.count = 0 THEN Silent
    ELSE CastFor(stack.side = "buy", Scaled(AtMost((1000 * stack.count) \div 15, 1000), 600))

DivergenceVote(div) == IF div = "none" THEN Silent ELSE CastFor(div = "bullish", 500)
\* A single print at an extreme, by the ratio of its sides.
UnfinishedVote(unfinished) ==
    IF unfinished.side = "none" THEN Silent
    ELSE CastFor(unfinished.side = "up", Scaled(AtMost((1000 * unfinished.ratio) \div 20, 1000), 400))

-----------------------------------------------------------------------------
(* The decision *)
Modules == {"cvd", "vp_shape", "vp_position", "fvg", "sweep", "confirmation", "stacked_imb",
            "delta_div", "unfinished_auction"}
\* collect_votes: each module's vote; a module that abstains or raises is silent.
Votes(r) ==
    [m \in Modules |->
        CASE m = "cvd" -> CvdVote(r.cvd)
          [] m = "vp_shape" -> ShapeVote(r.shape)
          [] m = "vp_position" -> PositionVote(r.place)
          [] m = "fvg" -> FvgVote(r.gaps)
          [] m = "sweep" -> SweepVote(r.sweep)
          [] m = "confirmation" -> ConfirmationVote(r.absorption, r.exhaustion)
          [] m = "stacked_imb" -> StackVote(r.stack)
          [] m = "delta_div" -> DivergenceVote(r.divergence)
          [] m = "unfinished_auction" -> UnfinishedVote(r.unfinished)]

Flat == 350
Weight(votes, S) == MapThenSumSet(LAMBDA m : votes[m].strength, S)
Pull(votes, S) == MapThenSumSet(LAMBDA m : votes[m].dir * votes[m].strength, S)

\* Mutant: the mean is over the modules, not over their weights.
ScorePlain(votes, S) == IF Weight(votes, S) = 0 THEN 0
                        ELSE Toward0(Pull(votes, S), 1000 * Cardinality(Modules))
\* The weighted mean of the votes cast, thousandths.
Score(votes, S) == IF Weight(votes, S) = 0 THEN 0
                   ELSE Toward0(Pull(votes, S), Weight(votes, S))

\* 1 at the threshold, 5 at a full score; half to even, as round does.
Bias(score) ==
    LET x == 4 * (Size(score) - Flat)
        whole == x \div (1000 - Flat)
        rest == 2 * (x % (1000 - Flat))
        up == rest > 1000 - Flat \/ (rest = 1000 - Flat /\ whole % 2 = 1)
    IN  (IF up THEN whole + 1 ELSE whole) + 1

\* _shape_regime_agreement: the regime of fewer than ten bars is "uncertain", which a
\* profile that leans does not agree with.
Multiplier(r) == IF r.young /\ r.shape \in {"P", "b"} THEN 850 ELSE 1000
Damped(score, times) == Toward0(score * times, 1000)

Decision(votes, S, times) ==
    LET score == Damped(Score(votes, S), times)
    IN  IF Size(score) < Flat THEN [side |-> "flat", bias |-> 1]
        ELSE [side |-> IF score > 0 THEN "long" ELSE "short", bias |-> Bias(score)]

\* decide_direction
DecideDirection(r) == Decision(Votes(r), Modules, Multiplier(r))

-----------------------------------------------------------------------------
NoReading == [cvd |-> 0, shape |-> "D", place |-> "inside", gaps |-> [bull |-> 0, bear |-> 0],
              sweep |-> [type |-> "none", conf |-> 0],
              absorption |-> [fired |-> FALSE, side |-> "long", conf |-> 0],
              exhaustion |-> [fired |-> FALSE, side |-> "long", conf |-> 0],
              stack |-> [side |-> "buy", count |-> 0], divergence |-> "none",
              unfinished |-> [side |-> "none", ratio |-> 0], young |-> FALSE]

DirectionInit == reading = NoReading
\* A bar closes, and the detectors read it.
DirectionNext == IF reading = NoReading THEN reading' \in Readings ELSE reading' = NoReading
DirectionSpec == DirectionInit /\ [][DirectionNext]_reading

-----------------------------------------------------------------------------
(* Properties *)
OtherOf(x, a, b) == IF x = a THEN b ELSE IF x = b THEN a ELSE x
\* The same bar with buyers and sellers exchanged.
Mirror(r) ==
    [cvd |-> -r.cvd, shape |-> OtherOf(r.shape, "P", "b"), place |-> OtherOf(r.place, "above", "below"),
     gaps |-> [bull |-> r.gaps.bear, bear |-> r.gaps.bull],
     sweep |-> [r.sweep EXCEPT !.type = OtherOf(@, "sweep_high", "sweep_low")],
     absorption |-> [r.absorption EXCEPT !.side = OtherOf(@, "long", "short")],
     exhaustion |-> [r.exhaustion EXCEPT !.side = OtherOf(@, "long", "short")],
     stack |-> [r.stack EXCEPT !.side = OtherOf(@, "buy", "sell")],
     divergence |-> OtherOf(r.divergence, "bullish", "bearish"),
     unfinished |-> [r.unfinished EXCEPT !.side = OtherOf(@, "up", "down")], young |-> r.young]

\* The engine has no side of its own: the mirror image of a bar gets the mirror image of
\* its decision, through every detector, weight and rounding.
NoSideOfItsOwn ==
    LET d == DecideDirection(reading)
    IN  DecideDirection(Mirror(reading)) = [d EXCEPT !.side = OtherOf(@, "long", "short")]

\* Silencing a detector that voted against the decision never loses or turns it, and never
\* lowers the bias: conviction is monotone in the opposition.
OppositionOnlyWeakens ==
    LET votes == Votes(reading)
        d == DecideDirection(reading)
        against == {m \in Modules : votes[m].strength > 0 /\
                        Sign(votes[m].dir) = (IF d.side = "long" THEN -1 ELSE 1)}
    IN  d.side # "flat" =>
            \A m \in against :
                LET e == Decision(votes, Modules \ {m}, Multiplier(reading))
                IN  e.side = d.side /\ e.bias >= d.bias

\* A unanimous panel is never flat, however few voted and however light their votes.
UnanimityDecides ==
    LET votes == Votes(reading)
        cast == {m \in Modules : votes[m].strength > 0}
    IN  \A way \in {-1, 1} :
            (cast # {} /\ \A m \in cast : Sign(votes[m].dir) = way) =>
                DecideDirection(reading).side = (IF way = 1 THEN "long" ELSE "short")

\* "Fires the stronger of the two confirmed patterns as a vote" (_confirmation_vote).
StrongerPatternVotes ==
    LET a == reading.absorption
        e == reading.exhaustion
    IN  (a.fired /\ e.fired /\ e.conf > a.conf) =>
            Votes(reading)["confirmation"].dir = (IF e.side = "long" THEN 1000 ELSE -1000)
=============================================================================
