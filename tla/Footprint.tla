------------------------------- MODULE Footprint -------------------------------
(***************************************************************************)
(* What is read off the footprint of one bar (pipeline/features/imbalance,  *)
(* stacked_imbalance, unfinished_auction, absorption) and off the closes    *)
(* and deltas of a few bars (delta_divergence).  A ladder has prices 1..n;  *)
(* bid is what sellers hit, ask what buyers lifted.  Every side is written  *)
(* out twice in the code; the properties hold the two against each other.   *)
(***************************************************************************)
EXTENDS Integers, Sequences, FiniteSets, FiniteSetsExt, SequencesExt, Functions

CONSTANTS
    Lot,        \* one lot, in the unit of the volumes
    Times3,     \* the ratio of an imbalance (3)
    MinStack,   \* imbalances of a stack
    TopCells,   \* cells of an extreme (n_cells)
    MinCell,    \* volume of a cell that counts at an extreme (min_vol)
    AuctionX,   \* ratio of an unfinished auction (4)
    BandPct,    \* per cent of the range that is the band behind the close (12)
    Footprints, \* the bars looked at: [bid, ask, o, c]
    Paths       \* the series looked at: [close, delta], the last bar the current one

VARIABLE print  \* what is looked at: [kind, of]

Blank == [kind |-> "blank"]
Rungs(f) == DOMAIN f.bid
Highest(f) == Len(f.bid)
CellTotal(f, i) == f.bid[i] + f.ask[i]
BarTotal(f) == SumFunction(f.bid) + SumFunction(f.ask)
Bull(f) == f.c > f.o
Bear(f) == f.c < f.o
BodyTop(f) == Max({f.o, f.c})
BodyLow(f) == Min({f.o, f.c})

-----------------------------------------------------------------------------
(* Diagonal imbalances and stacks *)
BuyAt(f, i) == f.bid[i - 1] > 0 /\ f.ask[i] >= Times3 * f.bid[i - 1]
SellAt(f, i) == f.ask[i] > 0 /\ f.bid[i - 1] >= Times3 * Max({f.ask[i], Lot})
ImbalancesAt(f, i) ==
    (IF BuyAt(f, i) THEN <<[price |-> i, side |-> "buy"]>> ELSE <<>>)
        \o (IF SellAt(f, i) THEN <<[price |-> i - 1, side |-> "sell"]>> ELSE <<>>)
Imbalances(f) == FlattenSeq([k \in 1..(Highest(f) - 1) |-> ImbalancesAt(f, k + 1)])

\* A stack is the run of imbalances at the positions from..to of the list.
Stack(imbs, run) == IF Len(run) >= MinStack THEN <<run>> ELSE <<>>
StackNext(imbs, st, i) ==
    IF st.run # <<>> /\ imbs[i].side = imbs[Last(st.run)].side
    THEN [st EXCEPT !.run = Append(@, i)]
    ELSE [out |-> st.out \o Stack(imbs, st.run), run |-> <<i>>]
Flushed(imbs, st) == st.out \o Stack(imbs, st.run)
Stacks(f) ==
    LET imbs == Imbalances(f)
    IN  Flushed(imbs, FoldLeft(LAMBDA st, i : StackNext(imbs, st, i),
                               [out |-> <<>>, run |-> <<>>], [i \in DOMAIN imbs |-> i]))

-----------------------------------------------------------------------------
(* Unfinished auction *)
Meaning(f) == {i \in Rungs(f) : CellTotal(f, i) >= MinCell}
Top(f) == {i \in Meaning(f) : Cardinality({j \in Meaning(f) : j > i}) < TopCells}
Bottom(f) == {i \in Meaning(f) : Cardinality({j \in Meaning(f) : j < i}) < TopCells}
OneSided(strong, weak, cells) ==
    LET s == SumFunctionOnSet(strong, cells)
    IN  s > 0 /\ AuctionX * SumFunctionOnSet(weak, cells) < s
UpUnfinished(f) == OneSided(f.ask, f.bid, Top(f))
DownUnfinished(f) == OneSided(f.bid, f.ask, Bottom(f))
Unfinished(f) == IF UpUnfinished(f) THEN "up" ELSE IF DownUnfinished(f) THEN "down" ELSE "none"

-----------------------------------------------------------------------------
(* Absorption.  The results are [price, side, trap]; side names the winner. *)
Absorbed(price, side, trap) == [price |-> price, side |-> side, trap |-> trap]
Span(f) == Highest(f) - 1
LongLower(f) == 10 * (BodyLow(f) - 1) >= 3 * Span(f)
LongUpper(f) == 10 * (Highest(f) - BodyTop(f)) >= 3 * Span(f)

\* Much of the volume at the very extreme.
AtExtreme(f) ==
    {Absorbed(1, "buy", LongLower(f)) : i \in {j \in {1} : 10 * CellTotal(f, j) >= 3 * BarTotal(f)}}
        \cup {Absorbed(Highest(f), "sell", LongUpper(f)) :
                 i \in {j \in {Highest(f)} : 10 * CellTotal(f, j) >= 3 * BarTotal(f)}}
Extremes(f) == IF BarTotal(f) = 0 THEN {} ELSE AtExtreme(f)

Heaviest(side) == Min({i \in DOMAIN side : \A j \in DOMAIN side : side[j] <= side[i]})
Clears(f, side) == 5 * side[Heaviest(side)] >= BarTotal(f)
\* The close fails to clear the heaviest level of the aggressor.
CloseFailure(f) ==
    IF BarTotal(f) = 0 THEN {}
    ELSE (IF Clears(f, f.ask) /\ f.c < Heaviest(f.ask)
          THEN {Absorbed(Heaviest(f.ask), "sell", LongUpper(f))} ELSE {})
         \cup (IF Clears(f, f.bid) /\ f.c > Heaviest(f.bid)
               THEN {Absorbed(Heaviest(f.bid), "buy", LongLower(f))} ELSE {})

Upper(f) == {i \in Rungs(f) : 10 * (Highest(f) - i) <= Span(f)}
Lower(f) == {i \in Rungs(f) : 10 * (i - 1) <= Span(f)}
\* The band of the prices the close came from.
BandBelow(f) == {i \in Rungs(f) : i <= f.c /\ 100 * (f.c - i) <= BandPct * Span(f)}
BandAbove(f) == {i \in Rungs(f) : i >= f.c /\ 100 * (i - f.c) <= BandPct * Span(f)}

Dominates(strong, weak, cells) ==
    LET w == SumFunctionOnSet(weak, cells)
    IN  w > 0 /\ 2 * SumFunctionOnSet(strong, cells) >= 3 * w
Leads(strong, weak, cells) ==
    LET s == SumFunctionOnSet(strong, cells)
    IN  s > 0 /\ s >= SumFunctionOnSet(weak, cells)

ReversesDown(f) == Leads(f.ask, f.bid, Upper(f)) /\ Leads(f.bid, f.ask, BandAbove(f))
ReversesUp(f) == Leads(f.bid, f.ask, Lower(f)) /\ Leads(f.ask, f.bid, BandBelow(f))

\* In canonical mode the aggressor dominates the extreme, in momentum mode the winner.
PushedInto(f, mode, strong, weak, cells) ==
    IF mode = "canonical" THEN Dominates(strong, weak, cells) ELSE Dominates(weak, strong, cells)

Canonical(f, mode) ==
    LET down == Bear(f) /\ IF mode = "reversal" THEN ReversesDown(f)
                           ELSE PushedInto(f, mode, f.ask, f.bid, Upper(f))
        up == Bull(f) /\ IF mode = "reversal" THEN ReversesUp(f)
                         ELSE PushedInto(f, mode, f.bid, f.ask, Lower(f))
    IN  (IF down THEN {Absorbed(Highest(f), "sell", LongUpper(f))} ELSE {})
            \cup (IF up THEN {Absorbed(1, "buy", LongLower(f))} ELSE {})
Modes == {"momentum", "canonical", "reversal"}

-----------------------------------------------------------------------------
(* Divergence of the last bar from the bars before it *)
Divergence(p) ==
    LET n == Len(p.close)
        closes == {p.close[i] : i \in 1..(n - 1)}
        deltas == {p.delta[i] : i \in 1..(n - 1)}
    IN  IF p.close[n] > Max(closes) /\ p.delta[n] < Max(deltas) THEN "bearish"
        ELSE IF p.close[n] < Min(closes) /\ p.delta[n] > Min(deltas) THEN "bullish"
        ELSE "none"
\* against_side: the divergence that opposes a position of that side.
Against(p, side) ==
    Divergence(p) # "none" /\ side # (IF Divergence(p) = "bullish" THEN "long" ELSE "short")

-----------------------------------------------------------------------------
Prints == [kind : {"bar"}, of : Footprints] \cup [kind : {"path"}, of : Paths]
PrintInit == print = Blank
PrintNext == IF print = Blank THEN print' \in Prints ELSE print' = Blank
PrintSpec == PrintInit /\ [][PrintNext]_print

-----------------------------------------------------------------------------
(* Properties *)
OfBar(P(_)) == print.kind = "bar" => P(print.of)

\* A diagonal is never bought and sold at once, so that the list of imbalances
\* has one entry a diagonal and its order is the order of the prices.
OneSideADiagonal ==
    /\ print = Blank \/ print \in Prints
    /\ OfBar(LAMBDA f : \A i \in 2..Highest(f) : Len(ImbalancesAt(f, i)) <= 1)

\* The stacks are exactly the longest runs of one side that are long enough, the
\* run that lasts to the top of the bar among them.
StacksAreRuns ==
    OfBar(LAMBDA f :
        LET imbs == Imbalances(f)
            OneRun(a, b) == \A i \in a..b : imbs[i].side = imbs[a].side
            Longest(a, b) ==
                /\ OneRun(a, b)
                /\ a > 1 => imbs[a - 1].side # imbs[a].side
                /\ b < Len(imbs) => imbs[b + 1].side # imbs[a].side
        IN  {<<s[1], Last(s)>> : s \in ToSet(Stacks(f))}
                = {r \in (DOMAIN imbs) \X (DOMAIN imbs) :
                       r[2] >= r[1] + MinStack - 1 /\ Longest(r[1], r[2])})

Overturned(f) ==
    [bid |-> Reverse(f.ask), ask |-> Reverse(f.bid),
     o |-> Highest(f) + 1 - f.o, c |-> Highest(f) + 1 - f.c]
Other(side) == IF side = "buy" THEN "sell" ELSE "buy"
OverturnedIn(f, results) ==
    {Absorbed(Highest(f) + 1 - r.price, Other(r.side), r.trap) : r \in results}

OneHeaviest(side) ==
    Cardinality({i \in DOMAIN side : \A j \in DOMAIN side : side[j] <= side[i]}) = 1

\* A bar turned upside down, buyers for sellers, is absorbed on the other side;
\* by a failed close only when one level is the heaviest, for of two the code
\* names the lower on both sides.
AbsorptionMirrors ==
    OfBar(LAMBDA f :
        /\ \A mode \in Modes :
               Canonical(Overturned(f), mode) = OverturnedIn(f, Canonical(f, mode))
        /\ Extremes(Overturned(f)) = OverturnedIn(f, Extremes(f))
        /\ (OneHeaviest(f.bid) /\ OneHeaviest(f.ask))
               => CloseFailure(Overturned(f)) = OverturnedIn(f, CloseFailure(f)))

\* The textbook reading and the one traded never agree on a bar: switching the
\* mode exchanges the signals, it does not add some.
ModesExclude ==
    OfBar(LAMBDA f : Canonical(f, "canonical") = {} \/ Canonical(f, "momentum") = {})

\* An auction unfinished at one end turns with the bar; of two ends the top is named.
UnfinishedMirrors ==
    OfBar(LAMBDA f :
        /\ Unfinished(f) = "down" => Unfinished(Overturned(f)) = "up"
        /\ Unfinished(f) = "none" => Unfinished(Overturned(f)) = "none")

\* A divergence is against one side at most, and turns with the series.
DivergenceMirrors ==
    print.kind = "path" =>
        LET p == print.of
            turned == [close |-> [i \in DOMAIN p.close |-> -p.close[i]],
                       delta |-> [i \in DOMAIN p.delta |-> -p.delta[i]]]
        IN  /\ ~(Against(p, "long") /\ Against(p, "short"))
            /\ Against(turned, "long") = Against(p, "short")

\* Fails for volumes below one lot: imbalances turn with the bar.
ImbalanceMirrors ==
    OfBar(LAMBDA f : \A i \in 2..Highest(f) :
              SellAt(f, i) = BuyAt(Overturned(f), Highest(f) + 2 - i))
===============================================================================
