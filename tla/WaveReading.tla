----------------------------- MODULE WaveReading -----------------------------
(***************************************************************************)
(* What pipeline/features/wave.py reads from one chart: pivots, the leg,    *)
(* its phase and levels, and the count of waves.  A behaviour reads one     *)
(* chart, then another.                                                     *)
(***************************************************************************)
EXTENDS Structure

CONSTANTS Charts,      \* the charts read
          SwingHalf,   \* WAVE_SWING_HALF
          LeastSwing   \* 0.1 % of the price

VARIABLE chart

WaveInit == chart = <<>>
WaveNext == IF chart = <<>> THEN chart' \in Charts ELSE chart' = <<>>
WaveSpec == WaveInit /\ [][WaveNext]_chart

-----------------------------------------------------------------------------
(* Properties *)
\* The alternating pivots alternate, and lose no extreme: the highest high pivot and the
\* lowest low pivot of the chart are among them.
PivotsAlternate ==
    LET all == ToSet(PivotSeq(chart, SwingHalf))
        alt == Alternating(chart, SwingHalf)
        kept == ToSet(alt)
    IN  /\ \A i \in 1..(Len(alt) - 1) : alt[i].side # alt[i + 1].side
        /\ \A p \in all : \E q \in kept : q.side = p.side /\ ~MoreExtreme(p, q)

\* The wave reading has no side: turned upside down, the chart gives the leg the other way,
\* as far retraced, in the same phase, with its levels mirrored and the same target tier.
Roof == 20
ChartTurned == [i \in DOMAIN chart |-> [h |-> Roof - chart[i].l, l |-> Roof - chart[i].h,
                                   c |-> Roof - chart[i].c]]
WaveMirrors ==
    LET a == Leg(chart)
        b == Leg(ChartTurned)
        close == Last(chart).c
    IN  chart # <<>> =>
        /\ Found(a) <=> Found(b)
        /\ Found(a) =>
              /\ a.kind # b.kind /\ a.start = b.start /\ a.end = b.end
              /\ Retraced(a, close) = Retraced(b, Roof - close)
              /\ Phase(Retraced(a, close)) = Phase(Retraced(b, Roof - close))
              /\ TargetTier(a, close) = TargetTier(b, Roof - close)
              /\ \A r \in {236, 618, 786} : RetraceLevel(a, r) + RetraceLevel(b, r) = 1000 * Roof

\* Nor has the wave count, where no bar is a pivot on both sides.
CountMirrors ==
    LET count(bars) == WaveCount(Filtered(Alternating(bars, SwingHalf), LeastSwing))
    IN  Pivots(chart, SwingHalf, "H") \cap Pivots(chart, SwingHalf, "L") = {} =>
            count(chart) = count(ChartTurned)

\* "Build alternating H/L sequence" (wave.py): every wave counted goes from one side to
\* the other.
WavesAlternate ==
    LET seq == Filtered(Alternating(chart, SwingHalf), LeastSwing)
    IN  \A i \in 1..(Len(seq) - 1) : seq[i].side # seq[i + 1].side
=============================================================================
