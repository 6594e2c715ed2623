---------------------------- MODULE ReadingsProofs ----------------------------
(***************************************************************************)
(* Proofs about what the code reads off a market and plans from it          *)
(* (MCReadings), part by part.                                              *)
(***************************************************************************)
EXTENDS MCReadings, FiniteInduction

(***************************************************************************)
(* A composed strategy is the class it replaces.  Both read the same market *)
(* structure: the refinement maps the two only where they differ, in what   *)
(* they remember and in how they write a limit down.                        *)
(***************************************************************************)
LEMMA SwingsSame == \A bars, n : Legacy!Swings(bars, n) = Swings(bars, n)
  BY DEF Swings, Legacy!Swings, IsHigh, Legacy!IsHigh, IsLow, Legacy!IsLow, Around,
         Legacy!Around, Swing, Legacy!Swing, FlattenSeq, Legacy!FlattenSeq

LEMMA FoundSame == None = Legacy!None /\ \A x : Legacy!Found(x) <=> Found(x)
  BY DEF None, Legacy!None, Found, Legacy!Found

LEMMA ExtremesSame == \A S : Legacy!Max(S) = Max(S) /\ Legacy!Min(S) = Min(S)
  BY DEF Max, Legacy!Max, Min, Legacy!Min

LEMMA EndsSame == \A s : Legacy!Last(s) = Last(s) /\ Legacy!Front(s) = Front(s)
  BY DEF Last, Legacy!Last, Front, Legacy!Front

LEMMA LastSwingSame == \A sw, kind, upTo : Legacy!LastSwing(sw, kind, upTo) = LastSwing(sw, kind, upTo)
  BY DEF LastSwing, Legacy!LastSwing, Max, Legacy!Max, None, Legacy!None

LEMMA TrendSame == \A sw : Legacy!Trend(sw) = Trend(sw)
  BY DEF Trend, Legacy!Trend, TrendOf, Legacy!TrendOf, OfKind, Legacy!OfKind

LEMMA BrokenSame ==
  \A bars, from, kind, guard :
    Legacy!BrokenAt(bars, from, kind, guard) = BrokenAt(bars, from, kind, guard)
  BY DEF BrokenAt, Legacy!BrokenAt, Found, Legacy!Found, None, Legacy!None, Min, Legacy!Min

LEMMA ChochOfSame == \A bars, sw : Legacy!ChochOf(bars, sw) = ChochOf(bars, sw)
  BY TrendSame, BrokenSame, LastSwingSame, EndsSame, FoundSame
     DEF ChochOf, Legacy!ChochOf, ChochIn, Legacy!ChochIn

LEMMA ChochSame == \A bars, n : Legacy!Choch(bars, n) = Choch(bars, n)
  BY SwingsSame, ChochOfSame, FoundSame DEF Choch, Legacy!Choch

LEMMA ImpulseSame ==
  \A bars, event, n : Legacy!ImpulseLeg(bars, event, n) = ImpulseLeg(bars, event, n)
<1>1. \A bars, kind, origin : Legacy!LegFrom(bars, kind, origin) = LegFrom(bars, kind, origin)
  BY DEF LegFrom, Legacy!LegFrom, HighsFrom, Legacy!HighsFrom, LowsFrom, Legacy!LowsFrom,
         Max, Legacy!Max, Min, Legacy!Min, Found, Legacy!Found, None, Legacy!None
<1> QED
  BY <1>1, SwingsSame, LastSwingSame DEF ImpulseLeg, Legacy!ImpulseLeg

LEMMA ContinuationSame ==
  \A bars, n : Legacy!ContinuationLeg(bars, n) = ContinuationLeg(bars, n)
<1>1. \A sw, swing : Legacy!Before(sw, swing) = Before(sw, swing)
  BY LastSwingSame, FoundSame DEF Before, Legacy!Before, OtherEnd, Legacy!OtherEnd
<1>2. \A before, origin, impulse, pull :
        Legacy!LegOf(before, origin, impulse, pull) = LegOf(before, origin, impulse, pull)
  BY DEF LegOf, Legacy!LegOf, Found, Legacy!Found, None, Legacy!None
<1>3. \A sw : Legacy!ContinuationIn(sw) = ContinuationIn(sw)
  BY <1>1, <1>2, EndsSame, FoundSame
     DEF ContinuationIn, Legacy!ContinuationIn, LegEnding, Legacy!LegEnding, LegInto,
         Legacy!LegInto, LegBehind, Legacy!LegBehind
<1> QED
  BY <1>3, SwingsSame DEF ContinuationLeg, Legacy!ContinuationLeg

(***************************************************************************)
(* What the engine keeps, as the class it replaces keeps it.                *)
(***************************************************************************)
AsPend(p) ==
    IF Found(p) THEN [kind |-> "limit", m |-> AsSetup(p.signal), due |-> p.due] ELSE None
AsFills(fills) ==
    [i \in DOMAIN fills |-> [m |-> AsSetup(fills[i].of.signal), due |-> fills[i].of.due,
                             at |-> fills[i].at, life |-> fills[i].life]]
AsActed(acted) == IF cWired = "vote" THEN 0 ELSE acted
Mapped(a) ==
    [seen |-> a.seen, acted |-> AsActed(a.acted), pend |-> AsPend(a.pending),
     open |-> a.open, armed |-> a.armed, fills |-> AsFills(a.fills)]

\* What a class is left with: nothing resting, or one limit.
IdleAt(seen, acted, open) ==
    Legacy!LeftAt(seen, AsActed(acted), None, open, cArmed, AsFills(cFills))
Rests(seen, setup, due) ==
    Legacy!LeftAt(seen, AsActed(cState.acted), Legacy!Resting(setup, due), FALSE,
                  Append(cArmed, [ts |-> setup.ts, life |-> cLife.starts]), AsFills(cFills))

LEMMA WaitingIs == Legacy!Waiting = IdleAt(cState.seen, cState.acted, FALSE)
  BY FoundSame DEF Legacy!Waiting, IdleAt, AsActed, AsFills

LEMMA PendsIs == \A s, due : AsPend(Pends(s, due)) = Legacy!Resting(AsSetup(s), due)
  BY DEF AsPend, Pends, Legacy!Resting, Found, None

LEMMA NoPend == AsPend(None) = None
  BY DEF AsPend, Found, None

LEMMA StoodIs ==
  \A acted, pending, seen, open, armed, fills :
    Mapped(StoodAt(acted, pending, seen, open, armed, fills))
      = Legacy!LeftAt(seen, AsActed(acted), AsPend(pending), open, armed, AsFills(fills))
  BY DEF Mapped, StoodAt, Legacy!LeftAt

LEMMA StoodFlat ==
  \A acted, pending, seen, armed, fills :
    Mapped(StoodAt(acted, pending, seen, FALSE, armed, fills))
      = Legacy!LeftAt(seen, AsActed(acted), AsPend(pending), FALSE, armed, AsFills(fills))
  BY StoodIs, Zenon

LEMMA TakeIs ==
  ASSUME NEW seen, NEW s, NEW bar, NEW opens
  PROVE  LET took == Mapped(Take([seen |-> seen, signal |-> s], bar, opens))
         IN  /\ ~Found(s) => took = IdleAt(seen, cState.acted, FALSE)
             /\ Found(s) /\ s.limit => took = Rests(seen, AsSetup(s), bar.t + LimitLife)
             /\ Found(s) /\ ~s.limit => took = IdleAt(seen, s.dedup, opens)
<1>1. AsSetup(s).ts = s.dedup
  BY DEF AsSetup
<1>2. ~Found(s) =>
        Take([seen |-> seen, signal |-> s], bar, opens)
          = StoodAt(cState.acted, None, seen, FALSE, cArmed, cFills)
  BY DEF Take
<1>3. Found(s) /\ s.limit =>
        Take([seen |-> seen, signal |-> s], bar, opens)
          = StoodAt(cState.acted, Pends(s, bar.t + LimitLife), seen, FALSE,
                    Append(cArmed, [ts |-> s.dedup, life |-> cLife.starts]), cFills)
  BY DEF Take
<1>4. Found(s) /\ ~s.limit =>
        Take([seen |-> seen, signal |-> s], bar, opens)
          = StoodAt(s.dedup, None, seen, opens, cArmed, cFills)
  BY DEF Take, Commit
<1> DEFINE took == Take([seen |-> seen, signal |-> s], bar, opens)
<1> HIDE DEF took
<1>5. ~Found(s) => Mapped(took) = IdleAt(seen, cState.acted, FALSE)
  BY <1>2, StoodFlat, NoPend DEF IdleAt, took
<1>6. Found(s) /\ s.limit => Mapped(took) = Rests(seen, AsSetup(s), bar.t + LimitLife)
  <2> DEFINE armed == Append(cArmed, [ts |-> s.dedup, life |-> cLife.starts])
             due == bar.t + LimitLife
  <2>1. Rests(seen, AsSetup(s), due)
          = Legacy!LeftAt(seen, AsActed(cState.acted), Legacy!Resting(AsSetup(s), due), FALSE,
                          armed, AsFills(cFills))
    BY <1>1 DEF Rests
  <2>2. Found(s) /\ s.limit =>
          took = StoodAt(cState.acted, Pends(s, due), seen, FALSE, armed, cFills)
    BY <1>3 DEF took
  <2> HIDE DEF armed, due
  <2>3. Found(s) /\ s.limit => Mapped(took) = Rests(seen, AsSetup(s), due)
    BY <2>1, <2>2, StoodFlat, PendsIs
  <2> QED
    BY <2>3 DEF due
<1>7. Found(s) /\ ~s.limit => Mapped(took) = IdleAt(seen, s.dedup, opens)
  BY <1>4, StoodIs, NoPend DEF IdleAt, took
<1> QED
  BY <1>5, <1>6, <1>7 DEF took

LEMMA ReadIs ==
  ASSUME NEW read, NEW bars
  PROVE  LET left == Legacy!Read(read, bars)
             bar == Last(bars)
         IN  /\ ~Found(read) \/ read.ts = cState.seen =>
                    left = IdleAt(cState.seen, cState.acted, FALSE)
             /\ Found(read) /\ read.ts # cState.seen /\ Legacy!Sound(read, bars) =>
                    left = Rests(read.setup.ts, read.setup, bar.t + LimitLife)
             /\ Found(read) /\ read.ts # cState.seen /\ ~Legacy!Sound(read, bars) =>
                    left = IdleAt(read.ts, cState.acted, FALSE)
  BY FoundSame, EndsSame
     DEF Legacy!Read, Legacy!Waiting, Legacy!Armed, Legacy!ArmedAt, Legacy!Saw, IdleAt, Rests,
         AsActed, AsFills

\* A limit that would rest, and whose stop, level and target stand in order, is one.
LEMMA SoundSame ==
  ASSUME NEW s, s.long \in BOOLEAN
  PROVE  /\ \A bar : Waits(s, bar.c) <=> Legacy!Pullback(AsSetup(s), bar)
         /\ Ordered(s) <=> Legacy!InOrder(AsSetup(s))
  BY DEF Waits, Ordered, AsSetup, Legacy!Pullback, Legacy!InOrder

LEMMA SignalIs ==
  ASSUME NEW limit, NEW ts, NEW long \in BOOLEAN, NEW level, NEW raw, NEW tp
  PROVE  AsSetup(Signal(limit, ts, long, level, raw, tp))
           = Legacy!Setup(ts, IF long THEN "long" ELSE "short", level, raw, tp)
  BY ExtremesSame DEF AsSetup, Signal, Legacy!Setup, Legacy!StopBeyond

LEMMA LimitIs ==
  ASSUME NEW ts, NEW long \in BOOLEAN, NEW level, NEW raw, NEW tp
  PROVE  AsSetup(Limit(ts, long, level, raw, tp))
           = Legacy!Setup(ts, IF long THEN "long" ELSE "short", level, raw, tp)
  BY ExtremesSame DEF Limit, AsSetup, Signal, Legacy!Setup, Legacy!StopBeyond

\* No signal leaves the engine as a class without a structure, or one it turned down.
LEMMA QuietIs ==
  ASSUME NEW seen, NEW bar, NEW opens
  PROVE  Mapped(Take(Quiet0(seen), bar, opens)) = IdleAt(seen, cState.acted, FALSE)
<1>1. ~Found(None)
  BY DEF Found, None
<1> QED
  BY <1>1, TakeIs DEF Quiet0

\* A limit that is sound rests, any other is only seen.
LEMMA SoundTakes ==
  ASSUME NEW bars, NEW opens, NEW read, NEW s, Found(s), s.limit,
         Found(read), read.ts = s.dedup, read.ts # cState.seen, read.setup = AsSetup(s),
         Legacy!Sound(read, bars) <=> Waits(s, Last(bars).c) /\ Ordered(s)
  PROVE  Mapped(Take([seen |-> s.dedup, signal |-> IfSound(s, bars)], Last(bars), opens))
           = Legacy!Read(read, bars)
<1>1. AsSetup(s).ts = s.dedup
  BY DEF AsSetup
<1>2. CASE Legacy!Sound(read, bars)
  <2>1. IfSound(s, bars) = s
    BY <1>2 DEF IfSound
  <2>2. Legacy!Read(read, bars) = Rests(s.dedup, AsSetup(s), Last(bars).t + LimitLife)
    BY <1>1, <1>2, ReadIs
  <2>3. \A seen, bar :
          Mapped(Take([seen |-> seen, signal |-> s], bar, opens))
            = Rests(seen, AsSetup(s), bar.t + LimitLife)
    BY TakeIs
  <2> QED
    BY <2>1, <2>2, <2>3
<1>3. CASE ~Legacy!Sound(read, bars)
  <2>1. IfSound(s, bars) = None
    BY <1>3 DEF IfSound
  <2>2. Legacy!Read(read, bars) = IdleAt(s.dedup, cState.acted, FALSE)
    BY <1>3, ReadIs
  <2> QED
    BY <2>1, <2>2, QuietIs DEF Quiet0
<1> QED
  BY <1>2, <1>3

(***************************************************************************)
(* The trigger of a change of character.                                    *)
(***************************************************************************)
LEMMA ChochMatches ==
  ASSUME NEW bars, NEW opens
  PROVE  Mapped(Take(ChochFib(bars, cState.seen), Last(bars), opens))
           = Legacy!Read(Legacy!ChochSignal(bars), bars)
<1> DEFINE event == Choch(bars, SwingN)
           leg == ImpulseLeg(bars, event, SwingN)
           ts == bars[event.at].t
           long == event.kind = "bull"
           limit == ChochLimit(ts, leg, long)
           read == Legacy!ChochSignal(bars)
           stale == event.at - 1 < Len(bars) - ArmWithin
           wrong == IF long THEN leg.extreme <= leg.origin ELSE leg.extreme >= leg.origin
           blank == Len(bars) < 2 * SwingN + 6 \/ ~Found(event) \/ ~Found(leg)
<1> SUFFICES Mapped(Take(ChochFib(bars, cState.seen), Last(bars), opens)) = Legacy!Read(read, bars)
  OBVIOUS
<1>1. AsSetup(limit) = Legacy!ChochSetup(bars, event, leg)
  <2> DEFINE span == leg.extreme - leg.origin
             level == 1000 * leg.extreme - Retrace * span
             tp == 1000 * leg.extreme + (Extend - 1000) * span
             way == IF event.kind = "bull" THEN "long" ELSE "short"
  <2>1. limit = Limit(ts, long, level, leg.origin, tp)
    BY DEF ChochLimit
  <2>2. Legacy!ChochSetup(bars, event, leg) = Legacy!Setup(ts, way, level, leg.origin, tp)
    <3>1. Legacy!ChochFibSetup(bars, event, leg) = Legacy!Setup(ts, way, level, leg.origin, tp)
      BY DEF Legacy!ChochFibSetup, Legacy!FibLevel
    <3>2. \A m : ~Legacy!Worthwhile(m, NoTarget(bars, leg), leg.extreme)
      BY DEF Legacy!Worthwhile, NoTarget
    <3> HIDE DEF ts, level, tp, way, event, leg
    <3> QED
      BY <3>1, <3>2 DEF Legacy!ChochSetup
  <2>3. AsSetup(Limit(ts, long, level, leg.origin, tp))
          = Legacy!Setup(ts, way, level, leg.origin, tp)
    <3>1. long \in BOOLEAN /\ way = IF long THEN "long" ELSE "short"
      OBVIOUS
    <3> HIDE DEF level, tp, ts, leg, long, way
    <3> QED
      BY <3>1, LimitIs
  <2> HIDE DEF limit, level, tp, way
  <2> QED
    BY <2>1, <2>2, <2>3
<1>2. /\ blank => ChochFib(bars, cState.seen) = Quiet0(cState.seen)
      /\ ~blank => ChochFib(bars, cState.seen) = ChochBack(bars, cState.seen, event, leg)
  BY DEF ChochFib, ChochBroken, ChochBack
<1>3. /\ blank => ~Found(read)
      /\ ~blank => read = Legacy!ChochRead(bars, event, leg)
  BY ChochSame, ImpulseSame, FoundSame
     DEF Legacy!ChochSignal, Legacy!ChochLeg, Legacy!ChochRead, None, Found
<1> HIDE DEF event, leg, limit, read
<1>4. CASE blank
  <2>1. ~Found(None)
    BY DEF Found, None
  <2>2. Mapped(Take(Quiet0(cState.seen), Last(bars), opens)) = IdleAt(cState.seen, cState.acted, FALSE)
    BY <2>1, TakeIs DEF Quiet0
  <2>3. Legacy!Read(read, bars) = IdleAt(cState.seen, cState.acted, FALSE)
    BY <1>3, <1>4, ReadIs
  <2> QED
    BY <1>2, <1>4, <2>2, <2>3
<1>5. /\ limit.long \in BOOLEAN /\ limit.limit /\ Found(limit) /\ limit.dedup = ts
  BY DEF ChochLimit, Limit, Signal, Found, limit
<1>6. CASE ~blank /\ ts = cState.seen
  <2>1. ChochBack(bars, cState.seen, event, leg) = Quiet0(cState.seen)
    BY <1>6 DEF ChochBack
  <2>2. ~Found(read) \/ read.ts = cState.seen
    BY <1>3, <1>6, FoundSame DEF Legacy!ChochRead, Legacy!Reading, None, Found
  <2> QED
    BY <1>2, <1>6, <2>1, <2>2, QuietIs, ReadIs
<1>7. CASE ~blank /\ ts # cState.seen /\ stale
  <2>1. ChochBack(bars, cState.seen, event, leg) = Quiet0(ts)
    BY <1>7 DEF ChochBack
  <2>2. Found(read) /\ read.ts = ts /\ ~read.fresh
    <3>1. ~Legacy!FreshAt(event.at, bars)
      BY <1>7 DEF Legacy!FreshAt
    <3>2. \E runs, setup : read = Legacy!Reading(event.at, bars, runs, setup)
      BY <1>3, <1>7, <3>1, FoundSame DEF Legacy!ChochRead
    <3>3. \A runs, setup : ~Legacy!Reading(event.at, bars, runs, setup).fresh
      BY <3>1 DEF Legacy!Reading
    <3>4. \A runs, setup : /\ Found(Legacy!Reading(event.at, bars, runs, setup))
                           /\ Legacy!Reading(event.at, bars, runs, setup).ts = ts
      BY DEF Legacy!Reading, Found
    <3> QED
      BY <3>2, <3>3, <3>4
  <2>3. ~Legacy!Sound(read, bars)
    BY <2>2 DEF Legacy!Sound
  <2> QED
    BY <1>2, <1>7, <2>1, <2>2, <2>3, QuietIs, ReadIs
<1>8. CASE ~blank /\ ts # cState.seen /\ ~stale /\ wrong
  <2>1. ChochBack(bars, cState.seen, event, leg) = Quiet0(cState.seen)
    BY <1>8 DEF ChochBack
  <2>2. ~Found(read)
    BY <1>3, <1>8, FoundSame
       DEF Legacy!ChochRead, Legacy!FreshAt, Legacy!Runs, None, Found
  <2> QED
    BY <1>2, <1>8, <2>1, <2>2, QuietIs, ReadIs
<1>9. CASE ~blank /\ ts # cState.seen /\ ~stale /\ ~wrong
  <2>1. ChochBack(bars, cState.seen, event, leg) = [seen |-> ts, signal |-> IfSound(limit, bars)]
    BY <1>9 DEF ChochBack, limit
  <2>2. read = Legacy!Reading(event.at, bars, TRUE, AsSetup(limit))
    BY <1>1, <1>3, <1>9, FoundSame DEF Legacy!ChochRead, Legacy!FreshAt, Legacy!Runs
  <2>3. Found(read) /\ read.ts = ts /\ read.fresh /\ read.setup = AsSetup(limit)
    BY <1>9, <2>2 DEF Legacy!Reading, Legacy!FreshAt, Found
  <2>4. Legacy!Sound(read, bars) <=> Waits(limit, Last(bars).c) /\ Ordered(limit)
    BY <1>5, <2>3, SoundSame, EndsSame DEF Legacy!Sound
  <2> QED
    BY <1>2, <1>5, <1>9, <2>1, <2>3, <2>4, SoundTakes
<1> QED
  BY <1>4, <1>6, <1>7, <1>8, <1>9

(***************************************************************************)
(* The trigger of a continuation.                                           *)
(***************************************************************************)
LEMMA ContinuationKind ==
  \A bars, n : Found(ContinuationLeg(bars, n)) => ContinuationLeg(bars, n).kind \in {"long", "short"}
<1>1. \A before, origin, impulse, pull :
        Found(LegOf(before, origin, impulse, pull)) =>
          LegOf(before, origin, impulse, pull).kind \in {"long", "short"}
  BY DEF LegOf, Found, None
<1>2. \A sw, origin, impulse, pull :
        Found(LegBehind(sw, origin, impulse, pull)) =>
          LegBehind(sw, origin, impulse, pull).kind \in {"long", "short"}
  BY <1>1 DEF LegBehind
<1>3. \A sw : Found(ContinuationIn(sw)) => ContinuationIn(sw).kind \in {"long", "short"}
  BY <1>2 DEF ContinuationIn, LegEnding, LegInto, Found, None
<1> QED
  BY <1>3 DEF ContinuationLeg

\* The level of the profile, the retrace of the leg, or the middle where both fall outside.
LEMMA WaveLimitIs ==
  ASSUME NEW bars, NEW st, st.kind \in {"long", "short"}
  PROVE  AsSetup(WaveLimit(bars, st)) = Legacy!WaveSetup(bars, st)
<1> DEFINE ts == bars[st.at].t
           fib == 1000 * st.impulse - Retrace * (st.impulse - st.origin)
           tp == 1000 * st.pullback + Extend * (st.impulse - st.origin)
           mid == (1000 * st.pullback + 1000 * st.impulse) \div 2
           level == IF Falls(LegLevel(bars, st), st) THEN LegLevel(bars, st)
                    ELSE IF Falls(fib, st) THEN fib ELSE mid
<1>1. WaveLimit(bars, st) = Limit(ts, st.kind = "long", level, st.pullback, tp)
  BY DEF WaveLimit
<1>2. \A x : Legacy!Inside(x, st) <=> Falls(x, st)
  BY DEF Legacy!Inside, Falls
<1>3. Legacy!WaveEntry(LegLevel(bars, st), st) = level
  <2>1. Legacy!FibLevel(st.origin, st.impulse) = fib
    BY DEF Legacy!FibLevel
  <2>2. Legacy!FibOrMid(fib, st) = IF Legacy!Inside(fib, st) THEN fib ELSE mid
    BY DEF Legacy!FibOrMid
  <2> HIDE DEF fib, mid
  <2> QED
    BY <1>2, <2>1, <2>2 DEF Legacy!WaveEntry
<1>4. Legacy!WaveSetup(bars, st) = Legacy!Setup(ts, st.kind, level, st.pullback, tp)
  <2> HIDE DEF level
  <2> QED
    BY <1>3 DEF Legacy!WaveSetup
<1>6. AsSetup(Limit(ts, st.kind = "long", level, st.pullback, tp))
        = Legacy!Setup(ts, st.kind, level, st.pullback, tp)
  <2> DEFINE long == st.kind = "long"
             way == st.kind
  <2>1. long \in BOOLEAN /\ way = IF long THEN "long" ELSE "short"
    OBVIOUS
  <2> HIDE DEF ts, level, tp, long, way
  <2>2. AsSetup(Limit(ts, long, level, st.pullback, tp))
          = Legacy!Setup(ts, way, level, st.pullback, tp)
    BY <2>1, LimitIs
  <2> QED
    BY <2>2 DEF long, way
<1> HIDE DEF ts, level, tp
<1> QED
  BY <1>1, <1>4, <1>6

LEMMA WaveMatches ==
  ASSUME NEW bars, NEW opens
  PROVE  Mapped(Take(WaveFib(bars, cState.seen), Last(bars), opens))
           = Legacy!Read(Legacy!WaveSignal(bars), bars)
<1> DEFINE st == ContinuationLeg(bars, SwingN)
           ts == bars[st.at].t
           limit == WaveLimit(bars, st)
           read == Legacy!WaveSignal(bars)
           stale == st.at - 1 < Len(bars) - ArmWithin
           wrong == IF st.kind = "long" THEN st.impulse <= st.origin ELSE st.impulse >= st.origin
           blank == Len(bars) < 2 * SwingN + 6 \/ ~Found(st)
<1> SUFFICES Mapped(Take(WaveFib(bars, cState.seen), Last(bars), opens)) = Legacy!Read(read, bars)
  OBVIOUS
<1>1. ~blank => AsSetup(limit) = Legacy!WaveSetup(bars, st)
  BY ContinuationKind, WaveLimitIs
<1>2. /\ blank => WaveFib(bars, cState.seen) = Quiet0(cState.seen)
      /\ ~blank => WaveFib(bars, cState.seen) = WaveBack(bars, cState.seen, st)
  BY DEF WaveFib, WaveBack
<1>3. /\ blank => ~Found(read)
      /\ ~blank =>
            read = Legacy!Reading(st.at, bars, Legacy!Runs(st.kind = "long", st.origin, st.impulse),
                                  Legacy!WaveSetup(bars, st))
  BY ContinuationSame, FoundSame DEF Legacy!WaveSignal, Legacy!WaveRead, None, Found
<1> HIDE DEF st, limit, read
<1>4. CASE blank
  BY <1>2, <1>3, <1>4, QuietIs, ReadIs
<1>5. /\ limit.long \in BOOLEAN /\ limit.limit /\ Found(limit) /\ limit.dedup = ts
  BY DEF WaveLimit, Limit, Signal, Found, limit
<1>6. ~blank =>
        Found(read) /\ read.ts = ts /\ read.setup = AsSetup(limit)
  BY <1>1, <1>3 DEF Legacy!Reading, Found
<1>7. ~blank => (read.fresh <=> ~stale /\ ~wrong)
  <2>1. ASSUME NEW runs \in BOOLEAN, NEW setup
        PROVE  Legacy!Reading(st.at, bars, runs, setup).fresh <=>
                 Legacy!FreshAt(st.at, bars) /\ runs
    BY DEF Legacy!Reading
  <2>2. Legacy!Runs(st.kind = "long", st.origin, st.impulse) \in BOOLEAN
    BY DEF Legacy!Runs
  <2>3. Legacy!Runs(st.kind = "long", st.origin, st.impulse) <=> ~wrong
    BY DEF Legacy!Runs
  <2>4. Legacy!FreshAt(st.at, bars) <=> ~stale
    BY DEF Legacy!FreshAt
  <2> HIDE DEF stale, wrong
  <2> QED
    BY <1>3, <2>1, <2>2, <2>3, <2>4
<1>8. CASE ~blank /\ ts = cState.seen
  <2>1. WaveBack(bars, cState.seen, st) = Quiet0(cState.seen)
    BY <1>8 DEF WaveBack
  <2> QED
    BY <1>2, <1>6, <1>8, <2>1, QuietIs, ReadIs
<1>9. CASE ~blank /\ ts # cState.seen /\ (stale \/ wrong)
  <2>1. WaveBack(bars, cState.seen, st) = Quiet0(ts)
    BY <1>9 DEF WaveBack
  <2>2. ~Legacy!Sound(read, bars)
    BY <1>7, <1>9 DEF Legacy!Sound
  <2> QED
    BY <1>2, <1>6, <1>9, <2>1, <2>2, QuietIs, ReadIs
<1>10. CASE ~blank /\ ts # cState.seen /\ ~stale /\ ~wrong
  <2>1. WaveBack(bars, cState.seen, st) = [seen |-> ts, signal |-> IfSound(limit, bars)]
    BY <1>10 DEF WaveBack, limit
  <2>2. Legacy!Sound(read, bars) <=> Waits(limit, Last(bars).c) /\ Ordered(limit)
    BY <1>5, <1>6, <1>7, <1>10, SoundSame, EndsSame DEF Legacy!Sound
  <2> QED
    BY <1>2, <1>5, <1>6, <1>10, <2>1, <2>2, SoundTakes
<1> QED
  BY <1>4, <1>8, <1>9, <1>10

(***************************************************************************)
(* The triggers that read a marker or a vote on the bar just closed.        *)
(***************************************************************************)
LEMMA MarkerMatches ==
  ASSUME NEW bars, NEW limit \in BOOLEAN, NEW s \in OnBar(Last(bars), limit),
         NEW opens \in BOOLEAN, cWired \in {"climax", "vote"},
         cWired = "climax" => cState.acted # Last(bars).t,
         cWired = "vote" => limit,
         limit => Waits(s, Last(bars).c)
  PROVE  Mapped(Take([seen |-> cState.seen, signal |-> s], Last(bars), opens))
           \in Legacy!Scanned(bars)
<1>0. PICK long \in BOOLEAN, p \in {Last(bars).l, Last(bars).h} :
        s = MarkOn(Last(bars), limit, long, 1000 * p)
  BY DEF OnBar
<1> DEFINE bar == Last(bars)
           level == 1000 * p
           way == IF long THEN "long" ELSE "short"
           took == Mapped(Take([seen |-> cState.seen, signal |-> s], bar, opens))
           marked == Legacy!Marked(bars, way, level, limit, opens)
           m == Legacy!Setup(bar.t, way, level, IF way = "long" THEN bar.l ELSE bar.h,
                             IF way = "long" THEN level + 2 * StopMin ELSE level - 2 * StopMin)
<1>1. AsSetup(s) = m
  <2>1. way = "long" <=> long
    OBVIOUS
  <2> HIDE DEF level
  <2> QED
    BY <1>0, <2>1, SignalIs DEF MarkOn, level
<1>2. /\ s.long = long /\ s.dedup = bar.t /\ Found(s)
      /\ s.limit <=> limit
  BY <1>0 DEF MarkOn, Signal, Found
<1>3. m.ts = bar.t
  BY DEF Legacy!Setup
<1>4. marked = IF cWired = "climax" /\ AsActed(cState.acted) = m.ts THEN Legacy!Waiting
               ELSE IF cWired = "climax" /\ ~limit
               THEN Legacy!Entered(m.ts, AsFills(cFills), opens)
               ELSE IF Legacy!Pullback(m, bar)
               THEN Legacy!ArmedAt(cState.seen, m, bar.t + LimitLife)
               ELSE Legacy!Waiting
  BY EndsSame DEF Legacy!Marked, AsActed, AsFills
<1>5. marked \in Legacy!Scanned(bars)
  <2>1. way \in {"long", "short"} /\ cWired # "choch" /\ cWired # "wave"
    OBVIOUS
  <2> HIDE DEF way
  <2> QED
    BY <2>1, EndsSame DEF Legacy!Scanned
<1> HIDE DEF m, marked, level
<1>6. CASE limit
  <2>0. \A seen, at :
          Mapped(Take([seen |-> seen, signal |-> s], at, opens))
            = Rests(seen, AsSetup(s), at.t + LimitLife)
    BY <1>2, <1>6, TakeIs
  <2>1. Legacy!Pullback(m, bar)
    <3>1. Waits(s, bar.c)
      BY <1>6
    <3> QED
      BY <1>1, <1>2, <3>1, SoundSame
  <2>2. marked = Legacy!ArmedAt(cState.seen, m, bar.t + LimitLife)
    BY <1>3, <1>4, <1>6, <2>1 DEF AsActed
  <2>3. took = Rests(cState.seen, m, bar.t + LimitLife)
    BY <1>1, <2>0
  <2>4. took = marked
    BY <2>2, <2>3 DEF Rests, Legacy!ArmedAt, AsActed, AsFills
  <2> QED
    BY <1>5, <2>4
<1>7. CASE ~limit
  <2>1. marked = Legacy!Entered(bar.t, AsFills(cFills), opens)
    BY <1>3, <1>4, <1>7 DEF AsActed
  <2>2. took = IdleAt(cState.seen, bar.t, opens)
    <3>1. \A seen, at, trades :
            Mapped(Take([seen |-> seen, signal |-> s], at, trades))
              = IdleAt(seen, s.dedup, trades)
      BY <1>2, <1>7, TakeIs
    <3> QED
      BY <1>2, <3>1
  <2>3. took = marked
    BY <1>7, <2>1, <2>2, FoundSame DEF IdleAt, Legacy!Entered, AsActed, AsFills
  <2> QED
    BY <1>5, <2>3
<1> QED
  BY <1>6, <1>7

\* Wherever a scan of the bars leaves the engine, it may leave the class.
LEMMA ScanMatches ==
  ASSUME NEW bars, NEW f \in Fired(bars, cState.seen, cState.acted), NEW opens \in BOOLEAN,
         cWired \in {"choch", "wave", "climax", "vote"}
  PROVE  Mapped(Take(f, Last(bars), opens)) \in Legacy!Scanned(bars)
<1>1. CASE cWired = "choch"
  BY <1>1, ChochMatches DEF Fired, Legacy!Scanned
<1>2. CASE cWired = "wave"
  BY <1>2, WaveMatches DEF Fired, Legacy!Scanned
<1>3. CASE cWired \in {"climax", "vote"}
  <2> DEFINE bar == Last(bars)
             Marked(limit, s) == s \in OnBar(bar, limit) /\ f = [seen |-> cState.seen, signal |-> s]
  <2>1. CASE f = Quiet0(cState.seen)
    <3>1. Mapped(Take(f, bar, opens)) = Legacy!Waiting
      BY <2>1, QuietIs, WaitingIs
    <3> QED
      BY <1>3, <3>1 DEF Legacy!Scanned
  <2>2. CASE f # Quiet0(cState.seen)
    <3>1. PICK limit \in BOOLEAN : \E s :
             /\ Marked(limit, s)
             /\ limit => Waits(s, bar.c)
             /\ cWired = "climax" => cState.acted # bar.t
             /\ cWired = "vote" => limit
      BY <1>3, <2>2 DEF Fired, ReversalFlip, VoteAggImbalance
    <3>2. PICK s : /\ Marked(limit, s)
                   /\ limit => Waits(s, bar.c)
      BY <3>1
    <3> QED
      BY <1>3, <3>1, <3>2, MarkerMatches
  <2> QED
    BY <2>1, <2>2
<1> QED
  BY <1>1, <1>2, <1>3

(***************************************************************************)
(* A bar of a composed strategy is a bar of the class it replaces.          *)
(***************************************************************************)
AsFill(fill) ==
    [m |-> AsSetup(fill.of.signal), due |-> fill.of.due, at |-> fill.at, life |-> fill.life]

LEMMA FillsGrow ==
  ASSUME NEW S, NEW fills \in Seq(S), NEW fill \in S
  PROVE  AsFills(Append(fills, fill)) = Append(AsFills(fills), AsFill(fill))
<1> DEFINE T == {AsFill(x) : x \in S}
<1>1. \A f \in Seq(S) : /\ AsFills(f) \in Seq(T) /\ Len(AsFills(f)) = Len(f)
                        /\ \A i \in 1..Len(f) : AsFills(f)[i] = AsFill(f[i])
  <2> SUFFICES ASSUME NEW f \in Seq(S)
               PROVE  /\ AsFills(f) \in Seq(T) /\ Len(AsFills(f)) = Len(f)
                      /\ \A i \in 1..Len(f) : AsFills(f)[i] = AsFill(f[i])
    OBVIOUS
  <2>1. AsFills(f) = [i \in 1..Len(f) |-> AsFill(f[i])]
    BY DEF AsFills, AsFill
  <2>2. \A i \in 1..Len(f) : AsFill(f[i]) \in T
    OBVIOUS
  <2> HIDE DEF T
  <2> QED
    BY <2>1, <2>2
<1>2. Append(fills, fill) \in Seq(S) /\ Len(Append(fills, fill)) = Len(fills) + 1
  OBVIOUS
<1>3. AsFill(fill) \in T
  OBVIOUS
<1> DEFINE grown == AsFills(Append(fills, fill))
           other == Append(AsFills(fills), AsFill(fill))
<1>4. grown \in Seq(T) /\ Len(grown) = Len(fills) + 1
  BY <1>1, <1>2
<1>5. other \in Seq(T) /\ Len(other) = Len(fills) + 1
  <2> HIDE DEF T
  <2> QED
    BY <1>1, <1>3
<1>6. \A U : \A u \in Seq(U), e \in U :
        /\ \A i \in 1..Len(u) : Append(u, e)[i] = u[i]
        /\ Append(u, e)[Len(u) + 1] = e
  OBVIOUS
<1>7. ASSUME NEW i \in 1..(Len(fills) + 1)
      PROVE  grown[i] = other[i]
  <2>0. /\ \A j \in 1..Len(fills) : other[j] = AsFills(fills)[j]
        /\ other[Len(fills) + 1] = AsFill(fill)
    <3> HIDE DEF T
    <3>1. AsFills(fills) \in Seq(T) /\ Len(AsFills(fills)) = Len(fills)
      BY <1>1
    <3> QED
      BY <1>3, <1>6, <3>1
  <2>1. grown[i] = AsFill(Append(fills, fill)[i])
    BY <1>1, <1>2
  <2>2. CASE i \in 1..Len(fills)
    <3>1. Append(fills, fill)[i] = fills[i]
      BY <2>2
    <3>2. other[i] = AsFills(fills)[i]
      BY <2>0, <2>2
    <3> QED
      BY <1>1, <2>1, <2>2, <3>1, <3>2
  <2>3. CASE i = Len(fills) + 1
    <3>1. Append(fills, fill)[i] = fill
      BY <2>3
    <3>2. other[i] = AsFill(fill)
      BY <2>0, <2>3
    <3> QED
      BY <2>1, <3>1, <3>2
  <2>4. Len(fills) \in Nat
    OBVIOUS
  <2> HIDE DEF grown, other
  <2> QED
    BY <2>2, <2>3, <2>4
<1> HIDE DEF grown, other, T
<1>8. grown = other
  BY <1>4, <1>5, <1>7
<1> QED
  BY <1>8 DEF grown, other

\* The congress keeps no mark of what it acted on, so the mark of the engine must not end a
\* limit of its own: it lies before every limit that rests.
MarkBehind ==
    cWired = "vote" /\ Found(cState.pending) => cState.acted # cState.pending.signal.dedup

LEMMA AnswersMatch ==
  ASSUME NEW bars, NEW S, cFills \in Seq(S), MarkBehind,
         cWired \in {"choch", "wave", "climax", "vote"}
  PROVE  \A a \in Answers(bars) : Mapped(a) \in Legacy!Decided(bars)
<1> DEFINE bar == Last(bars)
           p == cState.pending
           limit == AsPend(p)
           over == bar.t > p.due \/ cState.acted = p.signal.dedup
           touched == 1000 * bar.l <= p.signal.level /\ p.signal.level <= 1000 * bar.h
           filled == Append(cFills, [of |-> p, at |-> bar.t, life |-> cLife.starts])
           entered == Append(AsFills(cFills), [m |-> limit.m, due |-> limit.due, at |-> bar.t,
                                               life |-> cLife.starts])
           scan == {Take(f, bar, opens) :
                       f \in Fired(bars, cState.seen, cState.acted), opens \in BOOLEAN}
           lapsed == bar.t > limit.due \/ (cWired # "vote" /\ AsActed(cState.acted) = limit.m.ts)
<1>1. Answers(bars) =
        IF Found(p) => over THEN scan
        ELSE IF touched
        THEN {Commit(p.signal.dedup, cState.seen, opens, filled) : opens \in BOOLEAN}
        ELSE {StoodAt(cState.acted, p, cState.seen, FALSE, cArmed, cFills)}
  BY DEF Answers
<1>2. Legacy!Decided(bars) =
        IF Found(limit) => lapsed THEN Legacy!Scanned(bars)
        ELSE IF 1000 * bar.l <= limit.m.entry /\ limit.m.entry <= 1000 * bar.h
        THEN {Legacy!Entered(IF cWired = "vote" THEN AsActed(cState.acted) ELSE limit.m.ts,
                             entered, opens) : opens \in BOOLEAN}
        ELSE {Legacy!LeftAt(cState.seen, AsActed(cState.acted), limit, FALSE, cArmed,
                            AsFills(cFills))}
  BY DEF Legacy!Decided, Legacy!Lapsed, Legacy!Touches, AsPend, AsActed, AsFills, Last,
         Legacy!Last, Found, Legacy!Found, None, Legacy!None
<1>3. /\ Found(limit) <=> Found(p)
      /\ Found(p) => /\ limit.m = AsSetup(p.signal) /\ limit.due = p.due
                     /\ limit.m.ts = p.signal.dedup /\ limit.m.entry = p.signal.level
  BY DEF AsPend, AsSetup, Found, None
<1> HIDE DEF limit, scan, filled, entered
<1>4. Found(p) => (lapsed <=> over)
  BY <1>3 DEF MarkBehind, AsActed
<1>5. CASE Found(p) => over
  <2>1. Answers(bars) = scan /\ Legacy!Decided(bars) = Legacy!Scanned(bars)
    BY <1>1, <1>2, <1>3, <1>4, <1>5
  <2> QED
    BY <2>1, ScanMatches DEF scan
<1>6. CASE Found(p) /\ ~over /\ touched
  <2>1. Answers(bars) = {Commit(p.signal.dedup, cState.seen, opens, filled) : opens \in BOOLEAN}
    BY <1>1, <1>6
  <2>2. Legacy!Decided(bars) =
          {Legacy!Entered(AsActed(p.signal.dedup), entered, opens) : opens \in BOOLEAN}
    <3>1. ~(Found(limit) => lapsed) /\ 1000 * bar.l <= limit.m.entry /\ limit.m.entry <= 1000 * bar.h
      BY <1>3, <1>4, <1>6
    <3>2. Legacy!Decided(bars) =
            {Legacy!Entered(IF cWired = "vote" THEN AsActed(cState.acted) ELSE limit.m.ts,
                            entered, opens) : opens \in BOOLEAN}
      BY <1>2, <3>1
    <3>3. AsActed(p.signal.dedup)
            = IF cWired = "vote" THEN AsActed(cState.acted) ELSE limit.m.ts
      BY <1>3, <1>6 DEF AsActed
    <3> QED
      BY <3>2, <3>3
  <2>3. AsFills(filled) = entered
    <3> DEFINE fill == [of |-> p, at |-> bar.t, life |-> cLife.starts]
    <3>1. cFills \in Seq(S \cup {fill})
      OBVIOUS
    <3>2. AsFill(fill) = [m |-> limit.m, due |-> limit.due, at |-> bar.t, life |-> cLife.starts]
      BY <1>3, <1>6 DEF AsFill
    <3>3. fill \in S \cup {fill}
      OBVIOUS
    <3> HIDE DEF fill
    <3>4. AsFills(Append(cFills, fill)) = Append(AsFills(cFills), AsFill(fill))
      BY <3>1, <3>3, FillsGrow
    <3> QED
      BY <3>2, <3>4 DEF fill, filled, entered
  <2>4. \A opens : Mapped(Commit(p.signal.dedup, cState.seen, opens, filled))
                     = Legacy!Entered(AsActed(p.signal.dedup), entered, opens)
    BY <2>3, StoodIs, NoPend, FoundSame DEF Commit, Legacy!Entered
  <2> QED
    BY <2>1, <2>2, <2>4
<1>7. CASE Found(p) /\ ~over /\ ~touched
  <2>1. Answers(bars) = {StoodAt(cState.acted, p, cState.seen, FALSE, cArmed, cFills)}
    BY <1>1, <1>7
  <2>2. Legacy!Decided(bars) = {Legacy!LeftAt(cState.seen, AsActed(cState.acted), limit, FALSE,
                                              cArmed, AsFills(cFills))}
    <3>1. /\ ~(Found(limit) => lapsed)
          /\ ~(1000 * bar.l <= limit.m.entry /\ limit.m.entry <= 1000 * bar.h)
      BY <1>3, <1>4, <1>7
    <3> QED
      BY <1>2, <3>1
  <2> QED
    BY <2>1, <2>2, StoodFlat DEF limit
<1> QED
  BY <1>5, <1>6, <1>7

\* What the refinement rests on.
MarksInOrder ==
    /\ cState.acted \in Nat /\ cState.acted <= WireNow
    /\ Found(cState.pending) =>
          LET dedup == cState.pending.signal.dedup
          IN  dedup \in Nat /\ cState.acted < dedup /\ dedup <= WireNow
WireInv ==
    /\ cWired \in {"choch", "wave", "climax", "vote"}
    /\ WireNow \in Nat
    /\ \E S : cBars \in Seq(S)
    /\ \E S : cFills \in Seq(S)
    /\ cWired = "vote" => MarksInOrder

LEMMA TakeFields ==
  ASSUME NEW fired, NEW bar, NEW opens
  PROVE  LET took == Take(fired, bar, opens)
             s == fired.signal
         IN  /\ took.fills = cFills
             /\ ~Found(s) => took.acted = cState.acted /\ took.pending = None
             /\ Found(s) /\ s.limit =>
                    took.acted = cState.acted /\ took.pending = Pends(s, bar.t + LimitLife)
<1> DEFINE s == fired.signal
           took == Take(fired, bar, opens)
<1>1. ~Found(s) =>
        took = [acted |-> cState.acted, pending |-> None, seen |-> fired.seen, open |-> FALSE,
                armed |-> cArmed, fills |-> cFills]
  BY DEF Take, StoodAt
<1>2. Found(s) /\ s.limit =>
        took = [acted |-> cState.acted, pending |-> Pends(s, bar.t + LimitLife),
                seen |-> fired.seen, open |-> FALSE,
                armed |-> Append(cArmed, [ts |-> s.dedup, life |-> cLife.starts]),
                fills |-> cFills]
  BY DEF Take, StoodAt
<1>3. Found(s) /\ ~s.limit =>
        took = [acted |-> s.dedup, pending |-> None, seen |-> fired.seen, open |-> opens,
                armed |-> cArmed, fills |-> cFills]
  BY DEF Take, Commit, StoodAt
<1> HIDE DEF s, took
<1> QED
  BY <1>1, <1>2, <1>3 DEF s, took

LEMMA AnswersCases ==
  ASSUME NEW bars, NEW a \in Answers(bars)
  PROVE  LET p == cState.pending
             bar == Last(bars)
             filled == Append(cFills, [of |-> p, at |-> bar.t, life |-> cLife.starts])
         IN  \/ \E f \in Fired(bars, cState.seen, cState.acted), opens \in BOOLEAN :
                    a = Take(f, bar, opens)
             \/ /\ Found(p) /\ a.acted = p.signal.dedup /\ a.pending = None
                /\ a.fills = filled
             \/ /\ Found(p) /\ a.acted = cState.acted /\ a.pending = p
                /\ a.fills = cFills
<1> DEFINE p == cState.pending
           bar == Last(bars)
           filled == Append(cFills, [of |-> p, at |-> bar.t, life |-> cLife.starts])
           scan == {Take(f, bar, opens) :
                       f \in Fired(bars, cState.seen, cState.acted), opens \in BOOLEAN}
           fills == {Commit(p.signal.dedup, cState.seen, opens, filled) : opens \in BOOLEAN}
<1>1. \/ a \in scan
      \/ Found(p) /\ a \in fills
      \/ Found(p) /\ a = StoodAt(cState.acted, p, cState.seen, FALSE, cArmed, cFills)
  <2>1. Answers(bars) \in {scan, fills, {StoodAt(cState.acted, p, cState.seen, FALSE, cArmed, cFills)}}
    BY DEF Answers
  <2> DEFINE over == bar.t > p.due \/ cState.acted = p.signal.dedup
             touched == 1000 * bar.l <= p.signal.level /\ p.signal.level <= 1000 * bar.h
  <2>3. Answers(bars) =
          IF Found(p) => over THEN scan
          ELSE IF touched THEN fills
          ELSE {StoodAt(cState.acted, p, cState.seen, FALSE, cArmed, cFills)}
    BY DEF Answers
  <2> HIDE DEF scan, fills, p, over, touched
  <2>2. ~Found(p) => Answers(bars) = scan
    BY <2>3
  <2> QED
    BY <2>1, <2>2
<1>2. a \in scan => \E f \in Fired(bars, cState.seen, cState.acted), opens \in BOOLEAN :
                       a = Take(f, bar, opens)
  OBVIOUS
<1>3. a \in fills => a.acted = p.signal.dedup /\ a.pending = None /\ a.fills = filled
  <2> HIDE DEF filled, p
  <2> SUFFICES ASSUME NEW opens \in BOOLEAN, a = Commit(p.signal.dedup, cState.seen, opens, filled)
               PROVE  a.acted = p.signal.dedup /\ a.pending = None /\ a.fills = filled
    OBVIOUS
  <2> QED
    BY DEF Commit, StoodAt
<1>4. a = StoodAt(cState.acted, p, cState.seen, FALSE, cArmed, cFills) =>
        a.acted = cState.acted /\ a.pending = p /\ a.fills = cFills
  BY DEF StoodAt
<1> HIDE DEF filled, p, scan, fills
<1> QED
  BY <1>1, <1>2, <1>3, <1>4 DEF filled, p

LEMMA FillsStaySeq ==
  ASSUME NEW bars, NEW S, cFills \in Seq(S), NEW a \in Answers(bars)
  PROVE  \E T : a.fills \in Seq(T)
<1> DEFINE fill == [of |-> cState.pending, at |-> Last(bars).t, life |-> cLife.starts]
<1>1. a.fills = cFills \/ a.fills = Append(cFills, fill)
  BY AnswersCases, TakeFields
<1>2. cFills \in Seq(S \cup {fill}) /\ fill \in S \cup {fill}
  OBVIOUS
<1> HIDE DEF fill
<1>3. Append(cFills, fill) \in Seq(S \cup {fill})
  BY <1>2
<1> QED
  BY <1>1, <1>3

LEMMA VoteMarks ==
  ASSUME cWired = "vote", NEW bars, NEW a \in Answers(bars)
  PROVE  LET p == cState.pending
         IN  \/ a.acted = cState.acted /\ ~Found(a.pending)
             \/ a.acted = cState.acted /\ a.pending = p /\ Found(p)
             \/ a.acted = cState.acted /\ a.pending.signal.dedup = Last(bars).t
             \/ Found(p) /\ a.acted = p.signal.dedup /\ ~Found(a.pending)
<1> DEFINE bar == Last(bars)
           scanned == \E f \in Fired(bars, cState.seen, cState.acted), opens \in BOOLEAN :
                         a = Take(f, bar, opens)
<1>1. ~Found(None)
  BY DEF Found, None
<1>2. CASE scanned
  <2>1. PICK f \in Fired(bars, cState.seen, cState.acted), opens \in BOOLEAN :
          a = Take(f, bar, opens)
    BY <1>2
  <2>2. CASE f = Quiet0(cState.seen)
    <3>1. ~Found(f.signal)
      BY <1>1, <2>2 DEF Quiet0
    <3> QED
      BY <1>1, <2>1, <3>1, TakeFields
  <2>3. CASE f # Quiet0(cState.seen)
    <3>1. PICK s \in OnBar(bar, TRUE) : f = [seen |-> cState.seen, signal |-> s]
      BY <2>3 DEF Fired, VoteAggImbalance
    <3>2. Found(s) /\ s.limit /\ s.dedup = bar.t
      BY DEF OnBar, MarkOn, Signal, Found
    <3>3. f.signal = s
      BY <3>1
    <3>4. a.acted = cState.acted /\ a.pending = Pends(s, bar.t + LimitLife)
      BY <2>1, <3>2, <3>3, TakeFields
    <3>5. a.pending.signal = s
      BY <3>4 DEF Pends
    <3> QED
      BY <3>2, <3>4, <3>5
  <2> QED
    BY <2>2, <2>3
<1>3. CASE ~scanned
  BY <1>1, <1>3, AnswersCases
<1> QED
  BY <1>2, <1>3

LEMMA MapsFlat ==
  ASSUME NEW a, NEW next, next = Mapped(a), cWired' = cWired,
         cState' = [acted |-> a.acted, pending |-> a.pending, seen |-> a.seen],
         cOpen' = a.open, cArmed' = a.armed, cFills' = a.fills
  PROVE  Legacy!Leaves(next)
<1> USE DEF Mapped
<1>1. (cState.seen)' = a.seen /\ (cState.pending)' = a.pending /\ (cState.acted)' = a.acted
  OBVIOUS
<1> QED
  BY <1>1, FoundSame DEF Legacy!Leaves, AsPend, AsActed, AsFills

LEMMA BarMatches ==
  ASSUME WireInv, NEW candle \in Candles, NEW gap \in 0..1, NEW closes \in BOOLEAN,
         ComposedBar(candle, gap, closes)
  PROVE  Legacy!LimitBar(candle, gap, closes)
<1> DEFINE rests == IF Found(cState.pending)
                    THEN [kind |-> "limit", m |-> AsSetup(cState.pending.signal),
                          due |-> cState.pending.due]
                    ELSE None
<1>1. Found(rests) <=> Found(cState.pending)
  BY DEF Found, None
<1>2. \A bar, t : Legacy!BarOf(bar, t) = WireBar(bar, t)
  BY DEF Legacy!BarOf, WireBar
<1>3. Legacy!Now = WireNow
  BY EndsSame DEF Legacy!Now, WireNow
<1>4. /\ Len(cBars) < MaxBarsOf[cWired] /\ cLife.gaps + gap <= MaxGaps
      /\ gap > 0 => Found(cState.pending)
      /\ closes => cOpen
      /\ cBars' = Append(cBars, WireBar(candle, WireNow + 1 + gap * LimitLife))
      /\ cLife' = [cLife EXCEPT !.gaps = @ + gap]
      /\ cWired' = cWired
  BY DEF ComposedBar
<1>5. CASE cOpen /\ ~closes
  <2>1. UNCHANGED <<cState, cOpen, cArmed, cFills>>
    BY <1>5 DEF ComposedBar
  <2> QED
    BY <1>1, <1>2, <1>3, <1>4, <1>5, <2>1, FoundSame DEF Legacy!LimitBar
<1>6. CASE ~(cOpen /\ ~closes)
  <2>1. PICK a \in Answers(cBars') :
           /\ cState' = [acted |-> a.acted, pending |-> a.pending, seen |-> a.seen]
           /\ cOpen' = a.open /\ cArmed' = a.armed /\ cFills' = a.fills
    BY <1>6 DEF ComposedBar
  <2>2. PICK bars : bars = cBars'
    OBVIOUS
  <2>3. Mapped(a) \in Legacy!Decided(bars)
    BY <2>1, <2>2, AnswersMatch DEF WireInv, MarkBehind, MarksInOrder
  <2>4. PICK left : left = Mapped(a)
    OBVIOUS
  <2>5. \E next \in Legacy!Decided(cBars') : Legacy!Leaves(next)
    <3>1. left \in Legacy!Decided(cBars')
      BY <2>2, <2>3, <2>4
    <3>2. Legacy!Leaves(left)
      BY <1>4, <2>1, <2>4, MapsFlat
    <3> QED
      BY <3>1, <3>2
  <2> QED
    BY <1>1, <1>2, <1>3, <1>4, <1>6, <2>5, FoundSame DEF Legacy!LimitBar
<1> QED
  BY <1>5, <1>6

LEMMA BarKeeps ==
  ASSUME WireInv, NEW candle \in Candles, NEW gap \in 0..1, NEW closes \in BOOLEAN,
         ComposedBar(candle, gap, closes), ComposedAssumption
  PROVE  WireInv'
<1> DEFINE t == WireNow + 1 + gap * LimitLife
           bar == WireBar(candle, t)
<1>1. t \in Nat /\ WireNow < t
  <2>1. gap * LimitLife \in Nat
    BY DEF ComposedAssumption
  <2> HIDE DEF WireNow
  <2> QED
    BY <2>1 DEF WireInv
<1>2. cBars' = Append(cBars, bar) /\ cWired' = cWired
  BY DEF ComposedBar
<1>3. PICK S : cBars \in Seq(S)
  BY DEF WireInv
<1>4. bar.t = t
  BY DEF WireBar
<1>5. cBars' \in Seq(S \cup {bar}) /\ cBars' # <<>> /\ Last(cBars') = bar
  <2>1. cBars \in Seq(S \cup {bar}) /\ bar \in S \cup {bar}
    BY <1>3
  <2> HIDE DEF bar
  <2> QED
    BY <1>2, <2>1 DEF Last
<1>6. WireNow' = t
  BY <1>4, <1>5 DEF WireNow
<1> HIDE DEF t, bar
<1>7. CASE UNCHANGED <<cState, cOpen, cArmed, cFills>>
  BY <1>1, <1>2, <1>5, <1>6, <1>7 DEF WireInv, MarksInOrder
<1>8. CASE \E a \in Answers(cBars') :
              /\ cState' = [acted |-> a.acted, pending |-> a.pending, seen |-> a.seen]
              /\ cOpen' = a.open /\ cArmed' = a.armed /\ cFills' = a.fills
  <2>1. PICK a \in Answers(cBars') :
           /\ cState' = [acted |-> a.acted, pending |-> a.pending, seen |-> a.seen]
           /\ cFills' = a.fills
    BY <1>8
  <2>2. PICK bars : bars = cBars'
    OBVIOUS
  <2>3. \E T : cFills' \in Seq(T)
    BY <2>1, <2>2, FillsStaySeq DEF WireInv
  <2>4. (cState.acted)' = a.acted /\ (cState.pending)' = a.pending
    BY <2>1
  <2>5. cWired = "vote" => MarksInOrder'
    <3> SUFFICES ASSUME cWired = "vote" PROVE MarksInOrder'
      OBVIOUS
    <3>1. Last(bars).t = t
      BY <1>4, <1>5, <2>2
    <3>2. MarksInOrder
      BY DEF WireInv
    <3> DEFINE p == cState.pending
    <3>3. \/ a.acted = cState.acted /\ ~Found(a.pending)
          \/ a.acted = cState.acted /\ a.pending = p /\ Found(p)
          \/ a.acted = cState.acted /\ a.pending.signal.dedup = t
          \/ Found(p) /\ a.acted = p.signal.dedup /\ ~Found(a.pending)
      BY <2>1, <2>2, <3>1, VoteMarks
    <3>4. a.acted \in Nat /\ a.acted <= t
      BY <1>1, <3>2, <3>3 DEF MarksInOrder, WireInv
    <3>5. Found(a.pending) =>
            /\ a.pending.signal.dedup \in Nat /\ a.acted < a.pending.signal.dedup
            /\ a.pending.signal.dedup <= t
      BY <1>1, <3>2, <3>3 DEF MarksInOrder, WireInv
    <3> QED
      BY <1>6, <2>4, <3>4, <3>5 DEF MarksInOrder
  <2> QED
    BY <1>1, <1>2, <1>5, <1>6, <2>3, <2>5 DEF WireInv
<1> QED
  BY <1>7, <1>8 DEF ComposedBar

LEMMA RestartMatches ==
  ASSUME ComposedRestart
  PROVE  Legacy!LimitRestart
<1>1. /\ (cState.seen)' = 0 /\ (cState.acted)' = 0 /\ (cState.pending)' = None
      /\ UNCHANGED <<cWired, cBars, cOpen, cArmed, cFills>>
      /\ cLife.starts <= MaxRestarts /\ cLife' = [cLife EXCEPT !.starts = @ + 1]
  BY DEF ComposedRestart, Blank0
<1>2. ~Found(None)
  BY DEF Found, None
<1> QED
  BY <1>1, <1>2, FoundSame DEF Legacy!LimitRestart

LEMMA RestartKeeps ==
  ASSUME WireInv, ComposedRestart
  PROVE  WireInv'
<1>1. (cState.acted)' = 0 /\ (cState.pending)' = None /\ UNCHANGED <<cWired, cBars, cFills>>
  BY DEF ComposedRestart, Blank0
<1>2. ~Found(None) /\ WireNow' = WireNow
  BY <1>1 DEF Found, None, WireNow
<1>3. WireNow \in Nat /\ 0 <= WireNow
  BY DEF WireInv
<1>4. MarksInOrder'
  BY <1>1, <1>2, <1>3 DEF MarksInOrder
<1> QED
  BY <1>1, <1>2, <1>4 DEF WireInv

LEMMA WireStart ==
  ASSUME ReadInit, ComposedAssumption
  PROVE  WireInv /\ (part = "composed" => Legacy!LimitInit)
<1>1. ~Found(None) /\ Blank0.acted = 0 /\ Blank0.pending = None /\ Blank0.seen = 0
  BY DEF Found, None, Blank0
<1>2. AsFills(<<>>) = <<>>
  BY DEF AsFills
<1>3. CASE part = "composed"
  <2>1. ComposedInit
    BY <1>3 DEF ReadInit
  <2>2. PICK past \in Histories : cBars = [i \in DOMAIN past |-> WireBar(past[i], i)]
    BY <2>1 DEF ComposedInit
  <2> DEFINE Past == [h : Nat, l : Nat, c : Nat]
  <2>3. past \in Seq(Past)
    BY <2>2 DEF ComposedAssumption
  <2> DEFINE Wire == {WireBar(candle, i) : candle \in Past, i \in Nat}
  <2>4. cBars \in Seq(Wire) /\ Len(cBars) = Len(past)
    <3>1. \A i \in 1..Len(past) : WireBar(past[i], i) \in Wire
      <4> HIDE DEF Past
      <4> QED
        BY <2>3
    <3> HIDE DEF Wire, Past
    <3>2. Len(past) \in Nat /\ DOMAIN past = 1..Len(past)
      BY <2>3
    <3> QED
      BY <2>2, <3>1, <3>2
  <2> HIDE DEF Wire, Past
  <2>5. WireNow \in Nat
    <3>1. CASE cBars = <<>>
      BY <3>1 DEF WireNow
    <3>2. CASE cBars # <<>>
      <4>1. Len(cBars) \in 1..Len(past)
        BY <2>4, <3>2
      <4>2. Last(cBars) = WireBar(past[Len(cBars)], Len(cBars))
        BY <2>2, <2>3, <4>1 DEF Last
      <4> QED
        BY <3>2, <4>1, <4>2 DEF WireNow, WireBar
    <3> QED
      BY <3>1, <3>2
  <2>6. WireInv
    <3>1. cFills \in Seq({}) /\ cState = Blank0 /\ cWired \in Wirings
      BY <2>1 DEF ComposedInit
    <3> HIDE DEF Wire
    <3>2. MarksInOrder
      BY <1>1, <2>5, <3>1 DEF MarksInOrder
    <3> QED
      BY <2>4, <2>5, <3>1, <3>2 DEF WireInv, ComposedAssumption
  <2>7. Legacy!LimitInit
    <3>1. \A bar, t : Legacy!BarOf(bar, t) = WireBar(bar, t)
      BY DEF Legacy!BarOf, WireBar
    <3>2. \E p \in Histories : cBars = [i \in DOMAIN p |-> Legacy!BarOf(p[i], i)]
      BY <2>2, <3>1
    <3> QED
      BY <1>1, <1>2, <2>1, <3>2, FoundSame DEF ComposedInit, Legacy!LimitInit, AsFills
  <2> QED
    BY <2>6, <2>7
<1>4. CASE part # "composed"
  <2>1. cWired = "choch" /\ cBars = <<>> /\ cFills = <<>>
    BY <1>4 DEF ReadInit, NotWired
  <2>2. WireNow = 0 /\ <<>> \in Seq({})
    BY <2>1 DEF WireNow
  <2> QED
    BY <1>4, <2>1, <2>2 DEF WireInv
<1> QED
  BY <1>3, <1>4

\* A step of a composed strategy is a step of the class it replaces, or none.
LEMMA WireStep ==
  ASSUME WireInv, [ReadNext]_readVars, ComposedAssumption
  PROVE  WireInv' /\ [Legacy!LimitNext]_(Legacy!limitVars)
<1>1. CASE ComposedNext
  <2>1. ASSUME NEW candle \in Candles, NEW gap \in 0..1, NEW closes \in BOOLEAN,
               ComposedBar(candle, gap, closes)
        PROVE  WireInv' /\ Legacy!LimitNext
    BY <2>1, BarKeeps, BarMatches DEF Legacy!LimitNext
  <2>2. CASE ComposedRestart
    BY <2>2, RestartKeeps, RestartMatches DEF Legacy!LimitNext
  <2> QED
    BY <1>1, <2>1, <2>2 DEF ComposedNext
<1>2. CASE UNCHANGED composedVars
  <2>1. UNCHANGED <<cWired, cBars, cState, cOpen, cLife, cArmed, cFills>>
    BY <1>2 DEF composedVars
  <2>2. WireInv'
    BY <2>1 DEF WireInv, MarksInOrder, WireNow
  <2>3. UNCHANGED Legacy!limitVars
    BY <2>1 DEF Legacy!limitVars
  <2> QED
    BY <2>2, <2>3
<1>3. CASE UNCHANGED readVars
  BY <1>2, <1>3 DEF readVars
<1>4. CASE ReadNext
  <2>1. ComposedNext \/ UNCHANGED composedVars
    BY <1>4 DEF ReadNext, Others
  <2> QED
    BY <1>1, <1>2, <2>1
<1> QED
  BY <1>3, <1>4

\* A strategy wired from components is the class it replaces, bar by bar: whatever history
\* it starts from, whatever bars come, with gaps, exits and restarts, it has seen the same
\* structures, armed the same limits, and filled or voided them on the same bars
\* (engine.py:3-6).
THEOREM ComposedIsClass == ReadSpec => ComposedIsLegacy
<1>1. ReadInit => WireInv /\ (part = "composed" => Legacy!LimitInit)
  BY WireStart, ComposedAssumption
<1>2. WireInv /\ [ReadNext]_readVars => WireInv' /\ [Legacy!LimitNext]_(Legacy!limitVars)
  BY WireStep, ComposedAssumption
<1> QED
  BY <1>1, <1>2, PTL DEF ReadSpec, ComposedIsLegacy

(***************************************************************************)
(* The gaps that are open.                                                  *)
(***************************************************************************)
SeriesInv == series = <<>> \/ series \in SeriesRead

LEMMA GapsAreOpen ==
  ASSUME NEW bars \in Seq(SeriesBars), NEW gap \in OpenGaps(bars)
  PROVE  \E i \in 3..Len(bars) : gap \in GapAt(bars, i) /\ ~IsFilled(gap, bars)
<1> DEFINE oldest == Max({3, Len(bars) - GapAge + 1})
<1>1. PICK i \in oldest..Len(bars) : gap \in GapAt(bars, i) /\ ~IsFilled(gap, bars)
  BY DEF OpenGaps
<1>2. Len(bars) - GapAge + 1 \in Int
  BY SeriesAssumption
<1>3. oldest >= 3 /\ oldest \in Int
  <2> DEFINE other == Len(bars) - GapAge + 1
  <2>1. \E x \in {3, other} : \A y \in {3, other} : x >= y
    BY <1>2
  <2> HIDE DEF other
  <2>2. oldest \in {3, other} /\ \A y \in {3, other} : oldest >= y
    BY <2>1 DEF Max, other
  <2> QED
    BY <1>2, <2>2 DEF other
<1> HIDE DEF oldest
<1> QED
  BY <1>1, <1>3

LEMMA OpenGapsBehind ==
  ASSUME NEW bars \in Seq(SeriesBars), NEW gap \in OpenGaps(bars)
  PROVE  IF gap.side = "bull" THEN gap.low < Last(bars).c ELSE gap.high > Last(bars).c
<1>1. PICK i \in 3..Len(bars) : gap \in GapAt(bars, i) /\ ~IsFilled(gap, bars)
  BY GapsAreOpen
<1> DEFINE n == Len(bars)
<1>2. n \in Nat /\ i \in 3..n /\ i - 2 \in 1..n /\ Last(bars) = bars[n]
  BY <1>1 DEF Last
<1>3. \A j \in 1..n : /\ bars[j].h \in Int /\ bars[j].l \in Int /\ bars[j].c \in Int
                      /\ bars[j].l <= bars[j].c /\ bars[j].c <= bars[j].h
  <2>1. \A j \in 1..n : bars[j] \in SeriesBars
    OBVIOUS
  <2> QED
    BY <2>1 DEF SeriesBars
<1>4. gap.at = i
  BY <1>1 DEF GapAt
<1>5. CASE gap.side = "bull"
  <2>1. gap.low = bars[i - 2].h /\ gap.high = bars[i].l /\ gap.low < gap.high
    BY <1>1, <1>5 DEF GapAt
  <2>2. CASE i = n
    BY <1>2, <1>3, <1>5, <2>1, <2>2
  <2>3. CASE i # n
    <3>1. n \in (gap.at + 1)..n
      BY <1>2, <1>4, <2>3
    <3>2. ~(bars[n].l <= gap.low)
      BY <1>1, <1>5, <3>1 DEF IsFilled
    <3> QED
      BY <1>2, <1>3, <1>5, <2>1, <3>2
  <2> QED
    BY <2>2, <2>3
<1>6. CASE gap.side # "bull"
  <2>1. gap.low = bars[i].h /\ gap.high = bars[i - 2].l /\ gap.low < gap.high
    BY <1>1, <1>6 DEF GapAt
  <2>2. CASE i = n
    BY <1>2, <1>3, <1>6, <2>1, <2>2
  <2>3. CASE i # n
    <3>1. n \in (gap.at + 1)..n
      BY <1>2, <1>4, <2>3
    <3>2. ~(bars[n].h >= gap.high)
      BY <1>1, <1>6, <3>1 DEF IsFilled
    <3> QED
      BY <1>2, <1>3, <1>6, <2>1, <3>2
  <2> QED
    BY <2>2, <2>3
<1> QED
  BY <1>5, <1>6

LEMMA NoGapsInNothing == OpenGaps(<<>>) = {}
<1> SUFFICES ASSUME NEW gap \in OpenGaps(<<>>) PROVE FALSE
  OBVIOUS
<1>1. PICK bars \in Seq(SeriesBars) : bars = <<>>
  <2>1. \A S : <<>> \in Seq(S)
    OBVIOUS
  <2> QED
    BY <2>1
<1>2. PICK i \in 3..Len(bars) : gap \in GapAt(bars, i)
  BY <1>1, GapsAreOpen
<1>3. Len(bars) = 0
  BY <1>1
<1> QED
  BY <1>2, <1>3

\* Whatever series is read, what is open of a gap up begins below the last close, and what is
\* open of a gap down ends above it (fvg.py:37-68): neither is ever a target of its own side.
THEOREM GapsStayBehind == ReadSpec => []GapsBehindPrice
<1>1. ReadInit => SeriesInv
  BY DEF ReadInit, SeriesInit, SeriesInv
<1>2. SeriesInv /\ [ReadNext]_readVars => SeriesInv'
  <2> SUFFICES ASSUME SeriesInv, [ReadNext]_readVars PROVE SeriesInv'
    OBVIOUS
  <2>1. CASE SeriesNext
    BY <2>1 DEF SeriesNext, SeriesInv
  <2>2. CASE UNCHANGED series
    BY <2>2 DEF SeriesInv
  <2>3. CASE UNCHANGED readVars
    BY <2>2, <2>3 DEF readVars
  <2>4. ReadNext => SeriesNext \/ UNCHANGED series
    BY DEF ReadNext, Others
  <2> QED
    BY <2>1, <2>2, <2>3, <2>4
<1>3. SeriesInv => GapsBehindPrice
  <2> SUFFICES ASSUME SeriesInv, NEW gap \in OpenGaps(series)
               PROVE  IF gap.side = "bull" THEN gap.low < Last(series).c
                      ELSE gap.high > Last(series).c
    BY DEF GapsBehindPrice
  <2>1. series # <<>>
    BY NoGapsInNothing
  <2>2. series \in Seq(SeriesBars)
    BY <2>1, SeriesAssumption DEF SeriesInv
  <2> QED
    BY <2>2, OpenGapsBehind
<1> QED
  BY <1>1, <1>2, <1>3, PTL DEF ReadSpec

(***************************************************************************)
(* The votes.                                                              *)
(***************************************************************************)
\* Division: at least k where the dividend is k times the divisor, and more of more by less.
LEMMA DivOf ==
  ASSUME NEW a \in Nat, NEW b \in Nat \ {0}
  PROVE  /\ a \div b \in Nat /\ b * (a \div b) <= a /\ a < b * ((a \div b) + 1)
  OBVIOUS
LEMMA DivAtLeast ==
  ASSUME NEW a \in Nat, NEW b \in Nat \ {0}, NEW k \in Nat, k * b <= a
  PROVE  k <= a \div b
<1>1. PICK q \in Nat : q = a \div b /\ a < b * (q + 1)
  BY DivOf
<1>2. k * b < b * (q + 1)
  BY <1>1
<1>3. k < q + 1
  <2> SUFFICES ASSUME k >= q + 1 PROVE FALSE
    BY <1>1
  <2>1. k * b >= (q + 1) * b
    BY <1>1
  <2> QED
    BY <1>1, <1>2, <2>1
<1> QED
  BY <1>1, <1>3
LEMMA DivGrows ==
  ASSUME NEW a \in Nat, NEW b \in Nat \ {0}, NEW c \in Nat, NEW d \in Nat \ {0}, a <= c, d <= b
  PROVE  a \div b <= c \div d
<1>1. PICK q \in Nat : q = a \div b /\ b * q <= a
  BY DivOf
<1>2. q * d <= q * b
  BY <1>1
<1>3. q * d <= c
  BY <1>1, <1>2
<1> QED
  BY <1>1, <1>3, DivAtLeast

\* A vote pulls at least 0.7 one way, or has no weight.
Directed == {700, -700, 1000, -1000}
CastVote(v) ==
    /\ v.dir \in Directed \cup {0} /\ v.strength \in Nat
    /\ v.dir = 0 => v.strength = 0

LEMMA VoteIs == ASSUME NEW d, NEW n PROVE Vote(d, n).dir = d /\ Vote(d, n).strength = n
  BY DEF Vote
LEMMA SilentIs == CastVote(Silent)
  BY DEF CastVote, Silent
LEMMA VoteCast == ASSUME NEW d \in Directed, NEW n \in Nat PROVE CastVote(Vote(d, n))
  BY DEF CastVote, Vote, Directed
LEMMA EitherCast == \A n \in Nat : CastVote(Vote(1000, n)) /\ CastVote(Vote(-1000, n))
  BY VoteCast DEF Directed
LEMMA ScaledIs ==
  \A x \in Nat, w \in Nat : Scaled(x, w) \in Nat
<1> SUFFICES ASSUME NEW x \in Nat, NEW w \in Nat PROVE Scaled(x, w) \in Nat
  OBVIOUS
<1>1. x * w \in Nat
  OBVIOUS
<1>2. PICK z : z = x * w
  OBVIOUS
<1>3. z \div 1000 \in Nat
  BY <1>1, <1>2
<1> QED
  BY <1>2, <1>3 DEF Scaled
LEMMA SizeIs == \A x \in Int : Size(x) \in Nat
  BY DEF Size
LEMMA AtMostIs == \A x, cap \in Nat : AtMost(x, cap) \in Nat
  BY DEF AtMost
LEMMA ScaledMost == ASSUME NEW x \in Nat, NEW w \in Nat PROVE Scaled(AtMost(x, 1000), w) \in Nat
<1>1. CASE x > 1000
  <2>1. AtMost(x, 1000) = 1000
    BY <1>1 DEF AtMost
  <2>2. Scaled(1000, w) \in Nat
    BY ScaledIs
  <2> QED
    BY <2>1, <2>2
<1>2. CASE ~(x > 1000)
  <2>1. AtMost(x, 1000) = x
    BY <1>2 DEF AtMost
  <2>2. Scaled(x, w) \in Nat
    BY ScaledIs
  <2> QED
    BY <2>1, <2>2
<1> QED
  BY <1>1, <1>2
\* A vote is cast to either side, with whatever weight.
LEMMA CastForCast == ASSUME NEW yes, NEW n \in Nat PROVE CastVote(CastFor(yes, n))
  BY EitherCast DEF CastFor

LEMMA ToZero ==
  ASSUME NEW a \in Int, NEW b \in Nat \ {0} PROVE Toward0(a, b) \in Int
  BY DEF Toward0

\* What a detector can have found.
Legible(r) ==
    /\ r.cvd \in Int /\ r.gaps.bull \in Nat /\ r.gaps.bear \in Nat
    /\ r.sweep.conf \in Nat /\ r.absorption.conf \in Nat
    /\ r.exhaustion.conf \in Nat /\ r.stack.count \in Nat /\ r.unfinished.ratio \in Nat

LEMMA CvdCast == ASSUME NEW x \in Int PROVE CastVote(CvdVote(x))
<1>1. 2 * Size(x) \in Nat
  BY SizeIs
<1>2. PICK n : n = Scaled(AtMost(2 * Size(x), 1000), 650)
  OBVIOUS
<1>3. PICK y \in Nat : y = 2 * Size(x)
  BY <1>1
<1>4. n \in Nat
  BY <1>2, <1>3, ScaledMost
<1> QED
  BY <1>4, <1>2, CastForCast, SilentIs DEF CvdVote

LEMMA FixedCast ==
  \A x : CastVote(ShapeVote(x)) /\ CastVote(PositionVote(x)) /\ CastVote(DivergenceVote(x))
<1>1. CastVote(Vote(-1000, 800)) /\ CastVote(Vote(1000, 800)) /\ CastVote(Vote(-700, 600))
      /\ CastVote(Vote(700, 600))
  BY VoteCast DEF Directed
<1>2. ASSUME NEW x PROVE CastVote(ShapeVote(x)) /\ CastVote(PositionVote(x))
  BY <1>1, SilentIs DEF ShapeVote, PositionVote
<1>3. ASSUME NEW x PROVE CastVote(DivergenceVote(x))
  BY CastForCast, SilentIs DEF DivergenceVote
<1> QED
  BY <1>2, <1>3

LEMMA FvgCast ==
  ASSUME NEW gaps, gaps.bull \in Nat, gaps.bear \in Nat PROVE CastVote(FvgVote(gaps))
<1> DEFINE total == gaps.bull + gaps.bear
           ratio == Toward0(1000 * (gaps.bull - gaps.bear), total)
<1>1. CASE total < 2
  BY <1>1, SilentIs DEF FvgVote
<1>2. CASE ~(total < 2)
  <2>1. total \in Nat \ {0} /\ 1000 * (gaps.bull - gaps.bear) \in Int
    BY <1>2
  <2>2. PICK x : x = ratio
    OBVIOUS
  <2>3. x \in Int
    BY <2>1, <2>2, ToZero
  <2>4. PICK n : n = Scaled(AtMost(Size(x), 1000), 800)
    OBVIOUS
  <2>5. n \in Nat
    <3>1. PICK y \in Nat : y = Size(x)
      BY <2>3, SizeIs
    <3> QED
      BY <2>4, <3>1, ScaledMost
  <2>6. FvgVote(gaps) = IF Size(x) < 150 THEN Silent ELSE CastFor(x > 0, n)
    BY <1>2, <2>2, <2>4 DEF FvgVote
  <2> QED
    BY <2>5, <2>6, CastForCast, SilentIs
<1> QED
  BY <1>1, <1>2

LEMMA SweepCast == ASSUME NEW sweep, sweep.conf \in Nat PROVE CastVote(SweepVote(sweep))
<1>1. 350 \in Nat
  OBVIOUS
<1>2. PICK n : n = Scaled(sweep.conf, 350)
  OBVIOUS
<1>3. n \in Nat
  BY <1>1, <1>2, ScaledIs, Zenon
<1> QED
  BY <1>3, <1>2, CastForCast, SilentIs DEF SweepVote

\* The weight the absorption and exhaustion votes give a pattern's confidence.
LEMMA ScaledConf == ASSUME NEW a \in Nat PROVE Scaled(AtMost(a, 1000), 850) \in Nat
BY ScaledMost

LEMMA ConfirmationCast ==
  ASSUME NEW a, NEW e, a.conf \in Nat, e.conf \in Nat PROVE CastVote(ConfirmationVote(a, e))
<1>1. PICK n : n = Scaled(AtMost(a.conf, 1000), 850)
  OBVIOUS
<1>2. PICK k : k = Scaled(AtMost(e.conf, 1000), 850)
  OBVIOUS
<1>3. PICK x \in Nat : x = a.conf
  OBVIOUS
<1>4. PICK y \in Nat : y = e.conf
  OBVIOUS
<1>5. n \in Nat
  <2>1. Scaled(AtMost(x, 1000), 850) \in Nat
    BY ScaledConf
  <2> QED
    BY <1>1, <1>3, <2>1, Zenon
<1>6. k \in Nat
  <2>1. Scaled(AtMost(y, 1000), 850) \in Nat
    BY ScaledConf
  <2> QED
    BY <1>2, <1>4, <2>1, Zenon
<1> QED
  BY <1>1, <1>2, <1>5, <1>6, CastForCast, SilentIs DEF ConfirmationVote

LEMMA StackCast == ASSUME NEW stack, stack.count \in Nat PROVE CastVote(StackVote(stack))
<1>1. (1000 * stack.count) \div 15 \in Nat
  OBVIOUS
<1>2. PICK n : n = Scaled(AtMost((1000 * stack.count) \div 15, 1000), 600)
  OBVIOUS
<1>3. PICK y \in Nat : y = (1000 * stack.count) \div 15
  BY <1>1
<1>4. n \in Nat
  BY <1>2, <1>3, ScaledMost
<1> QED
  BY <1>4, <1>2, CastForCast, SilentIs DEF StackVote

LEMMA UnfinishedCast ==
  ASSUME NEW unfinished, unfinished.ratio \in Nat PROVE CastVote(UnfinishedVote(unfinished))
<1>1. (1000 * unfinished.ratio) \div 20 \in Nat
  OBVIOUS
<1>2. PICK n : n = Scaled(AtMost((1000 * unfinished.ratio) \div 20, 1000), 400)
  OBVIOUS
<1>3. PICK y \in Nat : y = (1000 * unfinished.ratio) \div 20
  BY <1>1
<1>4. n \in Nat
  BY <1>2, <1>3, ScaledMost
<1> QED
  BY <1>4, <1>2, CastForCast, SilentIs DEF UnfinishedVote

\* Every detector casts a vote.
LEMMA VotesCast ==
  ASSUME NEW r, Legible(r) PROVE \A m \in Modules : CastVote(Votes(r)[m])
<1>1. CastVote(CvdVote(r.cvd)) /\ CastVote(FvgVote(r.gaps)) /\ CastVote(SweepVote(r.sweep))
      /\ CastVote(StackVote(r.stack)) /\ CastVote(ConfirmationVote(r.absorption, r.exhaustion))
      /\ CastVote(UnfinishedVote(r.unfinished))
  BY CvdCast, FvgCast, SweepCast, StackCast, ConfirmationCast, UnfinishedCast DEF Legible
<1>2. CastVote(ShapeVote(r.shape)) /\ CastVote(PositionVote(r.place))
      /\ CastVote(DivergenceVote(r.divergence))
  BY FixedCast, Zenon
<1> QED
  BY <1>1, <1>2, Zenon DEF Votes, Modules

LEMMA ModulesFinite == IsFiniteSet(Modules)
<1> DEFINE A == {"cvd"} \cup {"vp_shape"} B == A \cup {"vp_position"} C == B \cup {"fvg"}
           D == C \cup {"sweep"} E == D \cup {"confirmation"} F == E \cup {"stacked_imb"}
           G == F \cup {"delta_div"} H == G \cup {"unfinished_auction"}
<1>1. IsFiniteSet(A)
  BY FS_Singleton, FS_AddElement
<1>2. IsFiniteSet(D)
  <2> HIDE DEF A
  <2> QED
    BY <1>1, FS_AddElement
<1>3. IsFiniteSet(H)
  <2> HIDE DEF D
  <2> QED
    BY <1>2, FS_AddElement
<1>4. Modules = H
  BY DEF Modules
<1> QED
  BY <1>3, <1>4

LEMMA WeightUnfolds ==
  ASSUME NEW votes, NEW S \in SUBSET Modules, \A m \in S : votes[m].strength \in Int
  PROVE  \E g : Sums(g, [m \in S |-> votes[m].strength], S) /\ Weight(votes, S) = g[S]
<1> DEFINE f == [m \in S |-> votes[m].strength]
           Body(g) == [T \in SUBSET S |->
                          IF T = {} THEN 0 ELSE votes[Chosen(T)].strength + g[T \ {Chosen(T)}]]
           fold == CHOOSE g : g = Body(g)
<1>a. IsFiniteSet(S)
  BY ModulesFinite, FS_Subset
<1>1. PICK g \in [SUBSET S -> Int] : Sums(g, f, S)
  <2>1. f \in [S -> Int]
    OBVIOUS
  <2> HIDE DEF f
  <2> QED
    BY <1>a, <2>1, FoldExists
<1>0. \A T \in SUBSET S : T # {} => f[Chosen(T)] = votes[Chosen(T)].strength
  BY ChosenIn
<1>2. g = Body(g)
  BY <1>0, <1>1 DEF Sums
<1>3. fold = Body(fold)
  <2> HIDE DEF Body
  <2> QED
    BY <1>2
<1>4. Weight(votes, S) = fold[S]
  BY DEF Weight, MapThenSumSet, MapThenFoldSet, Chosen
<1>5. Sums(fold, f, S)
  <2> HIDE DEF fold, f
  <2> QED
    BY <1>0, <1>3 DEF Sums
<1> QED
  BY <1>4, <1>5

LEMMA PullUnfolds ==
  ASSUME NEW votes, NEW S \in SUBSET Modules,
         \A m \in S : votes[m].dir * votes[m].strength \in Int
  PROVE  \E g : Sums(g, [m \in S |-> votes[m].dir * votes[m].strength], S) /\ Pull(votes, S) = g[S]
<1> DEFINE f == [m \in S |-> votes[m].dir * votes[m].strength]
           Body(g) == [T \in SUBSET S |->
                          IF T = {} THEN 0
                          ELSE votes[Chosen(T)].dir * votes[Chosen(T)].strength + g[T \ {Chosen(T)}]]
           fold == CHOOSE g : g = Body(g)
<1>a. IsFiniteSet(S)
  BY ModulesFinite, FS_Subset
<1>1. PICK g \in [SUBSET S -> Int] : Sums(g, f, S)
  <2>1. f \in [S -> Int]
    OBVIOUS
  <2> HIDE DEF f
  <2> QED
    BY <1>a, <2>1, FoldExists
<1>0. \A T \in SUBSET S : T # {} => f[Chosen(T)] = votes[Chosen(T)].dir * votes[Chosen(T)].strength
  BY ChosenIn
<1>2. g = Body(g)
  BY <1>0, <1>1 DEF Sums
<1>3. fold = Body(fold)
  <2> HIDE DEF Body
  <2> QED
    BY <1>2
<1>4. Pull(votes, S) = fold[S]
  BY DEF Pull, MapThenSumSet, MapThenFoldSet, Chosen
<1>5. Sums(fold, f, S)
  <2> HIDE DEF fold, f
  <2> QED
    BY <1>0, <1>3 DEF Sums
<1> QED
  BY <1>4, <1>5

\* What the votes weigh and pull, over any of the modules.
Strengths(votes) == [m \in Modules |-> votes[m].strength]
Pulls(votes) == [m \in Modules |-> votes[m].dir * votes[m].strength]
AllCast(votes) == \A m \in Modules : CastVote(votes[m])

LEMMA CastTypes ==
  ASSUME NEW votes, AllCast(votes)
  PROVE  /\ Strengths(votes) \in [Modules -> Int] /\ Pulls(votes) \in [Modules -> Int]
         /\ \A m \in Modules : Strengths(votes)[m] >= 0
         /\ \A m \in Modules : /\ -1000 * Strengths(votes)[m] <= Pulls(votes)[m]
                               /\ Pulls(votes)[m] <= 1000 * Strengths(votes)[m]
<1>1. ASSUME NEW m \in Modules
      PROVE  /\ votes[m].strength \in Nat
             /\ votes[m].dir * votes[m].strength \in Int
             /\ -1000 * votes[m].strength <= votes[m].dir * votes[m].strength
             /\ votes[m].dir * votes[m].strength <= 1000 * votes[m].strength
  <2>1. PICK d, n : d = votes[m].dir /\ n = votes[m].strength
    OBVIOUS
  <2>2. n \in Nat /\ d \in {700, -700, 1000, -1000, 0}
    BY <2>1 DEF AllCast, CastVote, Directed
  <2>3. d * n \in Int /\ -1000 * n <= d * n /\ d * n <= 1000 * n
    BY <2>2
  <2> QED
    BY <2>1, <2>2, <2>3
<1> QED
  BY <1>1 DEF Strengths, Pulls

LEMMA WeightIs ==
  ASSUME NEW votes, AllCast(votes), NEW h, Sums(h, Strengths(votes), Modules)
  PROVE  \A S \in SUBSET Modules : Weight(votes, S) = h[S]
<1> SUFFICES ASSUME NEW S \in SUBSET Modules PROVE Weight(votes, S) = h[S]
  OBVIOUS
<1> DEFINE f == [m \in S |-> votes[m].strength]
<1>1. \A m \in S : votes[m].strength \in Int
  BY DEF AllCast, CastVote
<1>2. PICK g : Sums(g, f, S) /\ Weight(votes, S) = g[S]
  BY <1>1, WeightUnfolds
<1>3. f \in [S -> Int] /\ \A m \in S : f[m] = Strengths(votes)[m]
  BY <1>1 DEF Strengths
<1> HIDE DEF f
<1> QED
  BY <1>2, <1>3, SumsAlike, CastTypes, ModulesFinite

LEMMA PullIs ==
  ASSUME NEW votes, AllCast(votes), NEW g, Sums(g, Pulls(votes), Modules)
  PROVE  \A S \in SUBSET Modules : Pull(votes, S) = g[S]
<1> SUFFICES ASSUME NEW S \in SUBSET Modules PROVE Pull(votes, S) = g[S]
  OBVIOUS
<1> DEFINE f == [m \in S |-> votes[m].dir * votes[m].strength]
<1>1. \A m \in S : votes[m].dir * votes[m].strength \in Int
  <2>1. \A m \in S : Pulls(votes)[m] \in Int
    BY CastTypes
  <2> QED
    BY <2>1 DEF Pulls
<1>2. PICK k : Sums(k, f, S) /\ Pull(votes, S) = k[S]
  BY <1>1, PullUnfolds
<1>3. f \in [S -> Int] /\ \A m \in S : f[m] = Pulls(votes)[m]
  BY <1>1 DEF Pulls
<1> HIDE DEF f
<1> QED
  BY <1>2, <1>3, SumsAlike, CastTypes, ModulesFinite

\* The votes without one of them pull and weigh less by it, and what is left is as heavy
\* as it pulls.
LEMMA Balance ==
  ASSUME NEW votes, AllCast(votes)
  PROVE  /\ \A S \in SUBSET Modules :
              /\ Weight(votes, S) \in Nat /\ Pull(votes, S) \in Int
              /\ -1000 * Weight(votes, S) <= Pull(votes, S)
              /\ Pull(votes, S) <= 1000 * Weight(votes, S)
         /\ \A m \in Modules :
              /\ Weight(votes, Modules) = votes[m].strength + Weight(votes, Modules \ {m})
              /\ Pull(votes, Modules)
                   = votes[m].dir * votes[m].strength + Pull(votes, Modules \ {m})
<1> DEFINE f == Pulls(votes)
           e == Strengths(votes)
<1>1. /\ e \in [Modules -> Int] /\ f \in [Modules -> Int] /\ \A m \in Modules : e[m] >= 0
      /\ \A m \in Modules : -1000 * e[m] <= f[m] /\ f[m] <= 1000 * e[m]
      /\ \A m \in Modules : e[m] = votes[m].strength /\ f[m] = votes[m].dir * votes[m].strength
  BY CastTypes DEF Strengths, Pulls
<1>2. IsFiniteSet(Modules) /\ e \in [Modules -> Int] /\ f \in [Modules -> Int]
  BY <1>1, ModulesFinite
<1>3. PICK g : Sums(g, f, Modules)
  <2> HIDE DEF f
  <2> QED
    BY <1>2, FoldExists
<1>4. PICK h : Sums(h, e, Modules)
  <2> HIDE DEF e
  <2> QED
    BY <1>2, FoldExists
<1>5. \A S \in SUBSET Modules : Weight(votes, S) = h[S] /\ Pull(votes, S) = g[S]
  BY <1>3, <1>4, WeightIs, PullIs
<1>6. \A S \in SUBSET Modules : g[S] \in Int /\ h[S] \in Int
  <2> HIDE DEF e, f
  <2> QED
    BY <1>2, <1>3, <1>4, SumsTyped
<1>7. \A S \in SUBSET Modules : -1000 * h[S] <= g[S] /\ g[S] <= 1000 * h[S]
  <2> HIDE DEF e, f
  <2>1. PICK k, l : k = -1000 /\ l = 1000
    OBVIOUS
  <2>2. k \in Int /\ l \in Int /\ \A m \in Modules : k * e[m] <= f[m] /\ f[m] <= l * e[m]
    BY <1>1, <2>1
  <2>3. \A S \in SUBSET Modules : k * h[S] <= g[S] /\ g[S] <= l * h[S]
    <3>1. LiesBetween(f, e, k, l, Modules)
      BY <2>2 DEF LiesBetween
    <3>2. LiesBetween(g, h, k, l, SUBSET Modules)
      <4>1. k \in Int /\ l \in Int
        BY <2>2
      <4> QED
        BY <1>2, <1>3, <1>4, <3>1, <4>1, SumsBetween
    <3> QED
      BY <3>2 DEF LiesBetween
  <2>4. ASSUME NEW S \in SUBSET Modules PROVE -1000 * h[S] <= g[S] /\ g[S] <= 1000 * h[S]
    <3>1. PICK a, b : a = g[S] /\ b = h[S]
      OBVIOUS
    <3>2. a \in Int /\ b \in Int /\ k * b <= a /\ a <= l * b
      BY <1>6, <2>3, <3>1
    <3> QED
      BY <2>1, <3>1, <3>2
  <2> QED
    BY <2>4
<1>8. ASSUME NEW m \in Modules
      PROVE  h[Modules] = e[m] + h[Modules \ {m}] /\ g[Modules] = f[m] + g[Modules \ {m}]
  <2> HIDE DEF e, f
  <2>1. h[Modules] = e[m] + h[Modules \ {m}]
    BY <1>2, <1>4, SumsSplit
  <2>2. g[Modules] = f[m] + g[Modules \ {m}]
    BY <1>2, <1>3, SumsSplit
  <2> QED
    BY <2>1, <2>2
<1>9. \A S \in SUBSET Modules : h[S] >= 0
  BY <1>6, <1>7
<1> HIDE DEF e, f
<1> QED
  BY <1>1, <1>5, <1>6, <1>7, <1>8, <1>9

\* Votes that all go one way pull at least 0.7 of their weight.
LEMMA AllOneWay ==
  ASSUME NEW votes, AllCast(votes), NEW way \in {-1, 1},
         \A m \in Modules : votes[m].strength > 0 => Sign(votes[m].dir) = way
  PROVE  700 * Weight(votes, Modules) <= way * Pull(votes, Modules)
<1> DEFINE f == Pulls(votes)
           e == Strengths(votes)
<1>1. /\ e \in [Modules -> Int] /\ f \in [Modules -> Int]
      /\ \A m \in Modules : e[m] = votes[m].strength /\ f[m] = votes[m].dir * votes[m].strength
  BY CastTypes DEF Strengths, Pulls
<1>3. PICK g : Sums(g, f, Modules)
  <2> HIDE DEF f
  <2> QED
    BY <1>1, ModulesFinite, FoldExists
<1>4. PICK h : Sums(h, e, Modules)
  <2> HIDE DEF e
  <2> QED
    BY <1>1, ModulesFinite, FoldExists
<1>5. Weight(votes, Modules) = h[Modules] /\ Pull(votes, Modules) = g[Modules]
  BY <1>3, <1>4, WeightIs, PullIs
<1>2. ASSUME NEW m \in Modules
      PROVE  /\ way = 1 => 700 * e[m] <= f[m] /\ f[m] <= 1000 * e[m]
             /\ way = -1 => -1000 * e[m] <= f[m] /\ f[m] <= -700 * e[m]
  <2>1. PICK d, n : d = votes[m].dir /\ n = votes[m].strength
    OBVIOUS
  <2>2. n \in Nat /\ d \in {700, -700, 1000, -1000, 0} /\ (d = 0 => n = 0)
        /\ (n > 0 => Sign(d) = way)
    BY <2>1 DEF AllCast, CastVote, Directed
  <2>3. /\ way = 1 => 700 * n <= d * n /\ d * n <= 1000 * n
        /\ way = -1 => -1000 * n <= d * n /\ d * n <= -700 * n
    BY <2>2 DEF Sign
  <2>4. e[m] = n /\ f[m] = d * n
    BY <1>1, <2>1
  <2> HIDE DEF e, f
  <2> QED
    BY <2>3, <2>4
<1>6. g[Modules] \in Int /\ h[Modules] \in Int
  <2> HIDE DEF e, f
  <2> QED
    BY <1>1, <1>3, <1>4, ModulesFinite, SumsTyped
<1> HIDE DEF e, f
<1>9. IsFiniteSet(Modules) /\ e \in [Modules -> Int] /\ f \in [Modules -> Int]
  BY <1>1, ModulesFinite
<1>10. PICK a, b \in Int : a = g[Modules] /\ b = h[Modules]
  BY <1>6
<1>7. CASE way = 1
  <2>1. PICK k, l : k = 700 /\ l = 1000
    OBVIOUS
  <2>2. k \in Int /\ l \in Int /\ \A m \in Modules : k * e[m] <= f[m] /\ f[m] <= l * e[m]
    BY <1>2, <1>7, <2>1
  <2>3. \A S \in SUBSET Modules : k * h[S] <= g[S] /\ g[S] <= l * h[S]
    <3>1. LiesBetween(f, e, k, l, Modules)
      BY <2>2 DEF LiesBetween
    <3>2. LiesBetween(g, h, k, l, SUBSET Modules)
      <4>1. k \in Int /\ l \in Int
        BY <2>2
      <4> QED
        BY <1>3, <1>4, <1>9, <3>1, <4>1, SumsBetween
    <3> QED
      BY <3>2 DEF LiesBetween
  <2>4. k * b <= a
    BY <1>10, <2>3
  <2> QED
    BY <1>5, <1>7, <1>10, <2>1, <2>4
<1>8. CASE way = -1
  <2>1. PICK k, l : k = -1000 /\ l = -700
    OBVIOUS
  <2>5. ASSUME NEW m \in Modules PROVE k * e[m] <= f[m] /\ f[m] <= l * e[m]
    <3>1. -1000 * e[m] <= f[m] /\ f[m] <= -700 * e[m]
      BY <1>2, <1>8
    <3>2. e[m] \in Int /\ f[m] \in Int
      BY <1>9
    <3> QED
      BY <2>1, <3>1, <3>2
  <2>2. k \in Int /\ l \in Int /\ \A m \in Modules : k * e[m] <= f[m] /\ f[m] <= l * e[m]
    BY <2>1, <2>5
  <2>3. \A S \in SUBSET Modules : k * h[S] <= g[S] /\ g[S] <= l * h[S]
    <3>1. LiesBetween(f, e, k, l, Modules)
      BY <2>2 DEF LiesBetween
    <3>2. LiesBetween(g, h, k, l, SUBSET Modules)
      <4>1. k \in Int /\ l \in Int
        BY <2>2
      <4> QED
        BY <1>3, <1>4, <1>9, <3>1, <4>1, SumsBetween
    <3> QED
      BY <3>2 DEF LiesBetween
  <2>4. a <= l * b
    BY <1>10, <2>3
  <2> QED
    BY <1>5, <1>8, <1>10, <2>1, <2>4
<1> QED
  BY <1>7, <1>8

\* The larger the score, the larger the bias: half to even rounds up no less of more.
LEMMA BiasGrows ==
  ASSUME NEW s \in Int, NEW t \in Int, Size(s) <= Size(t), Size(s) >= Flat
  PROVE  Bias(s) <= Bias(t)
<1> DEFINE x == 4 * (Size(s) - 350)
           y == 4 * (Size(t) - 350)
<1>1. x \in Nat /\ y \in Nat /\ x <= y
  BY DEF Size, Flat
<1>2. PICK a, b \in Nat : a = x \div 650 /\ b = y \div 650
  BY <1>1
<1>3. PICK c, d \in Nat : c = x % 650 /\ d = y % 650
  BY <1>1
<1>4. x = 650 * a + c /\ y = 650 * b + d /\ c < 650 /\ d < 650
  BY <1>1, <1>2, <1>3
<1>5. a <= b /\ (a = b => c <= d)
  BY <1>1, <1>4
<1> DEFINE upS == 2 * c > 650 \/ (2 * c = 650 /\ a % 2 = 1)
           upT == 2 * d > 650 \/ (2 * d = 650 /\ b % 2 = 1)
<1>6. Bias(s) = (IF upS THEN a + 1 ELSE a) + 1 /\ Bias(t) = (IF upT THEN b + 1 ELSE b) + 1
  <2>1. 1000 - Flat = 650 /\ Flat = 350
    BY DEF Flat
  <2> QED
    BY <1>2, <1>3, <2>1 DEF Bias
<1>7. a = b => (upS => upT)
  BY <1>5
<1> QED
  BY <1>5, <1>6, <1>7

ScoreOf(p, w) == IF w = 0 THEN 0 ELSE Toward0(p, w)

\* A pull is no more than the weight behind it.
Tilts(q, v) == -1000 * v <= q /\ q <= 1000 * v

\* A vote of a direction and a weight leaves a pull and a weight behind, against the way
\* the score went with it.
Opposed(dir, n, p, w, q, v, way) ==
    /\ w \in Nat /\ v \in Nat /\ p \in Int /\ q \in Int /\ n \in Nat \ {0} /\ dir \in Int
    /\ w = n + v /\ p = dir * n + q /\ Tilts(q, v)
    /\ way \in {-1, 1} /\ Sign(ScoreOf(p, w)) = way /\ Sign(dir) = -way

LEMMA ScoreGrows ==
  ASSUME NEW dir, NEW n, NEW p, NEW w, NEW q, NEW v, NEW way, Opposed(dir, n, p, w, q, v, way)
  PROVE  Size(ScoreOf(p, w)) <= Size(ScoreOf(q, v)) /\ Sign(ScoreOf(q, v)) = way
<1>0. /\ w \in Nat /\ v \in Nat /\ p \in Int /\ q \in Int /\ n \in Nat \ {0} /\ dir \in Int
      /\ w = n + v /\ p = dir * n + q /\ Tilts(q, v)
      /\ way \in {-1, 1} /\ Sign(ScoreOf(p, w)) = way /\ Sign(dir) = -way
  BY DEF Opposed
<1>1. w \in Nat \ {0} /\ v <= w
  BY <1>0
<1>2. ScoreOf(p, w) = IF p >= 0 THEN p \div w ELSE -((-p) \div w)
  BY <1>0, <1>1 DEF ScoreOf, Toward0
<1>3. CASE way = 1
  <2>1. p >= 0
    <3> SUFFICES ASSUME p < 0 PROVE FALSE
      BY <1>0
    <3>1. -p \in Nat
      BY <1>0
    <3>2. PICK k \in Nat : k = (-p) \div w
      BY <1>0, <1>1, <3>1, DivOf
    <3>3. ScoreOf(p, w) = -k
      BY <1>0, <1>2, <3>2
    <3> QED
      BY <1>0, <1>3, <3>3 DEF Sign
  <2>2. dir <= -1
    BY <1>0, <1>3 DEF Sign
  <2>3. dir * n <= -n
    BY <1>0, <2>2
  <2>4. q > p
    BY <1>0, <2>3
  <2>5. v \in Nat \ {0} /\ q \in Nat /\ p \in Nat
    BY <1>0, <2>1, <2>4 DEF Tilts
  <2>a. p <= q /\ v <= w
    BY <1>0, <1>1, <2>4
  <2>6. p \div w <= q \div v
    BY <1>0, <1>1, <2>a, <2>5, DivGrows, Zenon
  <2>7. PICK a, b \in Nat : a = p \div w /\ b = q \div v
    BY <1>0, <1>1, <2>5, DivOf
  <2>8. ScoreOf(p, w) = a /\ ScoreOf(q, v) = b
    BY <1>0, <1>2, <2>1, <2>5, <2>7 DEF ScoreOf, Toward0
  <2> QED
    BY <1>0, <1>3, <2>6, <2>7, <2>8 DEF Sign, Size
<1>4. CASE way = -1
  <2>1. p < 0
    <3> SUFFICES ASSUME p >= 0 PROVE FALSE
      BY <1>0
    <3>2. PICK k \in Nat : k = p \div w
      BY <1>0, <1>1, DivOf
    <3>3. ScoreOf(p, w) = k
      BY <1>0, <1>2, <3>2
    <3> QED
      BY <1>0, <1>4, <3>3 DEF Sign
  <2>2. dir >= 1
    BY <1>0, <1>4 DEF Sign
  <2>3. dir * n >= n
    BY <1>0, <2>2
  <2>4. -q > -p
    BY <1>0, <2>3
  <2>5. v \in Nat \ {0} /\ -q \in Nat /\ -p \in Nat /\ q < 0
    BY <1>0, <2>1, <2>4 DEF Tilts
  <2>a. -p <= -q /\ v <= w
    BY <1>0, <1>1, <2>4
  <2>6. (-p) \div w <= (-q) \div v
    BY <1>0, <1>1, <2>a, <2>5, DivGrows, Zenon
  <2>7. PICK a, b \in Nat : a = (-p) \div w /\ b = (-q) \div v
    BY <1>0, <1>1, <2>5, DivOf
  <2>8. ScoreOf(p, w) = -a /\ ScoreOf(q, v) = -b
    BY <1>0, <1>2, <2>1, <2>5, <2>7 DEF ScoreOf, Toward0
  <2> QED
    BY <1>0, <1>4, <2>6, <2>7, <2>8 DEF Sign, Size
<1> QED
  BY <1>0, <1>3, <1>4

LEMMA ScoreTyped == ASSUME NEW p \in Int, NEW w \in Nat PROVE ScoreOf(p, w) \in Int
  BY ToZero DEF ScoreOf

LEMMA BiasTyped == ASSUME NEW s \in Int PROVE Bias(s) \in Int
<1>1. 4 * (Size(s) - 350) \in Int
  BY DEF Size
<1>2. (4 * (Size(s) - 350)) \div 650 \in Int
  BY <1>1
<1> QED
  BY <1>2 DEF Bias, Flat

\* A damped score is smaller, on the same side, and in the same order.
Multipliers == {850, 1000}

LEMMA DampedIs ==
  ASSUME NEW x \in Int, NEW times \in Multipliers PROVE Damped(x, times) \in Int
  BY ToZero DEF Damped, Multipliers

DampsTo(x, times, n, d) ==
    /\ n \in Nat /\ d \in Nat /\ n = Size(x) /\ d = (n * times) \div 1000
    /\ x >= 0 => Damped(x, times) = d
    /\ x < 0 => Damped(x, times) = -d

LEMMA DampedSize ==
  ASSUME NEW x \in Int, NEW times \in Multipliers
  PROVE  \E n, d : DampsTo(x, times, n, d)
<1>1. PICK n \in Nat : n = Size(x)
  BY SizeIs
<1>2. n * times \in Nat /\ (x >= 0 => n = x) /\ (x < 0 => n = -x)
  BY <1>1 DEF Size, Multipliers
<1>3. PICK d \in Nat : d = (n * times) \div 1000
  BY <1>2, DivOf
<1>4. CASE x >= 0
  <2>1. n = x /\ x * times >= 0
    BY <1>2, <1>4 DEF Multipliers
  <2>2. Damped(x, times) = (n * times) \div 1000
    BY <2>1 DEF Damped, Toward0
  <2> QED
    BY <1>1, <1>3, <1>4, <2>2 DEF DampsTo
<1>5. CASE x < 0
  <2>1. n = -x /\ ~(x * times >= 0) /\ -(x * times) = n * times
    BY <1>2, <1>5 DEF Multipliers
  <2>2. Damped(x, times) = -((n * times) \div 1000)
    BY <2>1 DEF Damped, Toward0
  <2> QED
    BY <1>1, <1>3, <1>5, <2>2 DEF DampsTo
<1> QED
  BY <1>4, <1>5

LEMMA DampedSign ==
  ASSUME NEW x \in Int, NEW times \in Multipliers, Size(Damped(x, times)) >= Flat
  PROVE  Sign(Damped(x, times)) = Sign(x)
<1>0. PICK n, d : DampsTo(x, times, n, d)
  BY DampedSize, Zenon
<1>1. /\ n \in Nat /\ d \in Nat /\ n = Size(x) /\ d = (n * times) \div 1000
      /\ x >= 0 => Damped(x, times) = d
      /\ x < 0 => Damped(x, times) = -d
  BY <1>0 DEF DampsTo
<1>2. d >= 350
  BY <1>1 DEF Flat, Size
<1>3. x # 0
  <2> SUFFICES ASSUME x = 0 PROVE FALSE
    OBVIOUS
  <2>1. n = 0
    BY <1>1 DEF Size
  <2>2. n * times = 0
    BY <2>1 DEF Multipliers
  <2>3. d = 0
    BY <1>1, <2>2
  <2> QED
    BY <1>2, <2>3
<1> QED
  BY <1>1, <1>2, <1>3 DEF Sign

LEMMA DampedGrows ==
  ASSUME NEW x \in Int, NEW y \in Int, NEW times \in Multipliers, Size(x) <= Size(y)
  PROVE  Size(Damped(x, times)) <= Size(Damped(y, times))
<1>0. PICK n, d : DampsTo(x, times, n, d)
  BY DampedSize, Zenon
<1>1. /\ n \in Nat /\ d \in Nat /\ n = Size(x) /\ d = (n * times) \div 1000
      /\ x >= 0 => Damped(x, times) = d
      /\ x < 0 => Damped(x, times) = -d
  BY <1>0 DEF DampsTo
<1>a. PICK m, e : DampsTo(y, times, m, e)
  BY DampedSize, Zenon
<1>2. /\ m \in Nat /\ e \in Nat /\ m = Size(y) /\ e = (m * times) \div 1000
      /\ y >= 0 => Damped(y, times) = e
      /\ y < 0 => Damped(y, times) = -e
  BY <1>a DEF DampsTo
<1>3. n * times \in Nat /\ m * times \in Nat /\ n * times <= m * times
  BY <1>1, <1>2 DEF Multipliers
<1>4. d <= e
  BY <1>1, <1>2, <1>3, DivGrows
<1>5. Size(Damped(x, times)) = d /\ Size(Damped(y, times)) = e
  BY <1>1, <1>2 DEF Size
<1> QED
  BY <1>4, <1>5

\* What a decision is, of its score.
LEMMA DecisionIs ==
  ASSUME NEW votes, NEW S, NEW times, NEW s \in Int, s = Damped(Score(votes, S), times)
  PROVE  /\ Decision(votes, S, times).side = IF Size(s) < Flat THEN "flat" ELSE IF s > 0 THEN "long" ELSE "short"
         /\ Size(s) >= Flat => Decision(votes, S, times).bias = Bias(s)
<1>1. CASE Size(s) < Flat
  <2>1. Decision(votes, S, times) = [side |-> "flat", bias |-> 1]
    BY <1>1 DEF Decision
  <2>2. ~(Size(s) >= Flat)
    BY <1>1 DEF Size, Flat
  <2> QED
    BY <1>1, <2>1, <2>2
<1>2. CASE ~(Size(s) < Flat)
  <2>1. Decision(votes, S, times) = [side |-> IF s > 0 THEN "long" ELSE "short", bias |-> Bias(s)]
    BY <1>2 DEF Decision
  <2> QED
    BY <1>2, <2>1
<1> QED
  BY <1>1, <1>2

LEMMA SignOf == ASSUME NEW s \in Int
                PROVE  /\ Size(s) >= Flat => Sign(s) = (IF s > 0 THEN 1 ELSE -1)
                       /\ Sign(s) = 1 <=> s > 0
                       /\ Sign(s) = -1 <=> s < 0
  BY DEF Size, Sign, Flat

\* Without a vote against it, a decision stands and is no less sure.
LEMMA WithoutOpposition ==
  ASSUME NEW votes, AllCast(votes), NEW times \in Multipliers,
         NEW m \in Modules, votes[m].strength > 0,
         Decision(votes, Modules, times).side # "flat",
         Sign(votes[m].dir) = (IF Decision(votes, Modules, times).side = "long" THEN -1 ELSE 1)
  PROVE  /\ Decision(votes, Modules \ {m}, times).side = Decision(votes, Modules, times).side
         /\ Decision(votes, Modules \ {m}, times).bias >= Decision(votes, Modules, times).bias
<1>1. PICK w, v, p, q, n, dir :
         /\ w = Weight(votes, Modules) /\ v = Weight(votes, Modules \ {m})
         /\ p = Pull(votes, Modules) /\ q = Pull(votes, Modules \ {m})
         /\ n = votes[m].strength /\ dir = votes[m].dir
  OBVIOUS
<1>2. /\ w \in Nat /\ v \in Nat /\ p \in Int /\ q \in Int
      /\ w = n + v /\ p = dir * n + q /\ Tilts(q, v)
  <2>1. Modules \ {m} \in SUBSET Modules /\ Modules \in SUBSET Modules
    OBVIOUS
  <2> QED
    BY <1>1, <2>1, Balance DEF Tilts
<1>3. n \in Nat \ {0} /\ dir \in Int
  <2>1. CastVote(votes[m])
    BY DEF AllCast
  <2> QED
    BY <1>1, <2>1 DEF CastVote, Directed
<1>4. PICK x, y : x = ScoreOf(p, w) /\ y = ScoreOf(q, v)
  OBVIOUS
<1>a. x \in Int /\ y \in Int /\ x = Score(votes, Modules) /\ y = Score(votes, Modules \ {m})
  BY <1>1, <1>2, <1>4, ScoreTyped DEF Score, ScoreOf
<1>b. PICK s, t : s = Damped(x, times) /\ t = Damped(y, times)
  OBVIOUS
<1>5. /\ s \in Int /\ t \in Int
      /\ s = Damped(Score(votes, Modules), times) /\ t = Damped(Score(votes, Modules \ {m}), times)
  BY <1>a, <1>b, DampedIs
<1>6. /\ Decision(votes, Modules, times).side = IF Size(s) < Flat THEN "flat" ELSE IF s > 0 THEN "long" ELSE "short"
      /\ Size(s) >= Flat => Decision(votes, Modules, times).bias = Bias(s)
  BY <1>5, DecisionIs
<1>7. /\ Decision(votes, Modules \ {m}, times).side = IF Size(t) < Flat THEN "flat" ELSE IF t > 0 THEN "long" ELSE "short"
      /\ Size(t) >= Flat => Decision(votes, Modules \ {m}, times).bias = Bias(t)
  BY <1>5, DecisionIs
<1>8. PICK way : way = IF s > 0 THEN 1 ELSE -1
  OBVIOUS
<1>9. Size(s) >= Flat
  <2>1. ~(Size(s) < Flat)
    BY <1>6
  <2> QED
    BY <1>5, <2>1 DEF Size, Flat
<1>10. way \in {-1, 1} /\ Sign(s) = way /\ Sign(x) = way
  <2>1. way \in {-1, 1} /\ Sign(s) = way
    BY <1>5, <1>8, <1>9, SignOf
  <2>2. Sign(s) = Sign(x)
    BY <1>5, <1>9, <1>a, <1>b, DampedSign
  <2> QED
    BY <2>1, <2>2
<1>11. Sign(dir) = -way
  <2>1. CASE s > 0
    <3>1. Decision(votes, Modules, times).side = "long"
      BY <1>6, <2>1
    <3> QED
      BY <1>1, <1>8, <2>1, <3>1
  <2>2. CASE ~(s > 0)
    <3>1. Decision(votes, Modules, times).side = "short"
      BY <1>6, <2>2
    <3> QED
      BY <1>1, <1>8, <2>2, <3>1
  <2> QED
    BY <2>1, <2>2
<1>12. Size(s) <= Size(t) /\ Sign(t) = way
  <2>1. Sign(ScoreOf(p, w)) = way
    BY <1>4, <1>10
  <2>2. Size(ScoreOf(p, w)) <= Size(ScoreOf(q, v)) /\ Sign(ScoreOf(q, v)) = way
    <3>1. Opposed(dir, n, p, w, q, v, way)
      BY <1>2, <1>3, <1>10, <1>11, <2>1 DEF Opposed
    <3> QED
      BY <3>1, ScoreGrows
  <2>3. Size(x) <= Size(y) /\ Sign(y) = way
    BY <1>4, <2>2
  <2>4. Size(s) <= Size(t)
    BY <1>a, <1>b, <2>3, DampedGrows
  <2>5. Size(t) >= Flat
    BY <1>5, <1>9, <2>4 DEF Size, Flat
  <2>6. Sign(t) = Sign(y)
    BY <1>a, <1>b, <2>5, DampedSign
  <2> QED
    BY <2>3, <2>4, <2>6
<1>13. Size(t) >= Flat /\ Bias(s) <= Bias(t) /\ (t > 0 <=> s > 0)
  <2>1. Bias(s) <= Bias(t)
    BY <1>5, <1>9, <1>12, BiasGrows
  <2>2. Size(t) >= Flat
    BY <1>5, <1>9, <1>12 DEF Size, Flat
  <2>3. t > 0 <=> s > 0
    BY <1>5, <1>8, <1>10, <1>12, SignOf
  <2> QED
    BY <2>1, <2>2, <2>3
<1>14. ~(Size(t) < Flat)
  BY <1>5, <1>13 DEF Size, Flat
<1>15. Decision(votes, Modules \ {m}, times).side = Decision(votes, Modules, times).side
  BY <1>6, <1>7, <1>13, <1>14
<1>16. Bias(s) \in Int /\ Bias(t) \in Int
  BY <1>5, BiasTyped
<1>17. PICK a, b \in Int : a = Bias(s) /\ b = Bias(t)
  BY <1>16
<1>18. b >= a
  BY <1>13, <1>17
<1>19. Decision(votes, Modules \ {m}, times).bias = b /\ Decision(votes, Modules, times).bias = a
  BY <1>6, <1>7, <1>9, <1>13, <1>17
<1> QED
  BY <1>15, <1>18, <1>19

\* Votes that all go one way decide.
LEMMA Unanimous ==
  ASSUME NEW votes, AllCast(votes), NEW times \in Multipliers,
         NEW way \in {-1, 1}, NEW c \in Modules, votes[c].strength > 0,
         \A m \in Modules : votes[m].strength > 0 => Sign(votes[m].dir) = way
  PROVE  Decision(votes, Modules, times).side = IF way = 1 THEN "long" ELSE "short"
<1>1. PICK w, p : w = Weight(votes, Modules) /\ p = Pull(votes, Modules)
  OBVIOUS
<1>2. w \in Nat /\ p \in Int /\ w > 0
  <2>1. Modules \ {c} \in SUBSET Modules /\ Modules \in SUBSET Modules
    OBVIOUS
  <2>2. PICK n, v : n = votes[c].strength /\ v = Weight(votes, Modules \ {c})
    OBVIOUS
  <2>3. w \in Nat /\ p \in Int /\ w = n + v /\ v \in Nat
    BY <1>1, <2>1, <2>2, Balance
  <2>4. n \in Nat /\ n > 0
    BY <2>2 DEF AllCast, CastVote
  <2> QED
    BY <2>3, <2>4
<1>3. 700 * w <= way * p
  BY <1>1, AllOneWay
<1>4. PICK x : x = Score(votes, Modules)
  OBVIOUS
<1>5. x = IF p >= 0 THEN p \div w ELSE -((-p) \div w)
  BY <1>1, <1>2, <1>4 DEF Score, Toward0
<1>6. x \in Int /\ (way = 1 => x >= 700) /\ (way = -1 => x <= -700)
  <2>1. ASSUME way = 1 PROVE x >= 700
    <3>1. p \in Nat /\ 700 * w <= p
      BY <1>2, <1>3, <2>1
    <3>2. PICK k \in Nat : k = p \div w
      BY <1>2, <3>1, DivOf
    <3>3. 700 <= p \div w
      BY <1>2, <3>1, DivAtLeast
    <3> QED
      BY <1>5, <2>1, <3>1, <3>2, <3>3
  <2>2. ASSUME way = -1 PROVE x <= -700
    <3>1. -p \in Nat /\ 700 * w <= -p /\ p < 0
      BY <1>2, <1>3, <2>2
    <3>2. PICK k \in Nat : k = (-p) \div w
      BY <1>2, <3>1, DivOf
    <3>3. 700 <= (-p) \div w
      BY <1>2, <3>1, DivAtLeast
    <3>4. ~(p >= 0)
      BY <1>2, <3>1
    <3>5. x = -k
      BY <1>5, <3>2, <3>4
    <3> QED
      BY <3>2, <3>3, <3>5
  <2>3. x \in Int
    BY <1>2, <1>4, <1>5, DivOf
  <2>4. way = 1 \/ way = -1
    OBVIOUS
  <2> QED
    BY <2>1, <2>2, <2>3, <2>4
<1>a. PICK s : s = Damped(x, times)
  OBVIOUS
<1>b. s \in Int /\ (way = 1 => s >= 595) /\ (way = -1 => s <= -595)
  <2>1. s = IF x * times >= 0 THEN (x * times) \div 1000 ELSE -((-(x * times)) \div 1000)
    BY <1>a DEF Damped, Toward0
  <2>2. CASE times = 850
    BY <1>6, <2>1, <2>2
  <2>3. CASE times = 1000
    BY <1>6, <2>1, <2>3
  <2> QED
    BY <2>2, <2>3 DEF Multipliers
<1>7. Decision(votes, Modules, times).side = IF Size(s) < Flat THEN "flat" ELSE IF s > 0 THEN "long" ELSE "short"
  BY <1>4, <1>a, <1>b, DecisionIs
<1>8. ~(Size(s) < Flat) /\ (s > 0 <=> way = 1)
  BY <1>b DEF Size, Flat
<1> QED
  BY <1>7, <1>8

(***************************************************************************)
(* The auction: the surest of its signals.                                 *)
(***************************************************************************)
\* The fold that keeps the surest of the signals, on the subsets of their indices.
KeepsSurest(g, sig, D) ==
    \A T \in SUBSET D :
        g[T] = IF T = {} THEN Quiet ELSE Surer(g[T \ {Max(T)}], sig[Max(T)])

LEMMA WithoutMax ==
  ASSUME NEW n \in Nat, NEW T \in SUBSET (1..n), T # {}
  PROVE  /\ Max(T) \in T /\ T \ {Max(T)} \in SUBSET (1..n) /\ IsFiniteSet(T)
         /\ Cardinality(T) \in Nat /\ Cardinality(T \ {Max(T)}) = Cardinality(T) - 1
         /\ Cardinality(T \ {Max(T)}) \in Nat
<1>1. IsFiniteSet(1..n)
  BY FS_Interval
<1>2. IsFiniteSet(T) /\ T \subseteq Int
  <2>1. T \subseteq Int
    OBVIOUS
  <2>2. PICK D : D = 1..n
    OBVIOUS
  <2>3. IsFiniteSet(T)
    BY <1>1, <2>2, FS_Subset
  <2> QED
    BY <2>1, <2>3
<1>3. Max(T) \in T
  BY <1>2, ExtremesIn
<1>4. PICK x \in T : x = Max(T)
  BY <1>3
<1>5. Cardinality(T) \in Nat /\ IsFiniteSet(T \ {x}) /\ Cardinality(T \ {x}) = Cardinality(T) - 1
      /\ Cardinality(T \ {x}) \in Nat
  BY <1>2, <1>4, FS_CardinalityType, FS_RemoveElement
<1> QED
  BY <1>2, <1>4, <1>5

LEMMA SurestExists ==
  ASSUME NEW n \in Nat, NEW sig, NEW V, Quiet \in V, \A i \in 1..n : sig[i] \in V
  PROVE  \E g \in [SUBSET (1..n) -> V] : KeepsSurest(g, sig, 1..n)
<1> DEFINE D == 1..n
           Folded(g, T) == IF T = {} THEN Quiet ELSE Surer(g[T \ {Max(T)}], sig[Max(T)])
           UpTo(k) == \E g \in [SUBSET D -> V] :
                        \A T \in SUBSET D : Cardinality(T) <= k => g[T] = Folded(g, T)
           N == { k \in Nat : UpTo(k) }
<1>d. IsFiniteSet(D)
  BY FS_Interval
<1>0. \A T \in SUBSET D : IsFiniteSet(T) /\ Cardinality(T) \in Nat /\ Cardinality(T) <= Cardinality(D)
  <2> HIDE DEF D
  <2> QED
    BY <1>d, FS_Subset, FS_CardinalityType
<1>1. 0 \in N
  <2>1. \A T \in SUBSET D : Cardinality(T) <= 0 => T = {}
    <3> HIDE DEF D
    <3> QED
      BY <1>0, FS_EmptySet
  <2> DEFINE g == [T \in SUBSET D |-> Quiet]
  <2>2. g \in [SUBSET D -> V] /\ \A T \in SUBSET D : Cardinality(T) <= 0 => g[T] = Folded(g, T)
    BY <2>1
  <2> QED
    BY <2>2
<1>2. ASSUME NEW k \in N PROVE k + 1 \in N
  <2>1. PICK g \in [SUBSET D -> V] :
            \A T \in SUBSET D : Cardinality(T) <= k => g[T] = Folded(g, T)
    BY <1>2
  <2> DEFINE h == [T \in SUBSET D |-> IF Cardinality(T) <= k THEN g[T] ELSE Folded(g, T)]
  <2>2. ASSUME NEW T \in SUBSET D, T # {}
        PROVE  /\ T \ {Max(T)} \in SUBSET D /\ Max(T) \in D
               /\ Cardinality(T \ {Max(T)}) = Cardinality(T) - 1 /\ Cardinality(T) \in Nat
    BY <2>2, WithoutMax
  <2>3. ASSUME NEW T \in SUBSET D PROVE Folded(g, T) \in V
    <3>1. CASE T = {}
      BY <3>1
    <3>2. CASE T # {}
      <4>1. g[T \ {Max(T)}] \in V /\ sig[Max(T)] \in V
        BY <2>2, <3>2
      <4>2. Surer(g[T \ {Max(T)}], sig[Max(T)]) \in V
        BY <4>1 DEF Surer
      <4> QED
        BY <3>2, <4>2
    <3> QED
      BY <3>1, <3>2
  <2>4. h \in [SUBSET D -> V]
    <3> HIDE DEF Folded, D
    <3> QED
      BY <2>3
  <2>5. ASSUME NEW T \in SUBSET D, Cardinality(T) <= k + 1 PROVE h[T] = Folded(h, T)
    <3>1. h[T] = Folded(g, T)
      <4> HIDE DEF Folded, D
      <4> QED
        BY <2>1
    <3>2. CASE T = {}
      BY <3>1, <3>2
    <3>3. CASE T # {}
      <4>1. h[T \ {Max(T)}] = g[T \ {Max(T)}]
        BY <2>2, <2>5, <3>3
      <4> QED
        BY <3>1, <3>3, <4>1
    <3> QED
      BY <3>2, <3>3
  <2>6. UpTo(k + 1)
    <3> HIDE DEF h, Folded, D
    <3> QED
      BY <2>4, <2>5
  <2>7. k + 1 \in Nat
    BY <1>2
  <2> HIDE DEF UpTo
  <2> QED
    BY <2>6, <2>7
<1>3. Cardinality(D) \in N
  <2> HIDE DEF N
  <2>1. N \in SUBSET Nat
    BY DEF N
  <2>2. N = Nat
    BY <1>1, <1>2, <2>1, Induction
  <2>3. Cardinality(D) \in Nat
    BY <1>0
  <2> QED
    BY <2>2, <2>3
<1>4. PICK g \in [SUBSET D -> V] :
          \A T \in SUBSET D : Cardinality(T) <= Cardinality(D) => g[T] = Folded(g, T)
  BY <1>3
<1> QED
  BY <1>0, <1>4 DEF KeepsSurest

\* What the fold keeps is one of the signals, if any is sure at all, and none is surer.
LEMMA SurestIs ==
  ASSUME NEW n \in Nat, NEW sig, NEW g, KeepsSurest(g, sig, 1..n), \A i \in 1..n : sig[i].conf \in Int
  PROVE  /\ g[1..n] = Quiet \/ \E i \in 1..n : g[1..n] = sig[i] /\ sig[i].conf > 0
         /\ \A i \in 1..n : sig[i].conf <= g[1..n].conf
<1> DEFINE P(k) == k <= n =>
                     /\ g[1..k] = Quiet \/ \E i \in 1..k : g[1..k] = sig[i] /\ sig[i].conf > 0
                     /\ \A i \in 1..k : sig[i].conf <= g[1..k].conf
           N == { k \in Nat : P(k) }
<1>1. 0 \in N
  <2>1. 1..0 = {}
    OBVIOUS
  <2>2. g[{}] = Quiet
    BY DEF KeepsSurest
  <2> QED
    BY <2>1, <2>2
<1>2. ASSUME NEW k \in N PROVE k + 1 \in N
  <2> SUFFICES ASSUME k + 1 <= n
               PROVE  /\ \/ g[1..(k + 1)] = Quiet
                         \/ \E i \in 1..(k + 1) : g[1..(k + 1)] = sig[i] /\ sig[i].conf > 0
                      /\ \A i \in 1..(k + 1) : sig[i].conf <= g[1..(k + 1)].conf
    OBVIOUS
  <2>1. PICK T : T = 1..(k + 1)
    OBVIOUS
  <2>2. T \in SUBSET (1..n) /\ T # {} /\ k + 1 \in T /\ \A y \in T : y <= k + 1
    BY <2>1
  <2>3. Max(T) = k + 1
    <3>1. IsFiniteSet(T) /\ T \subseteq Int
      BY <2>1, FS_Interval
    <3>2. Max(T) \in T /\ Max(T) >= k + 1
      BY <2>2, <3>1, ExtremesIn
    <3> QED
      BY <2>1, <2>2, <3>2
  <2>4. T \ {k + 1} = 1..k
    BY <2>1
  <2>5. g[T] = Surer(g[1..k], sig[k + 1])
    BY <2>2, <2>3, <2>4 DEF KeepsSurest
  <2>6. PICK a, s : a = g[1..k] /\ s = sig[k + 1]
    OBVIOUS
  <2>7. /\ a = Quiet \/ \E i \in 1..k : a = sig[i] /\ sig[i].conf > 0
        /\ \A i \in 1..k : sig[i].conf <= a.conf
    <3>1. P(k) /\ k <= n
      OBVIOUS
    <3> HIDE DEF N
    <3> QED
      BY <2>6, <3>1
  <2>8. a.conf \in Int /\ a.conf >= 0 /\ s.conf \in Int
    <3>1. Quiet.conf = 0
      BY DEF Quiet
    <3>2. \A i \in 1..k : sig[i].conf \in Int
      OBVIOUS
    <3> QED
      BY <2>6, <2>7, <3>1, <3>2
  <2>9. g[T] = IF s.conf > a.conf THEN s ELSE a
    BY <2>5, <2>6 DEF Surer
  <2>10. \A i \in 1..(k + 1) : i \in 1..k \/ i = k + 1
    OBVIOUS
  <2>11. 1..k \subseteq 1..(k + 1) /\ k + 1 \in 1..(k + 1)
    OBVIOUS
  <2>12. CASE s.conf > a.conf
    <3>1. g[T] = s /\ s.conf > 0
      BY <2>8, <2>9, <2>12
    <3>2. \A i \in 1..k : sig[i].conf \in Int /\ sig[i].conf <= s.conf
      BY <2>7, <2>8, <2>12
    <3>3. \A i \in 1..(k + 1) : sig[i].conf <= g[T].conf
      BY <2>6, <2>8, <2>10, <3>1, <3>2
    <3>4. \E i \in 1..(k + 1) : g[T] = sig[i] /\ sig[i].conf > 0
      BY <2>6, <2>11, <3>1
    <3> QED
      BY <2>1, <3>3, <3>4
  <2>13. CASE ~(s.conf > a.conf)
    <3>1. g[T] = a
      BY <2>9, <2>13
    <3>2. \A i \in 1..(k + 1) : sig[i].conf <= g[T].conf
      BY <2>6, <2>7, <2>8, <2>10, <2>13, <3>1
    <3>3. g[T] = Quiet \/ \E i \in 1..(k + 1) : g[T] = sig[i] /\ sig[i].conf > 0
      BY <2>7, <2>11, <3>1
    <3> QED
      BY <2>1, <3>2, <3>3
  <2> QED
    BY <2>12, <2>13
<1>3. N = Nat
  <2>1. N \in SUBSET Nat
    OBVIOUS
  <2> HIDE DEF N
  <2> QED
    BY <1>1, <1>2, <2>1, Induction
<1>4. P(n)
  BY <1>3
<1> QED
  BY <1>4

\* The signals of the zones.
SignalsOf(sig, bars, thin, n) ==
    /\ n \in Nat /\ DOMAIN thin = 1..n /\ \A i \in 1..n : sig[i] = InZone(bars, thin[i])

\* The signal of the auction is the value of such a fold.
LEMMA AuctionUnfolds ==
  ASSUME NEW sig, NEW bars, NEW thin, NEW n, SignalsOf(sig, bars, thin, n)
  PROVE  \E g : KeepsSurest(g, sig, 1..n) /\ Auction(bars, thin) = g[1..n]
<1> DEFINE Body(g) == [T \in SUBSET (1..n) |->
                          IF T = {} THEN Quiet
                          ELSE Surer(g[T \ {Max(T)}], InZone(bars, thin[Max(T)]))]
           fold == CHOOSE g : g = Body(g)
           V == {Quiet} \cup {sig[i] : i \in 1..n}
<1>a. n \in Nat /\ DOMAIN thin = 1..n /\ \A i \in 1..n : sig[i] = InZone(bars, thin[i])
  BY DEF SignalsOf
<1>0. \A T \in SUBSET (1..n) : T # {} => sig[Max(T)] = InZone(bars, thin[Max(T)])
  BY <1>a, WithoutMax
<1>1. PICK g \in [SUBSET (1..n) -> V] : KeepsSurest(g, sig, 1..n)
  <2>1. Quiet \in V /\ \A i \in 1..n : sig[i] \in V
    OBVIOUS
  <2> HIDE DEF V
  <2> QED
    BY <1>a, <2>1, SurestExists
<1>2. g = Body(g)
  BY <1>0, <1>1 DEF KeepsSurest
<1>3. fold = Body(fold)
  <2> HIDE DEF Body
  <2> QED
    BY <1>2
<1>4. Auction(bars, thin) = fold[1..n]
  BY <1>a DEF Auction, FoldLeft, MapThenFoldSet
<1>5. KeepsSurest(fold, sig, 1..n)
  <2> HIDE DEF fold
  <2> QED
    BY <1>0, <1>3 DEF KeepsSurest
<1> QED
  BY <1>4, <1>5

LEMMA LargerOf == ASSUME NEW a \in Int, NEW b \in Int PROVE Max({a, b}) \in Int
<1>1. IsFiniteSet({a}) /\ {a} \cup {b} = {a, b}
  BY FS_Singleton
<1>2. IsFiniteSet({a, b})
  BY <1>1, FS_AddElement
<1>3. PICK S : S = {a, b}
  OBVIOUS
<1>4. IsFiniteSet(S) /\ S # {} /\ S \subseteq Int
  BY <1>2, <1>3
<1>5. Max(S) \in S
  BY <1>4, ExtremesIn
<1> QED
  BY <1>3, <1>4, <1>5

LEMMA PercentTyped == ASSUME NEW x \in Int PROVE Percent(x) \in Int
<1>1. Least(100, x) \in Int
  BY DEF Least
<1> QED
  BY <1>1, LargerOf DEF Percent

LEMMA RoundTyped == ASSUME NEW a \in Int, NEW b \in Nat \ {0} PROVE RoundTo(a, b) \in Int
  BY DEF RoundTo

LEMMA FailureTyped ==
  ASSUME NEW ratio \in Int, NEW dwelt \in Nat \ {0}, NEW strength \in Int
  PROVE  FailureConf(ratio, dwelt, strength) \in Int
<1>1. PICK thin \in Int : thin = Max({0, (100 * (40 - ratio)) \div 40})
  <2>1. (100 * (40 - ratio)) \div 40 \in Int
    OBVIOUS
  <2> QED
    BY <2>1, LargerOf
<1>2. PICK x \in Int : x = 40 * thin + 35 * (100 \div dwelt) + 25 * Percent(strength)
  <2>1. 100 \div dwelt \in Int /\ Percent(strength) \in Int
    BY PercentTyped
  <2> QED
    BY <2>1
<1>3. PICK y \in Int : y = RoundTo(x, 100)
  BY RoundTyped
<1>4. PICK z \in Int : z = Least(90, y + 30)
  BY DEF Least
<1>5. FailureConf(ratio, dwelt, strength) = Max({35, z})
  BY <1>1, <1>2, <1>3, <1>4 DEF FailureConf
<1> QED
  BY <1>5, LargerOf

LEMMA VisitTyped ==
  ASSUME NEW last, last.h \in Int, last.l \in Int, last.c \in Int, last.l <= last.h, NEW zone,
         NEW ratio \in Int, NEW dwelt \in Nat \ {0}
  PROVE  Visit(last, zone, ratio, dwelt).conf \in Int
<1>1. ClosePct(last) \in Int
  <2>1. CASE last.h = last.l
    BY <2>1 DEF ClosePct
  <2>2. CASE last.h # last.l
    <3>1. last.h - last.l \in Nat \ {0} /\ 100 * (last.c - last.l) \in Int
      BY <2>2
    <3> QED
      BY <2>2, <3>1 DEF ClosePct
  <2> QED
    BY <2>1, <2>2
<1>2. FailureConf(ratio, dwelt, ClosePct(last)) \in Int
      /\ FailureConf(ratio, dwelt, 100 - ClosePct(last)) \in Int
  BY <1>1, FailureTyped
<1>3. Accepts(last, zone, ratio, dwelt).conf \in Int
  <2>1. PICK z \in Int : z = Least(75, 40 + (15 * (ratio - 120)) \div 100)
    BY DEF Least
  <2>2. Quiet.conf \in Int
    BY DEF Quiet
  <2> QED
    BY <2>1, <2>2 DEF Accepts
<1> QED
  BY <1>2, <1>3 DEF Visit

\* What the bars hold that the auction reads.
Readable(bars) ==
    /\ bars \in Seq([o : Int, h : Int, l : Int, c : Int, vol : Nat, delta : Int])
    /\ \A i \in DOMAIN bars : bars[i].l <= bars[i].h

LEMMA VolumeUnfolds ==
  ASSUME NEW bars, NEW S, IsFiniteSet(S), \A i \in S : bars[i].vol \in Int
  PROVE  \E g : Sums(g, [i \in S |-> bars[i].vol], S) /\ VolumeOf(bars, S) = g[S]
<1> DEFINE f == [i \in S |-> bars[i].vol]
           Body(g) == [T \in SUBSET S |->
                          IF T = {} THEN 0 ELSE bars[Chosen(T)].vol + g[T \ {Chosen(T)}]]
           fold == CHOOSE g : g = Body(g)
<1>1. PICK g \in [SUBSET S -> Int] : Sums(g, f, S)
  <2>1. f \in [S -> Int]
    OBVIOUS
  <2> HIDE DEF f
  <2> QED
    BY <2>1, FoldExists
<1>0. \A T \in SUBSET S : T # {} => f[Chosen(T)] = bars[Chosen(T)].vol
  BY ChosenIn
<1>2. g = Body(g)
  BY <1>0, <1>1 DEF Sums
<1>3. fold = Body(fold)
  <2> HIDE DEF Body
  <2> QED
    BY <1>2
<1>4. VolumeOf(bars, S) = fold[S]
  BY DEF VolumeOf, MapThenSumSet, MapThenFoldSet, Chosen
<1>5. Sums(fold, f, S)
  <2> HIDE DEF fold, f
  <2> QED
    BY <1>0, <1>3 DEF Sums
<1> QED
  BY <1>4, <1>5

\* A volume is a number, and more than nothing where something was traded.
LEMMA VolumeTyped ==
  ASSUME NEW bars, NEW S, IsFiniteSet(S), \A i \in S : bars[i].vol \in Nat
  PROVE  /\ VolumeOf(bars, S) \in Nat
         /\ \A i \in S : VolumeOf(bars, S) >= bars[i].vol
<1> DEFINE f == [i \in S |-> bars[i].vol]
<1>0. \A i \in S : bars[i].vol \in Int
  OBVIOUS
<1>1. PICK g : Sums(g, f, S) /\ VolumeOf(bars, S) = g[S]
  BY <1>0, VolumeUnfolds
<1>2. f \in [S -> Nat] /\ \A i \in S : f[i] = bars[i].vol
  OBVIOUS
<1> HIDE DEF f
<1>3. g[S] \in Nat /\ \A i \in S : g[S] >= f[i]
  BY <1>1, <1>2, SumsNatural
<1> QED
  BY <1>1, <1>2, <1>3

LEMMA SignalTyped ==
  ASSUME NEW bars, Readable(bars), NEW zone, Dwell \in Nat \ {0}
  PROVE  InZone(bars, zone).conf \in Int
<1> DEFINE inside == {i \in DOMAIN bars : /\ i > Len(bars) - Dwell
                                       /\ bars[i].l <= zone.hi /\ bars[i].h >= zone.lo}
           traded == {i \in DOMAIN bars : bars[i].vol > 0}
           a == 100 * VolumeOf(bars, inside) * Cardinality(traded)
           b == Cardinality(inside) * VolumeOf(bars, traded)
<1>1. Len(bars) \in Nat /\ DOMAIN bars = 1..Len(bars)
      /\ \A i \in DOMAIN bars : /\ bars[i].h \in Int /\ bars[i].l \in Int /\ bars[i].c \in Int
                                /\ bars[i].vol \in Nat /\ bars[i].l <= bars[i].h
  <2>1. Len(bars) \in Nat /\ DOMAIN bars = 1..Len(bars)
    BY DEF Readable
  <2>2. ASSUME NEW i \in DOMAIN bars
        PROVE  /\ bars[i].h \in Int /\ bars[i].l \in Int /\ bars[i].c \in Int
               /\ bars[i].vol \in Nat /\ bars[i].l <= bars[i].h
    <3>0. PICK B : B = [o : Int, h : Int, l : Int, c : Int, vol : Nat, delta : Int]
      OBVIOUS
    <3>3. bars \in Seq(B)
      BY <3>0 DEF Readable
    <3>1. bars[i] \in [o : Int, h : Int, l : Int, c : Int, vol : Nat, delta : Int]
      <4>1. i \in 1..Len(bars) /\ Len(bars) \in Nat
        BY <2>1
      <4>2. bars[i] \in B
        BY <3>3, <4>1
      <4> QED
        BY <3>0, <4>2, Zenon
    <3>2. bars[i].l <= bars[i].h
      BY DEF Readable
    <3> QED
      BY <3>1, <3>2
  <2> QED
    BY <2>1, <2>2
<1>2. IsFiniteSet(inside) /\ IsFiniteSet(traded)
  <2>1. IsFiniteSet(DOMAIN bars)
    BY <1>1, FS_Interval
  <2> QED
    BY <2>1, FS_Subset
<1>3. CASE Len(bars) < Dwell \/ inside = {} \/ traded = {}
  <2>1. InZone(bars, zone) = Quiet
    BY <1>3 DEF InZone
  <2> QED
    BY <2>1 DEF Quiet
<1>4. CASE ~(Len(bars) < Dwell \/ inside = {} \/ traded = {})
  <2>1. InZone(bars, zone) = Visit(bars[Len(bars)], zone, a \div b, Cardinality(inside))
    BY <1>4 DEF InZone
  <2>2. Len(bars) \in DOMAIN bars
    BY <1>1, <1>4
  <2>3. \A i \in inside : bars[i].vol \in Nat
    BY <1>1
  <2>4. PICK j : j \in traded /\ bars[j].vol \in Nat /\ bars[j].vol > 0
    BY <1>1, <1>4
  <2>5. \A i \in traded : bars[i].vol \in Nat
    BY <1>1
  <2>6. Cardinality(inside) \in Nat \ {0} /\ Cardinality(traded) \in Nat
    <3> HIDE DEF inside, traded
    <3> QED
      BY <1>2, <1>4, FS_CardinalityType, FS_EmptySet
  <2>7. VolumeOf(bars, inside) \in Nat
    <3> HIDE DEF inside, traded
    <3> QED
      BY <1>2, <2>3, VolumeTyped
  <2>8. VolumeOf(bars, traded) \in Nat \ {0}
    <3> HIDE DEF inside, traded
    <3>1. VolumeOf(bars, traded) \in Nat /\ VolumeOf(bars, traded) >= bars[j].vol
      BY <1>2, <2>4, <2>5, VolumeTyped
    <3> QED
      BY <2>4, <3>1
  <2>9. a \in Nat /\ b \in Nat \ {0}
    <3> HIDE DEF inside, traded
    <3> QED
      BY <2>6, <2>7, <2>8
  <2>10. PICK ratio \in Int : ratio = a \div b
    <3> HIDE DEF a, b
    <3> QED
      BY <2>9
  <2>11. PICK last : last = bars[Len(bars)]
    OBVIOUS
  <2>12. last.h \in Int /\ last.l \in Int /\ last.c \in Int /\ last.l <= last.h
    BY <1>1, <2>2, <2>11
  <2>13. PICK k \in Nat \ {0} : k = Cardinality(inside)
    BY <2>6
  <2>14. Visit(last, zone, ratio, k).conf \in Int
    BY <2>12, VisitTyped
  <2> QED
    BY <2>1, <2>10, <2>11, <2>13, <2>14
<1> QED
  BY <1>3, <1>4

\* Turned round, the zones give the same signal, or two of them are as sure.
LEMMA OrderTies ==
  ASSUME NEW bars, Readable(bars), Dwell \in Nat \ {0}, NEW thin, thin \in Seq([lo : Int, hi : Int])
  PROVE  \/ Auction(bars, Reverse(thin)) = Auction(bars, thin)
         \/ \E i, j \in DOMAIN thin : i # j /\ InZone(bars, thin[i]).conf = InZone(bars, thin[j]).conf
<1>1. PICK n \in Nat : n = Len(thin) /\ DOMAIN thin = 1..n
  OBVIOUS
<1>2. PICK rev : rev = Reverse(thin)
  OBVIOUS
<1>3. DOMAIN rev = 1..n /\ \A i \in 1..n : rev[i] = thin[(n - i) + 1]
  BY <1>1, <1>2 DEF Reverse
<1>4. PICK sig : sig = [i \in 1..n |-> InZone(bars, thin[i])]
  OBVIOUS
<1>5. PICK gis : gis = [i \in 1..n |-> sig[(n - i) + 1]]
  OBVIOUS
<1>6. \A i \in 1..n : (n - i) + 1 \in 1..n
  OBVIOUS
<1>7. \A i \in 1..n : sig[i] = InZone(bars, thin[i]) /\ gis[i] = InZone(bars, rev[i])
  BY <1>3, <1>4, <1>5, <1>6
<1>8. \A i \in 1..n : sig[i].conf \in Int /\ gis[i].conf \in Int
  BY <1>7, SignalTyped
<1>9. PICK g : KeepsSurest(g, sig, 1..n) /\ Auction(bars, thin) = g[1..n]
  <2>1. SignalsOf(sig, bars, thin, n)
    BY <1>1, <1>7 DEF SignalsOf
  <2> QED
    BY <2>1, AuctionUnfolds
<1>10. PICK h : KeepsSurest(h, gis, 1..n) /\ Auction(bars, rev) = h[1..n]
  <2>1. SignalsOf(gis, bars, rev, n)
    BY <1>3, <1>7 DEF SignalsOf
  <2> QED
    BY <2>1, AuctionUnfolds
<1>11. PICK a, b : a = g[1..n] /\ b = h[1..n]
  OBVIOUS
<1>12. /\ a = Quiet \/ \E i \in 1..n : a = sig[i] /\ sig[i].conf > 0
       /\ \A i \in 1..n : sig[i].conf <= a.conf
  BY <1>8, <1>9, <1>11, SurestIs
<1>13. /\ b = Quiet \/ \E i \in 1..n : b = gis[i] /\ gis[i].conf > 0
       /\ \A i \in 1..n : gis[i].conf <= b.conf
  BY <1>8, <1>10, <1>11, SurestIs
<1>14. \A i \in 1..n : sig[i] = gis[(n - i) + 1] /\ gis[i] = sig[(n - i) + 1]
  <2>1. \A i \in 1..n : (n - ((n - i) + 1)) + 1 = i
    OBVIOUS
  <2> QED
    BY <1>5, <1>6, <2>1
<1>15. \A i \in 1..n : sig[i].conf <= b.conf
  BY <1>6, <1>13, <1>14
<1>16. Quiet.conf = 0
  BY DEF Quiet
<1>17. b = Quiet \/ \E j \in 1..n : b = sig[j] /\ sig[j].conf > 0
  BY <1>6, <1>13, <1>14
<1>18. ASSUME a = Quiet PROVE b = a
  <2>3. \A j \in 1..n : ~(sig[j].conf > 0)
    BY <1>8, <1>12, <1>16, <1>18
  <2>1. b = Quiet
    BY <1>17, <2>3
  <2> QED
    BY <1>18, <2>1
<1>19. ASSUME NEW i \in 1..n, a = sig[i], sig[i].conf > 0
       PROVE  \/ b = a
              \/ \E j \in 1..n : i # j /\ sig[i].conf = sig[j].conf
  <2>1. b # Quiet
    BY <1>8, <1>15, <1>16, <1>19
  <2>2. PICK j \in 1..n : b = sig[j]
    BY <1>17, <2>1
  <2>3. sig[i].conf = sig[j].conf
    BY <1>8, <1>12, <1>15, <1>19, <2>2
  <2> QED
    BY <1>19, <2>2, <2>3
<1>20. b = a \/ \E i, j \in 1..n : i # j /\ sig[i].conf = sig[j].conf
  <2>1. CASE a = Quiet
    BY <1>18, <2>1
  <2>2. CASE \E i \in 1..n : a = sig[i] /\ sig[i].conf > 0
    BY <1>19, <2>2
  <2> QED
    BY <1>12, <2>1, <2>2
<1>21. ASSUME NEW i \in 1..n, NEW j \in 1..n, i # j, sig[i].conf = sig[j].conf
       PROVE  \E k, m \in DOMAIN thin :
                 k # m /\ InZone(bars, thin[k]).conf = InZone(bars, thin[m]).conf
  <2>1. InZone(bars, thin[i]).conf = InZone(bars, thin[j]).conf
    BY <1>7, <1>21
  <2>2. i \in DOMAIN thin /\ j \in DOMAIN thin
    BY <1>1
  <2> QED
    BY <1>21, <2>1, <2>2, Zenon
<1>22. b = a => Auction(bars, Reverse(thin)) = Auction(bars, thin)
  BY <1>2, <1>9, <1>10, <1>11
<1> QED
  BY <1>20, <1>21, <1>22

(***************************************************************************)
(* The day type: what a sign of range does to it.                          *)
(***************************************************************************)
LEMMA SignsFinite == IsFiniteSet(Signs)
<1> DEFINE A == {"ib"} \cup {"shape"} B == A \cup {"cvd"} C == B \cup {"rotation"}
           D == C \cup {"width"}
<1>1. IsFiniteSet(B)
  BY FS_Singleton, FS_AddElement
<1>2. IsFiniteSet(D)
  <2> HIDE DEF B
  <2> QED
    BY <1>1, FS_AddElement
<1>3. Signs = D
  BY DEF Signs
<1> QED
  BY <1>2, <1>3

LEMMA TrendUnfolds ==
  ASSUME NEW points, \A s \in Signs : points[s].trend \in Int
  PROVE  TrendPoints(points) = SumOf([s \in Signs |-> points[s].trend], Signs)
<1> DEFINE f == [s \in Signs |-> points[s].trend]
           Body(g) == [T \in SUBSET Signs |->
                          IF T = {} THEN 0 ELSE points[Chosen(T)].trend + g[T \ {Chosen(T)}]]
           fold == CHOOSE g : g = Body(g)
<1>a. f \in [Signs -> Int] /\ IsFiniteSet(Signs)
  BY SignsFinite
<1>1. PICK g \in [SUBSET Signs -> Int] : Sums(g, f, Signs)
  <2> HIDE DEF f
  <2> QED
    BY <1>a, FoldExists
<1>0. \A T \in SUBSET Signs : T # {} => f[Chosen(T)] = points[Chosen(T)].trend
  BY ChosenIn
<1>2. g = Body(g)
  BY <1>0, <1>1 DEF Sums
<1>3. fold = Body(fold)
  <2> HIDE DEF Body
  <2> QED
    BY <1>2
<1>4. TrendPoints(points) = fold[Signs]
  BY DEF TrendPoints, MapThenSumSet, MapThenFoldSet, Chosen
<1>5. Sums(fold, f, Signs)
  <2> HIDE DEF fold, f
  <2> QED
    BY <1>0, <1>3 DEF Sums
<1> HIDE DEF f, fold
<1>6. PICK h : Sums(h, f, Signs) /\ SumOf(f, Signs) = h[Signs]
  BY <1>a, SumUnfolds
<1>7. h[Signs] = fold[Signs]
  BY <1>a, <1>5, <1>6, SumsAlike
<1> QED
  BY <1>4, <1>6, <1>7 DEF f

LEMMA RangeUnfolds ==
  ASSUME NEW points, \A s \in Signs : points[s].range \in Int
  PROVE  RangePoints(points) = SumOf([s \in Signs |-> points[s].range], Signs)
<1> DEFINE f == [s \in Signs |-> points[s].range]
           Body(g) == [T \in SUBSET Signs |->
                          IF T = {} THEN 0 ELSE points[Chosen(T)].range + g[T \ {Chosen(T)}]]
           fold == CHOOSE g : g = Body(g)
<1>a. f \in [Signs -> Int] /\ IsFiniteSet(Signs)
  BY SignsFinite
<1>1. PICK g \in [SUBSET Signs -> Int] : Sums(g, f, Signs)
  <2> HIDE DEF f
  <2> QED
    BY <1>a, FoldExists
<1>0. \A T \in SUBSET Signs : T # {} => f[Chosen(T)] = points[Chosen(T)].range
  BY ChosenIn
<1>2. g = Body(g)
  BY <1>0, <1>1 DEF Sums
<1>3. fold = Body(fold)
  <2> HIDE DEF Body
  <2> QED
    BY <1>2
<1>4. RangePoints(points) = fold[Signs]
  BY DEF RangePoints, MapThenSumSet, MapThenFoldSet, Chosen
<1>5. Sums(fold, f, Signs)
  <2> HIDE DEF fold, f
  <2> QED
    BY <1>0, <1>3 DEF Sums
<1> HIDE DEF f, fold
<1>6. PICK h : Sums(h, f, Signs) /\ SumOf(f, Signs) = h[Signs]
  BY <1>a, SumUnfolds
<1>7. h[Signs] = fold[Signs]
  BY <1>a, <1>5, <1>6, SumsAlike
<1> QED
  BY <1>4, <1>6, <1>7 DEF f

\* The points of a sign.
Counted(p) == p.trend \in Nat /\ p.range \in Nat

LEMMA PointsAre ==
  /\ Counted(NoPoints) /\ \A n \in Nat : Counted(ForTrend(n)) /\ Counted(ForRange(n))
  /\ \A n : ForRange(n).trend = 0 /\ ForRange(n).range = n
  /\ NoPoints.trend = 0 /\ NoPoints.range = 0
  BY DEF Counted, NoPoints, ForTrend, ForRange

LEMMA SignsCounted ==
  ASSUME NEW bars, NEW profile, profile.shape \in {"none", "D", "P", "b"}, NEW cvd
  PROVE  /\ Counted(InitialBalance(bars)) /\ Counted(ShapePoints(profile))
         /\ Counted(CvdPoints(cvd)) /\ Counted(Rotation(bars, profile))
<1>1. /\ Counted(NoPoints) /\ Counted(ForTrend(5)) /\ Counted(ForTrend(2)) /\ Counted(ForRange(3))
      /\ Counted(ForRange(4)) /\ Counted(ForTrend(3)) /\ Counted(ForTrend(4)) /\ Counted(ForRange(2))
  BY PointsAre
<1>2. Counted(InitialBalance(bars))
  BY <1>1, Zenon DEF InitialBalance
<1>3. Counted(ShapePoints(profile))
  <2>1. CASE profile.shape = "none"
    BY <1>1, <2>1 DEF ShapePoints
  <2>2. CASE profile.shape = "D"
    BY <1>1, <2>2 DEF ShapePoints
  <2>3. CASE profile.shape \in {"P", "b"}
    BY <1>1, <2>3 DEF ShapePoints
  <2> QED
    BY <2>1, <2>2, <2>3
<1>4. Counted(CvdPoints(cvd))
  <2>1. CASE cvd \in {"bullish", "bearish"}
    BY <1>1, <2>1 DEF CvdPoints
  <2>2. CASE cvd = "oscillating"
    BY <1>1, <2>2 DEF CvdPoints
  <2>3. CASE cvd \notin {"bullish", "bearish"} /\ cvd # "oscillating"
    BY <1>1, <2>3 DEF CvdPoints
  <2> QED
    BY <2>1, <2>2, <2>3
<1>5. Counted(Rotation(bars, profile))
  BY <1>1, Zenon DEF Rotation
<1> QED
  BY <1>2, <1>3, <1>4, <1>5

\* Narrowing value areas say two points of range, and few sessions nothing.
LEMMA WidthsSay == WidthPoints(<<>>) = NoPoints /\ WidthPoints(<<20, 15, 10>>) = ForRange(2)
<1>1. WidthPoints(<<>>) = NoPoints
  <2>1. Len(<<>>) < 2
    OBVIOUS
  <2> QED
    BY <2>1 DEF WidthPoints
<1>2. WidthPoints(<<20, 15, 10>>) = ForRange(2)
  <2>1. PICK w : w = <<20, 15, 10>>
    OBVIOUS
  <2>2. Len(w) = 3 /\ w[1] = 20 /\ w[2] = 15 /\ w[3] = 10
    BY <2>1
  <2>3. \A i \in 2..3 : w[i] < w[i - 1]
    <3>1. \A i \in 2..3 : i = 2 \/ i = 3
      OBVIOUS
    <3> QED
      BY <2>2, <3>1
  <2>4. (1000 * (w[3] - w[1])) \div w[1] = -500
    <3>1. 1000 * (10 - 20) = (-500) * 20
      OBVIOUS
    <3>2. (1000 * (10 - 20)) \div 20 = -500
      BY <3>1
    <3> QED
      BY <2>2, <3>2
  <2>5. WidthPoints(w) = ForRange(2)
    BY <2>2, <2>3, <2>4 DEF WidthPoints, SizeOf
  <2> QED
    BY <2>1, <2>5
<1> QED
  BY <1>1, <1>2

\* With range added, no confirmed trend appears.
LEMMA RangeWeakens ==
  ASSUME NEW t \in Nat, NEW r \in Nat, NEW dir, NEW taken, Blocked(Weighed(t, r + 2, dir), taken)
  PROVE  Blocked(Weighed(t, r, dir), taken)
<1>1. PICK k \in Nat \ {0} : k = t + (r + 2)
  OBVIOUS
<1>2. PICK a \in Nat : a = SizeOf(t - (r + 2))
  <2>1. \A x \in Int : SizeOf(x) \in Nat
    BY DEF SizeOf
  <2>2. t - (r + 2) \in Int
    OBVIOUS
  <2> QED
    BY <2>1, <2>2
<1>3. PICK y : y = RoundTo(40 * k + 60 * a, k)
  OBVIOUS
<1>4. /\ Weighed(t, r + 2, dir).conf >= 75 /\ Fights(Weighed(t, r + 2, dir), taken)
  BY DEF Blocked, BlockFloor
<1>5. t - (r + 2) > 2
  <2> SUFFICES ASSUME ~(t - (r + 2) > 2) PROVE FALSE
    OBVIOUS
  <2>1. Weighed(t, r + 2, dir).type \in {"range", "uncertain"}
    BY <1>1 DEF Weighed, DayType
  <2> QED
    BY <1>4, <2>1 DEF Fights
<1>6. Weighed(t, r + 2, dir) = DayType(dir, Least(90, y))
  BY <1>1, <1>2, <1>3, <1>5 DEF Weighed
<1>7. a = t - (r + 2)
  BY <1>2, <1>5 DEF SizeOf
<1>8. y = (2 * (40 * k + 60 * a) + k) \div (2 * k)
  BY <1>3 DEF RoundTo
<1>9. PICK m \in Nat : m = 2 * (40 * k + 60 * a) + k
  OBVIOUS
<1>10. PICK n \in Nat \ {0} : n = 2 * k
  OBVIOUS
<1>11. y \in Nat /\ n * y <= m
  BY <1>8, <1>9, <1>10, DivOf
<1>12. y >= 75
  BY <1>4, <1>6, <1>11 DEF DayType, Least
<1>13. 75 * n <= m
  <2>1. n * y >= n * 75
    BY <1>11, <1>12
  <2> QED
    BY <1>11, <2>1
<1>14. 120 * a >= 69 * k
  BY <1>9, <1>10, <1>13
<1>15. PICK l \in Nat \ {0} : l = t + r
  BY <1>5
<1>16. PICK b \in Nat : b = SizeOf(t - r) /\ b = t - r
  BY <1>5 DEF SizeOf
<1>17. PICK p \in Nat, q \in Nat \ {0} : p = 2 * (40 * l + 60 * b) + l /\ q = 2 * l
  OBVIOUS
<1>18. 75 * q <= p
  BY <1>1, <1>7, <1>14, <1>15, <1>16, <1>17
<1>19. 75 <= p \div q /\ p \div q \in Nat
  BY <1>17, <1>18, DivAtLeast, DivOf
<1>20. PICK z \in Nat : z = p \div q /\ z >= 75
  BY <1>19
<1>21. RoundTo(40 * l + 60 * b, l) = z
  BY <1>17, <1>20 DEF RoundTo
<1>22. t - r > 2 /\ ~(l = 0)
  BY <1>5
<1>23. Weighed(t, r, dir) = DayType(dir, Least(90, z))
  BY <1>15, <1>16, <1>21, <1>22 DEF Weighed
<1>24. Least(90, z) >= 75
  BY <1>20 DEF Least
<1>25. Fights(DayType(dir, Least(90, z)), taken)
  BY <1>4, <1>6 DEF Fights, DayType
<1> QED
  BY <1>23, <1>24, <1>25 DEF Blocked, BlockFloor, DayType

LEMMA NarrowingBlocksNothing ==
  ASSUME NEW bars, NEW profile, profile.shape \in {"none", "D", "P", "b"}, NEW taken,
         Blocked(DayRead(bars, profile, <<20, 15, 10>>), taken)
  PROVE  Blocked(DayRead(bars, profile, <<>>), taken)
<1>1. CASE Len(bars) < MinBars
  <2>1. DayRead(bars, profile, <<20, 15, 10>>) = Unknown /\ DayRead(bars, profile, <<>>) = Unknown
    BY <1>1 DEF DayRead
  <2> QED
    BY <2>1
<1>2. CASE ~(Len(bars) < MinBars)
  <2>1. PICK p, q : /\ p = SignPoints(bars, profile, <<>>)
                    /\ q = SignPoints(bars, profile, <<20, 15, 10>>)
    OBVIOUS
  <2>2. /\ \A s \in Signs : s # "width" => q[s] = p[s]
        /\ p["width"] = NoPoints /\ q["width"] = ForRange(2) /\ "width" \in Signs
    BY <2>1, WidthsSay, Zenon DEF SignPoints, Signs
  <2>3. \A s \in Signs : Counted(p[s])
    <3>1. Counted(NoPoints)
      BY PointsAre
    <3>2. /\ Counted(InitialBalance(bars)) /\ Counted(ShapePoints(profile))
          /\ Counted(CvdPoints(CvdTrend(Running(bars)))) /\ Counted(Rotation(bars, profile))
      BY SignsCounted
    <3> QED
      BY <2>1, <3>1, <3>2, WidthsSay, Zenon DEF SignPoints, Signs
  <2>4. \A s \in Signs : Counted(q[s])
    <3>1. Counted(ForRange(2))
      BY PointsAre
    <3> QED
      BY <2>2, <2>3, <3>1
  <2> DEFINE tp == [s \in Signs |-> p[s].trend]
             tq == [s \in Signs |-> q[s].trend]
             rp == [s \in Signs |-> p[s].range]
             rq == [s \in Signs |-> q[s].range]
  <2>5. tp \in [Signs -> Nat] /\ tq \in [Signs -> Nat] /\ rp \in [Signs -> Nat] /\ rq \in [Signs -> Nat]
    BY <2>3, <2>4 DEF Counted
  <2>6. /\ TrendPoints(p) = SumOf(tp, Signs) /\ TrendPoints(q) = SumOf(tq, Signs)
        /\ RangePoints(p) = SumOf(rp, Signs) /\ RangePoints(q) = SumOf(rq, Signs)
    BY <2>3, <2>4, TrendUnfolds, RangeUnfolds DEF Counted
  <2>7. /\ tq = tp /\ rp["width"] = 0 /\ rq["width"] = 2
        /\ \A s \in Signs : s # "width" => rq[s] = rp[s]
    BY <2>2, PointsAre
  <2> HIDE DEF tp, tq, rp, rq
  <2>8. SumOf(rq, Signs) = SumOf(rp, Signs) - rp["width"] + rq["width"]
    <3>1. rp \in [Signs -> Int] /\ rq \in [Signs -> Int]
      BY <2>5
    <3> QED
      BY <2>2, <2>7, <3>1, SignsFinite, SumChanges
  <2>9. TrendPoints(p) \in Nat /\ RangePoints(p) \in Nat
    <3>1. \A f \in [Signs -> Nat] : SumOf(f, Signs) \in Nat
      <4> SUFFICES ASSUME NEW f \in [Signs -> Nat] PROVE SumOf(f, Signs) \in Nat
        OBVIOUS
      <4>1. f \in [Signs -> Int]
        OBVIOUS
      <4>2. PICK g : Sums(g, f, Signs) /\ SumOf(f, Signs) = g[Signs]
        BY <4>1, SignsFinite, SumUnfolds
      <4> QED
        BY <4>2, SignsFinite, SumsNatural
    <3> QED
      BY <2>5, <2>6, <3>1
  <2>10. PICK t, r \in Nat : t = TrendPoints(p) /\ r = RangePoints(p)
    BY <2>9
  <2>11. TrendPoints(q) = t /\ RangePoints(q) = r + 2
    BY <2>6, <2>7, <2>8, <2>10
  <2>12. PICK dir : dir = IF Upward(Running(bars)) THEN "trend_up" ELSE "trend_down"
    OBVIOUS
  <2>13. /\ DayRead(bars, profile, <<>>) = Weighed(t, r, dir)
         /\ DayRead(bars, profile, <<20, 15, 10>>) = Weighed(t, r + 2, dir)
    BY <1>2, <2>1, <2>10, <2>11, <2>12 DEF DayRead
  <2> QED
    BY <2>13, RangeWeakens
<1> QED
  BY <1>1, <1>2

(***************************************************************************)
(* The votes and the gates.                                                *)
(***************************************************************************)
VotesInv ==
    /\ reading = NoReading \/ reading \in Readings
    /\ gate.kind = "market" => gate \in Markets

LEMMA ReadingFound == ASSUME VotesInv PROVE Legible(reading)
<1>1. Legible(NoReading)
  BY DEF NoReading, Legible
<1>2. \A r \in Readings : Legible(r)
  BY DirectionAssumption DEF Legible
<1> QED
  BY <1>1, <1>2 DEF VotesInv

LEMMA MarketKnown ==
  ASSUME VotesInv, gate.kind = "market"
  PROVE  /\ gate.profile.shape \in {"none", "D", "P", "b"} /\ Readable(gate.bars)
         /\ gate.profile.thin \in Seq([lo : Int, hi : Int]) /\ Dwell \in Nat \ {0}
  BY GatesAssumption DEF VotesInv, Readable

LEMMA VotesWeigh == ASSUME VotesInv PROVE VotesWeighed
<1>1. AllCast(Votes(reading))
  BY ReadingFound, VotesCast DEF AllCast
<1>a. Multiplier(reading) \in Multipliers
  BY DEF Multiplier, Multipliers
<1>2. OppositionOnlyWeakens
  <2> SUFFICES ASSUME Decision(Votes(reading), Modules, Multiplier(reading)).side # "flat", NEW m \in Modules,
                      Votes(reading)[m].strength > 0,
                      Sign(Votes(reading)[m].dir)
                        = (IF Decision(Votes(reading), Modules, Multiplier(reading)).side = "long" THEN -1 ELSE 1)
               PROVE  /\ Decision(Votes(reading), Modules \ {m}, Multiplier(reading)).side
                            = Decision(Votes(reading), Modules, Multiplier(reading)).side
                      /\ Decision(Votes(reading), Modules \ {m}, Multiplier(reading)).bias
                            >= Decision(Votes(reading), Modules, Multiplier(reading)).bias
    BY DEF OppositionOnlyWeakens, DecideDirection
  <2> QED
    BY <1>1, <1>a, WithoutOpposition
<1>3. UnanimityDecides
  <2> SUFFICES ASSUME NEW way \in {-1, 1}, NEW c \in Modules, Votes(reading)[c].strength > 0,
                      \A m \in Modules :
                         Votes(reading)[m].strength > 0 => Sign(Votes(reading)[m].dir) = way
               PROVE  Decision(Votes(reading), Modules, Multiplier(reading)).side = IF way = 1 THEN "long" ELSE "short"
    BY DEF UnanimityDecides, DecideDirection
  <2> QED
    BY <1>1, <1>a, Unanimous
<1>4. RangeNeverBlocks
  BY MarketKnown, NarrowingBlocksNothing DEF RangeNeverBlocks
<1>5. OrderOnlyBreaksTies
  BY MarketKnown, OrderTies DEF OrderOnlyBreaksTies
<1> QED
  BY <1>2, <1>3, <1>4, <1>5 DEF VotesWeighed

\* Whatever the detectors read and whatever market is asked about: silencing a vote against
\* the decision never turns or weakens it, a unanimous panel decides (direction_engine.py),
\* narrowing value areas block no entry that steady ones let through (day_type.py), and the
\* order of the thin zones decides between equally sure signals only (auction.py).
THEOREM VotesAreWeighed == ReadSpec => []VotesWeighed
<1>1. ReadInit => VotesInv
  BY DEF ReadInit, DirectionInit, GatesInit, VotesInv
<1>2. VotesInv /\ [ReadNext]_readVars => VotesInv'
  <2> SUFFICES ASSUME VotesInv, [ReadNext]_readVars PROVE VotesInv'
    OBVIOUS
  <2>1. CASE DirectionNext /\ UNCHANGED gate
    BY <2>1 DEF DirectionNext, VotesInv
  <2>2. CASE GatesNext /\ UNCHANGED reading
    BY <2>2, GatesAssumption DEF GatesNext, VotesInv
  <2>3. CASE UNCHANGED <<reading, gate>>
    BY <2>3 DEF VotesInv
  <2>4. CASE UNCHANGED readVars
    BY <2>3, <2>4 DEF readVars
  <2>5. ReadNext => \/ DirectionNext /\ UNCHANGED gate
                    \/ GatesNext /\ UNCHANGED reading
                    \/ UNCHANGED <<reading, gate>>
    BY DEF ReadNext, Others
  <2> QED
    BY <2>1, <2>2, <2>3, <2>4, <2>5
<1>3. VotesInv => VotesWeighed
  BY VotesWeigh
<1> QED
  BY <1>1, <1>2, <1>3, PTL DEF ReadSpec

(***************************************************************************)
(* The climax flip: what protects, waits and pays.                         *)
(***************************************************************************)
\* A bar of trades.
OfTrades(b) ==
    /\ b.o \in Int /\ b.h \in Int /\ b.l \in Int /\ b.c \in Int
    /\ b.l <= b.o /\ b.l <= b.c /\ b.o <= b.h /\ b.c <= b.h
    /\ \A i \in DOMAIN b.cells : b.cells[i].price \in b.l..b.h
    /\ \A i \in DOMAIN b.stacks :
          /\ b.stacks[i].lo \in b.l..b.h /\ b.stacks[i].hi \in b.l..b.h
          /\ b.stacks[i].lo < b.stacks[i].hi
\* A climax as the detectors meet it.
Met(m) == m.buf \in Nat \ {0} /\ OfTrades(m.peak) /\ OfTrades(m.flip)

LEMMA ClimaxesMet ==
  ASSUME NEW m \in Climaxes
  PROVE  /\ Met(m) /\ m.vp.thin \in Seq([lo : Int, hi : Int])
         /\ IsFiniteSet(m.gaps) /\ m.gaps \subseteq [lo : Int, hi : Int]
<1>1. \A b \in {m.peak, m.flip} : OfTrades(b)
  BY ClimaxAssumption DEF OfTrades
<1> QED
  BY <1>1, ClimaxAssumption DEF Met

\* A stack chosen on a bar is one of the bar's, of the side asked for.
LEMMA LongestOnBar ==
  ASSUME NEW b, OfTrades(b), NEW s, NEW z \in Longest(b, s)
  PROVE  z.lo \in b.l..b.h /\ z.hi \in b.l..b.h /\ z.lo < z.hi
<1>1. PICK i \in DOMAIN b.stacks : z = b.stacks[i]
  BY DEF Longest
<1> QED
  BY <1>1 DEF OfTrades

\* So is a cell, and a level a limit may wait at.
LEMMA LevelOnBar ==
  ASSUME NEW b, OfTrades(b), NEW long, NEW mode, NEW x \in EntryLevel(b, long, mode)
  PROVE  x \in b.l..b.h
<1>1. CASE mode = "imbalance"
  <2>1. PICK z \in Longest(b, Trapped(long)) : x = IF long THEN z.hi ELSE z.lo
    BY <1>1 DEF EntryLevel
  <2> QED
    BY <2>1, LongestOnBar
<1>2. CASE mode = "lvn"
  <2>1. x \in ThinCell(b, long)
    BY <1>2 DEF EntryLevel
  <2>2. PICK i \in DOMAIN b.cells : x = b.cells[i].price
    BY <2>1 DEF ThinCell
  <2> QED
    BY <2>2 DEF OfTrades
<1>3. CASE mode # "imbalance" /\ mode # "lvn"
  BY <1>3 DEF EntryLevel
<1> QED
  BY <1>1, <1>2, <1>3

\* A mark whose stop is on the losing side has its target on the other.
Guarded(k) ==
    /\ k.long \in BOOLEAN /\ k.entry \in Int /\ k.sl \in Int /\ k.tp \in Int
    /\ Way(k.long) * (k.entry - k.sl) > 0
    /\ Way(k.long) * (k.tp - k.entry) > 0
    /\ Gap(k.tp, k.entry) >= Gap(k.entry, k.sl)

LEMMA MarkGuarded ==
  ASSUME NEW long \in BOOLEAN, NEW entry \in Int, NEW isLimit, NEW sl \in Int,
         Way(long) * (entry - sl) > 0
  PROVE  /\ Guarded(Mark(long, entry, isLimit, sl))
         /\ Mark(long, entry, isLimit, sl).long = long
         /\ Mark(long, entry, isLimit, sl).entry = entry
         /\ Mark(long, entry, isLimit, sl).isLimit = isLimit
         /\ Mark(long, entry, isLimit, sl).sl = sl
<1>1. CASE long
  BY <1>1 DEF Mark, Guarded, Gap, Way
<1>2. CASE ~long
  BY <1>2 DEF Mark, Guarded, Gap, Way
<1> QED
  BY <1>1, <1>2

\* The stop protects an entry between a bar's extremes and beyond: the stack's if that does,
\* else one beyond both bars.
LEMMA StopGuards ==
  ASSUME NEW m, Met(m), NEW long \in BOOLEAN, NEW entry \in Int, NEW stack,
         \A x \in stack : x \in Int,
         entry \in m.peak.l..m.peak.h \/ entry \in m.flip.l..m.flip.h
  PROVE  StopFor(m, long, entry, stack) \in Int
         /\ Way(long) * (entry - StopFor(m, long, entry, stack)) > 0
<1>1. CASE stack # {} /\ Protects(stack, entry, long)
  <2>1. StopFor(m, long, entry, stack) = CHOOSE x \in stack : TRUE
    BY <1>1 DEF StopFor
  <2>2. StopFor(m, long, entry, stack) \in stack
    BY <1>1, <2>1
  <2> QED
    BY <1>1, <2>2 DEF Protects
<1>2. CASE ~(stack # {} /\ Protects(stack, entry, long))
  <2>1. StopFor(m, long, entry, stack)
          = IF long THEN Best(m.peak.l, m.flip.l, TRUE) - m.buf
            ELSE Best(m.peak.h, m.flip.h, FALSE) + m.buf
    BY <1>2 DEF StopFor
  <2>2. /\ m.buf \in Nat \ {0} /\ m.peak.l \in Int /\ m.peak.h \in Int
        /\ m.flip.l \in Int /\ m.flip.h \in Int
    BY DEF Met, OfTrades
  <2> QED
    BY <2>1, <2>2 DEF Best, Way
<1> QED
  BY <1>1, <1>2

\* What a mode may rest a limit at.
Limits(m, long) == {x \in EntryLevel(m.peak, long, m.mode) : Improves(x, m.flip.c, long)}

\* A marker is guarded, and its limit, if it has one, is better than the close.
LEMMA PricedGuarded ==
  ASSUME NEW m, Met(m), NEW long \in BOOLEAN
  PROVE  LET k == Priced(m, long, Limits(m, long), StackUsed(m, long))
         IN  /\ Guarded(k) /\ k.long = long
             /\ k.isLimit => Way(long) * (m.flip.c - k.entry) > 0
             /\ ~k.isLimit => k.entry = m.flip.c
             /\ k.isLimit <=> Limits(m, long) # {}
<1> DEFINE limit == Limits(m, long)
           entry == IF limit # {} THEN CHOOSE x \in limit : TRUE ELSE m.flip.c
           stack == {Beyond(z, long, m.buf) : z \in StackUsed(m, long)}
           sl == StopFor(m, long, entry, stack)
<1>1. /\ entry \in m.peak.l..m.peak.h \/ entry \in m.flip.l..m.flip.h
      /\ limit # {} => Way(long) * (m.flip.c - entry) > 0
  <2>1. CASE limit # {}
    <3>1. entry \in limit
      BY <2>1
    <3>2. entry \in EntryLevel(m.peak, long, m.mode) /\ Improves(entry, m.flip.c, long)
      BY <3>1 DEF Limits
    <3> QED
      BY <3>2, LevelOnBar DEF Met, Improves
  <2>2. CASE limit = {}
    BY <2>2 DEF Met, OfTrades
  <2> QED
    BY <2>1, <2>2
<1>2. entry \in Int
  BY <1>1 DEF Met, OfTrades
<1>3. ASSUME NEW x \in stack PROVE x \in Int
  <2>1. PICK z \in StackUsed(m, long) : x = Beyond(z, long, m.buf)
    OBVIOUS
  <2>2. z \in Longest(m.flip, Taker(long)) \/ z \in Longest(m.peak, Trapped(long))
    BY DEF StackUsed
  <2>3. z.lo \in Int /\ z.hi \in Int
    BY <2>2, LongestOnBar DEF Met
  <2>4. m.buf \in Int
    BY DEF Met
  <2> QED
    BY <2>1, <2>3, <2>4 DEF Beyond
<1>4. Priced(m, long, limit, StackUsed(m, long)) = Mark(long, entry, limit # {}, sl)
  BY DEF Priced
<1> HIDE DEF entry, stack, limit
<1>5. sl \in Int /\ Way(long) * (entry - sl) > 0
  BY <1>1, <1>2, <1>3, StopGuards
<1> HIDE DEF sl
<1>6. (limit # {}) \in BOOLEAN /\ (limit = {} => entry = m.flip.c)
  BY DEF entry
<1>7. PICK k : k = Mark(long, entry, limit # {}, sl)
  OBVIOUS
<1>8. Guarded(k) /\ k.long = long /\ k.entry = entry /\ k.isLimit = (limit # {})
  BY <1>2, <1>5, <1>7, MarkGuarded
<1>9. /\ k.isLimit => Way(long) * (m.flip.c - k.entry) > 0
      /\ ~k.isLimit => k.entry = m.flip.c
      /\ k.isLimit <=> limit # {}
  BY <1>1, <1>6, <1>8
<1> QED
  BY <1>4, <1>7, <1>8, <1>9 DEF limit

LEMMA MarkerGuarded ==
  ASSUME NEW m, Met(m), NEW k \in Marker(m)
  PROVE  /\ Guarded(k)
         /\ k.isLimit => Way(k.long) * (m.flip.c - k.entry) > 0
         /\ ~k.isLimit => k.entry = m.flip.c
         /\ Way(k.long) * m.flip.delta > 0
         /\ m.mode \notin {"imbalance", "lvn"} => ~k.isLimit
<1> DEFINE long == ~IsTop(m)
<1>1. Fits(m, long) /\ k = Priced(m, long, Limits(m, long), StackUsed(m, long))
  BY DEF Marker, Limits
<1>2. long \in BOOLEAN
  BY DEF IsTop
<1> HIDE DEF long
<1>3. Way(long) * m.flip.delta > 0
  BY <1>1 DEF Fits, TurnsOver
<1>4. /\ Guarded(k) /\ k.long = long
      /\ k.isLimit => Way(long) * (m.flip.c - k.entry) > 0
      /\ ~k.isLimit => k.entry = m.flip.c
      /\ k.isLimit <=> Limits(m, long) # {}
  BY <1>1, <1>2, PricedGuarded
<1>5. m.mode \notin {"imbalance", "lvn"} => Limits(m, long) = {}
  BY DEF Limits, EntryLevel
<1> QED
  BY <1>3, <1>4, <1>5

\* The coup enters at the close, behind the marker's stop or farther.
LEMMA CoupGuarded ==
  ASSUME NEW m, Met(m), NEW k \in CoupTakes(m)
  PROVE  Way(k.long) * (k.entry - k.sl) > 0 /\ Way(k.long) * (k.tp - k.entry) > 0
<1> DEFINE n == [m EXCEPT !.mode = "market"]
<1>1. PICK j \in Marker(n) :
         k = LET sl == Best(j.sl, m.flip.c - Way(j.long) * 5 * m.buf, j.long)
             IN  [long |-> j.long, entry |-> m.flip.c, sl |-> sl,
                  tp |-> m.flip.c + Way(j.long) * 2 * Gap(m.flip.c, sl)]
  BY DEF CoupTakes
<1>2. n.flip = m.flip /\ n.peak = m.peak /\ n.buf = m.buf /\ n.mode = "market"
  OBVIOUS
<1>3. Met(n) /\ n.mode \notin {"imbalance", "lvn"}
  BY <1>2 DEF Met
<1>4. Guarded(j) /\ j.entry = m.flip.c
  BY <1>2, <1>3, MarkerGuarded
<1>5. PICK c, b \in Int : c = m.flip.c /\ b = m.buf /\ b > 0
  BY DEF Met, OfTrades
<1>6. PICK w \in {1, -1} : w = Way(j.long) /\ (w = 1 <=> j.long)
  BY <1>4 DEF Guarded, Way
<1>7. PICK s : s = Best(j.sl, c - w * 5 * b, j.long)
  OBVIOUS
<1>8. s \in Int /\ w * (c - s) > 0
  BY <1>4, <1>5, <1>6, <1>7 DEF Guarded, Best
<1>9. k.long = j.long /\ k.entry = c /\ k.sl = s /\ k.tp = c + w * 2 * Gap(c, s)
  BY <1>1, <1>5, <1>6, <1>7
<1> QED
  BY <1>5, <1>6, <1>8, <1>9 DEF Gap

\* Of finitely many prices far enough from the entry, the first is one of them.
LEMMA FarFirst ==
  ASSUME NEW S, IsFiniteSet(S), S \subseteq Int, S # {}, NEW k, Guarded(k),
         \A x \in S : FarEnough(x, k.entry, Gap(k.entry, k.sl), k.long),
         NEW tp, tp = Min(S) \/ tp = Max(S)
  PROVE  Guarded([k EXCEPT !.tp = tp])
<1>1. tp \in S
  BY ExtremesIn
<1>2. tp \in Int /\ Way(k.long) * (tp - k.entry) >= Gap(k.entry, k.sl)
  BY <1>1 DEF FarEnough
<1>3. PICK n : n = [k EXCEPT !.tp = tp]
  OBVIOUS
<1>4. n.long = k.long /\ n.entry = k.entry /\ n.sl = k.sl /\ n.tp = tp
  BY <1>3
<1>5. Guarded(n)
  BY <1>2, <1>4 DEF Guarded, Gap, Way
<1> QED
  BY <1>3, <1>5

\* What stands in a sequence is finitely much.
LEMMA RangeFinite ==
  ASSUME NEW T, NEW s \in Seq(T) PROVE IsFiniteSet(Range(s)) /\ Range(s) \subseteq T
<1>1. PICK n \in Nat : n = Len(s) /\ DOMAIN s = 1..n
  OBVIOUS
<1>2. IsFiniteSet(DOMAIN s)
  BY <1>1, FS_Interval
<1>3. Range(s) = {s[i] : i \in DOMAIN s}
  BY DEF Range
<1>4. IsFiniteSet({s[i] : i \in DOMAIN s})
  BY <1>2, ValuesFinite, Zenon
<1>5. \A i \in DOMAIN s : s[i] \in T
  OBVIOUS
<1> QED
  BY <1>3, <1>4, <1>5

\* The ignition's target is a thin zone or a gap a risk away, or what the marker had.
LEMMA SiGuarded ==
  ASSUME NEW m, Met(m), m.vp.thin \in Seq([lo : Int, hi : Int]),
         IsFiniteSet(m.gaps), m.gaps \subseteq [lo : Int, hi : Int], NEW k \in SiTakes(m)
  PROVE  Guarded(k)
<1> DEFINE n == [m EXCEPT !.mode = "si_flip"]
<1>1. PICK j \in Marker(n) : k = Retargeted(m, j)
  BY DEF SiTakes
<1>2. n.flip = m.flip /\ n.peak = m.peak /\ n.buf = m.buf
  OBVIOUS
<1>3. Guarded(j)
  BY <1>2, MarkerGuarded DEF Met
<1> HIDE DEF n
<1> DEFINE mid == [y \in Range(m.vp.thin) |-> (y.lo + y.hi) \div 2]
           near == {y \in Range(m.vp.thin) : FarEnough((y.lo + y.hi) \div 2, j.entry, Gap(j.entry, j.sl), j.long)}
           thin == {(z.lo + z.hi) \div 2 : z \in near}
           open == {y \in m.gaps : FarEnough(IF j.long THEN y.lo ELSE y.hi, j.entry,
                                             Gap(j.entry, j.sl), j.long)}
           gaps == {IF j.long THEN g.lo ELSE g.hi : g \in open}
<1>4. IsFiniteSet(thin) /\ thin \subseteq Int
      /\ \A x \in thin : FarEnough(x, j.entry, Gap(j.entry, j.sl), j.long)
  <2>2. IsFiniteSet(Range(m.vp.thin)) /\ Range(m.vp.thin) \subseteq [lo : Int, hi : Int]
    BY RangeFinite
  <2>3. IsFiniteSet(near)
    BY <2>2, FS_Subset
  <2>4. \A y \in near : y.lo \in Int /\ y.hi \in Int
    BY <2>2
  <2>5. IsFiniteSet(thin)
    <3> DEFINE f == [z \in near |-> (z.lo + z.hi) \div 2]
    <3>1. thin = {f[z] : z \in near}
      OBVIOUS
    <3> HIDE DEF f, near, thin
    <3>2. IsFiniteSet({f[z] : z \in near})
      BY <2>3, ValuesFinite, Zenon
    <3> QED
      BY <3>1, <3>2, Zenon
  <2>6. ASSUME NEW x \in thin
        PROVE  x \in Int /\ FarEnough(x, j.entry, Gap(j.entry, j.sl), j.long)
    <3>1. PICK z \in near : x = (z.lo + z.hi) \div 2
      OBVIOUS
    <3> QED
      BY <2>4, <3>1
  <2> QED
    BY <2>5, <2>6
<1>5. IsFiniteSet(gaps) /\ gaps \subseteq Int
      /\ \A x \in gaps : FarEnough(x, j.entry, Gap(j.entry, j.sl), j.long)
  <2>3. IsFiniteSet(open)
    BY FS_Subset
  <2>5. IsFiniteSet(gaps)
    <3> DEFINE f == [g \in open |-> IF j.long THEN g.lo ELSE g.hi]
    <3>1. gaps = {f[g] : g \in open}
      OBVIOUS
    <3> HIDE DEF f, open, gaps
    <3>2. IsFiniteSet({f[g] : g \in open})
      BY <2>3, ValuesFinite, Zenon
    <3> QED
      BY <3>1, <3>2, Zenon
  <2>6. gaps \subseteq Int
    OBVIOUS
  <2> QED
    BY <2>5, <2>6
<1>6. \/ thin # {} /\ \E tp : (tp = Min(thin) \/ tp = Max(thin)) /\ k = [j EXCEPT !.tp = tp]
      \/ gaps # {} /\ \E tp : (tp = Min(gaps) \/ tp = Max(gaps)) /\ k = [j EXCEPT !.tp = tp]
      \/ k = [j EXCEPT !.tp = j.tp]
  BY <1>1 DEF Retargeted
<1> HIDE DEF thin, gaps
<1>7. CASE thin # {} /\ \E tp : (tp = Min(thin) \/ tp = Max(thin)) /\ k = [j EXCEPT !.tp = tp]
  <2>1. PICK tp : (tp = Min(thin) \/ tp = Max(thin)) /\ k = [j EXCEPT !.tp = tp]
    BY <1>7
  <2>2. Guarded([j EXCEPT !.tp = tp])
    BY <1>3, <1>4, <1>7, <2>1, FarFirst
  <2> QED
    BY <2>1, <2>2
<1>8. CASE gaps # {} /\ \E tp : (tp = Min(gaps) \/ tp = Max(gaps)) /\ k = [j EXCEPT !.tp = tp]
  <2>1. PICK tp : (tp = Min(gaps) \/ tp = Max(gaps)) /\ k = [j EXCEPT !.tp = tp]
    BY <1>8
  <2>2. Guarded([j EXCEPT !.tp = tp])
    BY <1>3, <1>5, <1>8, <2>1, FarFirst
  <2> QED
    BY <2>1, <2>2
<1>9. CASE k = [j EXCEPT !.tp = j.tp]
  <2>1. k.long = j.long /\ k.entry = j.entry /\ k.sl = j.sl /\ k.tp = j.tp
    BY <1>9
  <2> QED
    BY <1>3, <2>1 DEF Guarded
<1> QED
  BY <1>6, <1>7, <1>8, <1>9

(***************************************************************************)
(* The plan of a grid: its fulcrum, its ladders and their targets.         *)
(***************************************************************************)
\* A market a plan is asked for in.
Asked(m) ==
    /\ m.atr \in Nat /\ m.price \in Int /\ m.vah \in Int /\ m.val \in Int
    /\ m.bar.h \in Int /\ m.bar.l \in Int /\ m.conviction \in Int
    /\ m.imbalances \in Seq([price : Int, ratio : Int])
    /\ m.nodes \in Seq([lo : Int, hi : Int, daily : BOOLEAN])
    /\ m.anchors \in Seq([lo : Int, hi : Int, bull : BOOLEAN])
    /\ m.levels \subseteq [price : Int, strength : Int] /\ IsFiniteSet(m.levels)

LEMMA SurroundingsAsked == ASSUME NEW m \in Surroundings PROVE Asked(m)
  BY PlanAssumption DEF Asked

\* Of finitely many distances by number there is a nearest.
LEMMA NearestIn ==
  ASSUME NEW S \in SUBSET Nat, IsFiniteSet(S), S # {}, NEW dist \in [S -> Int]
  PROVE  NearestAt(dist) \in S
<1> DEFINE best == {i \in S : \A j \in S : dist[i] <= dist[j]}
           far == [i \in S |-> -dist[i]]
<1>1. PICK i \in S : \A j \in S : far[i] >= far[j]
  <2>1. far \in [S -> Int]
    OBVIOUS
  <2> HIDE DEF far
  <2> QED
    BY <2>1, PeakOf
<1>2. \A j \in S : dist[i] <= dist[j]
  BY <1>1
<1>3. best \in SUBSET Nat /\ i \in best
  BY <1>2
<1>4. NearestAt(dist) = Min(best)
  BY DEF NearestAt
<1> HIDE DEF best
<1>5. Min(best) \in best
  BY <1>3, LeastOf
<1> QED
  BY <1>4, <1>5 DEF best

\* A trigger with numbers, of a kind a detector has.
Formed(t) ==
    /\ t.fulcrum \in Int /\ t.range \in Int /\ t.conf \in Int
    /\ t.kind \in {"imbalance", "hvn_edge", "anchor", "va", "cvd_div"}

LEMMA TriggerFormed ==
  ASSUME NEW kind \in {"imbalance", "hvn_edge", "anchor", "va", "cvd_div"}, NEW f \in Int,
         NEW r \in Int, NEW c \in Int, NEW i, NEW b
  PROVE  Formed(Trigger(kind, f, r, c, i, b))
  BY DEF Formed, Trigger

LEMMA AbsTyped == ASSUME NEW x \in Int PROVE AbsOf(x) \in Int
  BY DEF AbsOf

LEMMA SizesTyped ==
  /\ \A x \in Int : AbsOf(x) \in Nat
  /\ \A x, y \in Int : Lesser(x, y) \in {x, y} /\ Greater(x, y) \in {x, y}
                       /\ Greater(x, y) >= x /\ Greater(x, y) >= y
  BY DEF AbsOf, Lesser, Greater

\* What a list holds is of its kind, and a function of the first numbers is a list.
LEMMA RowOf == ASSUME NEW T, NEW rows \in Seq(T), NEW i \in DOMAIN rows PROVE rows[i] \in T
  OBVIOUS
LEMMA RowsMade == ASSUME NEW T, NEW n \in Nat, NEW f \in [1..n -> T] PROVE f \in Seq(T)
  OBVIOUS

\* The nearest of the rows of a list is a row.
LEMMA NearestRow ==
  ASSUME NEW T, NEW rows \in Seq(T), rows # <<>>, NEW dist \in [DOMAIN rows -> Int]
  PROVE  rows[NearestAt(dist)] \in T
<1>1. PICK n \in Nat : n = Len(rows) /\ DOMAIN rows = 1..n
  OBVIOUS
<1>2. n # 0
  BY <1>1
<1>3. (1..n) \in SUBSET Nat /\ 1 \in 1..n
  BY <1>2
<1>4. IsFiniteSet(1..n)
  BY FS_Interval
<1>5. NearestAt(dist) \in 1..n
  BY <1>1, <1>3, <1>4, NearestIn
<1> QED
  BY <1>1, <1>5

LEMMA ImbalanceFormed ==
  ASSUME NEW m, Asked(m), NEW t \in ImbalanceAt(m) PROVE Formed(t)
<1>1. PICK rows \in Seq([price : Int, ratio : Int]), p \in Int : rows = m.imbalances /\ p = m.price
  BY Zenon DEF Asked
<1> DEFINE dist == [i \in DOMAIN rows |-> AbsOf(rows[i].price - p)]
           im == rows[NearestAt(dist)]
           conf == Lesser(95, 40 + (im.ratio - 3) * 5)
<1>2. rows # <<>> /\ t = Trigger("imbalance", im.price, 0, conf, "", "none")
  BY <1>1, Zenon DEF ImbalanceAt
<1>3. rows # <<>>
  BY <1>2
<1>4. dist \in [DOMAIN rows -> Int]
  <2> SUFFICES ASSUME NEW i \in DOMAIN rows PROVE AbsOf(rows[i].price - p) \in Int
    BY Zenon
  <2>1. rows[i] \in [price : Int, ratio : Int]
    BY RowOf, Zenon
  <2>2. rows[i].price \in Int
    BY <2>1
  <2>3. rows[i].price - p \in Int
    BY <2>2
  <2> QED
    BY <2>3, AbsTyped, Zenon
<1> HIDE DEF dist
<1>5. rows[NearestAt(dist)] \in [price : Int, ratio : Int]
  BY <1>3, <1>4, NearestRow
<1>6. im.price \in Int /\ im.ratio \in Int
  BY <1>5
<1> HIDE DEF im
<1>7. conf \in Int
  BY <1>6 DEF Lesser
<1> HIDE DEF conf
<1>8. 0 \in Int
  OBVIOUS
<1>9. Formed(Trigger("imbalance", im.price, 0, conf, "", "none"))
  BY <1>6, <1>7, <1>8, TriggerFormed, Zenon
<1> QED
  BY <1>2, <1>9, Zenon

LEMMA NodeConfTyped == ASSUME NEW d \in Int, NEW w \in Int PROVE NodeConf(d, w) \in Int
<1> DEFINE far == Lesser(100, (100 * d) \div w)
<1>1. CASE w > 0
  <2>1. (100 * d) \div w \in Int
    BY <1>1
  <2>2. far \in Int
    BY <2>1 DEF Lesser
  <2>3. NodeConf(d, w) = Lesser(90, 50 + (40 * (100 - far)) \div 100)
    BY <1>1 DEF NodeConf
  <2> HIDE DEF far
  <2>4. 50 + (40 * (100 - far)) \div 100 \in Int
    BY <2>2
  <2> QED
    BY <2>3, <2>4 DEF Lesser
<1>2. CASE ~(w > 0)
  BY <1>2 DEF NodeConf
<1> QED
  BY <1>1, <1>2

LEMMA NodeFormed ==
  ASSUME NEW m, Asked(m), NEW t \in NodeEdge(m) PROVE Formed(t)
<1>1. PICK rows \in Seq([lo : Int, hi : Int, daily : BOOLEAN]), p \in Int : rows = m.nodes /\ p = m.price
  BY Zenon DEF Asked
<1> DEFINE edges == EdgesOf(rows)
           dist == [k \in DOMAIN edges |-> AbsOf(edges[k].at - p)]
           e == edges[NearestAt(dist)]
           conf == NodeConf(AbsOf(e.at - p), e.width)
<1>2. rows # <<>> /\ t = Trigger("hvn_edge", e.at, e.width, conf, "", "none")
  <2>1. t \in IF rows = <<>> THEN {} ELSE {Trigger("hvn_edge", e.at, e.width, conf, "", "none")}
    BY <1>1, Zenon DEF NodeEdge
  <2> HIDE DEF e, conf
  <2> QED
    BY <2>1, Zenon
<1>3. rows # <<>>
  BY <1>2, Zenon
<1>4. PICK n \in Nat \ {0} : n = Len(rows) /\ DOMAIN rows = 1..n
  BY <1>3
<1>5. \A k \in 1..(2 * n) : edges[k] \in [at : Int, width : Int]
  <2> SUFFICES ASSUME NEW k \in 1..(2 * n) PROVE edges[k] \in [at : Int, width : Int]
    OBVIOUS
  <2>1. (k + 1) \div 2 \in 1..n
    OBVIOUS
  <2>2. rows[(k + 1) \div 2] \in [lo : Int, hi : Int, daily : BOOLEAN]
    BY <1>4, <2>1, RowOf, Zenon
  <2>3. PICK row \in [lo : Int, hi : Int, daily : BOOLEAN] : row = rows[(k + 1) \div 2]
    BY <2>2
  <2>4. edges[k] = [at |-> IF k % 2 = 1 THEN row.lo ELSE row.hi, width |-> row.hi - row.lo]
    BY <1>4, <2>3 DEF EdgesOf
  <2>5. row.lo \in Int /\ row.hi \in Int /\ row.hi - row.lo \in Int
    OBVIOUS
  <2> HIDE DEF edges
  <2> QED
    BY <2>4, <2>5
<1>6. edges \in Seq([at : Int, width : Int])
  <2>1. edges \in [1..(2 * n) -> [at : Int, width : Int]]
    BY <1>4, <1>5 DEF EdgesOf
  <2>2. 2 * n \in Nat
    OBVIOUS
  <2> HIDE DEF edges
  <2> QED
    BY <2>1, <2>2, RowsMade, Zenon
<1>7. edges # <<>> /\ DOMAIN edges = 1..(2 * n)
  <2>1. DOMAIN edges = 1..(2 * n)
    BY <1>4 DEF EdgesOf
  <2>2. 1 \in 1..(2 * n)
    OBVIOUS
  <2> HIDE DEF edges
  <2> QED
    BY <2>1, <2>2
<1> HIDE DEF edges
<1>8. dist \in [DOMAIN edges -> Int]
  <2> SUFFICES ASSUME NEW k \in DOMAIN edges PROVE AbsOf(edges[k].at - p) \in Int
    BY Zenon
  <2>1. edges[k] \in [at : Int, width : Int]
    BY <1>6, RowOf, Zenon
  <2>2. edges[k].at \in Int
    BY <2>1
  <2>3. edges[k].at - p \in Int
    BY <2>2
  <2> QED
    BY <2>3, AbsTyped, Zenon
<1> HIDE DEF dist
<1>9. edges[NearestAt(dist)] \in [at : Int, width : Int]
  BY <1>6, <1>7, <1>8, NearestRow
<1>10. e.at \in Int /\ e.width \in Int
  BY <1>9
<1> HIDE DEF e
<1>11. conf \in Int
  <2>1. PICK w \in Int, d \in Int : w = e.width /\ d = AbsOf(e.at - p)
    BY <1>10 DEF AbsOf
  <2> QED
    BY <2>1, NodeConfTyped
<1> HIDE DEF conf
<1>12. Formed(Trigger("hvn_edge", e.at, e.width, conf, "", "none"))
  BY <1>10, <1>11, TriggerFormed, Zenon
<1> QED
  BY <1>2, <1>12, Zenon

LEMMA AnchorFormed ==
  ASSUME NEW m, Asked(m), NEW t \in AnchorBack(m) PROVE Formed(t)
<1>1. PICK rows \in Seq([lo : Int, hi : Int, bull : BOOLEAN]), p \in Int, reach \in Nat :
         rows = m.anchors /\ p = m.price /\ reach = m.atr
  BY Zenon DEF Asked
<1> DEFINE near == {i \in DOMAIN rows : /\ 10 * p >= 10 * rows[i].lo - 3 * reach
                                        /\ 10 * p <= 10 * rows[i].hi + 3 * reach
                                        /\ Retest(rows[i], m.bar) # "none"}
           edge(x) == IF x.bull THEN x.lo ELSE x.hi
           dist == [i \in near |-> AbsOf(edge(rows[i]) - p)]
           a == rows[NearestAt(dist)]
           conf == IF Retest(a, m.bar) = "reversal" THEN 75 ELSE 80
<1>2. near # {} /\ t = Trigger("anchor", edge(a), a.hi - a.lo, conf, Retest(a, m.bar),
                               Lean(a, Retest(a, m.bar)))
  BY <1>1, ZenonT(90) DEF AnchorBack
<1>3. near # {}
  BY <1>2, Zenon
<1>4. PICK n \in Nat : DOMAIN rows = 1..n
  OBVIOUS
<1>5. near \subseteq 1..n
  BY <1>4, Zenon
<1> HIDE DEF near
<1>6. near \in SUBSET Nat
  BY <1>5
<1> DEFINE T == [lo : Int, hi : Int, bull : BOOLEAN]
<1>14. \A i \in near : rows[i] \in T
  BY <1>4, <1>5, RowOf, Zenon
<1>7. IsFiniteSet(near)
  <2>1. IsFiniteSet(1..n)
    BY FS_Interval
  <2> QED
    BY <1>5, <2>1, FS_Subset
<1>8. dist \in [near -> Int]
  <2> SUFFICES ASSUME NEW i \in near PROVE AbsOf(edge(rows[i]) - p) \in Int
    BY Zenon
  <2>1. rows[i].lo \in Int /\ rows[i].hi \in Int
    BY <1>14
  <2>2. edge(rows[i]) \in Int
    BY <2>1
  <2> HIDE DEF edge
  <2>3. edge(rows[i]) - p \in Int
    BY <2>2
  <2> QED
    BY <2>3, AbsTyped, Zenon
<1> HIDE DEF dist
<1>9. NearestAt(dist) \in near
  BY <1>3, <1>6, <1>7, <1>8, NearestIn
<1>10. a \in [lo : Int, hi : Int, bull : BOOLEAN]
  BY <1>14, <1>9
<1> HIDE DEF a
<1>11. edge(a) \in Int /\ a.hi - a.lo \in Int
  BY <1>10
<1>12. conf \in Int
  OBVIOUS
<1> HIDE DEF edge, conf
<1>13. Formed(Trigger("anchor", edge(a), a.hi - a.lo, conf, Retest(a, m.bar), Lean(a, Retest(a, m.bar))))
  BY <1>11, <1>12, TriggerFormed, Zenon
<1> QED
  BY <1>2, <1>13, Zenon

LEMMA ValueFormed ==
  ASSUME NEW m, Asked(m), NEW t \in ValueEdge(m) PROVE Formed(t)
<1>1. PICK e, i, b : e \in {m.vah, m.val}
         /\ (t = Trigger("va", e, m.vah - m.val, 70, i, b) \/ t = Trigger("va", e, m.vah - m.val, 65, i, b))
  BY DEF ValueEdge
<1>2. e \in Int /\ m.vah - m.val \in Int /\ 70 \in Int /\ 65 \in Int
  BY <1>1 DEF Asked
<1> QED
  BY <1>1, <1>2, TriggerFormed

LEMMA DivergenceFormed ==
  ASSUME NEW m, Asked(m), NEW t \in DivergenceAt(m) PROVE Formed(t)
<1>1. PICK e, i, b : e \in {m.bar.h, m.bar.l} /\ t = Trigger("cvd_div", e, m.bar.h - m.bar.l, 50, i, b)
  BY DEF DivergenceAt
<1>2. e \in Int /\ m.bar.h - m.bar.l \in Int /\ 50 \in Int
  BY <1>1 DEF Asked
<1> QED
  BY <1>1, <1>2, TriggerFormed

\* Whatever the detectors find is formed, and they find finitely many.
LEMMA OneIsFinite ==
  ASSUME NEW S, \A x, y \in S : x = y PROVE IsFiniteSet(S)
<1>1. CASE S = {}
  BY <1>1, FS_EmptySet
<1>2. CASE S # {}
  <2>1. PICK x : S = {x}
    BY <1>2
  <2> QED
    BY <2>1, FS_Singleton
<1> QED
  BY <1>1, <1>2

LEMMA TriggersFormed ==
  ASSUME NEW m, Asked(m)
  PROVE  IsFiniteSet(Triggers(m)) /\ \A t \in Triggers(m) : Formed(t)
<1> DEFINE all == ImbalanceAt(m) \cup NodeEdge(m) \cup AnchorBack(m) \cup ValueEdge(m) \cup DivergenceAt(m)
<1>1. Triggers(m) = Hinted(m, all)
  BY DEF Triggers
<1>2. \A t \in all : Formed(t)
  BY ImbalanceFormed, NodeFormed, AnchorFormed, ValueFormed, DivergenceFormed
<1>3. IsFiniteSet(all)
  <2>1. \A x, y \in ImbalanceAt(m) : x = y
    BY Zenon DEF ImbalanceAt
  <2>2. \A x, y \in NodeEdge(m) : x = y
    BY Zenon DEF NodeEdge
  <2>3. \A x, y \in AnchorBack(m) : x = y
    BY Zenon DEF AnchorBack
  <2>4. \A x, y \in ValueEdge(m) : x = y
    BY Zenon DEF ValueEdge
  <2>5. \A x, y \in DivergenceAt(m) : x = y
    BY Zenon DEF DivergenceAt
  <2>6. IsFiniteSet(ImbalanceAt(m)) /\ IsFiniteSet(NodeEdge(m)) /\ IsFiniteSet(AnchorBack(m))
        /\ IsFiniteSet(ValueEdge(m)) /\ IsFiniteSet(DivergenceAt(m))
    BY <2>1, <2>2, <2>3, <2>4, <2>5, OneIsFinite, Zenon
  <2> QED
    BY <2>6, FS_Union
<1> HIDE DEF all
<1>4. Hinted(m, all) \subseteq all
  BY Zenon DEF Hinted
<1>5. IsFiniteSet(Triggers(m))
  BY <1>1, <1>3, <1>4, FS_Subset
<1> QED
  BY <1>1, <1>2, <1>4, <1>5

LEMMA ConfluenceTyped ==
  ASSUME NEW m, NEW t, Formed(t) PROVE Confluence(m, t) \in Int
<1> DEFINE agrees == \E z \in m.levels : 1000 * AbsOf(z.price - t.fulcrum) <= m.price
           fits == \/ m.regime = "range" /\ t.interp \in {"reclaim", "reversal"}
                   \/ /\ m.regime \in {"trend_up", "trend_down"}
                      /\ t.interp \in {"break_sustain", "continuation"}
<1>1. Confluence(m, t) = t.conf + (IF agrees THEN 15 ELSE 0) + (IF fits THEN 10 ELSE 0)
  BY DEF Confluence
<1>2. t.conf \in Int
  BY DEF Formed
<1> HIDE DEF agrees, fits
<1> QED
  BY <1>1, <1>2

LEMMA TurnTyped == ASSUME NEW t, Formed(t) PROVE Turn[t.kind] \in 1..5
<1>1. t.kind \in {"imbalance", "hvn_edge", "anchor", "va", "cvd_div"}
  BY DEF Formed
<1>2. Turn["imbalance"] = 1 /\ Turn["hvn_edge"] = 2 /\ Turn["anchor"] = 3 /\ Turn["va"] = 4
      /\ Turn["cvd_div"] = 5
  BY DEF Turn
<1>3. Turn[t.kind] \in {1, 2, 3, 4, 5}
  BY <1>1, <1>2, Zenon
<1> QED
  BY <1>3

\* There is a best decision point, so the one picked is one of them.
LEMMA PickedFormed ==
  ASSUME NEW m, Asked(m), Triggers(m) # {} PROVE Formed(Picked(m, Triggers(m)))
<1> DEFINE T == Triggers(m)
           rank == [t \in T |-> 10 * Confluence(m, t) - Turn[t.kind]]
           Foremost(t) == \A u \in T :
                        \/ Confluence(m, t) > Confluence(m, u)
                        \/ Confluence(m, t) = Confluence(m, u) /\ Turn[t.kind] <= Turn[u.kind]
<1>1. IsFiniteSet(T) /\ \A t \in T : Formed(t)
  BY TriggersFormed
<1>2. \A t \in T : Confluence(m, t) \in Int /\ Turn[t.kind] \in 1..5
  BY <1>1, ConfluenceTyped, TurnTyped, Zenon
<1>3. T # {}
  OBVIOUS
<1>4. Picked(m, T) = CHOOSE t \in T : Foremost(t)
  BY DEF Picked
<1> HIDE DEF T
<1>5. rank \in [T -> Int]
  BY <1>2
<1>6. PICK t \in T : \A u \in T : rank[t] >= rank[u]
  <2> HIDE DEF rank
  <2> QED
    BY <1>1, <1>3, <1>5, PeakOf
<1>7. Foremost(t)
  <2> SUFFICES ASSUME NEW u \in T
               PROVE  \/ Confluence(m, t) > Confluence(m, u)
                      \/ Confluence(m, t) = Confluence(m, u) /\ Turn[t.kind] <= Turn[u.kind]
    OBVIOUS
  <2>1. PICK a \in Int, b \in Int, x \in 1..5, y \in 1..5 :
           /\ a = Confluence(m, t) /\ b = Confluence(m, u)
           /\ x = Turn[t.kind] /\ y = Turn[u.kind]
    BY <1>2, Zenon
  <2>2. 10 * a - x >= 10 * b - y
    BY <1>6, <2>1
  <2>3. a > b \/ (a = b /\ x <= y)
    BY <2>2
  <2> QED
    BY <2>1, <2>3
<1> HIDE DEF Foremost
<1>8. Picked(m, T) \in T
  BY <1>4, <1>7
<1> QED
  BY <1>1, <1>8 DEF T

LEMMA StepTyped ==
  ASSUME NEW m, Asked(m), NEW t, Formed(t) PROVE Step(m, t) \in Nat \ {0}
<1>1. PICK w \in Nat, r \in Int : w = m.atr /\ r = t.range
  BY Zenon DEF Asked, Formed
<1> DEFINE trending == m.regime \in {"trend_up", "trend_down"}
           byAtr == IF trending THEN (35 * w) \div 100 ELSE w \div 2
<1>2. Step(m, t) = Greater(1, Greater(byAtr, (r + 3) \div 4))
  BY <1>1 DEF Step
<1> HIDE DEF trending
<1>3. byAtr \in Int /\ (r + 3) \div 4 \in Int
  OBVIOUS
<1> HIDE DEF byAtr
<1>4. Greater(byAtr, (r + 3) \div 4) \in Int
  BY <1>3 DEF Greater
<1>5. PICK g \in Int : g = Greater(byAtr, (r + 3) \div 4)
  BY <1>4
<1> QED
  BY <1>2, <1>5 DEF Greater

\* The distances to the levels on one side of the fulcrum.
LEMMA ReachTyped ==
  ASSUME NEW m, Asked(m), NEW f \in Int PROVE Reach(m, f) \in Int
<1> DEFINE S == {x \in m.levels : x.price > f}
           above == {z.price - f : z \in S}
           U == {x \in m.levels : x.price < f}
           below == {f - z.price : z \in U}
<1>1. IsFiniteSet(m.levels) /\ \A z \in m.levels : z.price \in Int
  <2>1. IsFiniteSet(m.levels) /\ m.levels \subseteq [price : Int, strength : Int]
    BY Zenon DEF Asked
  <2> QED
    BY <2>1
<1>2. IsFiniteSet(S) /\ IsFiniteSet(U)
  BY <1>1, FS_Subset
<1>3. IsFiniteSet(above) /\ IsFiniteSet(below)
  <2> DEFINE up == [z \in S |-> z.price - f]
             down == [z \in U |-> f - z.price]
  <2>1. above = {up[z] : z \in S} /\ below = {down[z] : z \in U}
    OBVIOUS
  <2> HIDE DEF up, down, above, below, S, U
  <2>2. IsFiniteSet({up[z] : z \in S})
    BY <1>2, ValuesFinite, Zenon
  <2>3. IsFiniteSet({down[z] : z \in U})
    BY <1>2, ValuesFinite, Zenon
  <2> QED
    BY <2>1, <2>2, <2>3
<1>4. above \subseteq Int /\ below \subseteq Int
  BY <1>1
<1>5. PICK w \in Nat, h \in Int, l \in Int : w = m.atr /\ h = m.vah /\ l = m.val
  BY Zenon DEF Asked
<1>6. Reach(m, f) = IF below # {} THEN Min(below) ELSE IF above # {} THEN Min(above)
                    ELSE IF m.profile /\ h > l THEN h - l ELSE 3 * w
  BY <1>5, Zenon DEF Reach
<1> HIDE DEF above, below
<1>7. (above # {} => Min(above) \in Int) /\ (below # {} => Min(below) \in Int)
  BY <1>3, <1>4, ExtremesIn
<1> QED
  BY <1>6, <1>7

LEMMA CountTyped ==
  ASSUME NEW m, Asked(m), NEW t, Formed(t) PROVE Count(m, t) \in Nat /\ Count(m, t) >= 2
<1>1. MaxLegsOf(m.regime) \in {2, 3, 6}
  BY DEF MaxLegsOf
<1>2. PICK c \in Int : c = m.conviction
  BY Zenon DEF Asked
<1>3. PICK r \in Int : r = Reach(m, t.fulcrum)
  BY ReachTyped, Zenon DEF Formed
<1>4. PICK s \in Nat \ {0} : s = Step(m, t)
  BY StepTyped, Zenon
<1>5. PICK most \in {2, 3, 6} : most = MaxLegsOf(m.regime)
  BY <1>1
<1> DEFINE cover == Greater(2, Lesser(most, r \div s))
           many == Rounded(cover * (70 + (60 * c) \div 100), 100)
<1>6. Count(m, t) = Greater(2, Lesser(most, many))
  BY <1>2, <1>3, <1>4, <1>5, Zenon DEF Count
<1>7. cover \in Int
  <2>1. r \div s \in Int
    OBVIOUS
  <2> QED
    BY <2>1 DEF Greater, Lesser
<1> HIDE DEF cover
<1>8. many \in Int
  <2>1. PICK v \in Int : v = cover * (70 + (60 * c) \div 100)
    BY <1>7
  <2>2. Rounded(v, 100) \in Int
    BY DEF Rounded
  <2> QED
    BY <2>1, <2>2
<1> HIDE DEF many
<1> QED
  BY <1>6, <1>8 DEF Greater, Lesser

\* A target lies beyond the leg it is for.
LEMMA TargetBeyond ==
  ASSUME NEW m, Asked(m), m.atr > 0, NEW outer \in Int, NEW sign \in {1, -1}, NEW f
  PROVE  Target(m, outer, sign, f) \in Int /\ sign * (Target(m, outer, sign, f) - outer) > 0
<1> DEFINE S == {x \in m.levels : x.strength >= 60 /\ sign * (x.price - outer) > 0}
           beyond == {sign * z.price : z \in S}
<1>1. IsFiniteSet(m.levels) /\ \A z \in m.levels : z.price \in Int
  <2>1. IsFiniteSet(m.levels) /\ m.levels \subseteq [price : Int, strength : Int]
    BY Zenon DEF Asked
  <2> QED
    BY <2>1
<1>2. IsFiniteSet(S)
  BY <1>1, FS_Subset
<1>3. IsFiniteSet(beyond)
  <2> DEFINE g == [z \in S |-> sign * z.price]
  <2>1. beyond = {g[z] : z \in S}
    OBVIOUS
  <2> HIDE DEF g, beyond, S
  <2>2. IsFiniteSet({g[z] : z \in S})
    BY <1>2, ValuesFinite, Zenon
  <2> QED
    BY <2>1, <2>2
<1>4. \A e \in beyond : e \in Int /\ e > sign * outer
  <2> SUFFICES ASSUME NEW z \in S PROVE sign * z.price \in Int /\ sign * z.price > sign * outer
    OBVIOUS
  <2>1. PICK p \in Int : p = z.price
    BY <1>1
  <2>2. sign * (p - outer) > 0
    BY <2>1
  <2>3. sign * p \in Int /\ sign * p > sign * outer
    BY <2>2
  <2> QED
    BY <2>1, <2>3
<1>5. PICK w \in Nat : w = m.atr /\ w > 0
  BY Zenon DEF Asked
<1>6. Target(m, outer, sign, f) =
        IF beyond # {} THEN sign * Min(beyond) ELSE outer + sign * ((3 * w) \div 2)
  BY <1>5, Zenon DEF Target
<1> HIDE DEF beyond
<1>7. CASE beyond # {}
  <2>1. Min(beyond) \in beyond
    BY <1>3, <1>4, <1>7, ExtremesIn
  <2>2. PICK e \in Int : e = Min(beyond) /\ e > sign * outer
    BY <1>4, <2>1
  <2>3. sign * e \in Int /\ sign * (sign * e - outer) > 0
    BY <2>2
  <2> QED
    BY <1>6, <1>7, <2>2, <2>3
<1>8. CASE beyond = {}
  <2>1. PICK d \in Nat \ {0} : d = (3 * w) \div 2
    BY <1>5
  <2>2. outer + sign * d \in Int /\ sign * (outer + sign * d - outer) > 0
    OBVIOUS
  <2> QED
    BY <1>6, <1>8, <2>1, <2>2
<1> QED
  BY <1>7, <1>8

\* The legs of a side, from the fulcrum outwards.
LegsAre(s, k, f, step, sign, heavy) ==
    /\ DOMAIN s = 1..k /\ Len(s) = k
    /\ \A i \in 1..k : /\ s[i].price = f + sign * i * step
                       /\ s[i].lot = IF heavy THEN 1 + k - i ELSE i

LEMMA RungsAre ==
  ASSUME NEW f \in Int, NEW k \in Nat, NEW step \in Int, NEW sign \in Int, NEW heavy \in BOOLEAN
  PROVE  LegsAre([i \in 1..k |-> [price |-> f + sign * i * step, lot |-> Ladder(k, heavy)[i]]],
                 k, f, step, sign, heavy)
<1> DEFINE lots == Ladder(k, heavy)
           built == [i \in 1..k |-> [price |-> f + sign * i * step, lot |-> lots[i]]]
<1>1. \A i \in 1..k : lots[i] = IF heavy THEN 1 + k - i ELSE i
  BY DEF Ladder
<1> HIDE DEF lots
<1>2. \A i \in 1..k : built[i].price = f + sign * i * step /\ built[i].lot = lots[i]
  OBVIOUS
<1>3. DOMAIN built = 1..k /\ Len(built) = k
  OBVIOUS
<1> HIDE DEF built
<1>4. LegsAre(built, k, f, step, sign, heavy)
  BY <1>1, <1>2, <1>3 DEF LegsAre
<1> QED
  BY <1>4 DEF built, lots

LEMMA SideFavoured ==
  ASSUME NEW f \in Int, NEW n \in Nat, NEW step \in Int, NEW sign \in Int
  PROVE  LegsAre(Side(f, n, step, sign, TRUE), n + 1, f, step, sign, TRUE)
<1>1. PICK k \in Nat : k = n + 1
  OBVIOUS
<1>2. Side(f, n, step, sign, TRUE)
        = [i \in 1..k |-> [price |-> f + sign * i * step, lot |-> Ladder(k, TRUE)[i]]]
  BY <1>1, Zenon DEF Side
<1>3. LegsAre([i \in 1..k |-> [price |-> f + sign * i * step, lot |-> Ladder(k, TRUE)[i]]],
              k, f, step, sign, TRUE)
  BY RungsAre, Zenon
<1> QED
  BY <1>1, <1>2, <1>3, Zenon

LEMMA SideOther ==
  ASSUME NEW f \in Int, NEW n \in Nat, NEW step \in Int, NEW sign \in Int
  PROVE  LegsAre(Side(f, n, step, sign, FALSE), n, f, step, sign, FALSE)
<1>1. Side(f, n, step, sign, FALSE)
        = [i \in 1..n |-> [price |-> f + sign * i * step, lot |-> Ladder(n, FALSE)[i]]]
  BY Zenon DEF Side
<1>2. LegsAre([i \in 1..n |-> [price |-> f + sign * i * step, lot |-> Ladder(n, FALSE)[i]]],
              n, f, step, sign, FALSE)
  BY RungsAre, Zenon
<1> QED
  BY <1>1, <1>2, Zenon

LEMMA LotsUnfold ==
  ASSUME NEW legs, NEW S, S = DOMAIN legs, IsFiniteSet(S), \A i \in S : legs[i].lot \in Int
  PROVE  \E g : Sums(g, [i \in S |-> legs[i].lot], S) /\ LotsIn(legs) = g[S]
<1> DEFINE f == [i \in S |-> legs[i].lot]
           Body(g) == [T \in SUBSET S |->
                          IF T = {} THEN 0 ELSE legs[Chosen(T)].lot + g[T \ {Chosen(T)}]]
           fold == CHOOSE g : g = Body(g)
<1>1. PICK g \in [SUBSET S -> Int] : Sums(g, f, S)
  <2>1. f \in [S -> Int]
    OBVIOUS
  <2> HIDE DEF f
  <2> QED
    BY <2>1, FoldExists
<1>2. \A T \in SUBSET S : T # {} => f[Chosen(T)] = legs[Chosen(T)].lot
  BY ChosenIn
<1>3. g = Body(g)
  BY <1>1, <1>2 DEF Sums
<1>4. fold = Body(fold)
  <2> HIDE DEF Body
  <2> QED
    BY <1>3
<1>5. LotsIn(legs) = fold[S]
  BY DEF LotsIn, MapThenSumSet, MapThenFoldSet, Chosen
<1>6. Sums(fold, f, S)
  <2> HIDE DEF fold, f
  <2> QED
    BY <1>2, <1>4 DEF Sums
<1> QED
  BY <1>5, <1>6

\* A sum is any of its numbers and the sum of the others.
AddsUp(g, f, S) == IsFiniteSet(S) /\ f \in [S -> Int] /\ Sums(g, f, S)
TakesApart(g, f, S) == \A T \in SUBSET S : \A x \in T : g[T] = f[x] + g[T \ {x}]
LEMMA SumTakenApart ==
  ASSUME NEW S, NEW f, NEW g, AddsUp(g, f, S)
  PROVE  TakesApart(g, f, S)
<1> SUFFICES ASSUME NEW T \in SUBSET S, NEW x \in T PROVE g[T] = f[x] + g[T \ {x}]
  BY Zenon DEF TakesApart
<1> QED
  BY SumsSplit DEF AddsUp

LEMMA WithoutLast == ASSUME NEW k \in Nat PROVE (1..(k + 1)) \ {k + 1} = 1..k
  OBVIOUS

\* A ladder that counts down to one carries more than one that counts up to less.
LEMMA DownOutweighsUp ==
  ASSUME NEW n \in Nat, NEW la \in [1..(n + 1) -> Int], NEW ga, Sums(ga, la, 1..(n + 1)),
         NEW lb \in [1..n -> Int], NEW gb, Sums(gb, lb, 1..n),
         \A i \in 1..(n + 1) : la[i] = (n + 2) - i, \A i \in 1..n : lb[i] = i
  PROVE  ga[1..(n + 1)] = (n + 1) + gb[1..n] /\ gb[1..n] \in Int
<1> DEFINE N == {k \in Nat : k <= n => ga[((n + 2) - k)..(n + 1)] = gb[1..k]}
<1>0. PICK D, E : D = 1..(n + 1) /\ E = 1..n
  OBVIOUS
<1>1. IsFiniteSet(1..n) /\ IsFiniteSet(1..(n + 1))
  BY FS_Interval
<1>2. \A T \in SUBSET D : \A x \in T : ga[T] = la[x] + ga[T \ {x}]
  <2>1. AddsUp(ga, la, D)
    BY <1>0, <1>1 DEF AddsUp
  <2>2. TakesApart(ga, la, D)
    BY <2>1, SumTakenApart, Zenon
  <2> QED
    BY <2>2, Zenon DEF TakesApart
<1>3. \A T \in SUBSET E : \A x \in T : gb[T] = lb[x] + gb[T \ {x}]
  <2>1. AddsUp(gb, lb, E)
    BY <1>0, <1>1 DEF AddsUp
  <2>2. TakesApart(gb, lb, E)
    BY <2>1, SumTakenApart, Zenon
  <2> QED
    BY <2>2, Zenon DEF TakesApart
<1>4. 0 \in N
  <2>1. ((n + 2) - 0)..(n + 1) = {} /\ 1..0 = {}
    OBVIOUS
  <2>2. ga[{}] = 0 /\ gb[{}] = 0
    BY DEF Sums
  <2> QED
    BY <2>1, <2>2
<1>5. ASSUME NEW k \in N PROVE k + 1 \in N
  <2> SUFFICES ASSUME k + 1 <= n PROVE ga[((n + 2) - (k + 1))..(n + 1)] = gb[1..(k + 1)]
    OBVIOUS
  <2>1. k \in Nat /\ ga[((n + 2) - k)..(n + 1)] = gb[1..k]
    OBVIOUS
  <2> DEFINE x == (n + 2) - (k + 1)
             A == x..(n + 1)
             B == 1..(k + 1)
  <2>2. x \in A /\ A \in SUBSET D /\ A \ {x} = ((n + 2) - k)..(n + 1)
    <3>1. x \in A
      BY <2>1
    <3>2. A \in SUBSET D
      BY <1>0, <2>1
    <3>3. A \ {x} = ((n + 2) - k)..(n + 1)
      BY <2>1
    <3> QED
      BY <3>1, <3>2, <3>3
  <2>3. k + 1 \in B /\ B \in SUBSET E /\ B \ {k + 1} = 1..k
    <3>1. k + 1 \in B
      BY <2>1
    <3>2. B \in SUBSET E
      BY <1>0, <2>1
    <3>3. B \ {k + 1} = 1..k
      BY <2>1, WithoutLast, Zenon
    <3> QED
      BY <3>1, <3>2, <3>3
  <2>4. ga[A] = la[x] + ga[A \ {x}]
    BY <1>2, <2>2
  <2>5. gb[B] = lb[k + 1] + gb[B \ {k + 1}]
    BY <1>3, <2>3
  <2>6. la[x] = k + 1 /\ lb[k + 1] = k + 1
    BY <2>1
  <2> QED
    BY <2>1, <2>2, <2>3, <2>4, <2>5, <2>6
<1>6. n \in N
  <2>1. N \in SUBSET Nat
    OBVIOUS
  <2> HIDE DEF N
  <2> QED
    BY <1>4, <1>5, <2>1, Induction
<1>7. ga[2..(n + 1)] = gb[1..n]
  BY <1>6
<1>8. ga[1..(n + 1)] = la[1] + ga[2..(n + 1)]
  <2>1. 1 \in D /\ D \ {1} = 2..(n + 1)
    BY <1>0
  <2>2. ga[D] = la[1] + ga[D \ {1}]
    BY <1>2, <2>1, Zenon
  <2> QED
    BY <1>0, <2>1, <2>2, Zenon
<1>9. gb[1..n] \in Int
  <2>1. IsFiniteSet(E) /\ lb \in [E -> Int] /\ Sums(gb, lb, E)
    BY <1>0, <1>1
  <2>2. gb[E] \in Int
    BY <2>1, SumsTyped, Zenon
  <2> QED
    BY <1>0, <2>2
<1>10. la[1] = n + 1
  OBVIOUS
<1> QED
  BY <1>7, <1>8, <1>9, <1>10

\* The favoured ladder outweighs the other, whichever way each of them goes.
LEMMA FavouredHeavier ==
  ASSUME NEW f \in Int, NEW n \in Nat \ {0}, NEW step \in Int, NEW up \in Int, NEW down \in Int
  PROVE  Heavier(Side(f, n, step, up, TRUE), Side(f, n, step, down, FALSE))
<1>1. PICK a : a = Side(f, n, step, up, TRUE)
  OBVIOUS
<1>2. PICK b : b = Side(f, n, step, down, FALSE)
  OBVIOUS
<1>3. LegsAre(a, n + 1, f, step, up, TRUE) /\ LegsAre(b, n, f, step, down, FALSE)
  BY <1>1, <1>2, SideFavoured, SideOther
<1>4. PICK D, E : D = 1..(n + 1) /\ E = 1..n
  OBVIOUS
<1>5. D = DOMAIN a /\ \A i \in D : a[i].lot = (n + 2) - i
  BY <1>3, <1>4 DEF LegsAre
<1>6. E = DOMAIN b /\ \A i \in E : b[i].lot = i
  BY <1>3, <1>4 DEF LegsAre
<1>7. IsFiniteSet(D) /\ IsFiniteSet(E)
  BY <1>4, FS_Interval
<1> DEFINE la == [i \in D |-> a[i].lot]
           lb == [i \in E |-> b[i].lot]
<1>8. (\A i \in D : a[i].lot \in Int) /\ (\A i \in E : b[i].lot \in Int)
  BY <1>4, <1>5, <1>6
<1>9. PICK g : Sums(g, la, D) /\ LotsIn(a) = g[D]
  BY <1>5, <1>7, <1>8, LotsUnfold, Zenon
<1>10. PICK h : Sums(h, lb, E) /\ LotsIn(b) = h[E]
  BY <1>6, <1>7, <1>8, LotsUnfold, Zenon
<1>11. la \in [1..(n + 1) -> Int] /\ \A i \in 1..(n + 1) : la[i] = (n + 2) - i
  BY <1>4, <1>5, <1>8
<1>12. lb \in [1..n -> Int] /\ \A i \in 1..n : lb[i] = i
  BY <1>4, <1>6, <1>8
<1> HIDE DEF la, lb
<1>13. Sums(g, la, 1..(n + 1)) /\ Sums(h, lb, 1..n)
  BY <1>4, <1>9, <1>10
<1>14. g[1..(n + 1)] = (n + 1) + h[1..n] /\ h[1..n] \in Int
  BY <1>11, <1>12, <1>13, DownOutweighsUp
<1>15. LotsIn(a) > LotsIn(b)
  BY <1>4, <1>9, <1>10, <1>14
<1>16. a[1].lot > b[1].lot
  BY <1>4, <1>5, <1>6
<1> QED
  BY <1>1, <1>2, <1>15, <1>16 DEF Heavier

(***************************************************************************)
(* What a plan promises, for every market a plan is asked for in.          *)
(***************************************************************************)
\* An armed plan: two ladders about its fulcrum, and a target for each.
IsStraddle(m, p, f, n, step) ==
    /\ p.buys = Side(f, n, step, 1, p.skew = "buy")
    /\ p.sells = Side(f, n, step, -1, p.skew = "sell")
    /\ p.buyTp = Target(m, p.buys[Len(p.buys)].price, 1, f)
    /\ p.sellTp = Target(m, p.sells[Len(p.sells)].price, -1, f)

LEMMA ArmedFrom ==
  ASSUME NEW m, Asked(m), NEW p, p = Planned(m), p.verdict = "arm"
  PROVE  \E f \in Int, n \in Nat \ {0}, step \in Nat \ {0} : IsStraddle(m, p, f, n, step)
<1> DEFINE T == Triggers(m)
           t == Picked(m, T)
<1>1. p # Skipped
  BY DEF Skipped
<1>2. T # {} /\ p = Straddled(m, t, Skew(m, t), Step(m, t), Count(m, t))
  BY <1>1, Zenon DEF Planned, PlanFrom, Straddle
<1>3. Formed(t)
  BY <1>2, PickedFormed, Zenon
<1> HIDE DEF t
<1>4. PICK f \in Int : f = t.fulcrum
  BY <1>3, Zenon DEF Formed
<1>5. PICK n \in Nat \ {0} : n = Count(m, t)
  BY <1>3, CountTyped
<1>6. PICK step \in Nat \ {0} : step = Step(m, t)
  BY <1>3, StepTyped, Zenon
<1>7. PICK w : w = Skew(m, t)
  OBVIOUS
<1> DEFINE buys == Side(f, n, step, 1, w = "buy")
           sells == Side(f, n, step, -1, w = "sell")
<1>8. p = Armed(m, t, w, step, buys, sells)
  BY <1>2, <1>4, <1>5, <1>6, <1>7, Zenon DEF Straddled
<1> HIDE DEF buys, sells
<1>9. /\ p.skew = w /\ p.buys = buys /\ p.sells = sells
      /\ p.buyTp = Target(m, buys[Len(buys)].price, 1, f)
      /\ p.sellTp = Target(m, sells[Len(sells)].price, -1, f)
  BY <1>4, <1>8 DEF Armed
<1>10. IsStraddle(m, p, f, n, step)
  BY <1>9, Zenon DEF buys, sells, IsStraddle
<1> QED
  BY <1>10

\* However many legs a side has, they stand in a row and the outer one is the last.
IsRow(s, f, step, sign) ==
    \E k \in Nat \ {0} : /\ DOMAIN s = 1..k /\ Len(s) = k
                         /\ \A i \in 1..k : s[i].price = f + sign * i * step

LEMMA SideRuns ==
  ASSUME NEW f \in Int, NEW n \in Nat \ {0}, NEW step \in Int, NEW sign \in Int, NEW heavy \in BOOLEAN
  PROVE  IsRow(Side(f, n, step, sign, heavy), f, step, sign)
<1>1. PICK k : k = IF heavy THEN n + 1 ELSE n
  OBVIOUS
<1>2. k \in Nat \ {0}
  BY <1>1
<1>3. LegsAre(Side(f, n, step, sign, heavy), k, f, step, sign, heavy)
  <2>1. CASE heavy
    <3>1. heavy = TRUE /\ k = n + 1
      BY <1>1, <2>1
    <3> QED
      BY <3>1, SideFavoured, Zenon
  <2>2. CASE ~heavy
    <3>1. heavy = FALSE /\ k = n
      BY <1>1, <2>2
    <3> QED
      BY <3>1, SideOther, Zenon
  <2> QED
    BY <2>1, <2>2
<1> QED
  BY <1>2, <1>3, Zenon DEF LegsAre, IsRow

\* A target beyond every leg of a side.
AllBefore(s, tp, sign) ==
    \A i \in DOMAIN s : tp \in Int /\ s[i].price \in Int /\ sign * (tp - s[i].price) > 0

\* What is beyond the farther leg is beyond the nearer.
Past(tp, x, sign) == sign * (tp - x) > 0
Rung(f, sign, a) == f + sign * a
Farther(tp, f, a, b, sign) ==
    /\ tp \in Int /\ f \in Int /\ a \in Int /\ b \in Int /\ a <= b /\ sign \in {1, -1}
    /\ Past(tp, Rung(f, sign, b), sign)
LEMMA NearerToo ==
  ASSUME NEW tp, NEW f, NEW a, NEW b, NEW sign, Farther(tp, f, a, b, sign)
  PROVE  Past(tp, Rung(f, sign, a), sign) /\ Rung(f, sign, a) \in Int
<1>1. CASE sign = 1
  BY <1>1 DEF Farther, Past, Rung
<1>2. CASE sign = -1
  BY <1>2 DEF Farther, Past, Rung
<1> QED
  BY <1>1, <1>2 DEF Farther

LEMMA SideClears ==
  ASSUME NEW m, Asked(m), m.atr > 0, NEW f \in Int, NEW n \in Nat \ {0}, NEW step \in Nat \ {0},
         NEW sign \in {1, -1}, NEW heavy \in BOOLEAN,
         NEW s, s = Side(f, n, step, sign, heavy), NEW tp, tp = Target(m, s[Len(s)].price, sign, f)
  PROVE  AllBefore(s, tp, sign)
<1>1. sign \in Int /\ step \in Int
  OBVIOUS
<1>2. IsRow(s, f, step, sign)
  BY <1>1, SideRuns
<1>3. PICK k \in Nat \ {0} : /\ DOMAIN s = 1..k /\ Len(s) = k
                             /\ \A i \in 1..k : s[i].price = f + sign * i * step
  BY <1>2, Zenon DEF IsRow
<1>4. PICK outer \in Int : outer = f + sign * k * step
  OBVIOUS
<1>5. s[Len(s)].price = outer
  BY <1>3, <1>4
<1>6. tp \in Int /\ sign * (tp - outer) > 0
  BY <1>5, TargetBeyond, Zenon
<1> SUFFICES ASSUME NEW i \in 1..k PROVE tp \in Int /\ s[i].price \in Int /\ sign * (tp - s[i].price) > 0
  BY <1>3 DEF AllBefore
<1>7. i * step <= k * step
  OBVIOUS
<1>8. PICK a \in Int, b \in Int : a = i * step /\ b = k * step
  OBVIOUS
<1>12. a <= b
  BY <1>7, <1>8
<1>9. s[i].price = f + sign * a /\ outer = f + sign * b
  BY <1>3, <1>4, <1>8
<1>10. tp \in Int /\ Past(tp, Rung(f, sign, b), sign)
  BY <1>6, <1>9, Zenon DEF Past, Rung
<1>11. Farther(tp, f, a, b, sign)
  BY <1>10, <1>12, Zenon DEF Farther
<1>13. Past(tp, Rung(f, sign, a), sign) /\ Rung(f, sign, a) \in Int
  BY <1>11, NearerToo, Zenon
<1> QED
  BY <1>9, <1>10, <1>13, Zenon DEF Past, Rung

LEMMA PlansClear ==
  ASSUME NEW m, Asked(m), NEW p, p = Planned(m), p.verdict = "arm"
  PROVE  /\ m.atr > 0 => /\ \A i \in DOMAIN p.buys : p.buys[i].price < p.buyTp
                         /\ \A i \in DOMAIN p.sells : p.sells[i].price > p.sellTp
         /\ p.skew = "buy" => Heavier(p.buys, p.sells)
         /\ p.skew = "sell" => Heavier(p.sells, p.buys)
<1>0. PICK f \in Int, n \in Nat \ {0}, step \in Nat \ {0} : IsStraddle(m, p, f, n, step)
  BY ArmedFrom
<1>1. /\ p.buys = Side(f, n, step, 1, p.skew = "buy")
      /\ p.sells = Side(f, n, step, -1, p.skew = "sell")
      /\ p.buyTp = Target(m, p.buys[Len(p.buys)].price, 1, f)
      /\ p.sellTp = Target(m, p.sells[Len(p.sells)].price, -1, f)
  BY <1>0, Zenon DEF IsStraddle
<1>2. PICK up \in BOOLEAN, down \in BOOLEAN : up = (p.skew = "buy") /\ down = (p.skew = "sell")
  BY Zenon
<1>3. ~(up /\ down)
  BY <1>2
<1>4. PICK buys, sells : buys = p.buys /\ sells = p.sells
  OBVIOUS
<1>5. buys = Side(f, n, step, 1, up) /\ sells = Side(f, n, step, -1, down)
  BY <1>1, <1>2, <1>4, Zenon
<1>6. up => Heavier(buys, sells)
  <2> SUFFICES ASSUME up PROVE Heavier(buys, sells)
    OBVIOUS
  <2>1. up = TRUE /\ down = FALSE
    BY <1>3, Zenon
  <2>2. 1 \in Int /\ -1 \in Int /\ step \in Int
    OBVIOUS
  <2> QED
    BY <1>5, <2>1, <2>2, FavouredHeavier, Zenon
<1>7. down => Heavier(sells, buys)
  <2> SUFFICES ASSUME down PROVE Heavier(sells, buys)
    OBVIOUS
  <2>1. up = FALSE /\ down = TRUE
    BY <1>3, Zenon
  <2>2. 1 \in Int /\ -1 \in Int /\ step \in Int
    OBVIOUS
  <2> QED
    BY <1>5, <2>1, <2>2, FavouredHeavier, Zenon
<1>8. ASSUME m.atr > 0
      PROVE  /\ \A i \in DOMAIN buys : buys[i].price < p.buyTp
             /\ \A i \in DOMAIN sells : sells[i].price > p.sellTp
  <2>1. PICK w, v : w = p.buyTp /\ v = p.sellTp
    OBVIOUS
  <2>2. w = Target(m, buys[Len(buys)].price, 1, f) /\ v = Target(m, sells[Len(sells)].price, -1, f)
    BY <1>1, <1>4, <2>1, Zenon
  <2>3. 1 \in {1, -1} /\ -1 \in {1, -1}
    OBVIOUS
  <2>7. PICK one, less : one = 1 /\ less = -1
    OBVIOUS
  <2>8. /\ one \in {1, -1} /\ buys = Side(f, n, step, one, up)
        /\ w = Target(m, buys[Len(buys)].price, one, f)
    BY <1>5, <2>2, <2>3, <2>7, Zenon
  <2>9. /\ less \in {1, -1} /\ sells = Side(f, n, step, less, down)
        /\ v = Target(m, sells[Len(sells)].price, less, f)
    BY <1>5, <2>2, <2>3, <2>7, Zenon
  <2>10. AllBefore(buys, w, one)
    BY <1>8, <2>8, SideClears, Zenon
  <2>11. AllBefore(sells, v, less)
    BY <1>8, <2>9, SideClears, Zenon
  <2>4. \A i \in DOMAIN buys : w \in Int /\ buys[i].price \in Int /\ w - buys[i].price > 0
    BY <2>7, <2>10 DEF AllBefore
  <2>5. \A i \in DOMAIN sells : v \in Int /\ sells[i].price \in Int /\ sells[i].price - v > 0
    BY <2>7, <2>11 DEF AllBefore
  <2>6. (\A i \in DOMAIN buys : buys[i].price < w) /\ \A i \in DOMAIN sells : sells[i].price > v
    BY <2>4, <2>5
  <2> QED
    BY <2>1, <2>6, Zenon
<1> QED
  BY <1>2, <1>4, <1>6, <1>7, <1>8, Zenon

(***************************************************************************)
(* The theorem: what is asked or shown is one of the constants' markets,    *)
(* and every market of them is planned soundly.                            *)
(***************************************************************************)
PlansInv ==
    /\ climax = NoClimax \/ climax \in Climaxes
    /\ gplan.ask = "levels" => gplan \in Surroundings

LEMMA PlansHold == PlansInv => PlansSound
<1> SUFFICES ASSUME PlansInv PROVE PlansSound
  OBVIOUS
<1>1. TargetsClearLegs /\ SkewLoadsWinner
  <2> SUFFICES ASSUME gplan.ask = "levels" PROVE TargetsClearLegs /\ SkewLoadsWinner
    BY DEF TargetsClearLegs, SkewLoadsWinner
  <2>1. PICK m : m = gplan /\ Asked(m)
    BY SurroundingsAsked DEF PlansInv
  <2>2. PICK p : p = Planned(m)
    OBVIOUS
  <2>3. CASE p.verdict = "arm"
    <3>1. /\ m.atr > 0 => /\ \A i \in DOMAIN p.buys : p.buys[i].price < p.buyTp
                          /\ \A i \in DOMAIN p.sells : p.sells[i].price > p.sellTp
          /\ p.skew = "buy" => Heavier(p.buys, p.sells)
          /\ p.skew = "sell" => Heavier(p.sells, p.buys)
      BY <2>1, <2>2, <2>3, PlansClear, Zenon
    <3> QED
      BY <2>1, <2>2, <3>1, Zenon DEF TargetsClearLegs, SkewLoadsWinner
  <2>4. CASE p.verdict # "arm"
    BY <2>1, <2>2, <2>4, Zenon DEF TargetsClearLegs, SkewLoadsWinner
  <2> QED
    BY <2>3, <2>4
<1>2. TargetsPayTheRisk /\ StopsProtect /\ LimitsWait
  <2> SUFFICES ASSUME Shown PROVE TargetsPayTheRisk /\ StopsProtect /\ LimitsWait
    BY DEF TargetsPayTheRisk, StopsProtect, LimitsWait
  <2>1. PICK m : m = climax /\ m \in Climaxes
    BY DEF PlansInv, Shown
  <2>2. /\ Met(m) /\ m.vp.thin \in Seq([lo : Int, hi : Int])
        /\ IsFiniteSet(m.gaps) /\ m.gaps \subseteq [lo : Int, hi : Int]
    BY <2>1, ClimaxesMet
  <2>3. \A k \in Marker(m) : /\ Guarded(k) /\ Way(k.long) * m.flip.delta > 0
                             /\ k.isLimit => Way(k.long) * (m.flip.c - k.entry) > 0
    BY <2>2, MarkerGuarded, Zenon
  <2>4. \A k \in CoupTakes(m) : Way(k.long) * (k.entry - k.sl) > 0 /\ Way(k.long) * (k.tp - k.entry) > 0
    BY <2>2, CoupGuarded, Zenon
  <2>5. \A k \in SiTakes(m) : Guarded(k)
    BY <2>2, SiGuarded, Zenon
  <2>6. TargetsPayTheRisk
    BY <2>1, <2>5, Zenon DEF TargetsPayTheRisk, Guarded
  <2>7. StopsProtect
    BY <2>1, <2>3, <2>4, <2>5, Zenon DEF StopsProtect, Guarded
  <2>8. LimitsWait
    BY <2>1, <2>3, Zenon DEF LimitsWait
  <2> QED
    BY <2>6, <2>7, <2>8
<1> QED
  BY <1>1, <1>2 DEF PlansSound

\* Whatever market a grid is planned in and whatever climax flips, the plan is sound: every
\* leg of an armed grid fills before its side's target, the favoured side carries the lots, a
\* flip's stop is behind its entry, its target ahead by the risk at least, and a limit waits
\* on the better side of the close.
THEOREM PlansAreSound == ReadSpec => []PlansSound
<1>1. ReadInit => PlansInv
  BY DEF ReadInit, PlanInit, FlipInit, NoPlan, PlansInv
<1>2. PlansInv /\ [ReadNext]_readVars => PlansInv'
  <2> SUFFICES ASSUME PlansInv, [ReadNext]_readVars PROVE PlansInv'
    OBVIOUS
  <2>1. CASE PlanNext /\ UNCHANGED climax
    BY <2>1, PlanAssumption DEF PlanNext, NoPlan, PlansInv
  <2>2. CASE FlipNext /\ UNCHANGED gplan
    BY <2>2 DEF FlipNext, PlansInv
  <2>3. CASE UNCHANGED <<climax, gplan>>
    BY <2>3 DEF PlansInv
  <2>4. CASE UNCHANGED readVars
    BY <2>3, <2>4 DEF readVars
  <2>5. ReadNext => \/ PlanNext /\ UNCHANGED climax
                    \/ FlipNext /\ UNCHANGED gplan
                    \/ UNCHANGED <<climax, gplan>>
    BY DEF ReadNext, Others
  <2> QED
    BY <2>1, <2>2, <2>3, <2>4, <2>5
<1>3. PlansInv => PlansSound
  BY PlansHold
<1> QED
  BY <1>1, <1>2, <1>3, PTL DEF ReadSpec
=============================================================================
