----------------------------- MODULE SweepRegistry -----------------------------
(***************************************************************************)
(* The sweep registry of one symbol (pipeline/features/sweep.py): the       *)
(* sweeps of a reference level that fired, each with its age, the verdict   *)
(* of the bar after it and a count of closes back through the level.  Four  *)
(* callers share it, each as a detection and a later tick with nothing held *)
(* in between: the ingest handler for the primary bar, the same handler for *)
(* the synthetic bar that closes with it, the start-up backfill over the    *)
(* stored bars, and from_store under a decision.                            *)
(*                                                                          *)
(* A bar is [o, h, l, c, ok]: its prices and whether the volume at its      *)
(* extreme confirms a sweep.  A time is a number of primary bars; a         *)
(* synthetic bar closes with every Span-th of them.  Volume at an extreme   *)
(* is taken as equal on all bars, so that a confidence depends on the       *)
(* rejection and on the label.                                              *)
(***************************************************************************)
EXTENDS Integers, Sequences, FiniteSets, FiniteSetsExt, SequencesExt

CONSTANTS
    Shapes,        \* the bars that may close
    Refs,          \* [label, at]: prior-day, value-area and pivot levels
    Span,          \* primary bars in a synthetic bar
    MaxBars,       \* bound: bars that close
    MaxAge,        \* SWEEP_EVENT_MAX_AGE
    MinStored,     \* bars the backfill needs
    Asks,          \* bound: decisions that ask
    Starts         \* bound: restarts of the server

ASSUME SweepAssumption == Span \in Nat \ {0} /\ MaxAge \in Nat

VARIABLES
    tape,          \* the primary bars stored so far
    registry,      \* the events of _registry[symbol]
    sweepLog,      \* the sweep log: [at, tf, by, life], in order
    swing,         \* bars behind the cached SwingPoints, 0: none cached
    live,          \* where the ingest handler is, and the sweep it found
    back,          \* the backfill
    asked,         \* whether a decision is between detect and tick, and how many asked
    starts         \* restarts so far

sweepVars == <<tape, registry, sweepLog, swing, live, back, asked, starts>>

Frames == {"primary", "synth"}
NoSweep == [type |-> "none", level |-> 0, label |-> "", close |-> 0, conf |-> 0, ok |-> TRUE,
            rej |-> 0]

-----------------------------------------------------------------------------
(* Bars *)
Merged(bars) ==
    [o |-> bars[1].o, c |-> Last(bars).c, ok |-> Last(bars).ok,
     h |-> Max({bars[i].h : i \in DOMAIN bars}), l |-> Min({bars[i].l : i \in DOMAIN bars})]

Series(tf, n) ==
    IF tf = "primary" THEN SubSeq(tape, 1, n)
    ELSE [k \in 1..(n \div Span) |-> Merged(SubSeq(tape, (k - 1) * Span + 1, k * Span))]

ClosesAt(tf, i) == IF tf = "primary" THEN i ELSE i * Span

\* The levels of SwingPoints built on these bars.
Levels(bars) ==
    Refs \cup (IF bars = <<>> THEN {}
               ELSE {[label |-> "session_high", at |-> Merged(bars).h],
                     [label |-> "session_low", at |-> Merged(bars).l]})

-----------------------------------------------------------------------------
(* Detection.  Per cent throughout. *)
Rejection(bar, type) ==
    LET from == IF type = "sweep_high" THEN bar.h - bar.c ELSE bar.c - bar.l
    IN  (100 * from) \div (bar.h - bar.l)

Bonus(label) ==
    CASE label \in {"equal_high", "equal_low"} -> 20
      [] label \in {"prior_day_high", "prior_day_low"} -> 15
      [] label \in {"engulf_high", "engulf_low"} -> 12
      [] label \in {"vah", "val"} -> 10
      [] label \in {"session_high", "session_low"} -> 5
      [] OTHER -> 0

Confidence(bar, type, label) ==
    LET score == ((Max({Rejection(bar, type) - 35, 0}) * 50) \div 65) + Bonus(label)
        raw == Min({92, Max({35, 30 + (score * 70) \div 100})})
    IN  IF bar.ok THEN raw ELSE raw \div 2

Signal(bar, type, level, label) ==
    [type |-> type, level |-> level, label |-> label, close |-> bar.c, ok |-> bar.ok,
     conf |-> Confidence(bar, type, label), rej |-> Rejection(bar, type)]

Swept(bar, lv) ==
    IF bar.h > lv.at /\ bar.c < lv.at THEN {Signal(bar, "sweep_high", lv.at, lv.label)}
    ELSE IF bar.l < lv.at /\ bar.c > lv.at THEN {Signal(bar, "sweep_low", lv.at, lv.label)}
    ELSE {}

\* The strongest sweep; among equals the highest level.
Strongest(found) ==
    IF found = {} THEN NoSweep
    ELSE CHOOSE s \in found : \A t \in found :
             s.conf > t.conf \/ (s.conf = t.conf /\ s.level >= t.level)
BestSweep(bar, levels) ==
    Strongest({s \in UNION {Swept(bar, lv) : lv \in levels} : s.rej >= 35})

Engulf(bar, prev) ==
    IF bar.h > prev.h /\ bar.c < Min({prev.o, prev.c})
    THEN Signal(bar, "sweep_high", prev.h, "engulf_high")
    ELSE IF bar.l < prev.l /\ bar.c > Max({prev.o, prev.c})
    THEN Signal(bar, "sweep_low", prev.l, "engulf_low")
    ELSE NoSweep

\* Mutant: the tick of its own bar judges the event.
FirstAgeZero == 0
\* A fresh event is at -1: the tick of its own bar makes it 0.
FirstAge == -1
\* An event with, for the properties, the bar and caller it comes from (src, tf), the
\* bar that judged it and the callers that ticked it (by).
Event(sig, src, tf) ==
    [type |-> sig.type, level |-> sig.level, label |-> sig.label, close |-> sig.close,
     ok |-> sig.ok, deep |-> sig.rej >= 55, age |-> FirstAge, pattern |-> "", class |-> "",
     fails |-> 0, src |-> src, tf |-> tf, judged |-> 0, by |-> {}]

Elsewhere(e, sig) == ~(e.label = sig.label /\ e.level = sig.level)
Register(reg, sig, src, tf) ==
    IF sig.type = "none" THEN reg
    ELSE {e \in reg : Elsewhere(e, sig)} \cup {Event(sig, src, tf)}

\* detect(): a bar without range is nothing; prev is <<>> or the bar before.
Surer(best, engulf) == IF engulf.conf > best.conf THEN engulf ELSE best
Both(reg, best, engulf, src, tf) ==
    [sig |-> Surer(best, engulf),
     reg |-> Register(Register(reg, best, src, tf), engulf, src, tf)]
Detected(reg, bar, levels, prev, src, tf) ==
    IF bar.h = bar.l THEN [sig |-> NoSweep, reg |-> reg]
    ELSE Both(reg, BestSweep(bar, levels),
              IF prev = <<>> THEN NoSweep ELSE Engulf(bar, Last(prev)), src, tf)

-----------------------------------------------------------------------------
(* The tick *)
Beyond(e, close) == IF e.type = "sweep_high" THEN close > e.level ELSE close < e.level
Reclaims(e, close) == IF e.type = "sweep_high" THEN close < e.close ELSE close > e.close

Liquidity == {"prior_day_high", "prior_day_low", "session_high", "session_low",
              "equal_high", "equal_low"}
Class(e, pattern) ==
    CASE pattern = "acceptance" -> "failed_sweep"
      [] pattern # "acceptance" /\ ~e.ok -> "stop_run"
      [] e.ok /\ pattern = "reclaim" /\ e.deep -> "reversal"
      [] e.ok /\ pattern # "acceptance" /\ ~(pattern = "reclaim" /\ e.deep) ->
            IF e.label \in Liquidity THEN "liquidity_grab" ELSE "reversal"

Fails(e, close) == IF Beyond(e, close) THEN e.fails + 1 ELSE 0
JudgedAt(age) == age = 1

Aged(e, close, at, by) ==
    LET pattern == IF Reclaims(e, close) THEN "reclaim"
                   ELSE IF Beyond(e, close) THEN "acceptance" ELSE ""
        judge == e.pattern = "" /\ JudgedAt(e.age + 1)
        one == [e EXCEPT !.age = @ + 1, !.by = @ \cup {by},
                         !.fails = Fails(e, close)]
    IN  IF judge
        THEN [one EXCEPT !.pattern = pattern, !.judged = at,
                         !.class = IF @ = "" THEN Class(e, pattern) ELSE @]
        ELSE one

Stays(e) == e.fails < 2 /\ e.age <= MaxAge
Ticked(reg, close, at, by) ==
    {e \in {Aged(old, close, at, by) : old \in reg} : Stays(e)}

-----------------------------------------------------------------------------
(* The ingest handler *)
Free == [pc |-> "idle", sig |-> NoSweep]
Logged(lg, sig, at, tf, by) ==
    IF sig.type = "none" THEN lg ELSE Append(lg, [at |-> at, tf |-> tf, by |-> by, life |-> starts])

NoFill == [pc |-> "off", tf |-> "primary", n |-> 0, i |-> 0, known |-> {}, sig |-> NoSweep]

SweepInit ==
    /\ tape = <<>> /\ registry = {} /\ sweepLog = <<>> /\ swing = 0
    /\ live = Free /\ asked = [on |-> FALSE, n |-> 0] /\ starts = 0
    /\ back = [NoFill EXCEPT !.pc = "begin"]

\* A primary bar closes and is stored; with it perhaps a synthetic one.
BarCloses ==
    /\ live.pc = "idle" /\ Len(tape) < MaxBars
    /\ \E b \in Shapes : tape' = Append(tape, b)
    /\ LET due == Len(tape') % Span = 0 IN
        /\ live' = [live EXCEPT !.pc = IF due THEN "synth" ELSE "detect"]
        /\ swing' = IF due THEN swing ELSE Len(tape')
    /\ UNCHANGED <<registry, sweepLog, back, asked, starts>>

\* The synthetic bar is tested against the swings cached before this bar.
SynthDetect ==
    /\ live.pc = "synth"
    /\ LET bars == Series("synth", Len(tape))
           known == IF swing = 0 THEN Levels(bars) ELSE Levels(SubSeq(tape, 1, swing))
       IN  \E d \in {Detected(registry, Last(bars), known, Front(bars), Len(tape), "synth")} :
               registry' = d.reg /\ live' = [pc |-> "synthTick", sig |-> d.sig]
    /\ UNCHANGED <<tape, sweepLog, swing, back, asked, starts>>

SynthTick ==
    /\ live.pc = "synthTick"
    /\ registry' = Ticked(registry, Last(tape).c, Len(tape), "synth")
    /\ sweepLog' = Logged(sweepLog, live.sig, Len(tape), "synth", "live")
    /\ live' = [pc |-> "detect", sig |-> NoSweep]
    /\ swing' = Len(tape)
    /\ UNCHANGED <<tape, back, asked, starts>>

\* The recent bars passed as the bars before end with the bar itself.
LiveDetect ==
    /\ live.pc = "detect"
    /\ \E d \in {Detected(registry, Last(tape), Levels(tape), tape, Len(tape), "primary")} :
           registry' = d.reg /\ live' = [pc |-> "tick", sig |-> d.sig]
    /\ UNCHANGED <<tape, sweepLog, swing, back, asked, starts>>

LiveTick ==
    /\ live.pc = "tick"
    /\ registry' = Ticked(registry, Last(tape).c, Len(tape), "primary")
    /\ sweepLog' = Logged(sweepLog, live.sig, Len(tape), "primary", "live")
    /\ live' = Free
    /\ UNCHANGED <<tape, swing, back, asked, starts>>

-----------------------------------------------------------------------------
(* The backfill of one frame after the other *)
\* It reads the stored bars, then the times already logged.
BackBegin ==
    /\ back.pc = "begin"
    /\ LET n == Len(Series(back.tf, Len(tape))) IN
        back' = [back EXCEPT !.n = n, !.i = 1,
                             !.known = {e.at : e \in {g \in ToSet(sweepLog) : g.tf = back.tf}},
                             !.pc = IF n < MinStored THEN "next" ELSE "detect"]
    /\ UNCHANGED <<tape, registry, sweepLog, swing, live, asked, starts>>

BackDetect ==
    /\ back.pc = "detect"
    /\ LET bars == SubSeq(Series(back.tf, Len(tape)), 1, back.i)
       IN  \E d \in {Detected(registry, Last(bars), Levels(bars), Front(bars),
                              ClosesAt(back.tf, back.i), "backfill")} :
               registry' = d.reg /\ back' = [back EXCEPT !.pc = "tick", !.sig = d.sig]
    /\ UNCHANGED <<tape, sweepLog, swing, live, asked, starts>>

IsKnown(known, at) == at \in known

BackTick ==
    /\ back.pc = "tick"
    /\ LET at == ClosesAt(back.tf, back.i) IN
        /\ registry' = Ticked(registry, tape[at].c, at, "backfill")
        /\ sweepLog' = IF IsKnown(back.known, at) THEN sweepLog
                       ELSE Logged(sweepLog, back.sig, at, back.tf, "backfill")
        /\ back' = [back EXCEPT !.known = IF back.sig.type = "none" THEN @ ELSE @ \cup {at},
                                !.i = @ + 1, !.sig = NoSweep,
                                !.pc = IF back.i < back.n THEN "detect" ELSE "next"]
    /\ UNCHANGED <<tape, swing, live, asked, starts>>

BackNext ==
    /\ back.pc = "next"
    /\ back' = IF back.tf = "primary" THEN [NoFill EXCEPT !.tf = "synth", !.pc = "begin"]
               ELSE NoFill
    /\ UNCHANGED <<tape, registry, sweepLog, swing, live, asked, starts>>

-----------------------------------------------------------------------------
(* A decision asks for the sweep of the latest bar (from_store). *)
Ask ==
    /\ ~asked.on /\ asked.n < Asks /\ tape # <<>> /\ swing > 0
    /\ registry' = Detected(registry, Last(tape), Levels(SubSeq(tape, 1, swing)),
                            Front(tape), Len(tape), "decision").reg
    /\ asked' = [on |-> TRUE, n |-> asked.n + 1]
    /\ UNCHANGED <<tape, sweepLog, swing, live, back, starts>>

AskTick ==
    /\ asked.on
    /\ registry' = Ticked(registry, Last(tape).c, Len(tape), "decision")
    /\ asked' = [asked EXCEPT !.on = FALSE]
    /\ UNCHANGED <<tape, sweepLog, swing, live, back, starts>>

\* The server restarts: registry and swings are gone, the log stays.
SweepRestart ==
    /\ starts < Starts
    /\ registry' = {} /\ swing' = 0 /\ live' = Free /\ asked' = [asked EXCEPT !.on = FALSE]
    /\ back' = [NoFill EXCEPT !.pc = "begin"]
    /\ starts' = starts + 1
    /\ UNCHANGED <<tape, sweepLog>>

SweepNext ==
    \/ BarCloses \/ SynthDetect \/ SynthTick \/ LiveDetect \/ LiveTick
    \/ BackBegin \/ BackDetect \/ BackTick \/ BackNext
    \/ Ask \/ AskTick \/ SweepRestart

SweepSpec == SweepInit /\ [][SweepNext]_sweepVars
-----------------------------------------------------------------------------
(* Properties *)
SweepTypeOK ==
    /\ \A e \in registry :
        /\ e.age \in FirstAge..MaxAge
        /\ e.pattern \in {"", "reclaim", "acceptance"}
        /\ e.class \in {"", "failed_sweep", "stop_run", "reversal", "liquidity_grab"}
        /\ e.fails \in Nat
    /\ live.pc \in {"idle", "synth", "synthTick", "detect", "tick"}
    /\ back.pc \in {"off", "begin", "detect", "tick", "next"}
    /\ swing \in 0..Len(tape)

(* However the callers interleave, no two events of the registry are about one level: the    *)
(* zone collector turns every event into a zone and would count the level twice             *)
(* (_register_new_sweep).                                                                    *)
OneEventPerLevel ==
    \A e, f \in registry : e.level = f.level /\ e.label = f.label => e = f

(* An event of the primary frame that only primary bars have ticked is judged by the bar     *)
(* after its own, neither by its own nor by a later one (_update_events, FirstAge).          *)
FollowUpIsNextBar ==
    \A e \in registry :
        e.tf = "primary" /\ e.by = {"primary"} /\ e.judged > 0 => e.judged = e.src + 1

(* No event that the backfill left alone has had two consecutive closes beyond its level:   *)
(* a broken level is not offered as a reversal, whoever else ticks in between                 *)
(* (_update_events, _evict).                                                                 *)
BrokenLevelsGone ==
    live.pc = "idle" =>
        \A e \in registry, k \in 2..Len(tape) :
            e.src < k - 1 /\ "backfill" \notin e.by \cup {e.tf}
                => ~(Beyond(e, tape[k - 1].c) /\ Beyond(e, tape[k].c))

(* The backfill of a frame logs a time once, and never one that was in the log when it began: *)
(* after a restart the log does not grow by the sweeps it already holds (backfill_registry). *)
BackfillLogsOnce ==
    \A i, j \in DOMAIN sweepLog :
        (i < j /\ sweepLog[i].at = sweepLog[j].at /\ sweepLog[i].tf = sweepLog[j].tf
               /\ sweepLog[j].by = "backfill") 
            => sweepLog[i].by = "live" /\ sweepLog[i].life = sweepLog[j].life

(* A verdict stands: once classified, the event of a level keeps its pattern and class until *)
(* it is dropped or replaced by a new sweep of the level.                                    *)
VerdictStands ==
    \A e \in registry, f \in registry' :
        e.class # "" /\ f.age > e.age /\ f.level = e.level /\ f.label = e.label
            => f.pattern = e.pattern /\ f.class = e.class

(* The comment of _register_new_sweep: the bar after the sweep judges it, whoever calls.     *)
EveryFollowUpIsNextBar ==
    \A e \in registry : e.tf = "primary" /\ e.judged > 0 => e.judged = e.src + 1
=============================================================================
