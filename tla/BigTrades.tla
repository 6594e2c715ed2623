------------------------------- MODULE BigTrades -------------------------------
(***************************************************************************)
(* The big-trade log (pipeline/features/big_trade.py): one file for all     *)
(* symbols.  The ingest handler of a primary bar reads it, writes it back   *)
(* with the outcomes it can tell, and later appends the prints of its own   *)
(* bar.  Handlers of two symbols do this at once and no lock is held, and   *)
(* write_text empties the file before it writes it: a crash may leave any   *)
(* beginning of it, and a line that is cut makes every later reading raise. *)
(* A time is a number of bars of the symbol; a bar is the lowest and the    *)
(* highest move from the print price that the push threshold tells apart.   *)
(***************************************************************************)
EXTENDS Integers, Sequences, FiniteSets, FiniteSetsExt, SequencesExt

CONSTANTS
    Symbols,
    Moves,        \* what a bar does: [low, high], -1 or 1 is beyond MIN_PUSH_PCT
    Window,       \* bars the handler looks back (10)
    OutcomeBars,  \* OUTCOME_BARS
    MaxTicks,     \* bound: bars, per symbol
    MaxPrints     \* bound: prints found

ASSUME TradeAssumption == Window \in Nat /\ OutcomeBars \in Nat \ {0}

VARIABLES
    bars,         \* per symbol, the moves of its bars
    tradeLog,     \* the whole lines of big_trades.jsonl
    cut,          \* where the file has a line that is not whole
    handler,      \* per symbol, where its ingest handler is and the lines it will write
    printed,      \* history: the events appended so far, [sym, at, by]
    judged,       \* history: the lines written back with an outcome
    exposed       \* history: the events that another handler or a crash may take away

tradeVars == <<bars, tradeLog, cut, handler, printed, judged, exposed>>

Sides == {"buy", "sell"}
Trade(s, at, by) == [sym |-> s, at |-> at, by |-> by, outcome |-> "pending", upto |-> 0]
Identity(e) == [sym |-> e.sym, at |-> e.at, by |-> e.by]
IdleHandler == [pc |-> "idle", lines |-> <<>>, prints |-> {}]

TradeInit ==
    /\ bars = [s \in Symbols |-> <<>>] /\ tradeLog = <<>> /\ cut = "nowhere"
    /\ handler = [s \in Symbols |-> IdleHandler]
    /\ printed = {} /\ judged = {} /\ exposed = {}

-----------------------------------------------------------------------------
(* Outcomes *)
\* The bars in view that closed after the event.
Followers(s, at) ==
    LET n == Len(bars[s]) IN {i \in DOMAIN bars[s] : i > n - Window /\ i > at}

Judges(s, at) ==
    LET f == Followers(s, at) IN {i \in f : Cardinality({j \in f : j <= i}) <= OutcomeBars}

Outcome(s, by, over) ==
    LET up == \E i \in over : bars[s][i].high > 0
        down == \E i \in over : bars[s][i].low < 0
        along == IF by = "buy" THEN up ELSE down
        against == IF by = "buy" THEN down ELSE up
    IN  IF against THEN "exhausted" ELSE IF along THEN "pushed" ELSE "absorbed"

Ripe(s, e) ==
    /\ e.outcome = "pending" /\ e.sym = s
    /\ Cardinality(Followers(s, e.at)) >= OutcomeBars

Settled(s, e) ==
    IF Ripe(s, e)
    THEN [e EXCEPT !.outcome = Outcome(s, e.by, Judges(s, e.at)),
                   !.upto = Max(Judges(s, e.at))]
    ELSE e

\* Mutant: only the lines of this symbol are written back.
RewrittenOwn(s, lines) ==
    LET own(e) == e.sym = s
        mine == SelectSeq(lines, own)
    IN  [i \in DOMAIN mine |-> Settled(s, mine[i])]
Rewritten(s, lines) == [i \in DOMAIN lines |-> Settled(s, lines[i])]

-----------------------------------------------------------------------------
(* The handler *)
Saving(s) == handler[s].pc = "saving"
Rewriting(s) == handler[s].pc \in {"write", "saving"}

\* A bar closes, with the big prints that will be found on it.
TickArrives(s) ==
    /\ handler[s].pc = "idle" /\ Len(bars[s]) < MaxTicks[s]
    /\ \E m \in Moves : bars' = [bars EXCEPT ![s] = Append(@, m)]
    /\ \E p \in SUBSET Sides :
        /\ Cardinality(p) + Cardinality(printed) <= MaxPrints
        /\ handler' = [handler EXCEPT ![s] = [pc |-> "read", lines |-> <<>>, prints |-> p]]
    /\ UNCHANGED <<tradeLog, cut, printed, judged, exposed>>

\* classify_outcomes reads the file, which raises on a line that was cut, and has lines
\* to write when it can settle one.
ReadLog(s) ==
    /\ handler[s].pc = "read"
    /\ LET due == cut = "nowhere" /\ \E i \in DOMAIN tradeLog : Ripe(s, tradeLog[i]) IN
        /\ handler' = [handler EXCEPT
                ![s].pc = IF due THEN "write" ELSE "print",
                ![s].lines = IF due THEN Rewritten(s, tradeLog) ELSE <<>>]
        /\ exposed' = IF due /\ (\E t \in Symbols : Saving(t)) THEN exposed \cup printed
                      ELSE exposed
    /\ UNCHANGED <<bars, tradeLog, cut, printed, judged>>

\* write_text opens the file, which empties it.
EmptyLog(s) ==
    /\ handler[s].pc = "write"
    /\ tradeLog' = <<>> /\ cut' = "nowhere"
    /\ handler' = [handler EXCEPT ![s].pc = "saving"]
    /\ exposed' = IF \E t \in Symbols : Saving(t) THEN exposed \cup printed ELSE exposed
    /\ UNCHANGED <<bars, printed, judged>>

\* What a text leaves of the lines that others put into the file before it is written over
\* them: it covers the first at least, and perhaps a part of the next.
Tails == {SubSeq(tradeLog, k, Len(tradeLog)) :
            k \in (2..(Len(tradeLog) + 1)) \cup {Len(tradeLog) + 1}}
CutOver == {"nowhere"} \cup (IF tradeLog = <<>> /\ cut = "nowhere" THEN {} ELSE {"inside"})

\* write_text writes the lines.
SaveLog(s) ==
    /\ Saving(s)
    /\ LET lines == handler[s].lines
           settled == {e \in Range(lines) : e.outcome # "pending"}
       IN  /\ \E tail \in Tails : tradeLog' = lines \o tail
           /\ cut' \in CutOver
           /\ judged' = judged \cup settled
           /\ exposed' = exposed \cup (IF \E t \in Symbols \ {s} : Rewriting(t)
                                       THEN {Identity(e) : e \in settled \ judged} ELSE {})
    /\ handler' = [handler EXCEPT ![s].pc = "print", ![s].lines = <<>>]
    /\ UNCHANGED <<bars, printed>>

\* Lines are appended; the first of them to a line that was cut at the end, if there is one.
PrintsFound(s) == {Trade(s, Len(bars[s]), by) : by \in handler[s].prints}
LogWith(lines) == tradeLog \o (IF cut = "end" THEN SubSeq(lines, 2, Len(lines)) ELSE lines)

\* detect_events and log_events.
LogPrints(s) ==
    /\ handler[s].pc = "print"
    /\ LET lines == SetToSeq(PrintsFound(s))
           found == {Identity(e) : e \in PrintsFound(s)}
       IN  /\ tradeLog' = LogWith(lines)
           /\ cut' = IF cut = "end" /\ lines # <<>> THEN "inside" ELSE cut
           /\ printed' = printed \cup found
           /\ exposed' = exposed \cup (IF cut = "end" \/ \E t \in Symbols : Rewriting(t)
                                       THEN found ELSE {})
    /\ handler' = [handler EXCEPT ![s] = IdleHandler]
    /\ UNCHANGED <<bars, judged>>

-----------------------------------------------------------------------------
(* The server dies, perhaps inside a handler. *)
Dies ==
    /\ handler' = [s \in Symbols |-> IdleHandler]
    /\ UNCHANGED <<bars, judged>>
AtRisk == IF \E s \in Symbols : Saving(s) THEN printed ELSE {}

DiesBetween ==
    /\ \E s \in Symbols : handler[s].pc # "idle"
    /\ Dies
    /\ exposed' = exposed \cup AtRisk
    /\ UNCHANGED <<tradeLog, cut, printed>>

\* Inside the writing of the lines, a beginning of which is left.
DiesSaving(s) ==
    /\ Saving(s) /\ Dies
    /\ \E k \in 0..(Len(handler[s].lines) - 1), tail \in Tails :
            tradeLog' = SubSeq(handler[s].lines, 1, k) \o tail
    /\ cut' \in {"end"} \cup CutOver
    /\ exposed' = exposed \cup AtRisk
    /\ UNCHANGED printed

\* Inside the appending of the prints.
DiesAppending(s) ==
    /\ handler[s].pc = "print" /\ handler[s].prints # {} /\ Dies
    /\ \E k \in 0..(Cardinality(PrintsFound(s)) - 1) :
            tradeLog' = LogWith(SubSeq(SetToSeq(PrintsFound(s)), 1, k))
    /\ cut' = "end"
    /\ printed' = printed \cup {Identity(e) : e \in PrintsFound(s)}
    /\ exposed' = exposed \cup AtRisk \cup {Identity(e) : e \in PrintsFound(s)}

TradeRestart == DiesBetween \/ \E s \in Symbols : DiesSaving(s) \/ DiesAppending(s)

TradeNext ==
    \/ \E s \in Symbols :
        TickArrives(s) \/ ReadLog(s) \/ EmptyLog(s) \/ SaveLog(s) \/ LogPrints(s)
    \/ TradeRestart

TradeSpec == TradeInit /\ [][TradeNext]_tradeVars
-----------------------------------------------------------------------------
(* Properties *)
TradeTypeOK ==
    /\ \A i \in DOMAIN tradeLog :
        /\ tradeLog[i].sym \in Symbols /\ tradeLog[i].by \in Sides
        /\ tradeLog[i].outcome \in {"pending", "pushed", "absorbed", "exhausted"}
        /\ tradeLog[i].at \in 1..Len(bars[tradeLog[i].sym])
    /\ \A s \in Symbols : handler[s].pc \in {"idle", "read", "write", "saving", "print"}
    /\ cut \in {"nowhere", "inside", "end"}

FileAtRest == \A s \in Symbols : ~Saving(s)

(* While no handler is writing the file, every print is in it once, unless it was exposed:   *)
(* appended while another handler held lines to write back or behind a line that was cut, or *)
(* in the file when another read it or emptied it between the emptying and the writing, or   *)
(* when the server died there.  Nothing else takes a print away: the rewrite by one symbol   *)
(* keeps the lines of the others (classify_outcomes), whatever interleaves and dies.         *)
PrintsKept ==
    FileAtRest =>
        \A p \in printed \ exposed :
            Cardinality({i \in DOMAIN tradeLog : Identity(tradeLog[i]) = p}) = 1

(* An outcome is that of OutcomeBars bars after the event and of no other, whatever was      *)
(* lost and read again in between (classify_outcomes, MIN_PUSH_PCT).                         *)
OutcomesAreEarned ==
    \A i \in DOMAIN tradeLog :
        LET e == tradeLog[i]
            over == (e.upto - OutcomeBars + 1)..e.upto
        IN  e.outcome # "pending" =>
                /\ Min(over) > e.at
                /\ e.outcome = Outcome(e.sym, e.by, over)

(* An outcome that was written is final, unless the event was exposed as above or another    *)
(* handler held lines to write back in which it was still pending.                           *)
OutcomesStand ==
    FileAtRest => \A e \in judged : Identity(e) \in exposed \/ e \in Range(tradeLog)

(* The module's promise: every event is logged at once and stays (big_trade.py:6).           *)
NothingLost ==
    \A p \in printed : \E i \in DOMAIN tradeLog : Identity(tradeLog[i]) = p
=============================================================================
