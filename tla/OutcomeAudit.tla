---------------------------- MODULE OutcomeAudit ----------------------------
(***************************************************************************)
(* The programs that judge closed trades afterwards, on the files the      *)
(* server keeps appending to.  scripts/bar_verify_outcomes.py rereads      *)
(* positions.jsonl and cycles.jsonl, walks the minute bars with the stops  *)
(* and targets the events tell, and rewrites both files, one after the     *)
(* other; scripts/mae_mfe_backfill.py measures how far a trade went;       *)
(* scripts/phantom_check.py asks whether a fill was ever traded.           *)
(* Bar k closes at 2k; what the server writes after it is dated 2k + 1.    *)
(***************************************************************************)
EXTENDS Integers, Sequences, SequencesExt, FiniteSetsExt

CONSTANTS Trades,       \* the position ids
          SideOf,       \* [Trades -> {"long", "short"}]
          Linked,       \* the positions a cycle was opened for
          AuditBars,    \* the minute bars that may close
          Offsets,      \* how far the venue of the fills may be from the feed of the bars
          StopAway,         \* the distance of a stop and of a target from the entry
          WideStop,     \* the disaster floor, as a distance
          MaxRows,      \* bound: bars, positions and their edits together
          MaxJobs,      \* bound: runs of the verifier, one less beside a server
          PatchSpan,    \* minutes the verifier walks (24 h and 5 min)
          TfSpan,       \* minutes of a bar of the strategy
          Tolerance     \* REL_TOL, as a distance

VARIABLES minutes,    \* the minute bars on disk
          ledger,   \* positions.jsonl
          cycles,   \* cycles.jsonl
          job,      \* the verifier
          since     \* did the server write since the verifier began, since it last reread,
                    \* and was what it wrote ever lost?
auditVars == <<minutes, ledger, cycles, job, since>>

Away(id, from, distance) == IF SideOf[id] = "long" THEN from + distance ELSE from - distance
Won(id, entry, at) == IF SideOf[id] = "long" THEN at - entry ELSE entry - at
Stamp == 2 * Len(minutes) + 1
LastClose == minutes[Len(minutes)].c
Row(type, id, t, sl, tp, x, why) ==
    [type |-> type, id |-> id, t |-> t, sl |-> sl, tp |-> tp, x |-> x, why |-> why,
     booked |-> x, verified |-> FALSE]
Has(file, type, id) == \E n \in DOMAIN file : file[n].type = type /\ file[n].id = id
\* The last event of the type wins, as in the dictionaries the programs build.
LastRow(file, type, id) ==
    file[Max({n \in DOMAIN file : file[n].type = type /\ file[n].id = id})]

-----------------------------------------------------------------------------
(* The server *)

\* The stop and the target of the position store: the last event that set one.
Edits == {"open", "sl_adjust", "tp_adjust", "add_leg"}
StopNow(id) ==
    LET set == {n \in DOMAIN ledger : ledger[n].id = id
                                      /\ ledger[n].type \in Edits \ {"tp_adjust"}}
    IN  ledger[Max(set)].sl
TargetNow(id) ==
    LET set == {n \in DOMAIN ledger : ledger[n].id = id
                                      /\ ledger[n].type \in Edits \ {"sl_adjust"}}
    IN  ledger[Max(set)].tp
EntryOf(file, id) == LastRow(file, "open", id).x
Live(id) == Has(ledger, "open", id) /\ ~Has(ledger, "close", id)

\* _check_positions: a stop counts when it is a disaster floor, and before the target.
Hits(side, sl, tp, b) ==
    [sl |-> IF side = "long" THEN b.l <= sl ELSE b.h >= sl,
     tp |-> IF side = "long" THEN b.h >= tp ELSE b.l <= tp]
ServerExit(id, entry, sl, tp, b) ==
    LET hits == Hits(SideOf[id], sl, tp, b)
    IN  IF hits.sl /\ Won(id, sl, entry) >= WideStop
        THEN <<Row("close", id, Stamp + 2, sl, tp, sl, "sl")>>
        ELSE IF hits.tp /\ Won(id, entry, tp) > 0
        THEN <<Row("close", id, Stamp + 2, sl, tp, tp, "tp")>> ELSE <<>>
ServerExits(b) ==
    FoldSet(LAMBDA id, rows : rows \o (IF Live(id)
                                       THEN ServerExit(id, EntryOf(ledger, id), StopNow(id),
                                                       TargetNow(id), b)
                                       ELSE <<>>), <<>>, Trades)

Rows == Len(minutes) + Len(SelectSeq(ledger, LAMBDA e : e.type # "close"))
Running == job.serving \/ job.at = "idle"
\* What the server appends while the verifier holds a copy of the file will be lost.
ServerWrites(file) ==
    since' = [since EXCEPT !.began = job.at # "idle", !.reread = @ \/ job.at = file]

OpenTrade(id) ==
    /\ Running /\ minutes # <<>> /\ ~Has(ledger, "open", id) /\ Rows < MaxRows
    /\ \E offset \in Offsets : \E entry \in {LastClose + offset} :
          ledger' = Append(ledger, Row("open", id, Stamp, Away(id, entry, -StopAway),
                                       Away(id, entry, StopAway), entry, ""))
    /\ ServerWrites("positions")
    /\ UNCHANGED <<minutes, cycles, job>>
OpenCycle(id) ==
    /\ Running /\ id \in Linked /\ Live(id) /\ ~Has(cycles, "open", id)
    /\ cycles' = Append(cycles, Row("open", id, Stamp, 0, 0, 0, ""))
    /\ ServerWrites("cycles")
    /\ UNCHANGED <<minutes, ledger, job>>
\* The stop to break even, a nearer target, a leg with a wider stop.
Edit(id, type) ==
    /\ Running /\ Live(id) /\ Rows < MaxRows
    /\ \E entry \in {EntryOf(ledger, id)} :
          ledger' = Append(ledger, Row(type, id, Stamp,
                                       IF type = "sl_adjust" THEN entry
                                       ELSE Away(id, entry, -(2 * StopAway)),
                                       Away(id, entry, StopAway \div 2), 0, ""))
    /\ ServerWrites("positions")
    /\ UNCHANGED <<minutes, cycles, job>>
\* A bar is written, then the open positions are checked against it.
CloseBar(b) ==
    /\ Running /\ Rows < MaxRows
    /\ minutes' = Append(minutes, b)
    /\ \E rows \in {ServerExits(b)} :
          /\ ledger' = ledger \o rows
          /\ ServerWrites(IF rows = <<>> THEN "bars" ELSE "positions")
    /\ UNCHANGED <<cycles, job>>
\* A flip, an absorption, an invalidation: at the close.
CloseTrade(id) ==
    /\ Running /\ Live(id)
    /\ ledger' = Append(ledger, Row("close", id, Stamp, 0, 0, LastClose, "other"))
    /\ ServerWrites("positions")
    /\ UNCHANGED <<minutes, cycles, job>>
CloseCycle(id) ==
    /\ Running /\ Has(cycles, "open", id) /\ ~Has(cycles, "close", id)
    /\ Has(ledger, "close", id)
    /\ cycles' = Append(cycles, Row("close", id, Stamp, 0, 0, LastClose, "other"))
    /\ ServerWrites("cycles")
    /\ UNCHANGED <<minutes, ledger, job>>

-----------------------------------------------------------------------------
(* bar_verify_outcomes *)

\* The stop and the target at a time, as the events tell them: an added leg's are not read,
\* it names them otherwise.
LastSet(file, id, type, t) ==
    LET set == {n \in DOMAIN file : file[n].id = id /\ file[n].type = type /\ file[n].t <= t}
    IN  IF set = {} THEN LastRow(file, "open", id) ELSE file[Max(set)]
sl_tp_at(file, id, t) == [sl |-> LastSet(file, id, "sl_adjust", t).sl,
                          tp |-> LastSet(file, id, "tp_adjust", t).tp]
BarTimes(from, to) == {k \in DOMAIN minutes : from <= 2 * k /\ 2 * k <= to}
Touched(file, id, k) ==
    \E now \in {sl_tp_at(file, id, 2 * k)} :
        \E hits \in {Hits(SideOf[id], now.sl, now.tp, minutes[k])} : hits.sl \/ hits.tp
\* Mutant: the bar the trade was opened on is walked too.
AuditWindowOfEntry(opened) == BarTimes(opened - 1, opened + 2 * PatchSpan)
AuditWindow(opened) == BarTimes(opened, opened + 2 * PatchSpan)
\* The first bar of the day after the open that touches, whenever the trade was closed.
walk_bars(file, id) ==
    LET po == LastRow(file, "open", id)
        window == AuditWindow(po.t)
        touched == {k \in window : Touched(file, id, k)}
    IN  IF touched # {}
        THEN LET k == Min(touched)
                 now == sl_tp_at(file, id, 2 * k)
             IN  IF Hits(SideOf[id], now.sl, now.tp, minutes[k]).sl THEN now.sl ELSE now.tp
        ELSE IF window # {} THEN minutes[Max(window)].c ELSE po.tp
Judged(file) == {id \in Trades : Has(file, "open", id) /\ Has(file, "close", id)}
\* Mutant: a position verified before is not judged again.
VerdictsOfNew(file) ==
    [id \in {i \in Judged(file) : ~LastRow(file, "close", i).verified} |-> walk_bars(file, id)]
Verdicts(file) == [id \in Judged(file) |-> walk_bars(file, id)]

Patched(file, verdicts) ==
    [n \in DOMAIN file |->
        IF file[n].type = "close" /\ file[n].id \in DOMAIN verdicts
        THEN [file[n] EXCEPT !.x = verdicts[file[n].id], !.verified = TRUE] ELSE file[n]]

\* Both files are read, positions first; every judged position gets its verdict.
LoadPositions ==
    /\ job.at = "idle" /\ ledger # <<>>
    /\ \E serving \in BOOLEAN :   \* does the server go on meanwhile?
          /\ job.runs < (IF serving THEN MaxJobs - 1 ELSE MaxJobs)
          /\ job' = [job EXCEPT !.at = "loaded", !.judged = Verdicts(ledger), !.runs = @ + 1,
                                !.serving = serving]
    /\ UNCHANGED <<minutes, ledger, cycles, since>>
LoadCycles ==
    /\ job.at = "loaded"
    /\ job' = [job EXCEPT !.at = "linked",
                          !.of = {id \in DOMAIN job.judged : Has(cycles, "open", id)}]
    /\ UNCHANGED <<minutes, ledger, cycles, since>>
\* patch_jsonl reads the file again, writes the copy beside it, and moves it over.
ReloadPositions ==
    /\ job.at = "linked"
    /\ job' = [job EXCEPT !.at = "positions", !.out = Patched(ledger, job.judged)]
    /\ since' = [since EXCEPT !.reread = FALSE]
    /\ UNCHANGED <<minutes, ledger, cycles>>
MovePositions ==
    /\ job.at = "positions"
    /\ ledger' = job.out
    /\ job' = [job EXCEPT !.at = "moved", !.out = <<>>]
    /\ since' = [since EXCEPT !.reread = FALSE, !.lost = @ \/ since.reread]
    /\ UNCHANGED <<minutes, cycles>>
ReloadCycles ==
    /\ job.at = "moved"
    /\ job' = [job EXCEPT !.at = "cycles",
                          !.out = Patched(cycles, [id \in job.of |-> job.judged[id]])]
    /\ since' = [since EXCEPT !.reread = FALSE]
    /\ UNCHANGED <<minutes, ledger, cycles>>
Ends(lost) ==
    /\ job' = [job EXCEPT !.at = "idle", !.judged = <<>>, !.of = {}, !.out = <<>>,
                          !.serving = FALSE]
    /\ since' = [began |-> FALSE, reread |-> FALSE, lost |-> since.lost \/ lost]
MoveCycles ==
    /\ job.at = "cycles"
    /\ cycles' = job.out
    /\ Ends(since.reread)
    /\ UNCHANGED <<minutes, ledger>>
\* It is killed anywhere: what it moved stays.
KillVerifier ==
    /\ job.at # "idle"
    /\ Ends(FALSE)
    /\ UNCHANGED <<minutes, ledger, cycles>>

AuditInit ==
    /\ minutes = <<>> /\ ledger = <<>> /\ cycles = <<>>
    /\ job = [at |-> "idle", judged |-> <<>>, of |-> {}, out |-> <<>>, runs |-> 0,
              serving |-> FALSE]
    /\ since = [began |-> FALSE, reread |-> FALSE, lost |-> FALSE]
AuditNext ==
    \/ \E id \in Trades :
          \/ OpenTrade(id) \/ OpenCycle(id) \/ CloseTrade(id) \/ CloseCycle(id)
          \/ \E type \in Edits \ {"open"} : Edit(id, type)
    \/ \E b \in AuditBars : CloseBar(b)
    \/ LoadPositions \/ LoadCycles \/ ReloadPositions \/ MovePositions
    \/ ReloadCycles \/ MoveCycles \/ KillVerifier
AuditSpec == AuditInit /\ [][AuditNext]_auditVars

-----------------------------------------------------------------------------
(* mae_mfe_backfill and phantom_check *)

\* The bars of a cycle, and the minute after it.
CycleBars(id) == BarTimes(LastRow(cycles, "open", id).t, LastRow(cycles, "close", id).t + 2)
MfeOf(id) == Max({Won(id, EntryOf(ledger, id), p) : p \in
                    UNION {{minutes[k].h, minutes[k].l} : k \in CycleBars(id)}})
MaeOf(id) == Min({Won(id, EntryOf(ledger, id), p) : p \in
                    UNION {{minutes[k].h, minutes[k].l} : k \in CycleBars(id)}})

\* How far the fills are from the feed: the close of the last bar within two minutes.
fp_close_at(t) == BarTimes(t - 4, t + 4)
Opened == {id \in Trades : Has(ledger, "open", id)}
BasisOf(id) ==
    EntryOf(ledger, id) - minutes[Max(fp_close_at(LastRow(ledger, "open", id).t))].c
\* The (upper) median of the fills, the fill itself among them.
local_basis ==
    LET basis == [id \in {i \in Opened : fp_close_at(LastRow(ledger, "open", i).t) # {}}
                    |-> BasisOf(id)]
        Below(x) == Cardinality({i \in DOMAIN basis : basis[i] < x})
        UpTo(x) == Cardinality({i \in DOMAIN basis : basis[i] <= x})
        middle == Cardinality(DOMAIN basis) \div 2
    IN  IF DOMAIN basis = {} THEN 0
        ELSE basis[CHOOSE i \in DOMAIN basis : Below(basis[i]) <= middle /\ middle < UpTo(basis[i])]
FilledAt(id) == minutes[(LastRow(ledger, "open", id).t - 1) \div 2].c
Outside(entry, bars) ==
    \/ entry > Max({minutes[k].h : k \in bars}) + Tolerance
    \/ entry < Min({minutes[k].l : k \in bars}) - Tolerance
PhantomVerdict(id, basis) ==
    LET po == LastRow(ledger, "open", id)
        closed == IF Has(ledger, "close", id) THEN LastRow(ledger, "close", id).t
                  ELSE po.t + 2 * PatchSpan
        ewin == BarTimes(po.t - 1 - 2 * TfSpan - 2, po.t + 4)
        awin == BarTimes(po.t - 2 * TfSpan, closed + 2)
        adjusted == po.x - basis
    IN  IF ewin = {} THEN "no_bars"
        ELSE IF awin # {} /\ Outside(adjusted, awin) THEN "PHANTOM"
        ELSE IF Outside(adjusted, ewin) THEN "suspect"
        ELSE IF (awin # {} /\ Outside(po.x, awin)) \/ Outside(po.x, ewin)
        THEN "basis_artifact" ELSE "ok"

-----------------------------------------------------------------------------
(* What they promise *)

Kept(before, after) ==
    /\ Len(before) <= Len(after)
    /\ \A n \in DOMAIN before :
          /\ [before[n] EXCEPT !.x = 0, !.verified = FALSE]
             = [after[n] EXCEPT !.x = 0, !.verified = FALSE]
          /\ before[n].type # "close" => after[n] = before[n]
\* Rewriting the files keeps every event the server wrote, but what it wrote after the
\* verifier reread the file; and only closes are patched.
EventsKept ==
    ledger' # ledger \/ cycles' # cycles =>
        since.reread \/ (Kept(ledger, ledger') /\ Kept(cycles, cycles'))

\* A run that ends, over files nobody wrote to meanwhile, leaves each closed position with
\* the verdict of a new run and its cycle with the position's, killed runs before it or not.
FilesAgree ==
    \A id \in Judged(ledger) :
        \E pc \in {LastRow(ledger, "close", id)} :
            /\ pc.verified /\ pc.x = walk_bars(ledger, id)
            /\ (Has(cycles, "close", id) => LastRow(cycles, "close", id).x = pc.x)
RunsAgree ==
    (job.at = "cycles" /\ job'.at = "idle" /\ cycles' = job.out /\ ~since.began)
        => FilesAgree'

\* What the server closed at its stop or target, the verifier finds there, as long as the
\* stop stayed a disaster floor, no leg was added, and no event was lost to a rewrite.
ExitConfirmed ==
    ~since.lost => \A id \in Judged(ledger) :
        \E pc \in {LastRow(ledger, "close", id)} :
            (/\ pc.verified /\ pc.why \in {"sl", "tp"}
             /\ ~Has(ledger, "sl_adjust", id) /\ ~Has(ledger, "add_leg", id)) => pc.x = pc.booked

\* A cycle that saw a bar close went at least as far as what it booked, both ways (read
\* while the verifier does not run).
ExcursionsBound ==
    (job.at = "idle" /\ ~since.lost) => \A id \in Linked :
        (/\ Has(cycles, "close", id) /\ ~LastRow(cycles, "close", id).verified
         /\ BarTimes(LastRow(cycles, "open", id).t, LastRow(cycles, "close", id).t) # {}) =>
            \E won \in {Won(id, EntryOf(ledger, id), LastRow(cycles, "close", id).x)} :
                MaeOf(id) <= won /\ won <= MfeOf(id)

\* Fills of one venue, each at the close of its bar, are no phantoms where the price stood
\* for the two minutes the check looks past a fill.
NoVenuePhantom ==
    (/\ job.at = "idle"
     /\ \E offset \in Offsets : \A id \in Opened : EntryOf(ledger, id) = offset + FilledAt(id)
     /\ \A id \in Opened : BasisOf(id) = EntryOf(ledger, id) - FilledAt(id)) =>
        \A basis \in {local_basis} : \A id \in Opened :
            PhantomVerdict(id, basis) \notin {"PHANTOM", "suspect"}
=============================================================================
