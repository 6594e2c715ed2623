-------------------------------- MODULE VpCache --------------------------------
(***************************************************************************)
(* The cache of volume profiles (pipeline/features/vp_cache.py) and the     *)
(* profile history (vp_history.py).  The ingest handler of a primary bar    *)
(* reads the one JSON file of all symbols, rebuilds the periods of its own  *)
(* symbol and writes the file back; handlers of two symbols do so at once.  *)
(* Time is a number of bars from a Monday, Day bars a calendar day.  A      *)
(* profile is the set of bars it was computed from (Profile models the      *)
(* computation itself).                                                     *)
(***************************************************************************)
EXTENDS Integers, FiniteSets, FiniteSetsExt

CONSTANTS
    VpSymbols,
    StartHour,         \* per symbol, the hour its session starts (session_start_utc)
    Day,            \* bars of a day
    Week,           \* bars of a week
    Ist,            \* offset of the time zone whose dates name the sessions (_IST)
    DaysBack,       \* days a build looks at (5)
    WeeksBack,      \* weeks a build looks at (2)
    MinCached,      \* bars a cached profile needs (30)
    MinDaily,       \* MIN_BARS_DAILY, bars a snapshot of a day needs
    MinWeekly,      \* MIN_BARS_WEEKLY, bars a snapshot of a week needs
    Thursday,       \* where the week of _week_num starts, as the epoch did
    RefreshBars,    \* vp_cache.intraday_refresh_bars
    VpHorizon,      \* bound: the clock
    MaxMissing,     \* bound: per symbol, bars not delivered on time at a moment
    MaxCrashes      \* bound: crashes

\* Sessions start at midnight, or late enough in the UTC day to be the next day in the time
\* zone that names them (settings.yaml: 0 and 22 h, and IST is 5.5 h ahead).
ASSUME VpAssumption ==
    /\ Day \in Nat \ {0} /\ Week \in Nat \ {0} /\ RefreshBars \in Nat \ {0}
    /\ DaysBack \in Nat \ {0} /\ WeeksBack \in Nat \ {0} /\ Ist \in 0..(Day - 1)
    /\ \A s \in VpSymbols : StartHour[s] \in {0} \cup ((Day - Ist)..(Day - 1))
    /\ MinCached \in Nat /\ MinDaily \in Nat \ {0, 1}
    /\ MinWeekly \in Nat \ {0} /\ Thursday \in 0..(Week - 1)
    /\ VpHorizon \in Nat \ {0} /\ MaxCrashes \in Nat

VARIABLES
    vpClock,        \* the wall clock
    vpFresh,        \* it is still the second at which the bar of that time closed
    vpStored,       \* per symbol, the bars in the store
    vpFile,         \* vp_cache.json: per symbol and period, {} when absent
    vpTorn,         \* the file is truncated and not yet written
    vpBuild,        \* per symbol, the build its handler has under way
    vpRows,         \* vp_history.jsonl: [sym, at, prev], each from a handler that then raises
    vpCalm,         \* each build was over before another and before the next bar's time
    vpCrashes       \* crashes so far

vpVars == <<vpClock, vpFresh, vpStored, vpFile, vpTorn, vpBuild, vpRows, vpCalm, vpCrashes>>

Times == 1..VpHorizon
\* The last session may bear the name of the day after the horizon.
Periods == ({"day"} \X (0..(VpHorizon \div Day + 1)))
               \cup ({"week"} \X (0..(VpHorizon \div Week + 1)))
NoProfiles == [p \in Periods |-> {}]
NoBuild == [pc |-> "idle", file |-> [s \in VpSymbols |-> NoProfiles]]

-----------------------------------------------------------------------------
(* Names of the periods and their bounds *)
SessionStart(s, t) == ((t - StartHour[s]) \div Day) * Day + StartHour[s]
DayKey(s, t) == <<"day", (SessionStart(s, t) + Ist) \div Day>>
DayStart(s, k) == (IF StartHour[s] = 0 THEN k ELSE k - 1) * Day + StartHour[s]
WeekKey(s, t) == <<"week", (t + Ist) \div Week>>
WeekStart(s, k) == k * Week + StartHour[s]

PeriodStart(s, p) == IF p[1] = "day" THEN DayStart(s, p[2]) ELSE WeekStart(s, p[2])
PeriodBars(p) == IF p[1] = "day" THEN Day ELSE Week
\* Mutant: the bar that closes with the period counts as well.
WithinClosed(s, p, t) == PeriodStart(s, p) <= t /\ t <= PeriodStart(s, p) + PeriodBars(p)
Within(s, p, t) == PeriodStart(s, p) <= t /\ t < PeriodStart(s, p) + PeriodBars(p)

-----------------------------------------------------------------------------
(* A build *)
RecentDays(s, now) ==
    Periods \cap ({DayKey(s, now - d * Day) : d \in 0..(DaysBack - 1)}
                     \cup {WeekKey(s, now - w * Week) : w \in 0..(WeeksBack - 1)})
Current(s, now) == {DayKey(s, now), WeekKey(s, now)}

\* Mutant: a past period is computed again.
DueAgain(s, now, profiles) == RecentDays(s, now)
Due(s, now, profiles) == {p \in RecentDays(s, now) : p \in Current(s, now) \/ profiles[p] = {}}

\* Only bars that closed before the second of the build count.
Over(t) == t < vpClock \/ ~vpFresh
Computed(s, p, stored) == {t \in stored : Within(s, p, t) /\ Over(t)}
Rebuilt(s, now, stored, profiles) ==
    [p \in Periods |->
        IF p \in Due(s, now, profiles) /\ Cardinality(Computed(s, p, stored)) >= MinCached
        THEN Computed(s, p, stored) ELSE profiles[p]]

Loaded == IF vpTorn THEN [s \in VpSymbols |-> NoProfiles] ELSE vpFile

-----------------------------------------------------------------------------
(* The history *)
SameDay(a, b) == a \div Day = b \div Day
EnoughOfToday(stored) == Cardinality({t \in stored : SameDay(t, vpClock)}) >= MinDaily
\* The week that is counted runs from Monday, the week whose end is noticed from Thursday.
WeekNum(t) == (t - Thursday) \div Week
EnoughOfTheWeek(stored) ==
    Cardinality({t \in stored : t \div Week = vpClock \div Week}) >= MinWeekly

Snapped(prev, at, stored) ==
    /\ prev # 0
    /\ \/ ~SameDay(prev, at) /\ EnoughOfToday(stored)
       \/ WeekNum(prev) # WeekNum(at) /\ EnoughOfTheWeek(stored)

-----------------------------------------------------------------------------
VpInit ==
    /\ vpClock = 1 /\ vpFresh = TRUE
    /\ vpStored = [s \in VpSymbols |-> {}]
    /\ vpFile = [s \in VpSymbols |-> NoProfiles]
    /\ vpTorn = FALSE
    /\ vpBuild = [s \in VpSymbols |-> NoBuild]
    /\ vpRows = {} /\ vpCalm = TRUE /\ vpCrashes = 0

Missing(s) == (1..vpClock) \ vpStored[s]

VpTick ==
    /\ vpClock < VpHorizon
    /\ \A s \in VpSymbols : Cardinality(Missing(s)) <= MaxMissing[s]
    /\ vpClock' = vpClock + 1 /\ vpFresh' = TRUE
    /\ vpCalm' = (vpCalm /\ \A s \in VpSymbols : vpBuild[s].pc = "idle")
    /\ UNCHANGED <<vpStored, vpFile, vpTorn, vpBuild, vpRows, vpCrashes>>

\* The second passes.
VpSecond ==
    /\ vpFresh /\ vpFresh' = FALSE
    /\ UNCHANGED <<vpClock, vpStored, vpFile, vpTorn, vpBuild, vpRows, vpCalm, vpCrashes>>

\* A primary bar is posted: stored, the cache read and rebuilt when a refresh
\* is due or a snapshot was taken, and the snapshot of a crossed boundary.
VpBar(s, t) ==
    /\ vpBuild[s].pc = "idle" /\ t \in Missing(s)
    /\ LET stored == vpStored[s] \cup {t}
           prev == IF vpStored[s] = {} THEN 0 ELSE Max(vpStored[s])
           snapped == Snapped(prev, t, stored)
           builds == t % RefreshBars = 0 \/ snapped
       IN  /\ vpStored' = [vpStored EXCEPT ![s] = stored]
           /\ vpRows' = vpRows \cup
                  (IF snapped THEN {[sym |-> s, at |-> t, prev |-> prev]} ELSE {})
           /\ vpBuild' = IF ~builds THEN vpBuild
                         ELSE [vpBuild EXCEPT ![s] =
                                 [pc |-> "built",
                                  file |-> [Loaded EXCEPT ![s] =
                                              Rebuilt(s, vpClock, stored, @)]]]
           /\ vpCalm' = (vpCalm /\ (builds => \A r \in VpSymbols : vpBuild[r].pc = "idle"))
    /\ UNCHANGED <<vpClock, vpFresh, vpFile, vpTorn, vpCrashes>>

\* write_text empties the file before it writes it.
VpTruncate(s) ==
    /\ vpBuild[s].pc = "built"
    /\ vpBuild' = [vpBuild EXCEPT ![s].pc = "saving"]
    /\ vpTorn' = TRUE
    /\ UNCHANGED <<vpClock, vpFresh, vpStored, vpFile, vpRows, vpCalm, vpCrashes>>

VpSave(s) ==
    /\ vpBuild[s].pc = "saving"
    /\ vpFile' = vpBuild[s].file
    /\ vpTorn' = FALSE
    /\ vpBuild' = [vpBuild EXCEPT ![s] = NoBuild]
    /\ UNCHANGED <<vpClock, vpFresh, vpStored, vpRows, vpCalm, vpCrashes>>

\* The server dies and starts again: _precompute_vp rebuilds every symbol first.
VpCrash ==
    /\ vpCrashes < MaxCrashes
    /\ vpFile' = [s \in VpSymbols |-> Rebuilt(s, vpClock, vpStored[s], Loaded[s])]
    /\ vpTorn' = FALSE
    /\ vpBuild' = [s \in VpSymbols |-> NoBuild]
    /\ vpCalm' = (vpCalm /\ ~vpTorn)
    /\ vpCrashes' = vpCrashes + 1
    /\ UNCHANGED <<vpClock, vpFresh, vpStored, vpRows>>

VpNext ==
    \/ VpTick \/ VpSecond
    \/ \E s \in VpSymbols : (\E t \in Times : VpBar(s, t)) \/ VpTruncate(s) \/ VpSave(s)
    \/ VpCrash

VpSpec == VpInit /\ [][VpNext]_vpVars

-----------------------------------------------------------------------------
(* Properties *)
\* The clock, the stored bars, the file and the builds have their types.
VpTypeOK ==
    /\ vpClock \in Times /\ vpFresh \in BOOLEAN /\ vpTorn \in BOOLEAN /\ vpCalm \in BOOLEAN
    /\ vpCrashes \in 0..MaxCrashes
    /\ \A s \in VpSymbols :
        /\ vpStored[s] \subseteq Times
        /\ vpBuild[s].pc \in {"idle", "built", "saving"}
        /\ \A p \in Periods : vpFile[s][p] \subseteq Times
    /\ \A r \in vpRows : r.sym \in VpSymbols /\ {r.at, r.prev} \subseteq Times

\* The bounds a build cuts the bars at agree with the key the readers ask for:
\* a cached day holds stored bars of the session of that name and no others.
ProfileOfItsSession ==
    \A s \in VpSymbols, p \in Periods :
        p[1] = "day" =>
            vpFile[s][p] \subseteq {t \in vpStored[s] : DayKey(s, t) = p}

\* A build leaves in the file, for the session of its moment, every bar stored by then
\* that closed before that second, once there are enough: nothing else of today is left
\* out, and the bar that set the build off is, if it was posted within its second.
TodayIsWhole ==
    \A s \in {x \in VpSymbols : vpBuild[x].pc = "idle" /\ vpBuild'[x].pc = "built"} :
        LET today == {t \in vpStored'[s] : DayKey(s, t) = DayKey(s, vpClock) /\ Over(t)}
        IN  Cardinality(today) >= MinCached =>
                vpBuild'[s].file[s][DayKey(s, vpClock)] = today

\* As long as each build is over before another one and before the next bar, and
\* no crash tears the file, a session that is over keeps its profile unchanged.
ClosedSessionStands ==
    vpFile' # vpFile /\ vpCalm' =>
        \A s \in VpSymbols, p \in Periods :
            (p[1] = "day" /\ p[2] < DayKey(s, vpClock)[2] /\ vpFile[s][p] # {})
                => vpFile'[s][p] = vpFile[s][p]

\* The snapshot of a period, after which the handler raises before it checks the
\* positions, is taken by a bar older than the newest one, or by the first bar that
\* is not after a Thursday began: such a bar raises once a week for each symbol.
OnTime(r) == r.prev < r.at
RaisesOnceAWeek ==
    \A r \in vpRows : OnTime(r) =>
        /\ WeekNum(r.prev) # WeekNum(r.at)
        /\ \A q \in vpRows :
            OnTime(q) /\ q.sym = r.sym /\ WeekNum(q.at) = WeekNum(r.at) => q = r

\* Fails: the profile of a session that is over holds all of its stored bars.
ClosedSessionWhole ==
    \A s \in VpSymbols, p \in Periods :
        (p[1] = "day" /\ p[2] < DayKey(s, vpClock)[2] /\ vpFile[s][p] # {})
            => vpFile[s][p] = {t \in vpStored[s] : DayKey(s, t) = p}

\* Fails: the week a reader asks for at a moment is the week that bounds it.
WeekBoundsItsMoments == \A s \in VpSymbols : Within(s, WeekKey(s, vpClock), vpClock)

\* Fails under overlap: no handler takes away what another has saved.
SessionsAreKept ==
    [][\A s \in VpSymbols, p \in Periods : vpFile[s][p] # {} => vpFile'[s][p] # {}]_vpVars
===============================================================================
