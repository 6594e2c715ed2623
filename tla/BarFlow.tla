------------------------------- MODULE BarFlow -------------------------------
(***************************************************************************)
(* From trades to stored bars: the REST poller and the footprint builder   *)
(* of a feed process, its POST to /ingest, and in the server the bar store *)
(* with its file, the aggregation into a higher timeframe, the strategy    *)
(* tick on the synthesized bar and the check of positions.                 *)
(*                                                                         *)
(* Trades are numbered; tape[t] is the minute trade t falls in, and a bar  *)
(* is the sequence of the trades added to it (its first and last give open *)
(* and close, all of them the ladders).  A synthesized bar is the set of   *)
(* primary bars merged into it.  One symbol and one higher timeframe: the  *)
(* loop over timeframes repeats what is modelled for one.                  *)
(*                                                                         *)
(* The feed waits for the answer of a POST, 30 seconds at most; the        *)
(* handler of a request that timed out goes on in its own thread.          *)
(***************************************************************************)
EXTENDS Integers, Sequences, FiniteSets

CONSTANTS
    Tapes,          \* sequences of minutes, one per trade
    Minute,         \* close times of primary bars, in minutes
    Span,           \* primary bars per synthesized bar
    Page,           \* trades per answer of the exchange: limit
    Memory,         \* trades the poller remembers: maxlen of _seen_deque
    Handler,        \* requests the server works on at once (bound)
    NoHandler,
    MaxRestarts     \* of the feed and of the server each (bound)

ASSUME FlowAssumption ==
    /\ Minute \subseteq Nat \ {0}
    /\ Span \in Nat \ {0}
    /\ \A tp \in Tapes :
          /\ tp \in Seq(Minute)
          /\ \A i, j \in 1..Len(tp) : i <= j => tp[i] <= tp[j]
    /\ Page \in Nat \ {0}
    /\ Memory \in Nat /\ Page <= Memory
    /\ NoHandler \notin Handler
    /\ MaxRestarts \in Nat

VARIABLES
    tape,       \* the trades of the day
    traded,     \* how many of them have happened
    seen,       \* _seen_deque: trades dispatched, oldest first
    batch,      \* trades of the current page still to dispatch
    current,    \* FootprintBuilder._current
    waiting,    \* the request the feed waits for
    handler,    \* what each request is doing
    locked,     \* holder of StateStore._lock
    bars,       \* primary series in memory
    file,       \* primary series on disk
    highBars,   \* synthesized series in memory
    highFile,   \* synthesized series on disk
    managed,    \* how often _check_positions saw each minute's bar
    ticked,     \* synthesized bars strategies were ticked on
    restarts    \* restarts so far

feed == <<seen, batch, current>>
store == <<locked, bars, file, highBars, highFile>>
vars == <<tape, traded, feed, waiting, handler, store, managed, ticked, restarts>>

NoBar == [min |-> 0, trades |-> <<>>]
NoHigh == [min |-> 0, parts |-> {}]
Busy(s, b, high) == [stage |-> s, bar |-> b, high |-> high]
Idle == Busy("idle", NoBar, NoHigh)

-----------------------------------------------------------------------------
(* The feed process.                                                       *)

Trade ==
    /\ traded < Len(tape)
    /\ traded' = traded + 1
    /\ UNCHANGED <<tape, feed, waiting, handler, store, managed, ticked, restarts>>

Remembered == { seen[i] : i \in 1..Len(seen) }

\* Mutant: the page is dispatched whether seen or not.
NewInPageAll == { t \in 1..traded : traded - Page < t }

\* The trades of a page that are not remembered.
NewInPage == { t \in 1..traded : traded - Page < t /\ t \notin Remembered }

Poll ==
    /\ batch = {}
    /\ waiting = NoHandler
    /\ batch' = NewInPage
    /\ UNCHANGED <<tape, traded, seen, current, waiting, handler, store,
                   managed, ticked, restarts>>

\* Take the oldest trade of the page; the deque forgets its oldest when full.
Dispatch(t) ==
    /\ waiting = NoHandler
    /\ \A u \in batch : t <= u
    /\ batch' = batch \ {t}
    /\ LET longer == Append(seen, t)
       IN  seen' = IF Len(longer) > Memory THEN Tail(longer) ELSE longer

Fresh(t) == [min |-> tape[t], trades |-> <<t>>]

\* on_tick, for the first trade of the process.
FirstTrade(t) ==
    /\ Dispatch(t)
    /\ current = NoBar
    /\ current' = Fresh(t)
    /\ UNCHANGED <<tape, traded, waiting, handler, store, managed, ticked, restarts>>

\* on_tick within the minute of the bar under construction.
AddTrade(t) ==
    /\ Dispatch(t)
    /\ current.min = tape[t]
    /\ current' = [min |-> current.min, trades |-> Append(current.trades, t)]
    /\ UNCHANGED <<tape, traded, waiting, handler, store, managed, ticked, restarts>>

\* on_tick in another minute: the bar is posted before the trade is added.
Post(t, h) ==
    /\ Dispatch(t)
    /\ current # NoBar /\ current.min # tape[t]
    /\ handler[h] = Idle
    /\ handler' = [handler EXCEPT ![h] = Busy("sent", current, NoHigh)]
    /\ waiting' = h
    /\ current' = Fresh(t)
    /\ UNCHANGED <<tape, traded, store, managed, ticked, restarts>>

\* The POST fails: logged, and the bar is gone.
PostFails(t) ==
    /\ Dispatch(t)
    /\ current # NoBar /\ current.min # tape[t]
    /\ current' = Fresh(t)
    /\ UNCHANGED <<tape, traded, waiting, handler, store, managed, ticked, restarts>>

Timeout ==
    /\ waiting # NoHandler
    /\ waiting' = NoHandler
    /\ UNCHANGED <<tape, traded, feed, handler, store, managed, ticked, restarts>>

RestartFeed ==
    /\ restarts.feed < MaxRestarts
    /\ restarts' = [restarts EXCEPT !.feed = @ + 1]
    /\ seen' = <<>>
    /\ batch' = {}
    /\ current' = NoBar
    /\ waiting' = NoHandler
    /\ UNCHANGED <<tape, traded, handler, store, managed, ticked>>

-----------------------------------------------------------------------------
(* The handler of POST /ingest.                                            *)

At(h, s) == handler[h].stage = s
Becomes(h, s) ==
    handler' = [handler EXCEPT ![h] = Busy(s, handler[h].bar, handler[h].high)]

\* _lock_for(bar_id): held from put to the end of the aggregation.
Holding == {"write", "emit", "put_high", "write_high", "tick"}
BarLockFree(h) ==
    \A g \in Handler : handler[g].stage \in Holding => handler[g].bar.min # handler[h].bar.min

Answer(h) ==
    /\ handler' = [handler EXCEPT ![h] = Idle]
    /\ waiting' = IF waiting = h THEN NoHandler ELSE waiting

Same == UNCHANGED <<tape, traded, feed, restarts>>

\* put refuses a bar_id it has; bar ids are made of symbol, tf and close.
Duplicate(h) ==
    /\ At(h, "sent")
    /\ BarLockFree(h)
    /\ locked = NoHandler
    /\ \E b \in bars : b.min = handler[h].bar.min
    /\ Answer(h)
    /\ Same
    /\ UNCHANGED <<store, managed, ticked>>

\* Mutant: no look at the series.
InsertBarAlways(h) ==
    /\ At(h, "sent")
    /\ BarLockFree(h)
    /\ locked = NoHandler
    /\ locked' = h
    /\ bars' = bars \cup {handler[h].bar}
    /\ Becomes(h, "write")
    /\ Same
    /\ UNCHANGED <<waiting, file, highBars, highFile, managed, ticked>>

InsertBar(h) ==
    /\ At(h, "sent")
    /\ BarLockFree(h)
    /\ locked = NoHandler
    /\ \A b \in bars : b.min # handler[h].bar.min
    /\ locked' = h
    /\ bars' = bars \cup {handler[h].bar}
    /\ Becomes(h, "write")
    /\ Same
    /\ UNCHANGED <<waiting, file, highBars, highFile, managed, ticked>>

\* The line is appended before the lock is given back.
WriteBar(h) ==
    /\ At(h, "write")
    /\ file' = file \cup {handler[h].bar}
    /\ locked' = NoHandler
    /\ Becomes(h, "emit")
    /\ Same
    /\ UNCHANGED <<waiting, bars, highBars, highFile, managed, ticked>>

IsLatest(b) == b \in bars /\ \A other \in bars : other.min <= b.min
Bucket(m) == { b \in bars : m - Span < b.min /\ b.min <= m }

\* maybe_emit looks at the latest bar of the series, which need not be the
\* handler's own; recent takes no lock.
Emit(h) ==
    /\ At(h, "emit")
    /\ \E last \in bars :
          /\ IsLatest(last)
          /\ last.min % Span = 0
          /\ handler' = [handler EXCEPT ![h] =
                Busy("put_high", handler[h].bar,
                     [min |-> last.min, parts |-> Bucket(last.min)])]
    /\ Same
    /\ UNCHANGED <<waiting, store, managed, ticked>>

EmitNothing(h) ==
    /\ At(h, "emit")
    /\ \E last \in bars : IsLatest(last) /\ last.min % Span # 0
    /\ Becomes(h, "check")
    /\ Same
    /\ UNCHANGED <<waiting, store, managed, ticked>>

\* Mutant: the series in memory is changed without the lock.
InsertHighUnlocked(h) ==
    /\ At(h, "put_high")
    /\ highBars' = highBars \cup {handler[h].high}
    /\ highFile' = highFile \cup {handler[h].high}
    /\ Becomes(h, "tick")
    /\ Same
    /\ UNCHANGED <<waiting, locked, bars, file, managed, ticked>>

InsertHigh(h) ==
    /\ At(h, "put_high")
    /\ locked = NoHandler
    /\ \A b \in highBars : b.min # handler[h].high.min
    /\ highBars' = highBars \cup {handler[h].high}
    /\ locked' = h
    /\ Becomes(h, "write_high")
    /\ Same
    /\ UNCHANGED <<waiting, bars, file, highFile, managed, ticked>>

\* The result of put is ignored: the tick follows all the same.
DuplicateHigh(h) ==
    /\ At(h, "put_high")
    /\ locked = NoHandler
    /\ \E b \in highBars : b.min = handler[h].high.min
    /\ Becomes(h, "tick")
    /\ Same
    /\ UNCHANGED <<waiting, store, managed, ticked>>

WriteHigh(h) ==
    /\ At(h, "write_high")
    /\ highFile' = highFile \cup {handler[h].high}
    /\ locked' = NoHandler
    /\ Becomes(h, "tick")
    /\ Same
    /\ UNCHANGED <<waiting, bars, file, highBars, managed, ticked>>

\* StrategyManager.tick on the synthesized bar, inside the bar lock.
TickStrategies(h) ==
    /\ At(h, "tick")
    /\ ticked' = ticked \cup {handler[h].high}
    /\ Becomes(h, "check")
    /\ Same
    /\ UNCHANGED <<waiting, store, managed>>

\* _check_positions and what follows it.  Bound: counted up to 2.
CheckPositions(h) ==
    LET m == handler[h].bar.min
    IN  /\ At(h, "check")
        /\ managed' = [managed EXCEPT ![m] = IF @ < 2 THEN @ + 1 ELSE @]
        /\ Answer(h)
        /\ Same
        /\ UNCHANGED <<store, ticked>>

\* Requests die with the process; the series come back from their files.
RestartServer ==
    /\ restarts.server < MaxRestarts
    /\ restarts' = [restarts EXCEPT !.server = @ + 1]
    /\ handler' = [h \in Handler |-> Idle]
    /\ waiting' = NoHandler
    /\ locked' = NoHandler
    /\ bars' = file
    /\ highBars' = highFile
    /\ UNCHANGED <<tape, traded, feed, file, highFile, managed, ticked>>

-----------------------------------------------------------------------------

Init ==
    /\ tape \in Tapes
    /\ traded = 0
    /\ seen = <<>>
    /\ batch = {}
    /\ current = NoBar
    /\ waiting = NoHandler
    /\ handler = [h \in Handler |-> Idle]
    /\ locked = NoHandler
    /\ bars = {} /\ file = {}
    /\ highBars = {} /\ highFile = {}
    /\ managed = [m \in Minute |-> 0]
    /\ ticked = {}
    /\ restarts = [feed |-> 0, server |-> 0]

Feed ==
    \/ Poll
    \/ \E t \in batch : FirstTrade(t) \/ AddTrade(t) \/ PostFails(t)
    \/ \E t \in batch, h \in Handler : Post(t, h)
    \/ Timeout

Ingest(h) ==
    \/ Duplicate(h) \/ InsertBar(h) \/ WriteBar(h)
    \/ Emit(h) \/ EmitNothing(h)
    \/ InsertHigh(h) \/ DuplicateHigh(h) \/ WriteHigh(h) \/ TickStrategies(h)
    \/ CheckPositions(h)

Next ==
    \/ Trade
    \/ Feed
    \/ RestartFeed
    \/ \E h \in Handler : Ingest(h)
    \/ RestartServer

Spec == Init /\ [][Next]_vars

-----------------------------------------------------------------------------
(* Properties.                                                             *)

Bars == { b \in [min : Minute, trades : Seq(1..Len(tape))] : b.trades # <<>> }
Highs == [min : Minute, parts : SUBSET Bars]

TypeOK ==
    /\ tape \in Tapes
    /\ traded \in 0..Len(tape)
    /\ seen \in Seq(1..traded) /\ Len(seen) <= Memory
    /\ batch \subseteq 1..traded
    /\ current = NoBar \/ current \in Bars
    /\ waiting \in Handler \cup {NoHandler}
    /\ locked \in Handler \cup {NoHandler}
    /\ \A h \in Handler :
          /\ handler[h].stage \in Holding \cup {"idle", "sent", "check"}
          /\ handler[h].bar = NoBar \/ handler[h].bar \in Bars
    /\ file \subseteq bars /\ bars \subseteq Bars
    /\ highFile \subseteq highBars
    /\ managed \in [Minute -> 0..2]
    /\ restarts \in [feed : 0..MaxRestarts, server : 0..MaxRestarts]

\* Pages overlap, the poller forgets, feeds restart and post a minute again:
\* still no stored bar holds a trade twice or out of order, or one of another
\* minute, and no trade is in two bars.  Open, close and ladders rest on it.
TradesCountOnce ==
    /\ \A b \in bars :
          /\ \A i \in 1..Len(b.trades) : tape[b.trades[i]] = b.min
          /\ \A i, j \in 1..Len(b.trades) : i < j => b.trades[i] < b.trades[j]
    /\ \A a, b \in bars : a.min = b.min => a = b

\* Handlers read the series while another is half way through its put.  Yet
\* what a strategy was ticked on, and every synthesized bar on disk, consists
\* of bars on disk, of its own bucket and with its last minute among them: no
\* restart leaves a decision without its data.
DecisionsAreDurable ==
    \A high \in ticked \cup highFile :
        /\ high.parts \subseteq file
        /\ \A b \in high.parts : high.min - Span < b.min /\ b.min <= high.min
        /\ \E b \in high.parts : b.min = high.min

\* A bar posted again, by a feed that started over or to a server that did,
\* never has its stops and targets checked a second time.
ManagedOnce == \A m \in Minute : managed[m] <= 1

\* "Idempotent insert" (StateStore.put): the first version of a minute's bar
\* that reached the disk stays, in memory as on disk, over restarts of both.
FirstBarStands ==
    [][/\ file \subseteq file' /\ file \subseteq bars'
       /\ highFile \subseteq highFile' /\ highFile \subseteq highBars'
       /\ \A a, b \in file' : a.min = b.min => a = b
       /\ \A a, b \in highFile' : a.min = b.min => a = b]_vars

=============================================================================
