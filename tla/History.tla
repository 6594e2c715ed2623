------------------------------ MODULE History ------------------------------
(***************************************************************************)
(* The minute bars on disk and the programs that write them beside the     *)
(* server: scripts/fetch_history.py (bars made up from klines),            *)
(* backfill_binance.py (past trades replayed through the live builder),    *)
(* rebuild_footprint_history.py and rebuild_footprint_binance.py (bars     *)
(* rebuilt from the dumps of past days), and agg_1m_to_15m.py.  A minute   *)
(* is Minute units of time, a day Daily of them; a bar is named for the    *)
(* time it closes at.                                                      *)
(***************************************************************************)
EXTENDS Integers, Sequences, SequencesExt, FiniteSetsExt

CONSTANTS Feeds,      \* the trades of an exchange: sequences of [t, p, size, buy]
          Minute, Daily, Quarter,   \* a minute, a day, a 15m bar, in units of time
          PriceStep,  \* the price bucket of the builder
          PageSize,   \* trades the exchange returns at once
          MaxScripts, MaxStarts   \* bounds

VARIABLES feed,    \* the trades that will happen
          seen,    \* how many of them have
          bars,    \* {symbol}_1m.jsonl
          server,  \* the feed and server: their series, the bar built, the time they started
          pending, \* a rewrite of the file under way: what was read and what will be written
          ran      \* how many scripts and starts; did a script run beside the server?
historyVars == <<feed, seen, bars, server, pending, ran>>

\* The builder and the Binance dump put a trade on the minute in the bar after it, the
\* Bybit dump in the bar it closes.
_bar_close_ts(t) == ((t \div Minute) + 1) * Minute
CeilTs(t) == ((t + Minute - 1) \div Minute) * Minute
_bucket_price(p) == ((p + (PriceStep \div 2)) \div PriceStep) * PriceStep
Signed(x) == IF x.buy THEN x.size ELSE -x.size

MinuteBar(ts, first, src) ==
    [ts |-> ts, o |-> first, h |-> first, l |-> first, c |-> first, delta |-> 0, src |-> src]
Added(bar, price, x) ==
    [bar EXCEPT !.h = IF price > @ THEN price ELSE @, !.l = IF price < @ THEN price ELSE @,
                !.c = price, !.delta = @ + Signed(x)]
BarOf(trades, ts, src) ==
    FoldLeft(LAMBDA bar, x : Added(bar, x.p, x), MinuteBar(ts, trades[1].p, src), trades)

Happened == SubSeq(feed, 1, seen)
Clock == IF seen = 0 THEN 0 ELSE feed[seen].t
Times(rows) == {rows[k].ts : k \in DOMAIN rows}
InTime(times) ==
    SelectSeq([k \in 1..((Clock \div Minute) + 1) |-> k * Minute], LAMBDA ts : ts \in times)
MinuteTrades(trades, ts) == SelectSeq(trades, LAMBDA x : _bar_close_ts(x.t) = ts)

-----------------------------------------------------------------------------
(* The store and the builder, in the server and in the scripts *)

\* StateStore.put: a process stores a bar id once; the file only grows.
Put(process, bar) ==
    IF bar.ts \in Times(process.series) THEN process
    ELSE [process EXCEPT !.series = Append(@, bar), !.out = Append(@, bar)]
\* What the puts of a process that has these bars in memory add to its series and the file.
Stored(series, more) == FoldLeft(Put, [series |-> series, out |-> <<>>], more)

NoBar == MinuteBar(0, 0, "")
\* A trade of another minute emits the bar being built and begins the next.
on_tick(building, x, src) ==
    LET ts == _bar_close_ts(x.t)
        price == _bucket_price(x.p)
        fresh == building.ts # ts
    IN  [bar |-> Added(IF fresh THEN MinuteBar(ts, price, src) ELSE building, price, x),
         out |-> IF fresh /\ building # NoBar THEN <<building>> ELSE <<>>]

Down == [up |-> FALSE, series |-> <<>>, bar |-> NoBar, since |-> 0]
Start ==
    /\ ~server.up /\ ran.starts < MaxStarts
    /\ server' = [up |-> TRUE, series |-> bars, bar |-> NoBar, since |-> Clock]
    /\ ran' = [ran EXCEPT !.starts = @ + 1, !.beside = @ \/ pending.on]
    /\ UNCHANGED <<feed, seen, bars, pending>>
Stop ==
    /\ server.up
    /\ server' = Down
    /\ UNCHANGED <<feed, seen, bars, pending, ran>>
\* The next trade happens; a server that runs builds its bar.
Trade ==
    /\ seen < Len(feed)
    /\ seen' = seen + 1
    /\ IF server.up
       THEN \E step \in {on_tick(server.bar, feed[seen + 1], "live")} :
            \E put \in {Stored(server.series, step.out)} :
               /\ bars' = bars \o put.out
               /\ server' = [server EXCEPT !.bar = step.bar, !.series = put.series]
       ELSE UNCHANGED <<bars, server>>
    /\ UNCHANGED <<feed, pending, ran>>

-----------------------------------------------------------------------------
(* The scripts that add bars *)

\* Each is a process of its own, with the file as it finds it.
Runs(from) ==
    /\ ran.scripts < MaxScripts /\ seen > 0 /\ ~pending.on
    /\ ran' = [ran EXCEPT !.scripts = @ + 1, !.beside = @ \/ server.up, !.from = from]
    /\ UNCHANGED <<feed, seen, server>>

\* The klines of the exchange, the running minute's among them.  It answers from the
\* newest: an error leaves the older ones out.
fetch_bybit_klines(from) == InTime({_bar_close_ts(x.t) : x \in {feed[k] : k \in 1..seen}}
                                   \cap (from + 1)..(Clock + Minute))
\* A kline's delta is made up from where the minute closed in its range.
_build_synthetic_bar(ts) ==
    LET trades == MinuteTrades(Happened, ts)
        k == BarOf(trades, ts, "synthetic_ohlcv")
        rng == k.h - k.l
        vol == FoldLeft(LAMBDA sum, x : sum + x.size, 0, trades)
    IN  [k EXCEPT !.delta = IF rng > 0 THEN (vol * (2 * (k.c - k.l) - rng)) \div rng
                            ELSE IF k.c >= k.o THEN vol ELSE -vol]
download_and_store ==
    \E from \in {0, Clock - Minute} :
        /\ Runs(from)
        /\ \E klines \in {fetch_bybit_klines(from)} :
              bars' = bars \o Stored(bars, [k \in DOMAIN klines |->
                                               _build_synthetic_bar(klines[k])]).out
        /\ UNCHANGED pending

\* The pages of a stretch of time, both ends in it: a page begins a millisecond after the
\* last trade of the page before.
fetch_agg_trades(from, to) ==
    FoldLeft(LAMBDA acc, x :
                IF x.t < acc.cursor \/ x.t > to THEN acc
                ELSE [out |-> Append(acc.out, x), got |-> (acc.got + 1) % PageSize,
                      cursor |-> IF acc.got + 1 = PageSize THEN x.t + 1 ELSE acc.cursor],
             [out |-> <<>>, got |-> 0, cursor |-> from], Happened).out
\* The past trades, a day at a time from `from`, through the builder; its last bar flushed.
Replayed(trades) ==
    LET run == FoldLeft(LAMBDA acc, x :
                           LET step == on_tick(acc.bar, x, "binance_agg_backfill")
                           IN  [bar |-> step.bar, out |-> acc.out \o step.out],
                        [bar |-> NoBar, out |-> <<>>], trades)
    IN  IF run.bar = NoBar THEN run.out ELSE Append(run.out, run.bar)
DayChunks(from) ==
    FlattenSeq([k \in 1..(((Clock - from) \div Daily) + 1) |->
        fetch_agg_trades(from + (k - 1) * Daily, Min({from + k * Daily, Clock}))])
backfill ==
    \E from \in {0, 1} :
        /\ Runs(from)
        /\ bars' = bars \o Stored(bars, Replayed(DayChunks(from))).out
        /\ UNCHANGED pending

-----------------------------------------------------------------------------
(* The scripts that rebuild bars from the dumps of past days *)

Today == Clock \div Daily
Dump(day) == SelectSeq(Happened, LAMBDA x : x.t \div Daily = day)
\* rebuild_footprint_binance.py: every day before today.
aggregate_to_bars(day) ==
    [ts \in {_bar_close_ts(x.t) : x \in {Dump(day)[k] : k \in DOMAIN Dump(day)}} |->
        BarOf(MinuteTrades(Dump(day), ts), ts, "binance_futures_rebuilt")]
\* rebuild_footprint_history.py: a trade on the minute closes it.
aggregate_day(day) ==
    [ts \in {CeilTs(x.t) : x \in {Dump(day)[k] : k \in DOMAIN Dump(day)}} |->
        BarOf(SelectSeq(Dump(day), LAMBDA x : CeilTs(x.t) = ts), ts, "bybit_tick_rebuilt")]

\* Of two days with the same minute the older is read last.
Merged(barsOf) ==
    [ts \in UNION {DOMAIN barsOf[d] : d \in DOMAIN barsOf} |->
        barsOf[Min({d \in DOMAIN barsOf : ts \in DOMAIN barsOf[d]})][ts]]
\* Every row of a rebuilt minute is replaced, whatever made it, the missing ones are added.
patch_jsonl(rows, rebuilt) ==
    LET kept == [k \in DOMAIN rows |-> IF rows[k].ts \in DOMAIN rebuilt
                                       THEN rebuilt[rows[k].ts] ELSE rows[k]]
        missing == InTime(DOMAIN rebuilt \ Times(rows))
    IN  SortSeq(kept \o [k \in DOMAIN missing |-> rebuilt[missing[k]]],
                LAMBDA a, b : a.ts < b.ts)

Calm == [on |-> FALSE, read |-> <<>>, out |-> <<>>, dumped |-> {}]
\* The script reads the file, then writes the new one over it.
Reads(rebuilt) ==
    /\ DOMAIN rebuilt # {}
    /\ pending' = [on |-> TRUE, read |-> bars, out |-> patch_jsonl(bars, rebuilt),
                   dumped |-> DOMAIN rebuilt]
    /\ UNCHANGED bars
RebuildBinance ==
    /\ Runs(0)
    /\ \E days \in SUBSET (0..(Today - 1)) : Reads(Merged([d \in days |-> aggregate_to_bars(d)]))
\* Skips today and yesterday.
RebuildBybit ==
    /\ Runs(0)
    /\ \E days \in SUBSET (0..(Today - 2)) : Reads(Merged([d \in days |-> aggregate_day(d)]))
Writes ==
    /\ pending.on
    /\ bars' = pending.out /\ pending' = Calm
    /\ UNCHANGED <<feed, seen, server, ran>>

-----------------------------------------------------------------------------
(* agg_1m_to_15m.py *)

bucket_ts(ts) == ((ts + Quarter - 1) \div Quarter) * Quarter
aggregate(rows, bts) ==
    LET group == SelectSeq(SortSeq(rows, LAMBDA a, b : a.ts < b.ts),
                           LAMBDA r : bucket_ts(r.ts) = bts)
    IN  [ts |-> bts, o |-> group[1].o,
         h |-> Max({group[k].h : k \in DOMAIN group}),
         l |-> Min({group[k].l : k \in DOMAIN group}),
         c |-> group[Len(group)].c,
         delta |-> FoldLeft(LAMBDA sum, r : sum + r.delta, 0, group), src |-> "agg_1m"]

-----------------------------------------------------------------------------
HistoryInit ==
    /\ feed \in Feeds /\ seen = 0 /\ bars = <<>>
    /\ server = Down /\ pending = Calm
    /\ ran = [scripts |-> 0, starts |-> 0, beside |-> FALSE, from |-> 0]
HistoryNext ==
    \/ Start \/ Stop \/ Trade
    \/ download_and_store \/ backfill \/ RebuildBinance \/ RebuildBybit \/ Writes
HistorySpec == HistoryInit /\ [][HistoryNext]_historyVars

-----------------------------------------------------------------------------
(* What they promise *)

TradesOf(ts) == MinuteTrades(Happened, ts)
NetOf(trades) == FoldLeft(LAMBDA sum, x : IF x.buy THEN sum + x.size ELSE sum - x.size, 0, trades)
Rebuilt(bar) == bar.src \in {"binance_futures_rebuilt", "bybit_tick_rebuilt"}
Whole(bar) == bar.delta = NetOf(TradesOf(bar.ts))

\* As long as no script ran beside the server, a minute has one bar.
OneBarAMinute == ~ran.beside => Len(bars) = Cardinality(Times(bars))

\* The live server stores a bar with every trade of its minute, unless it started in it.
LiveBarsWhole ==
    bars' # bars /\ server.up /\ server'.up /\ seen' # seen =>
        \E bar \in {bars'[Len(bars')]} :
            bar.ts > _bar_close_ts(server.since) => bar.delta = NetOf(TradesOf(bar.ts))

\* A bar rebuilt from the dumps is the bar of all the trades of its minute, to the tick; one
\* from Bybit's dumps where no trade fell on the minute.
RebuiltWhole ==
    \A k \in DOMAIN bars :
        (\/ bars[k].src = "binance_futures_rebuilt"
         \/ /\ bars[k].src = "bybit_tick_rebuilt"
            /\ \A x \in {feed[n] : n \in 1..seen} : x.t % Minute # 0) =>
               bars[k] = BarOf(TradesOf(bars[k].ts), bars[k].ts, bars[k].src)

\* A backfilled bar has the trades of its minute if the minute was over and began after the
\* fetch's beginning, no two of them had one time, and none fell where two chunks meet.
BackfilledWhole ==
    bars' # bars /\ seen' = seen /\ ~pending.on =>
        \A k \in (Len(bars) + 1)..Len(bars') :
            (/\ bars'[k].src = "binance_agg_backfill"
             /\ bars'[k].ts \in (_bar_close_ts(ran'.from - 1) + 1)..Clock
             /\ \A n \in 2..seen : _bar_close_ts(feed[n].t) = bars'[k].ts =>
                   (feed[n].t - ran'.from) % Daily # 0 /\ feed[n].t # feed[n - 1].t)
               => Whole(bars'[k])

\* A rewrite replaces every minute of its dumps, keeps the rows of the others unless the
\* server wrote while it ran, and leaves the file in time order.
RestStands ==
    pending.on /\ ~pending'.on =>
        /\ \A k \in 2..Len(bars') : bars'[k - 1].ts <= bars'[k].ts
        /\ pending.dumped \subseteq Times(bars')
        /\ \A k \in DOMAIN bars' : bars'[k].ts \in pending.dumped => Rebuilt(bars'[k])
        /\ bars = pending.read =>
              \A bar \in {bars[k] : k \in DOMAIN bars} :
                  bar.ts \notin pending.dumped => bar \in {bars'[k] : k \in DOMAIN bars'}

\* 15m bars made of whole minutes are the bars of the trades of the quarter.
QuartersWhole ==
    \A bts \in {bucket_ts(ts) : ts \in Times(bars)} :
        LET trades == SelectSeq(Happened, LAMBDA x : x.t \div Quarter + 1 = bts \div Quarter)
        IN  (/\ Len(bars) = Cardinality(Times(bars))
             /\ \A k \in DOMAIN trades : _bar_close_ts(trades[k].t) \in Times(bars)
             /\ \A k \in DOMAIN bars : bars[k].src = "binance_futures_rebuilt") =>
                aggregate(bars, bts) = BarOf(trades, bts, "agg_1m")
=============================================================================
