# A verification development for the footprint trading bot

The repository is a single-process trading bot ("FootprintBiot"): a threaded Flask
server receives finished bars, aggregates and stores them, manages open grid
positions on every bar and, on the decision timeframe, opens new ones through a
paper simulator or a live broker adapter.  Feeds (`bybit/`, `binance/`,
`exness/`, `dhan/`) and an options monitor run as separate processes and talk
to the server over HTTP or over shared files.

This directory holds TLA+ models of the parts of that system whose correctness
depends on order, on concurrency or on failures, the TLC configurations that
check them, and proofs about them.

## 1. Inventory

| Component (source) | State it keeps | Operations | Interacts with | Hard behaviours | What makes it correct |
|---|---|---|---|---|---|
| Position store (`execution/position_store.py`) | one JSONL event log; positions and daily R in memory; one lock per object | open, add leg, close, invalidate, adjust SL/TP, scale out, replay | everything below; one instance per strategy plus the server's, one per options-monitor process on the same file | crash between append and apply, torn append, several objects on one file | a close is final and booked once; a restart rebuilds what was running |
| Pending orders (`execution/pending_orders.py`) | one global file of orders, rewritten atomically | add, mark filled, cancel, cancel for position | paper executor adds, every fill pass of every scope reads | list read without lock and used after; shared by all strategies | an order fills once, as one leg of its own position |
| Cycle store (`execution/cycle_store.py`) | JSONL log of cycles, status machine | open, hedge, recover, record leg, close, circuit break | paper executor, exit mirror of /ingest, hedge manager | status changes without a guard | a closed cycle stays closed, one live cycle per open position |
| Paper executor (`execution/paper.py`) | none of its own | fire, submit_grid | position, pending and cycle stores, in that order, unlocked between | check-then-act guard, partial completion | one same-side grid at a time, all of a grid or none |
| Cycle manager (`execution/cycle_manager.py`) | VA-break and trend-escape trackers in memory | on_bar_close: fills, then twelve exit checks | position/pending stores of the current scope, Claude for hedges | same bar processed by several callers, state lost at restart, stops reset by fills | every exit closes and cancels, stops only tighten |
| Ingest handler (`server/routes/ingest.py`) | per-bar-id locks | store bar, aggregate, check positions, reconcile, SL manager, cycle tick, strategy tick | all stores | concurrent /ingest, retried posts, position snapshots used after other threads acted | a bar is processed once; an exit closes position, orders and cycle |
| State store (`pipeline/state_store.py`) and aggregator (`pipeline/mtf_aggregator.py`) | per symbol/tf sorted bars, JSONL | put (dedup), latest, recent; maybe_emit | ingest, every feature | late, duplicated, missing bars | a higher-timeframe bar equals the bars of its bucket |
| SL manager (`execution/sl_manager.py`) | none | break-even at +1R, trail at +2R | position store | runs for every timeframe's bar | stops only tighten |
| Router (`execution/router.py`), decide/decide_multi/grid_tick routes | last-tick memory per route | dispatch, dispatch_grid, kill switch, same-direction guard | LLM client, executors, stores | slow decision between check and act | no entry past the daily loss limit, no duplicate direction |
| Live adapter (`execution/live/mt5_adapter.py`), reconcile (`execution/reconcile.py`) | broker connection | submit order/grid, modify, close, list positions, reconcile | the broker | timeouts with late effects, broker-side closes, failed queries | store and broker agree after reconcile |
| Dhan adapter (`execution/live/dhan_adapter.py`) | none | order submit/close | broker | broker errors | order result reflects the broker's |
| Grid planning (`execution/grid_*.py`, `zone_*`, `tp_resolver`, ...) | none | pure computations of legs, zones, targets | router, strategies | boundary cases | legs ordered, targets on the profit side |
| Hedge manager (`execution/hedge_manager.py`) | hedge log | open, remove, convert, circuit breaker | cycle store, live adapter | two stores updated in turn | hedge active iff its cycle is hedged |
| Strategy manager (`strategies/`) | per-strategy stores | tick: manage then enter | cycle manager, paper executor | isolation through context variables | one cycle per strategy and symbol; strategies do not affect each other |
| Feeds (`bybit/`, `binance/`, `exness/`, `dhan/`) | footprint under construction | on tick, rotate, flush, post | exchange, /ingest | late ticks, failed posts, reconnects | every tick in exactly one bar |
| Options monitor (`options/monitor.py`, `options/position_sidecar.py`) | its own position store, sidecar JSON | check SL/TP/time exit, close | broker, shared positions file | second process, stale replay, failed sell | the position is sold and booked once |
| Features (`pipeline/features/`) | sweep registry, log of large prints, anchors, CVD divergences, profile cache; the others none | detection over bars, registration, aging, classification | /ingest computes them, strategies and the rules engine read them | gaps, late bars, overlapping handlers on one file, restarts with or without the memory | an event is recorded once and judged by its next bars; a reading favours no side |
| Rules engine and entry gates (`rules/`, `execution/router.py`, `execution/decision_validator.py`, `scripts/rules/`) | none | votes, their fusion, vetoes of an entry | features, dispatch | masked or missing readings | opposition never strengthens a vote, the order of voters decides nothing |
| Rules tick (`server/routes/grid_tick.py`) | last bar processed, bars that triggered | tick by the loop, tick by the event of /ingest, dry run | ingest, paper loop | three callers of one mark, unlocked check | one grid a bar |
| Strategies (`strategies/`) | seen and acted structures, a pending limit | decide, one pending limit at a time; the composed engine does the same from parts | strategy manager, paper executor | gaps, restarts, a new swing re-arms a level | a structure is attempted once; a composed strategy does what its class did |
| Back-tests and audits (`scripts/*_study.py`, `bar_verify_outcomes.py`, `mae_mfe_backfill.py`, backfill and rebuild scripts) | files they rewrite beside the server | replay, judge, patch, fetch, rebuild | the logs and bars of the server | look-ahead, order of prices within a bar, a program killed in a rewrite | no trade uses bars to come; a rewrite keeps every event |
| LLM client, prompts, dashboard UI, MQL5 adviser | - | - | - | outside the trading core | - |

A few rows above are inactive in this commit: nothing calls `open_hedge`, and
`/options/decide` calls a method `StateStore` does not have, so neither a hedge
nor an options position ever comes into being.  `PROJECT.json` lists every
component with what is modelled of it and why the rest is not.

## 2. The modules

| Module | Models | Checked by | Proved in |
|---|---|---|---|
| `PositionLedger` | what the position store promises: each result is booked once, on its day | refined by `PositionStore` | `PositionStoreProofs` |
| `PositionStore` | `execution/position_store.py`: events, replay, crashes, torn lines, several objects | `store_torn`, `records` | `PositionStoreProofs` |
| `OutcomeAudit` | `scripts/bar_verify_outcomes.py`, `mae_mfe_backfill.py`, `phantom_check.py`: closed trades judged by the bars, files patched and rewritten | `records` | - |
| `History` | `scripts/fetch_history.py`, `backfill_binance.py`, the rebuild scripts, `agg_1m_to_15m.py`: bars added and rebuilt beside the server | `records` | - |
| `GridLifecycle` | paper grids in three stores, by concurrent handlers and strategies | `grid_overlap`, `grid_isolation` | `GridLifecycleProofs` |
| `GridStores` | beside it, a history of the steps that leave the three stores at odds about a position | `grid_overlap`, `grid_isolation` | `GridLifecycleProofs` |
| `LiveBroker` | live entries, the broker, reconcile | `live_faults` | `LiveBrokerProofs` |
| `CycleTick` | one position through one bar: every exit, stop and target movement, fill | `bar_handlers`, `cycle_hard_stop` | `BarHandlersProofs` |
| `BarFlow` | trades to stored and synthesized bars, feed and server | `bar_flow` | `BarFlowProofs` |
| `Decide` | the decision routes, the kill switch, hedge evaluation | `decide_routes`, `decide_cooldown`, `decide_kill_switch` | `DecideProofs` |
| `RulesTick` | `/grid_tick`, its three callers, and the trigger of `/ingest` | `bar_handlers` | `BarHandlersProofs` |
| `VpCache` | `pipeline/features/vp_cache.py`, `vp_history.py`: profiles by session, their file, the snapshots of a day and a week that is over | `bar_handlers` | `BarHandlersProofs` |
| `SweepRegistry` | `sweep.py`: detection, registry, aging and verdict, the backfill of the log | `bar_handlers` | `BarHandlersProofs` |
| `BigTrades` | `big_trade.py`: the log of large prints, outcomes by later bars, overlapping handlers, crashes inside a rewrite | `bar_handlers` | `BarHandlersProofs` |
| `BarMemory` | `anchor_bar.py`, `cvd_div_state.py`: what the features remember between bars | `bar_handlers` | `BarHandlersProofs` |
| `LimitEntry` | the limit strategies (change of character, wave, climax, vote) with levels by Fib and by volume profile, and `StrategyManager._run_one` | `bar_handlers`; refined by `Composed` | `BarHandlersProofs`, `ReadingsProofs` |
| `FadeEntry` | `reversal_eqhl.py`, `reversal_hvn.py`, `reversal_anchor.py` | `bar_handlers` | `BarHandlersProofs` |
| `Composed` | `strategies/composed/`: the engine that wires a strategy from parts | `readings` | `ReadingsProofs` |
| `Direction` | `direction_engine.py`: the votes and their fusion | `readings` | `ReadingsProofs` |
| `EntryGates` | the gates of the router, `day_type.py`, `decision_validator.py`, `auction.py`, `confluence.py` | `readings` | `ReadingsProofs` |
| `GridPlan` | `zone_triggers.py`, `grid_planner.py`, `grid_manager.py` | `readings` | `ReadingsProofs` |
| `EntryPlan` | `zone_collector.py`, `grid_placer.py`, `tp_resolver.py`, the strategies' plan hooks, `venue_translator.py` and both `submit_grid` | `readings` | - |
| `ClimaxFlip` | `reversal_pattern.py` with the coup and reversal strategies | `readings` | `ReadingsProofs` |
| `Profile` | `volume_profile.py`, the value area of a bar, `vp_setup.py` | `readings` | - |
| `Footprint` | imbalance, stacked imbalance, unfinished auction, absorption, delta divergence | `readings` | - |
| `SeriesReading` | `cvd_candlestick.py`, `fvg.py`, the divergence gate of the strategy manager: the cumulative delta as candles, its patterns and divergences, open gaps | `readings` | `ReadingsProofs` |
| `Confirmation` | `confirmation.py`: absorption, exhaustion and continuation of an entry | `readings` | - |
| `Structure`, `WaveReading` | swings and changes of character (`choch.py`), the count of waves (`wave.py`) | `bar_handlers`, `readings` | `BarHandlersProofs` |
| `WalkForward` | the replays of the strategies over recorded bars (`scripts/*_study.py`, `grid_sim`, `entry_ab`, ...) | `readings` | - |

`FiniteInduction` holds what the proofs share: induction over finite sets, the
laws of sums over them, extremes of sets of numbers; `*Proofs` hold the theorems.

### Composition

`Composed` implements `LimitEntry` by `INSTANCE ... WITH` a refinement mapping,
`PositionStore` implements `PositionLedger` likewise.  `LiveBroker` and
`GridLifecycle` share the shape of `_check_positions`, over the live and the
paper store.  Elsewhere a module abstracts what its neighbours decide into a free
choice and names it: `GridLifecycle` lets a bar trigger any exit that
`CycleTick` computes, `CycleTick` takes any plan of the shape `EntryPlan`
builds, `Decide` lets exits book any R and gates refuse anything that
`EntryGates` decides, `RulesTick` lets the rules decide anything.

`MCRecords`, `MCBarHandlers` and `MCReadings` put modules that share no state
beside each other: `part` says which one a behaviour moves, the others rest.
They are there so that one run asks one question of a family of parts; they add
no interleavings.  The other `MC*` modules only give values to constants.

### How state and actions correspond to the code

* **PositionStore.**  `mem[s]` is `_positions` with `_daily_r_by_date` of one
  object; `disk` is what a replay of the file would yield, so an append extends
  it by one event.  Each public method is an action: it runs under the object's
  lock, checks the status *in memory* where the code does, appends (`Write`:
  whole or torn) and applies.  A torn line also swallows the next one (`glued`).
  `Crash` and `Load` lose and rebuild an object; `Midnight` advances the IST day.
* **GridLifecycle.**  Each handler is a thread with a program counter that moves
  at each access to a store, since no lock spans two of them.  `Submit*` is
  `submit_grid`, `ListPositions`-`EndCheck` is `_check_positions`,
  `ListOrders`-`EndFills` the fill pass, `ManageExit` any exit of the cycle
  manager, `EnterStrategy` the strategy manager's gate.  Scope 0 is the server's
  store, the others the strategies'; the pending store has no scope.  `Fresh`
  gives each grid the next id up to `MaxPos`.  `GridStores` only adds the history
  variable `disturbed`: the positions of which an exit overtook the placing, a fill
  pass used a list that was outdated or of another scope, or a restart cut a write.
* **LiveBroker.**  `Send` puts an order on the wire, `Answer` and `Timeout` race
  with `Arrive`; the broker fills, refuses or closes when it likes.  The guards
  before an entry (`FireGuard`, `GridGuard`) let a second position of the symbol
  through where the code does: a decision with `add_to_existing` passes both
  (`router.py:34,307`), and a grid is refused only by a position of its own side; since
  neither the flag nor the sides are kept, both are free choices, and records of
  several positions coexist.  `ListTracked`,
  `Query`/`QueryFails`, `Match`, `CloseAbsent`, `MirrorAbsent` are `reconcile()`.
* **CycleTick.**  Prices are measured in the direction of the trade, which makes
  the long and short branches one formula.  `stage` is the place in the handler;
  the order of the stages is the order of the calls in `ingest()` and
  `on_bar_close()`.
* **BarFlow.**  A bar is the sequence of trades in it, a synthesized bar the set
  of bars merged into it.  `InsertBar` and `WriteBar` are the two halves of
  `StateStore.put`: both under its lock, but readers do not take it.
* **Decide.**  A request is `asking` while the model is called; `gate`, `guard`
  and `open` are `dispatch`, the guard of `submit_grid` and `open_position`.
  `asked` says that `_last_bar_ids` holds the latest bar.
* **RulesTick, VpCache, BigTrades, SweepRegistry, BarMemory.**  The memory of the
  feature with the bars that reach it.  Where the code reads, computes and writes
  without a lock (the trigger of /ingest, the rewrite of `big_trades.jsonl`, the
  build of a profile), the two halves are actions of their own; so are the two of
  `write_text`, which empties a file and then writes it.  A crash in between leaves
  the profile file torn, and of `big_trades.jsonl` any beginning, the last line of it
  whole or cut; that a reader sees half of a write without a crash is left out.
  `vpFresh` is the second in which a bar closed: a build counts only bars that closed
  before its own second (`vp_cache.py:170,287`).
* **LimitEntry, FadeEntry, Composed.**  One action per bar the strategy sees; the
  features it reads are computed from the bars (`Structure`) or drawn from
  scenes.  A gap is a bar it never sees, a restart loses what it remembers.  The level
  of a leg's volume profile (`entry_mode: vp` of the waves, `tp_mode: vp` of the change
  of character) is an operator of the instance, `LegLevel` and `TargetLevel`: any level,
  or none, after which the code falls back to the Fib one; the instance takes a level on
  some legs and none on others.  `Composed` compares with a class whose `TargetLevel` is
  none, since `_choch_fib` has no `tp_mode`.
* **EntryPlan.**  One action per stage: zones are merged, legs placed, hooks of
  the strategy applied, prices moved to the venue, legs filled.
* **Direction, EntryGates, GridPlan, ClimaxFlip, Profile, Footprint,
  WaveReading, WalkForward.**  Pure code, as operators.  The state is the input
  it is called with: each step takes another one, so that the properties are
  invariants over all inputs of the instance.
* **OutcomeAudit, History.**  Each program is a run of steps over the files; it
  may be killed between any two of them and started again.

## 3. What the runs show

Passing runs, each over the complete state space of its instance:

| Run | Question | Bounds, and why they are enough |
|---|---|---|
| `store_torn` | Does a crash at any append lose more than the last event? No: a restart forgets, never invents; a close is final; daily and position R balance | one object (two book twice, section 6), two positions, one leg, three days so that a close, a crash and its repetition can fall on different days |
| `records` | With whole appends, does a restart rebuild exactly the running state, and is the store a ledger? Do the programs that judge, patch, fetch and rebuild the records keep what was there? Yes, as far as the named properties say | two legs, so that a scale-out keeps one, and two days; two trades, one of each side, in two files; two feeds of trades, on and off the minute boundaries |
| `grid_overlap` | What survives overlapping handlers, a strategy and restarts? Closed positions are frozen, no cycle closes before its position, only its scope writes it, a strategy has no more positions than `/ingest` has handlers, and the three stores agree about every position that was not disturbed in one of three named ways | two handlers, each of which serves `/ingest` and `/decide`, since every race here is between two; two positions, so that an overlap and its bound show; two legs, for the first position only (`FirstLegs`), since the second is there to be raced for; one strategy beside the server's own scope |
| `live_faults` | Late answers, refusals, failed queries, restarts: records are fills, the first close stands, reconcile closes held positions only after a failed query, a close at the broker is noticed | one entry thread and two bar handlers (two reconciles race), two orders, one restart |
| `bar_flow` | Are trades counted once, decisions made on durable data, bars managed once? | two days of five and seven trades over five minutes, one of them with gaps, so that a synthesized bar has one part or two and is merged early or late; pages that overlap, two requests at once (the timed-out one and the next), one restart of each side |
| `decide_routes` | What do overlapping requests get past the cooldown and the kill switch? At most one decision each; nobody | two requests, cooldown 3 as configured, a log window of 4 (the longest run the property allows is 3), floor 1 R |
| `bar_handlers` | What does one bar set off? Stops, targets, fills and exits of a position fit together; sweeps, prints, anchors and divergences are recorded once and judged by their bars; a setup is traded once; the rules open one grid a bar; profiles keep to their session, and what is settled stands | prices in steps that all averages hit exactly, plans with up to two further legs, `Near` = 50 % (0.95 in the code) and `EscapeBars` = 2 (3 in the code) so that each happens within the few prices; three bars for the sweeps, three past bars for the anchors, ten for the limit strategies, so that a structure is made, broken, re-armed and expires; two handlers for the prints and the ticks, since the races are between two; two symbols with different anchors for the profiles |
| `readings` | Does the code read and plan what it means to? Votes are weighed, value areas are tight, nothing prefers a side, targets clear the legs and stops protect them, orders can rest at the venue, replays are causal and book the worst case, the composed engine is the class it replaces, a settled divergence stands, an entry is confirmed by several conditions | one reading per voter, each way, weak and strong; markets of a few price cells with each shape of profile; bars of the few shapes that reach every branch; series of seven bars in one session and across two, from disk and from the feed; bars of three prices and of twelve, since a tenth of a range is a rung of its own only above ten; the constants that matter for a boundary as configured |

The properties of the last two and of `records` are conjunctions of named parts
(`SweepsOnce == OneEventPerLevel /\ ...`); each part is stated and explained in
its module, and each was seen to be violated by a mutation of the code it is
about.  `GridOverlap`, `GridIsolation` and `DecideRoutes` use symmetry:
`GridLifecycle` is symmetric in its sides, and in its handlers where each serves both
routes (`grid_overlap`), and `Decide` in its sides and requests,
no definition tells two of them apart, and no liveness property is checked under
symmetry.  `Readings` uses a view that drops what no later step reads.

Four runs are expected to be violated; each quotes a promise of the repository
that the code does not keep:

| Run | The promise | What happens |
|---|---|---|
| `grid_isolation` | strategies run "fully isolated" (`strategies/manager.py:3`) | the pending store is shared: the server's own fill pass marks a strategy's order filled, `add_leg` is a no-op in the server's store, and the leg is lost |
| `cycle_hard_stop` | a stop that locks profit books a positive R (`ingest.py:191-193`) | the hard stop books the absolute distance as a loss, also after the stop was trailed past the entry |
| `decide_cooldown` | "wait for reversal or flat" (`decide.py:93`) | the cooldown looks at logged decisions and logs none while it blocks: it never ends |
| `decide_kill_switch` | "Halts ALL new entries" (`router.py:261`) | `/decide` in grid mode and the hedge evaluation call `dispatch_grid` directly |

Every property of a passing run has a mutant: a plausible bug in a mapped
definition, written before it in the same module, under which the run fails.

### Fairness

* `LiveBroker`: weak fairness of each `/ingest` handler.  The feed posts a bar
  every minute, and each call to the broker returns or times out, so a handler
  runs to its end.  Nothing is assumed of the broker or of the entries.  Only
  `BrokerCloseIsNoticed` uses it.
* `Decide` (`FairSpec`, only in `decide_cooldown`): weak fairness of asking and
  serving, since `scripts/start.sh` posts in a loop and the model call has a
  timeout; strong fairness of every answer, the most favourable model for the
  promise that is refuted.

Deadlock is checked in the runs of the handlers, the broker, the feed, the routes
and of the store alone: none of these systems stops.  `records`, `bar_handlers`
and `readings` say `CHECK_DEADLOCK FALSE`, because a part ends when its bars, its
programs or its orders are at their end.

## 4. What is proved

The proofs hold for every value of the constants that satisfies the named
assumptions (`ASSUME` in the modules, evaluated in the runs) and the hypotheses a
theorem names.  Most say of a run's property that it holds for any number of
handlers, positions, legs, bars, strategies and restarts.

| Theorem | Property | Hypotheses, and where they come from | Argument |
|---|---|---|---|
| `PositionStoreProofs!TypeCorrect` | `TypeOK` | - | lemmas on each event (`OpenEffect`, `QuietEffect`, `CloseEffect`, `ScaleEffect`) say what it does to file and memory; `TypeInv` adds that they agree when nothing is torn |
| `RestartRebuilds` | `MemoryIsReplay` | one object on the file; whole appends | from `TypeInv` |
| `RestartIsSafe`, `SettledForGood`, `NothingBookedTwice` | `RestartInventsNothing`, `ClosedIsFinal`, `BookedOnce` | one object (needed: section 6) | `OneWriterInv`: the file never gets ahead of the memory |
| `StoreKeepsLedger` | `ImplementsLedger` | one object | `BlankInv`; each step of the store is a step of `PositionLedger` or leaves its three variables alone |
| `BooksStayBalanced` | `BooksBalance` | one object, no scaling out (`settings.yaml:23-24`), finite ids and days | sums over finite sets by induction; `UnsettledInv`: what is not settled has booked nothing |
| `GridLifecycleProofs!TypeCorrect` | - | - | what a handler carries from its lists (`TaskOf`) stays true because positions only move on (`Onward`) |
| `NoCycleClosesFirst`, `ClosedStaysFrozen`, `WritesStayInScope` | `CycleClosesLast`, `ClosedIsFrozen`, `ScopedWrites` | - | `IInv` with `Onward` |
| `OpensBoundedByHandlers` | `OneCyclePerHandler` | `Ingest` is finite | `DecideInv`: only `/ingest` handlers enter for a strategy; `CountInv`: its open positions and the handlers past its gate are together no more than the handlers, because passing the gate takes that there is no open position |
| `DisturbancesAreAll` | `StoresAgree` | - (any number of handlers and strategies, and restarts) | `HandsInv` says who holds what (one handler places a grid, an order that was read exists, exits are mirrored by the check that made them); `Agreed`: what the stores disagree about is in some handler's hands, or the position is in `disturbed` |
| `LiveBrokerProofs!TypeCorrect`, `NoRecordWithoutFill`, `FirstCloseIsKept`, `HeldIsClosedAfterFailure` | `RecordsAreFills`, `FirstCloseStands`, `AbsentMeansClosed` | - | `ReconcileInv`: the broker takes no fill back, so what a handler read stays true of the orders it found filled |
| `BarFlowProofs!DecisionsDurable`, `NeverManagedTwice`, `FirstVersionStands` | `DecisionsAreDurable`, `ManagedOnce`, `FirstBarStands` | - | `LockInv`: a bar in memory and not on disk belongs to the holder of the lock; `Emit` reads without it, and what it read is on disk when its result is inserted |
| `NoTradeTwice` | `TradesCountOnce` | the feed remembers at least a page of trades (as in the pollers) | `SeenInv`: a trade it has forgotten is on no later page |
| `DecideProofs!TypeCorrect`, `KillSwitchHolds` | `TypeOK`, `HaltAdmitsNobody` | - | `SideInv`: a request past the model call has a side |
| `RunsStayShort` | `RunsAreShort` | a cooldown of two or more (`settings.yaml:144,159`) | `RunInv`: a run is no longer than the cooldown and the requests that passed the check during it |
| `BarHandlersProofs!OneTick` | `OneTickPerBar` | - | the handlers past the check on a marked bar and its fires are together no more than the handlers |
| `ProfilesStayInSession` | `ProfilesOfTheirSession` | - | `SessionsInv`, with the arithmetic of session starts; `RowsInv`: a row was made by a bar that is stored, so one on time is later than all before it |
| `PositionsSound` | `PositionSound` | - | the average entry never gets above the plan's entry, so the target stays ahead of it |
| `SweepsAreOnce` | `SweepsOnce` | a synthetic bar has at least one primary bar | `AgeInv`: an event that only its primary ticks touched is as old as the bars behind the live route; `CloseInv`: a close beyond its level at the end of those bars is on its count; `LogInv`: what the log holds of the backfill's frame is known to it or was added beside it in this life |
| `SetupsEnteredOnce` | `OneEntryPerSetup` | a swing looks at one or two bars to each side (`swing_n = 2` in every caller), a life and a lookback of at least one bar, fades that risk and pay something (`FadeAssumption`) | `LimitInv`: a strategy has seen every structure up to some bar, and no later bar shows one before it (below); `FadeInv`: a fade made on the newest bar is remembered by its cluster or its bar |
| `WhatIsSettledStands` | `SettledStands` | - | `PartsInv`, the invariants of all parts together; each part's steps undo no verdict, divergence, plan or session; `BuildInv`: while builds are apart the file is whole and the build under way carries what it says of past sessions |
| `ThePastIsRecorded` | `PastIsRecorded` | - | `TradeInv`: each text, the file at rest and the lines a handler holds to write back, has every print and every judged line that is not `exposed`; a judged line was judged by the `OutcomeBars` bars after its own (`Earned`); `MemInv`: the registry is the `MaxAnchors` latest anchors that are not stale, by rank among the bars that were anchors |
| `BarsTypeCorrect` | `BarTypeOK` | `EscapeBars` is at least two (3 in the code); at most so many periods back as there are days and weeks in `VpHorizon` | the types of each part, from the same invariants |
| `ReadingsProofs!ComposedIsClass` | `ComposedIsLegacy` | - | step by step, trigger by trigger; `WireInv`: the congress keeps no mark, so the engine's mark lies before every resting limit |
| `VotesAreWeighed` | `VotesWeighed` | readings whose confidences are not negative (`DirectionAssumption`); bars whose low is not above their high, with volumes that are not negative, and a dwell of at least one bar (`GatesAssumption`) | the decision is the sign of a sum over the voters: each vote pulls one way only, so leaving out one that is against the sum keeps its sign and does not shrink it; range points only lower the margin of a trend; of two orders of the zones the fold keeps a signal of the same confidence, the largest of any zone |
| `PlansAreSound` | `PlansSound` | markets with whole numbers, finitely many levels and an ATR that is not negative (`PlanAssumption`); climax bars that are bars of trades: their cells and stacks lie within them, a stack has two edges, the tick buffer is positive (`ClimaxAssumption`; the feeds build bars and ladders from the same bucketed prices, `bybit/footprint_builder.py:112-130`) | whatever the detectors find is well formed and one of it is picked; there are two legs at least, and the outer one lies `k` steps off the fulcrum, its target beyond it; a ladder of `n + 1` legs that counts down carries the lots of one of `n` that counts up, and `n + 1` more, by induction on the legs; a stop `buf` beyond the climax or its stack is behind any entry between them |
| `GapsStayBehind` | a conjunct of `ReadingsSound` | bars whose close lies within their wicks | the last bar did not fill the gap, or is the one that left it |

The hardest step is that of `SetupsEnteredOnce`.  A change of character is found
again on every bar, from all swings so far, and the strategy remembers only the
last one it acted on.  That it never acts on one twice needs that the list of
swings only grows (`SwingsGrow`: whether a bar is a swing depends on `SwingN`
bars to each side, and a new bar completes one), so that the first break of the
last swing, at a bar already seen, is never replaced by an earlier one
(`ChochStays`).  For `SwingN` of three and more that is false: a swing that is
confirmed late may have been broken before its confirmation.  All callers use 2.

Assumptions the proofs of `BarHandlersProofs` made explicit are in the modules of
the parts (`LimitAssumption`, `FadeAssumption`, `SweepAssumption`,
`TradeAssumption`, `MemoryAssumption`, `TickAssumption`, `VpAssumption`); the
configured values satisfy them, and TLC evaluates them in `bar_handlers`.

Only model-checked:

* Liveness (`BrokerCloseIsNoticed` and the refuted `CooldownEnds`): the provers
  have no means for fairness.
* `RecordsSound`, `ReadingsSound` (but the conjunct above),
  `LongMirrorsShort`, `OrdersSound`, `BookingsSound`,
  `ReplaysCausal`.  Nearly all of them speak of what a fold, a `CHOOSE` of an
  extreme or a recursive function computes from a list or from bars.  What those
  compute for every input is induction over data, which the provers cannot do
  with an operator as a parameter; for one operator it can be done by hand, as
  for `FlattenSeq` in `BarHandlersProofs`, and has been where the system's state
  depends on it.
* The four properties that are violated.

## 5. Plan

Written: everything in section 2.  Open, most important first:

1. Theorems: the orders and bookings of the readings (`OrdersSound`, `BookingsSound`).
2. `CycleStore` with the hedge manager: the status machine of
   `execution/cycle_store.py` (close is guarded, hedge, recover and circuit_break
   are not), the registry of hedges and its two-step updates.
3. `Invalidation`: the VA-break and ChoCh machines of the cycle manager, which
   start the hedge evaluation.
4. `OptionsMonitor`: the second process on the position file with its sidecar,
   over `PositionStore` with two objects.
5. The features that are still free choices: trapped traders (not wired), Fibonacci
   and session levels.
6. The MQL5 adviser's grid machine.

## 6. What does not hold, and is not claimed

Found while modelling; where a hazard in `PROJECT.json` names the line, its note
says the same.  A name in parentheses is a property one would expect, and which
TLC finds violated in the module named; it is in no run.

### Stores and handlers

* Two `PositionStore` objects on one file (`options/monitor.py`,
  `/dashboard/reload_stores`) book a position twice: the status check of
  `close_position` reads one object's memory (`position_store.py:236`).
* Open, scale out, close: the close overwrites the R banked before
  (`position_store.py:150`); the daily R keeps both.
* A torn append has no newline: the next event is glued to it and lost at replay.
* `submit_grid` compares a plan with the oldest open position only
  (`paper.py:154`): with a grid on each side, more grids of the younger side pass.
* Two `/ingest` handlers may fill one order twice, and a restart between
  `add_leg` and `mark_filled` does (`cycle_manager.py:63-82`).
* Two ticks of one strategy that overlap both enter (`manager.py:114`); that there are no
  more open positions than handlers is what holds (`OneCyclePerHandler`).
* Exits of the cycle manager never close the cycle record; stop and absorption
  exits of `/ingest` leave the open orders of the position behind.
* The hedge grid is fired after a slow call although the position it hedges may
  have been closed meanwhile (`cycle_manager.py:826`).
* A live fill whose answer came too late, a live grid, and a bar exit of a live
  position leave a held position the entry guard does not see
  (`router.py:31`, `mt5_adapter.py:375`), and the next entry is stacked on it.
  A failure between two legs leaves resting legs no store knows
  (`mt5_adapter.py:146`).
* A failed position query looks like an account without positions, and
  reconcile closes what is still held (`mt5_adapter.py:218`).
* After break-even the risk is 0, and an exit books R of the order of 10^12
  (`cycle_manager.py:168`); a target absorption there raises `UnboundLocalError`
  (`ingest.py:241`).
* `put` of a synthesized bar may report a duplicate; the strategies are ticked
  on it again all the same.
* A bar stored before a crash and posted again is a duplicate: no stop or target
  is ever checked against it (`ingest.py:366`).  A torn bar line makes
  `StateStore._load` raise (`state_store.py:61`).
* The event-driven dry run of `/grid_tick` spends the bar of the paper A/B loop
  (`grid_tick.py:93`), so the loop finds it processed (`PaperSeesItsBar` of
  `RulesTick`; `start.sh:148-149,156`).
* `router.py:262` speaks of a manual reset of the kill switch; the daily R starts
  anew at midnight.
* Code that cannot run or has no caller: strong-zone booking (`ingest.py:264`, an
  undefined name), the POC trail and the target participation of the cycle
  manager (`_pos.tp` does not exist), `open_hedge`, `grid_modes.plan_grid`,
  `/options/decide` (`recent_bars`), `day_type.from_store` (`vp_cache.load`),
  `get_thresholds` and `session.in_active_hours` of the decision validator, the
  absorption-wall boost of `zone_triggers`.

### Features and their memories

* The sweep registry is shared by the timeframes of a symbol, so an event ages
  twice a bar and may be judged by another timeframe's bar
  (`EveryFollowUpIsNextBar` of `SweepRegistry`, `sweep.py:174-178`); registry and
  log may disagree on the class.
* `big_trades.jsonl` is read and rewritten without a lock: two handlers lose a
  print, and a crash inside the rewrite loses any number with a single handler
  (`NothingLost` of `BigTrades`, `big_trade.py:6,228`).  A line that was cut makes every
  later `classify_outcomes` raise, which the handler swallows: no print is ever judged
  again.
* `vp_cache` never recomputes a cached past day; overlapping builds or a torn
  write lose entries; with an anchor of 22 the week's key and its bounds differ
  (`ClosedSessionWhole`, `WeekBoundsItsMoments`, `SessionsAreKept` of `VpCache`).
  A bar posted within the second of its close is not in the build it triggers
  (`vp_cache.py:170,287`).
* `snapshot_if_boundary` returns a list and `ingest.py:404` asks it for a key: the handler
  raises, after the bar was stored and before its positions are checked.  It happens to
  the first bar after Thursday 00:00 UTC, on time as it may be, because the week whose end
  is noticed starts there (`vp_history.py:28`) and the week that is counted on Monday, and
  to bars that come late over midnight.  A re-post of that bar is a duplicate
  (`ingest.py:366`), so its stops and targets are never checked.  On other days the
  snapshot is dead for bars on time: the day that is counted has just begun.
* An anchor goes stale after 16 bars, 16 minutes on the 1m chart (the docstring
  says 4 h), and its averages are those of the last 10 bars where the docstring says
  the last 60 (`anchor_bar.py:11-12`, `ingest.py:432`); `reset_session` has no caller.
* `detect_choch` dates the same break again after each bar; with `swing_n` of 3 or
  more it may be dated backwards.  `OneAttempt` holds for the `swing_n` of 2 and
  of 1, and the same level broken again after a new swing re-arms.
* After small swings are merged the waves no longer alternate (`WavesAlternate` of
  `WaveReading`, `wave.py:183`).
* The live candle-engulf compares a bar with itself, and the live session
  extremes include the current bar.
* Imbalances are asymmetric below one lot (`ImbalanceMirrors` of `Footprint`);
  stacked runs are consecutive in the list, not in price.
* `_confirmation_vote` always prefers absorption over exhaustion, whichever is
  stronger (`StrongerPatternVotes` of `Direction`).
* In `vp_setup`, targets may lie behind the entry (`TargetsAhead` of `Profile`); in
  the first 30 bars of a session yesterday's point of control is no target, and
  one visited more than 500 bars ago counts as naked.
* A strong expansion down with a net CVD of at least 0 gives `trend_up`; the
  auction masks an acceptance by a surer failure elsewhere.
* A bar read from disk has lost the path of its delta (`state_store.py`), and a series
  that mixes it with bars of the feed measures from two zeros: a jump, and a breakout
  that is none (`CandlesCount` is claimed for series of one kind).  The path opens after
  a session's first trade, so that trade is not counted.  Over a change of session, a
  window that moves makes divergences the longer series lacks (`WindowAddsNoMark` is
  claimed within a session).
* `divergence_bear`, `divergence_bull` and `reclaim` are masked by surer patterns almost
  everywhere (`SurerMasks`), and a wick trap by the breakout of the side it traps.
* No open gap is ever a target of its own side (`GapsBehindPrice`), although `fvg.py:13`
  names the nearest bullish one above as the target of a long.
* The exhaustion takes a signal of the delta whatever its direction, counts the
  absorptions won against the entry (`confirmation.py:283-288`), takes a close on the
  point of control for a long, and
  can fire without any extension.  For the continuation a wick trap counts for shorts
  whatever its side; it has no caller.  The stack at an absorbed extreme can only show
  in a bar of more than ten prices.

### Entries and plans

* With a cached profile the regime gate of the router never refuses, without one
  the auction is silent (`AgainstTrendIsRefused`, `router.py:288`;
  `AcceptanceIsHeeded`, `decision_validator.py:159`, of `EntryGates`).
  `direction_engine.py:201,454` calls `classify` with the wrong arguments: it raises and is
  ignored once there are ten bars, and below ten damps a `P` or `b` profile to 0.85.
* `coup.py:233` may leave the stop of a limit entry on the wrong side of its fill
  (`LimitStopBehindFill` of `EntryPlan`).  Stops that `republic` tightens may
  leave pending legs beyond the stop.
* Legs that the broker's minimal distance pushes collapse into one; targets and
  stops are not checked against it (`venue_translator.py`); rounding can leave a
  pushed leg half a tick inside it.
* `merged[:top_n]` keeps the zones of the lowest price, not the strongest.
* The swing range of the planner prefers the side below, whatever lies nearer above
  (`ReachIsNearest`,
  `grid_planner.py:172`), its legs do not span the node (`LegsSpanNode`, `:215`),
  the favoured side has one leg more than `max_legs`, and a suggested leg may lie
  beyond the stop (`GridPlan`).
* A cluster of equal highs may be faded again after another one was
  (`ClusterFadedOnce` of `FadeEntry`, `reversal_eqhl.py:159-160`).
* A restart forgets what a strategy has seen and acted on; a limit can fill on a
  bar that closed beyond its stop.  The composed engine lacks the `si_trail_exit`
  of `settings_override`, and `_choch_fib` the `tp_mode: vp` of its class, although
  `engine.py:4-6` promises the same behaviour; with few bars the class returns
  before it resolves a pending limit, the engine resolves first.

### Records and replays

* The flush of the backfill and the running minute of the kline fetch store a
  partial minute, and the live bar that follows is refused as a duplicate.  A
  script beside a running server stores minutes twice, since each process has its
  own memory.  Aggregates written into `data/footprint` are loaded as a second 15m
  series.
* A rebuild takes `ceil` where the live builder takes `floor + 1`, so that a trade
  on the boundary may replace a whole bar; it replaces bars of any source although
  it says synthetic ones; `write_text` is not atomic; the cursor over trades loses
  those of the same millisecond; chunks of a backfill include both ends, so that a
  trade there counts twice; live bars have bucketed prices, rebuilt ones raw.
* `bar_verify_outcomes` says it walks to five minutes after the close and walks
  24 h; a second run loses `orig_realized_r`; events appended between its read and
  its move are lost; it takes every stop for a hard one and R from the first
  entry, while the server divides by two different risks.  `mae_mfe` measures a
  trade within one minute by the bar after; `phantom_check` compares a fill with
  closes up to two minutes after it.
* The close mode of the coup study skips a bar that the live rules do not; trades
  that never resolve are dropped; limit trades of `entry_ab` may overlap; walks
  start at the signal's bar; stops fill at the stop over a gap; `cvd_sweep` lets a
  target beat a later stop, and `eqhl` counts a target before the stop of the same
  bar.  The properties of `WalkForward` say for which programs they are claimed.

Not modelled at all: the contents of prompts, the user interface, and the studies
that only tabulate; the reasons are in `PROJECT.json`.
