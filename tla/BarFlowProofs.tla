---------------------------- MODULE BarFlowProofs ----------------------------
(***************************************************************************)
(* Proofs about BarFlow for any number of requests at once, any tapes,     *)
(* pages and restarts: decisions are durable, no bar is managed twice, the *)
(* first stored version of a bar stands, and the feed counts a trade once. *)
(*                                                                         *)
(* The server's core is LockInv: the series in memory is ahead of the file *)
(* by one bar at most, that of the request holding the lock, and to store  *)
(* a synthesized bar takes the same lock.  The feed's core is SeenInv: its *)
(* memory of trade numbers is at least a page long, so that a trade it has *)
(* forgotten is on no later page.                                          *)
(***************************************************************************)
EXTENDS BarFlow, SequenceTheorems, TLAPS

Past == Holding \cup {"check"}

\* What is known of the feed's side: enough to date every bar.
FeedInv ==
    /\ tape \in Tapes
    /\ traded \in 0..Len(tape)
    /\ batch \subseteq 1..Len(tape)
    /\ current = NoBar \/ current.min \in Minute

\* A request in progress carries a bar of some minute; one past the insertion
\* has its bar in the series.
HandlerInv ==
    /\ DOMAIN handler = Handler
    /\ \A h \in Handler : ~At(h, "idle") => handler[h].bar.min \in Minute
    /\ \A h \in Handler : handler[h].stage \in Past => handler[h].bar \in bars
    /\ \A b \in bars : b.min \in Minute

\* The store's lock covers the insertion and the append: the series in memory
\* is ahead of the file by the bar of the holder alone.
LockInv ==
    /\ \A h \in Handler : handler[h].stage \in {"write", "write_high"} => locked = h
    /\ file \subseteq bars
    /\ highFile \subseteq highBars
    /\ \A h \in Handler : At(h, "write_high") => handler[h].high \in highBars
    /\ \A b \in bars : b \in file \/ ( /\ locked \in Handler
                                       /\ At(locked, "write")
                                       /\ b = handler[locked].bar )

InBucket(high) ==
    /\ \A b \in high.parts : high.min - Span < b.min /\ b.min <= high.min
    /\ \E b \in high.parts : b.min = high.min

Durable(high) == InBucket(high) /\ high.parts \subseteq file

\* A request may hold a synthesized bar with a part that is not on disk yet,
\* but not beyond the lock.
HighInv ==
    /\ \A h \in Handler : At(h, "put_high") =>
          InBucket(handler[h].high) /\ handler[h].high.parts \subseteq bars
    /\ \A h \in Handler : handler[h].stage \in {"write_high", "tick"} =>
          Durable(handler[h].high)
    /\ \A high \in ticked \cup highBars : Durable(high)

\* A minute that was managed has a bar on disk, and none in progress.
ManagedInv ==
    /\ managed \in [Minute -> 0..1]
    /\ \A m \in Minute : managed[m] > 0 => \E b \in file : b.min = m
    /\ \A h \in Handler : handler[h].stage \in Past \ {"write"} => handler[h].bar \in file
    /\ \A h \in Handler : handler[h].stage \in Past => managed[handler[h].bar.min] = 0
    /\ \A g, h \in Handler :
          /\ g # h
          /\ handler[g].stage \in Past
          /\ handler[h].stage \in Past
          => handler[g].bar.min # handler[h].bar.min

\* One version of each bar.
UniqueInv ==
    /\ \A a, b \in bars : a.min = b.min => a = b
    /\ \A a, b \in highBars : a.min = b.min => a = b

IInv == FeedInv /\ HandlerInv /\ LockInv /\ HighInv /\ ManagedInv /\ UniqueInv

-----------------------------------------------------------------------------

\* The first state satisfies the inductive invariant.
LEMMA InitIInv == Init => IInv
  BY FlowAssumption DEF Init, IInv, FeedInv, HandlerInv, LockInv, HighInv, ManagedInv,
       UniqueInv, At, Idle, Busy, NoBar, NoHigh, Past, Holding, Durable, InBucket

\* The feed does not touch the store; its steps keep the invariant.
LEMMA FeedKeepsFeedInv ==
  ASSUME IInv, [Next]_vars PROVE FeedInv'
<1> USE FlowAssumption DEF IInv, FeedInv, Same, feed, NoBar
<1>1. CASE Trade
  BY <1>1 DEF Trade
<1>2. CASE Poll
  BY <1>2 DEF Poll, NewInPage
<1>3. ASSUME NEW t \in batch, FirstTrade(t) PROVE FeedInv'
  BY <1>3 DEF FirstTrade, Dispatch, Fresh
<1>4. ASSUME NEW t \in batch, AddTrade(t) PROVE FeedInv'
  BY <1>4 DEF AddTrade, Dispatch
<1>5. ASSUME NEW t \in batch, PostFails(t) PROVE FeedInv'
  BY <1>5 DEF PostFails, Dispatch, Fresh
<1>6. ASSUME NEW t \in batch, NEW h \in Handler, Post(t, h) PROVE FeedInv'
  BY <1>6 DEF Post, Dispatch, Fresh
<1>7. CASE Timeout
  BY <1>7 DEF Timeout
<1>8. CASE RestartFeed
  BY <1>8 DEF RestartFeed
<1>9. ASSUME NEW h \in Handler, Ingest(h) PROVE FeedInv'
  BY <1>9 DEF Ingest, Duplicate, InsertBar, WriteBar, Emit, EmitNothing, InsertHigh,
              DuplicateHigh, WriteHigh, TickStrategies, CheckPositions
<1>10. CASE RestartServer
  BY <1>10 DEF RestartServer
<1>11. CASE UNCHANGED vars
  BY <1>11 DEF vars
<1> QED
  BY <1>1, <1>2, <1>3, <1>4, <1>5, <1>6, <1>7, <1>8, <1>9, <1>10, <1>11 DEF Next, Feed

ServerInv == HandlerInv /\ LockInv /\ HighInv /\ ManagedInv /\ UniqueInv
server == <<handler, store, managed, ticked>>

\* A step that leaves requests, series and counters alone keeps what is known of them.
LEMMA QuietSteps ==
  ASSUME ServerInv, UNCHANGED server PROVE ServerInv'
  BY DEF ServerInv, HandlerInv, LockInv, HighInv, ManagedInv, UniqueInv, Durable, InBucket, At,
         Past, Holding, server, store

\* One lemma per action of the server: a new request.
LEMMA PostKeeps ==
  ASSUME IInv, NEW t \in batch, NEW h \in Handler, Post(t, h) PROVE ServerInv'
<1> USE FlowAssumption DEF IInv, Post, Idle, Busy, At, Past, Holding, store
<1>1. HandlerInv'
  BY DEF HandlerInv, FeedInv
<1>2. LockInv'
  BY DEF HandlerInv, LockInv
<1>3. HighInv'
  BY DEF HandlerInv, HighInv, Durable, InBucket
<1>4. ManagedInv'
  BY DEF HandlerInv, ManagedInv
<1>5. UniqueInv'
  BY DEF HandlerInv, LockInv, UniqueInv
<1> QED
  BY <1>1, <1>2, <1>3, <1>4, <1>5 DEF ServerInv

\* A refused duplicate.
LEMMA DuplicateKeeps ==
  ASSUME IInv, NEW h \in Handler, Duplicate(h) PROVE ServerInv'
<1> USE FlowAssumption DEF IInv, Duplicate, Answer, Idle, Busy, At, Past, Holding, store
<1>1. HandlerInv'
  BY DEF HandlerInv
<1>2. LockInv'
  BY DEF HandlerInv, LockInv
<1>3. HighInv'
  BY DEF HandlerInv, LockInv, HighInv, Durable, InBucket
<1>4. ManagedInv'
  BY DEF HandlerInv, LockInv, ManagedInv
<1>5. UniqueInv'
  BY DEF HandlerInv, LockInv, UniqueInv
<1> QED
  BY <1>1, <1>2, <1>3, <1>4, <1>5 DEF ServerInv

\* The insertion: the minute was not managed, since it has no bar on disk.
LEMMA InsertBarKeeps ==
  ASSUME IInv, NEW h \in Handler, InsertBar(h) PROVE ServerInv'
<1> USE FlowAssumption DEF IInv, InsertBar, Becomes, Busy, At, Past, Holding, store
<1>1. HandlerInv'
  BY DEF HandlerInv
<1>2. LockInv'
  BY DEF HandlerInv, LockInv
<1>3. HighInv'
  BY DEF HandlerInv, LockInv, HighInv, Durable, InBucket
<1>4. ManagedInv'
  <2>1. managed[handler[h].bar.min] = 0
    <3>1. handler[h].bar.min \in Minute
      BY DEF HandlerInv
    <3>2. ~(\E b \in file : b.min = handler[h].bar.min)
      BY DEF LockInv
    <3>3. managed[handler[h].bar.min] \in 0..1 /\ ~(managed[handler[h].bar.min] > 0)
      BY <3>1, <3>2 DEF ManagedInv
    <3> QED
      BY <3>3
  <2>2. \A g \in Handler \ {h} : handler[g].stage \in Past =>
           handler[g].bar.min # handler[h].bar.min
    BY DEF HandlerInv
  <2>3. \A g \in Handler \ {h} : handler'[g] = handler[g]
    BY DEF HandlerInv
  <2>4. handler'[h].stage = "write" /\ handler'[h].bar = handler[h].bar
    BY DEF HandlerInv
  <2> QED
    BY <2>1, <2>2, <2>3, <2>4 DEF ManagedInv
<1>5. UniqueInv'
  BY DEF HandlerInv, LockInv, UniqueInv
<1> QED
  BY <1>1, <1>2, <1>3, <1>4, <1>5 DEF ServerInv

\* The append: memory and file agree again.
LEMMA WriteBarKeeps ==
  ASSUME IInv, NEW h \in Handler, WriteBar(h) PROVE ServerInv'
<1> USE FlowAssumption DEF IInv, WriteBar, Becomes, Busy, At, Past, Holding, store
<1>1. HandlerInv'
  BY DEF HandlerInv
<1>2. LockInv'
  BY DEF HandlerInv, LockInv
<1>3. HighInv'
  BY DEF HandlerInv, LockInv, HighInv, Durable, InBucket
<1>4. ManagedInv'
  BY DEF HandlerInv, LockInv, ManagedInv
<1>5. UniqueInv'
  BY DEF HandlerInv, LockInv, UniqueInv
<1> QED
  BY <1>1, <1>2, <1>3, <1>4, <1>5 DEF ServerInv

\* A synthesized bar is taken from the series, which may be ahead of the file.
LEMMA EmitKeeps ==
  ASSUME IInv, NEW h \in Handler, Emit(h) PROVE ServerInv'
<1> USE FlowAssumption DEF IInv, Emit, IsLatest, Bucket, Busy, At, Past, Holding, store
<1>1. HandlerInv'
  BY DEF HandlerInv
<1>2. LockInv'
  BY DEF HandlerInv, LockInv
<1>3. HighInv'
  BY DEF HandlerInv, LockInv, HighInv, Durable, InBucket
<1>4. ManagedInv'
  BY DEF HandlerInv, LockInv, ManagedInv
<1>5. UniqueInv'
  BY DEF HandlerInv, LockInv, UniqueInv
<1> QED
  BY <1>1, <1>2, <1>3, <1>4, <1>5 DEF ServerInv

\* No bucket is complete.
LEMMA EmitNothingKeeps ==
  ASSUME IInv, NEW h \in Handler, EmitNothing(h) PROVE ServerInv'
<1> USE FlowAssumption DEF IInv, EmitNothing, Becomes, Busy, At, Past, Holding, store
<1>1. HandlerInv'
  BY DEF HandlerInv
<1>2. LockInv'
  BY DEF HandlerInv, LockInv
<1>3. HighInv'
  BY DEF HandlerInv, LockInv, HighInv, Durable, InBucket
<1>4. ManagedInv'
  BY DEF HandlerInv, LockInv, ManagedInv
<1>5. UniqueInv'
  BY DEF HandlerInv, LockInv, UniqueInv
<1> QED
  BY <1>1, <1>2, <1>3, <1>4, <1>5 DEF ServerInv

\* Nobody holds the lock: what is in memory is on disk, the parts included.
LEMMA InsertHighKeeps ==
  ASSUME IInv, NEW h \in Handler, InsertHigh(h) PROVE ServerInv'
<1> USE FlowAssumption DEF IInv, InsertHigh, Becomes, Busy, At, Past, Holding, store
<1>1. HandlerInv'
  BY DEF HandlerInv
<1>2. LockInv'
  BY DEF HandlerInv, LockInv
<1>3. HighInv'
  BY DEF HandlerInv, LockInv, HighInv, Durable, InBucket
<1>4. ManagedInv'
  BY DEF HandlerInv, LockInv, ManagedInv
<1>5. UniqueInv'
  BY DEF HandlerInv, LockInv, UniqueInv
<1> QED
  BY <1>1, <1>2, <1>3, <1>4, <1>5 DEF ServerInv

\* The same for a refused synthesized bar, on which strategies are ticked too.
LEMMA DuplicateHighKeeps ==
  ASSUME IInv, NEW h \in Handler, DuplicateHigh(h) PROVE ServerInv'
<1> USE FlowAssumption DEF IInv, DuplicateHigh, Becomes, Busy, At, Past, Holding, store
<1>1. HandlerInv'
  BY DEF HandlerInv
<1>2. LockInv'
  BY DEF HandlerInv, LockInv
<1>3. HighInv'
  BY DEF HandlerInv, LockInv, HighInv, Durable, InBucket
<1>4. ManagedInv'
  BY DEF HandlerInv, LockInv, ManagedInv
<1>5. UniqueInv'
  BY DEF HandlerInv, LockInv, UniqueInv
<1> QED
  BY <1>1, <1>2, <1>3, <1>4, <1>5 DEF ServerInv

\* The append of a synthesized bar.
LEMMA WriteHighKeeps ==
  ASSUME IInv, NEW h \in Handler, WriteHigh(h) PROVE ServerInv'
<1> USE FlowAssumption DEF IInv, WriteHigh, Becomes, Busy, At, Past, Holding, store
<1>1. HandlerInv'
  BY DEF HandlerInv
<1>2. LockInv'
  BY DEF HandlerInv, LockInv
<1>3. HighInv'
  BY DEF HandlerInv, LockInv, HighInv, Durable, InBucket
<1>4. ManagedInv'
  BY DEF HandlerInv, LockInv, ManagedInv
<1>5. UniqueInv'
  BY DEF HandlerInv, LockInv, UniqueInv
<1> QED
  BY <1>1, <1>2, <1>3, <1>4, <1>5 DEF ServerInv

\* The strategy tick.
LEMMA TickStrategiesKeeps ==
  ASSUME IInv, NEW h \in Handler, TickStrategies(h) PROVE ServerInv'
<1> USE FlowAssumption DEF IInv, TickStrategies, Becomes, Busy, At, Past, Holding, store
<1>1. HandlerInv'
  BY DEF HandlerInv
<1>2. LockInv'
  BY DEF HandlerInv, LockInv
<1>3. HighInv'
  BY DEF HandlerInv, LockInv, HighInv, Durable, InBucket
<1>4. ManagedInv'
  BY DEF HandlerInv, LockInv, ManagedInv
<1>5. UniqueInv'
  BY DEF HandlerInv, LockInv, UniqueInv
<1> QED
  BY <1>1, <1>2, <1>3, <1>4, <1>5 DEF ServerInv

\* The check of positions: no other request works on the minute.
LEMMA CheckPositionsKeeps ==
  ASSUME IInv, NEW h \in Handler, CheckPositions(h) PROVE ServerInv'
<1> USE FlowAssumption DEF IInv, CheckPositions, Answer, Idle, Busy, At, Past, Holding, store
<1>1. HandlerInv'
  BY DEF HandlerInv
<1>2. LockInv'
  BY DEF HandlerInv, LockInv
<1>3. HighInv'
  BY DEF HandlerInv, LockInv, HighInv, Durable, InBucket
<1>4. ManagedInv'
  BY DEF HandlerInv, LockInv, ManagedInv
<1>5. UniqueInv'
  BY DEF HandlerInv, LockInv, UniqueInv
<1> QED
  BY <1>1, <1>2, <1>3, <1>4, <1>5 DEF ServerInv

\* The series come back from the files.
LEMMA RestartKeeps ==
  ASSUME IInv, RestartServer PROVE ServerInv'
<1> USE FlowAssumption DEF IInv, RestartServer, Busy, Idle, At, Past, Holding, store
<1>1. HandlerInv'
  BY DEF HandlerInv, LockInv
<1>2. LockInv'
  BY DEF HandlerInv, LockInv
<1>3. HighInv'
  BY DEF HandlerInv, LockInv, HighInv, Durable, InBucket
<1>4. ManagedInv'
  BY DEF HandlerInv, LockInv, ManagedInv
<1>5. UniqueInv'
  BY DEF HandlerInv, LockInv, UniqueInv
<1> QED
  BY <1>1, <1>2, <1>3, <1>4, <1>5 DEF ServerInv

\* Every step keeps what is known of the server.
LEMMA NextKeepsServerInv ==
  ASSUME IInv, [Next]_vars PROVE ServerInv'
<1>1. ServerInv
  BY DEF IInv, ServerInv
<1>2. SUFFICES ASSUME ~UNCHANGED server PROVE ServerInv'
  BY <1>1, QuietSteps
<1>3. ~Trade /\ ~Poll /\ ~Timeout /\ ~RestartFeed /\ ~UNCHANGED vars
  BY <1>2 DEF Trade, Poll, Timeout, RestartFeed, vars, server
<1>4. \A t \in batch : ~FirstTrade(t) /\ ~AddTrade(t) /\ ~PostFails(t)
  BY <1>2 DEF FirstTrade, AddTrade, PostFails, server
<1>5. CASE RestartServer
  BY <1>5, RestartKeeps
<1>6. ASSUME NEW t \in batch, NEW h \in Handler, Post(t, h) PROVE ServerInv'
  BY <1>6, PostKeeps
<1>7. ASSUME NEW h \in Handler, Ingest(h) PROVE ServerInv'
  BY <1>7, DuplicateKeeps, InsertBarKeeps, WriteBarKeeps, EmitKeeps, EmitNothingKeeps,
     InsertHighKeeps, DuplicateHighKeeps, WriteHighKeeps, TickStrategiesKeeps,
     CheckPositionsKeeps DEF Ingest
<1> QED
  BY <1>3, <1>4, <1>5, <1>6, <1>7 DEF Next, Feed

\* The invariant is inductive.
LEMMA NextKeeps == IInv /\ [Next]_vars => IInv'
  BY FeedKeepsFeedInv, NextKeepsServerInv DEF IInv, ServerInv

\* It holds in every reachable state.
THEOREM InvHolds == Spec => []IInv
  BY InitIInv, NextKeeps, PTL DEF Spec

\* What a strategy was ticked on is on disk, however many requests read the
\* series while others are half way through their puts, and over restarts of
\* the feed and the server (StateStore.put, _aggregate_mtf).
THEOREM DecisionsDurable == Spec => []DecisionsAreDurable
<1>1. IInv => DecisionsAreDurable
  BY DEF IInv, LockInv, HighInv, Durable, InBucket, DecisionsAreDurable
<1> QED
  BY <1>1, InvHolds, PTL

\* No bar is checked against the positions twice, whatever is posted again by
\* a feed that starts over or to a server that did (ingest's duplicate test).
THEOREM NeverManagedTwice == Spec => []ManagedOnce
<1>1. IInv => ManagedOnce
  BY DEF IInv, ManagedInv, ManagedOnce
<1> QED
  BY <1>1, InvHolds, PTL

\* Lines are only ever appended.
LEMMA FilesGrow ==
  ASSUME [Next]_vars PROVE file \subseteq file' /\ highFile \subseteq highFile'
<1>1. ASSUME NEW h \in Handler, Ingest(h)
      PROVE file \subseteq file' /\ highFile \subseteq highFile'
  BY <1>1 DEF Ingest, Duplicate, InsertBar, WriteBar, Emit, EmitNothing, InsertHigh,
              DuplicateHigh, WriteHigh, TickStrategies, CheckPositions, store
<1>2. ASSUME ~(\E h \in Handler : Ingest(h)) PROVE UNCHANGED <<file, highFile>>
  BY <1>2 DEF Next, Feed, Trade, Poll, FirstTrade, AddTrade, PostFails, Post, Timeout,
              RestartFeed, RestartServer, store, vars
<1> QED
  BY <1>1, <1>2

\* The first version of a bar that reached the disk stays, in memory and on
\* disk, over restarts ("Idempotent insert", StateStore.put).
THEOREM FirstVersionStands == Spec => FirstBarStands
<1> DEFINE Stands == /\ file \subseteq file' /\ file \subseteq bars'
                     /\ highFile \subseteq highFile' /\ highFile \subseteq highBars'
                     /\ \A a, b \in file' : a.min = b.min => a = b
                     /\ \A a, b \in highFile' : a.min = b.min => a = b
<1>1. IInv /\ [Next]_vars => Stands
  BY NextKeeps, FilesGrow DEF IInv, LockInv, UniqueInv
<1> QED
  BY <1>1, InvHolds, PTL DEF Spec, FirstBarStands

-----------------------------------------------------------------------------
(* Every trade once: the poller's memory is as long as a page, so what it  *)
(* forgot is no longer on any page to come.                                *)

\* The trades remembered: each later than the one before it.  What is still to
\* dispatch is later than all of them, and no trade of the page that comes
\* before one of these is missing.
SeenInv ==
    /\ seen \in Seq(1..traded)
    /\ batch \subseteq 1..traded
    /\ \A i, j \in 1..Len(seen) : i <= j => j - i <= seen[j] - seen[i]
    /\ \A t \in batch, i \in 1..Len(seen) : seen[i] < t
    /\ \A u, v \in 1..traded :
          traded - Page < u /\ u <= v /\ v \in batch \cup Remembered
              => u \in batch \cup Remembered

\* A bar's trades are in order and of its minute.
Whole(b) ==
    /\ \A i \in 1..Len(b.trades) : tape[b.trades[i]] = b.min
    /\ \A i, j \in 1..Len(b.trades) : i < j => b.trades[i] < b.trades[j]

\* The bar under construction holds trades that were dispatched.
CurrentInv ==
    /\ current.trades \in Seq(Nat)
    /\ Whole(current)
    /\ \A i \in 1..Len(current.trades) :
          Len(seen) > 0 /\ current.trades[i] <= seen[Len(seen)]

PostedInv ==
    /\ \A h \in Handler : ~At(h, "idle") => Whole(handler[h].bar)
    /\ \A b \in bars : Whole(b)

TradeInv == SeenInv /\ CurrentInv /\ PostedInv

\* A poll adds only trades after the last one dispatched.
LEMMA PollKeeps ==
  ASSUME IInv, TradeInv, Poll PROVE SeenInv'
<1> USE FlowAssumption DEF IInv, FeedInv, TradeInv, SeenInv
<1>1. traded \in Nat /\ traded' = traded /\ seen' = seen /\ batch = {} /\ batch' = NewInPage
  BY DEF Poll
<1>2. Remembered' = Remembered /\ Remembered \subseteq 1..traded
  BY <1>1 DEF Remembered
<1>3. ASSUME NEW t \in batch', NEW i \in 1..Len(seen) PROVE seen[i] < t
  <2>1. t \in 1..traded /\ traded - Page < t /\ t \notin Remembered
    BY <1>1, <1>3 DEF NewInPage
  <2>2. seen[i] \in Remembered /\ seen[i] \in 1..traded
    BY <1>3 DEF Remembered
  <2>3. ~(t <= seen[i])
    BY <1>1, <2>1, <2>2
  <2> QED
    BY <2>1, <2>2, <2>3
<1>4. ASSUME NEW u \in 1..traded, traded - Page < u
      PROVE  u \in batch' \cup Remembered
  BY <1>1, <1>4 DEF NewInPage
<1> QED
  BY <1>1, <1>2, <1>3, <1>4 DEF NewInPage

\* A dispatch moves a trade from the page to the memory; the one that is
\* forgotten is at least a page behind.
LEMMA DispatchKeeps ==
  ASSUME IInv, TradeInv, NEW t \in batch, Dispatch(t), UNCHANGED traded
  PROVE  /\ SeenInv'
         /\ Len(seen') > 0 /\ seen'[Len(seen')] = t
         /\ t \in Nat
         /\ Len(seen) > 0 => seen[Len(seen)] \in Nat /\ seen[Len(seen)] < t
<1> DEFINE longer == Append(seen, t)
           n == Len(seen)
<1>0. /\ traded \in Nat /\ Page \in Nat \ {0} /\ Memory \in Nat /\ Page <= Memory
      /\ n \in Nat /\ t \in 1..traded /\ seen \in Seq(1..traded)
  BY FlowAssumption DEF IInv, FeedInv, TradeInv, SeenInv
<1>1. \A i \in 1..n : seen[i] \in 1..traded /\ seen[i] < t
  BY <1>0 DEF TradeInv, SeenInv
<1>2. /\ longer \in Seq(1..traded) /\ Len(longer) = n + 1 /\ longer[n + 1] = t
      /\ \A i \in 1..n : longer[i] = seen[i]
  BY <1>0
<1>3. \A i, j \in 1..(n + 1) : i <= j => j - i <= longer[j] - longer[i]
  <2> SUFFICES ASSUME NEW i \in 1..(n + 1), NEW j \in 1..(n + 1), i <= j
               PROVE  j - i <= longer[j] - longer[i]
    OBVIOUS
  <2>1. CASE j \in 1..n
    BY <1>0, <1>2, <2>1 DEF TradeInv, SeenInv
  <2>2. CASE j = n + 1 /\ i \in 1..n
    <3>1. n \in 1..n /\ n - i <= seen[n] - seen[i]
      BY <1>0, <2>2 DEF TradeInv, SeenInv
    <3>2. seen[n] < t /\ seen[n] \in Nat /\ seen[i] \in Nat
      BY <1>1, <2>2, <3>1
    <3> QED
      BY <1>0, <1>2, <2>2, <3>1, <3>2
  <2>3. CASE i = n + 1
    BY <1>0, <1>2, <2>3
  <2> QED
    BY <1>0, <2>1, <2>2, <2>3
<1> HIDE DEF longer, n
<1>4. /\ batch' = batch \ {t} /\ \A u \in batch : t <= u
      /\ seen' = IF Len(longer) > Memory THEN Tail(longer) ELSE longer
  BY DEF Dispatch, longer
<1>5. batch \subseteq 1..traded
  BY DEF TradeInv, SeenInv
<1>6. \A u, v \in 1..traded :
         traded - Page < u /\ u <= v /\ v \in batch \cup Remembered
             => u \in batch \cup Remembered
  BY DEF TradeInv, SeenInv
<1>7. Remembered = { seen[i] : i \in 1..n }
  BY DEF Remembered, n
<1>8. CASE Len(longer) > Memory
  <2>1. /\ seen' \in Seq(1..traded) /\ Len(seen') = n
        /\ \A i \in 1..n : seen'[i] = longer[i + 1]
    BY <1>0, <1>2, <1>4, <1>8
  <2>2. n >= 1
    BY <1>0, <1>2, <1>8
  <2>3. \A i, j \in 1..n : i <= j => j - i <= seen'[j] - seen'[i]
    <3> SUFFICES ASSUME NEW i \in 1..n, NEW j \in 1..n, i <= j
                 PROVE  j - i <= seen'[j] - seen'[i]
      OBVIOUS
    <3>1. /\ i + 1 \in 1..(n + 1) /\ j + 1 \in 1..(n + 1) /\ i + 1 <= j + 1
          /\ (j + 1) - (i + 1) = j - i
      BY <1>0
    <3> QED
      BY <1>3, <2>1, <3>1
  <2>4. seen'[n] = t
    BY <1>0, <1>2, <2>1, <2>2
  <2>5. Remembered' = { longer[i] : i \in 2..(n + 1) }
    <3>1. Remembered' = { seen'[i] : i \in 1..n }
      BY <2>1 DEF Remembered
    <3>2. \A i \in 1..n : i + 1 \in 2..(n + 1) /\ seen'[i] = longer[i + 1]
      BY <1>0, <2>1
    <3>3. \A i \in 2..(n + 1) : i - 1 \in 1..n /\ seen'[i - 1] = longer[i]
      BY <1>0, <2>1
    <3> QED
      BY <3>1, <3>2, <3>3
  <2>6. longer[1] <= traded - Page
    <3>1. 1 \in 1..(n + 1) /\ n + 1 \in 1..(n + 1) /\ (n + 1) - 1 = n
      BY <1>0
    <3>2. n <= t - longer[1]
      BY <1>0, <1>2, <1>3, <3>1
    <3>3. longer[1] \in 1..traded /\ Page <= n
      BY <1>0, <1>2, <1>8, <3>1
    <3> QED
      BY <1>0, <3>2, <3>3
  <2>7. \A u \in batch \cup Remembered : u = longer[1] \/ u \in batch' \cup Remembered'
    <3>1. t \in Remembered'
      BY <1>0, <1>2, <2>2, <2>5
    <3>2. ASSUME NEW i \in 1..n PROVE seen[i] = longer[1] \/ seen[i] \in Remembered'
      <4>1. i = 1 \/ i \in 2..(n + 1)
        BY <1>0
      <4> QED
        BY <1>2, <2>5, <4>1
    <3> QED
      BY <1>4, <1>7, <3>1, <3>2
  <2>8. batch' \cup Remembered' \subseteq batch \cup Remembered
    <3>1. ASSUME NEW i \in 2..(n + 1) PROVE longer[i] \in batch \cup Remembered
      <4>1. i \in 1..n \/ i = n + 1
        BY <1>0
      <4> QED
        BY <1>2, <1>7, <4>1
    <3> QED
      BY <1>4, <2>5, <3>1
  <2>9. \A u \in batch', i \in 1..n : seen'[i] < u
    <3> SUFFICES ASSUME NEW u \in batch', NEW i \in 1..n PROVE seen'[i] < u
      OBVIOUS
    <3>1. t < u /\ u \in Nat /\ t \in Nat
      BY <1>0, <1>4, <1>5
    <3>2. seen'[i] = t \/ (i + 1 \in 1..n /\ seen'[i] = seen[i + 1])
      BY <1>0, <1>2, <2>1
    <3>3. seen'[i] \in Nat /\ seen'[i] <= t
      BY <1>0, <1>1, <3>2
    <3> QED
      BY <3>1, <3>3
  <2>10. \A u, v \in 1..traded :
           traded - Page < u /\ u <= v /\ v \in batch' \cup Remembered'
               => u \in batch' \cup Remembered'
    <3> SUFFICES ASSUME NEW u \in 1..traded, NEW v \in 1..traded, traded - Page < u, u <= v,
                        v \in batch' \cup Remembered'
                 PROVE  u \in batch' \cup Remembered'
      OBVIOUS
    <3>1. u \in batch \cup Remembered
      BY <1>6, <2>8
    <3>2. longer[1] \in 1..traded
      BY <1>0, <1>2
    <3> QED
      BY <1>0, <2>6, <2>7, <3>1, <3>2
  <2>11. batch' \subseteq 1..traded
    BY <1>4, <1>5
  <2>12. SeenInv'
    BY <2>1, <2>3, <2>9, <2>10, <2>11 DEF SeenInv
  <2> QED
    BY <1>0, <1>1, <2>1, <2>2, <2>4, <2>12 DEF n
<1>9. CASE ~(Len(longer) > Memory)
  <2>1. seen' = longer
    BY <1>4, <1>9
  <2>2. Remembered' = Remembered \cup {t}
    <3>1. Remembered' = { longer[i] : i \in 1..(n + 1) }
      BY <1>2, <2>1 DEF Remembered
    <3>2. \A i \in 1..(n + 1) : i \in 1..n \/ i = n + 1
      BY <1>0
    <3>3. n + 1 \in 1..(n + 1) /\ \A i \in 1..n : i \in 1..(n + 1)
      BY <1>0
    <3> QED
      BY <1>2, <1>7, <3>1, <3>2, <3>3
  <2>3. batch' \cup Remembered' = batch \cup Remembered
    BY <1>4, <2>2
  <2>4. \A u \in batch', i \in 1..(n + 1) : longer[i] < u
    <3> SUFFICES ASSUME NEW u \in batch', NEW i \in 1..(n + 1) PROVE longer[i] < u
      OBVIOUS
    <3>1. t < u /\ u \in Nat /\ t \in Nat
      BY <1>0, <1>4, <1>5
    <3>2. longer[i] \in Nat /\ longer[i] <= t
      <4>1. CASE i \in 1..n
        <5>1. seen[i] \in 1..traded /\ seen[i] < t /\ longer[i] = seen[i]
          BY <1>1, <1>2, <4>1
        <5> QED
          BY <1>0, <5>1
      <4>2. CASE i = n + 1
        BY <1>0, <1>2, <4>2
      <4> QED
        BY <1>0, <4>1, <4>2
    <3> QED
      BY <3>1, <3>2
  <2>5. batch' \subseteq 1..traded
    BY <1>4, <1>5
  <2>6. \A u, v \in 1..traded :
           traded - Page < u /\ u <= v /\ v \in batch' \cup Remembered'
               => u \in batch' \cup Remembered'
    BY <1>6, <2>3
  <2>7. SeenInv'
    BY <1>2, <1>3, <2>1, <2>4, <2>5, <2>6 DEF SeenInv
  <2> QED
    BY <1>0, <1>1, <1>2, <2>1, <2>7 DEF n
<1> QED
  BY <1>8, <1>9

\* A bar that begins with the trade just dispatched.
LEMMA FreshKeeps ==
  ASSUME IInv, NEW t \in batch, t \in Nat, UNCHANGED tape, current' = Fresh(t),
         Len(seen') > 0, seen'[Len(seen')] = t
  PROVE  CurrentInv'
<1>1. /\ current'.trades = <<t>> /\ current'.min = tape[t]
      /\ Len(<<t>>) = 1 /\ <<t>>[1] = t /\ <<t>> \in Seq(Nat)
  BY DEF Fresh
<1>2. 1..1 = {1}
  OBVIOUS
<1> QED
  BY <1>1, <1>2 DEF CurrentInv, Whole

\* A trade added to the bar of its minute is later than those in it.
LEMMA AddKeeps ==
  ASSUME IInv, TradeInv, NEW t \in batch, AddTrade(t) PROVE CurrentInv'
<1> DEFINE n == Len(current.trades)
           longer == Append(current.trades, t)
<1>1. /\ Len(seen') > 0 /\ seen'[Len(seen')] = t /\ t \in Nat
      /\ Len(seen) > 0 => seen[Len(seen)] \in Nat /\ seen[Len(seen)] < t
  BY DispatchKeeps DEF AddTrade
<1>2. /\ current.trades \in Seq(Nat) /\ Whole(current)
      /\ \A i \in 1..n : Len(seen) > 0 /\ current.trades[i] <= seen[Len(seen)]
  BY DEF TradeInv, CurrentInv
<1>3. /\ current'.min = current.min /\ current.min = tape[t] /\ current'.trades = longer
      /\ tape' = tape
  BY DEF AddTrade
<1>4. /\ n \in Nat /\ longer \in Seq(Nat) /\ Len(longer) = n + 1 /\ longer[n + 1] = t
      /\ \A i \in 1..n : longer[i] = current.trades[i]
  BY <1>1, <1>2
<1>5. \A i \in 1..n : current.trades[i] \in Nat /\ current.trades[i] < t
  <2> SUFFICES ASSUME NEW i \in 1..n
               PROVE  current.trades[i] \in Nat /\ current.trades[i] < t
    OBVIOUS
  <2>1. current.trades[i] \in Nat
    BY <1>2
  <2>2. current.trades[i] <= seen[Len(seen)] /\ seen[Len(seen)] < t /\ seen[Len(seen)] \in Nat
    BY <1>1, <1>2
  <2> QED
    BY <1>1, <2>1, <2>2
<1> HIDE DEF n, longer
<1>6. \A i \in 1..(n + 1) : i \in 1..n \/ i = n + 1
  BY <1>4
<1>7. \A i \in 1..(n + 1) : tape[longer[i]] = current.min
  BY <1>2, <1>3, <1>4, <1>6 DEF Whole, n
<1>8. \A i, j \in 1..(n + 1) : i < j => longer[i] < longer[j]
  <2> SUFFICES ASSUME NEW i \in 1..(n + 1), NEW j \in 1..(n + 1), i < j
               PROVE  longer[i] < longer[j]
    OBVIOUS
  <2>1. i \in 1..n
    BY <1>4
  <2>2. CASE j \in 1..n
    BY <1>2, <1>4, <2>1, <2>2 DEF Whole, n
  <2>3. CASE j = n + 1
    BY <1>4, <1>5, <2>1, <2>3
  <2> QED
    BY <1>6, <2>2, <2>3
<1>9. \A i \in 1..(n + 1) : longer[i] <= t
  BY <1>1, <1>4, <1>5, <1>6
<1> QED
  BY <1>1, <1>3, <1>4, <1>7, <1>8, <1>9 DEF CurrentInv, Whole

\* Every step keeps the feed's memory and the bar it builds.
LEMMA FeedKeepsTrades ==
  ASSUME IInv, TradeInv, [Next]_vars PROVE SeenInv' /\ CurrentInv'
<1>0. SeenInv /\ CurrentInv /\ FeedInv
  BY DEF TradeInv, IInv
<1>1. CASE UNCHANGED <<tape, traded, feed>>
  <2>1. tape' = tape /\ traded' = traded /\ seen' = seen /\ batch' = batch /\ current' = current
    BY <1>1 DEF feed
  <2>2. SeenInv'
    BY <1>0, <2>1 DEF SeenInv, Remembered
  <2>3. CurrentInv'
    BY <1>0, <2>1 DEF CurrentInv, Whole
  <2> QED
    BY <2>2, <2>3
<1>2. CASE Trade
  <2>1. /\ traded' = traded + 1 /\ traded \in Nat /\ UNCHANGED <<seen, batch, current, tape>>
    BY <1>0, <1>2, FlowAssumption DEF Trade, FeedInv, feed
  <2>2. SeenInv'
    <3>1. 1..traded \subseteq 1..traded' /\ Page \in Nat
      BY <2>1, FlowAssumption
    <3>2. seen \in Seq(1..traded')
      <4>1. seen \in Seq(1..traded)
        BY <1>0 DEF SeenInv
      <4> QED
        BY <3>1, <4>1, SeqMonotonic
    <3>3. batch \subseteq 1..traded /\ Remembered \subseteq 1..traded /\ Remembered' = Remembered
      BY <1>0, <2>1 DEF SeenInv, Remembered
    <3>4. ASSUME NEW u \in 1..traded', NEW v \in 1..traded', traded' - Page < u, u <= v,
                 v \in batch \cup Remembered
          PROVE  u \in batch \cup Remembered
      <4>1. v \in 1..traded /\ u \in 1..traded /\ traded - Page < u
        BY <2>1, <3>1, <3>3, <3>4
      <4> QED
        BY <1>0, <3>4, <4>1 DEF SeenInv
    <3> QED
      BY <1>0, <2>1, <3>1, <3>2, <3>3, <3>4 DEF SeenInv
  <2>3. CurrentInv'
    BY <1>0, <2>1 DEF CurrentInv, Whole
  <2> QED
    BY <2>2, <2>3
<1>3. CASE Poll
  <2>1. CurrentInv'
    BY <1>0, <1>3 DEF Poll, CurrentInv, Whole
  <2> QED
    BY <1>3, <2>1, PollKeeps
<1>4. ASSUME NEW t \in batch,
             FirstTrade(t) \/ AddTrade(t) \/ PostFails(t) \/ \E h \in Handler : Post(t, h)
      PROVE  SeenInv' /\ CurrentInv'
  <2>1. Dispatch(t) /\ UNCHANGED <<traded, tape>>
    BY <1>4 DEF FirstTrade, AddTrade, PostFails, Post
  <2>2. SeenInv' /\ Len(seen') > 0 /\ seen'[Len(seen')] = t /\ t \in Nat
    BY <2>1, DispatchKeeps
  <2>3. CASE current' = Fresh(t)
    BY <2>1, <2>2, <2>3, FreshKeeps
  <2>4. CASE AddTrade(t)
    BY <2>2, <2>4, AddKeeps
  <2> QED
    BY <1>4, <2>2, <2>3, <2>4 DEF FirstTrade, PostFails, Post
<1>5. CASE RestartFeed
  <2>1. /\ seen' = <<>> /\ batch' = {} /\ current' = NoBar /\ UNCHANGED <<tape, traded>>
        /\ Len(<<>>) = 0 /\ 1..0 = {}
    BY <1>5 DEF RestartFeed
  <2>2. Remembered' = {}
    BY <2>1 DEF Remembered
  <2> QED
    BY <2>1, <2>2 DEF SeenInv, CurrentInv, Whole, NoBar
<1>6. ASSUME NEW h \in Handler, Ingest(h) PROVE UNCHANGED <<tape, traded, feed>>
  BY <1>6 DEF Ingest, Duplicate, InsertBar, WriteBar, Emit, EmitNothing, InsertHigh,
              DuplicateHigh, WriteHigh, TickStrategies, CheckPositions, Same
<1>7. Timeout \/ RestartServer \/ UNCHANGED vars => UNCHANGED <<tape, traded, feed>>
  BY DEF Timeout, RestartServer, vars
<1> QED
  BY <1>1, <1>2, <1>3, <1>4, <1>5, <1>6, <1>7 DEF Next, Feed

\* Bars travel unchanged from the feed to the series and the file.
LEMMA PostedKeeps ==
  ASSUME IInv, TradeInv, [Next]_vars PROVE PostedInv'
<1>0. PostedInv /\ CurrentInv /\ HandlerInv /\ file \subseteq bars
  BY DEF TradeInv, IInv, LockInv
<1>1. tape' = tape
  <2>1. ASSUME NEW h \in Handler, Ingest(h) PROVE tape' = tape
    BY <2>1 DEF Ingest, Duplicate, InsertBar, WriteBar, Emit, EmitNothing, InsertHigh,
                DuplicateHigh, WriteHigh, TickStrategies, CheckPositions, Same
  <2> QED
    BY <2>1 DEF Next, Feed, Trade, Poll, FirstTrade, AddTrade, PostFails, Post, Timeout,
                RestartFeed, RestartServer, vars
<1>2. \A b : Whole(b) => Whole(b)'
  BY <1>1 DEF Whole
<1>3. CASE UNCHANGED <<handler, bars>>
  BY <1>0, <1>1, <1>3 DEF PostedInv, Whole, At
<1>4. ASSUME NEW t \in batch, NEW h \in Handler, Post(t, h) PROVE PostedInv'
  <2>1. handler' = [handler EXCEPT ![h] = Busy("sent", current, NoHigh)] /\ bars' = bars
    BY <1>4 DEF Post, store
  <2>2. Whole(current)
    BY <1>0 DEF CurrentInv
  <2> QED
    BY <1>0, <1>1, <2>1, <2>2 DEF PostedInv, HandlerInv, Whole, At, Busy
<1>5. ASSUME NEW h \in Handler, Ingest(h) PROVE PostedInv'
  <2>1. /\ \A b \in bars' : b \in bars \/ (b = handler[h].bar /\ ~At(h, "idle"))
        /\ \E s, b, high : /\ handler' = [handler EXCEPT ![h] = Busy(s, b, high)]
                           /\ s = "idle" \/ (b = handler[h].bar /\ ~At(h, "idle"))
    <3>1. CASE Duplicate(h) \/ CheckPositions(h)
      BY <3>1 DEF Duplicate, CheckPositions, Answer, Idle, store
    <3>2. CASE InsertBar(h)
      BY <3>2 DEF InsertBar, Becomes, At
    <3>3. CASE WriteBar(h) \/ EmitNothing(h) \/ TickStrategies(h)
      BY <3>3 DEF WriteBar, EmitNothing, TickStrategies, Becomes, At, store
    <3>4. CASE InsertHigh(h) \/ DuplicateHigh(h) \/ WriteHigh(h)
      BY <3>4 DEF InsertHigh, DuplicateHigh, WriteHigh, Becomes, At, store
    <3>5. CASE Emit(h)
      BY <3>5 DEF Emit, At, store
    <3> QED
      BY <1>5, <3>1, <3>2, <3>3, <3>4, <3>5 DEF Ingest
  <2> QED
    BY <1>0, <1>1, <2>1 DEF PostedInv, HandlerInv, Whole, At, Busy
<1>6. CASE RestartServer
  BY <1>0, <1>1, <1>6 DEF RestartServer, PostedInv, Whole, At, Idle, Busy
<1>7. CASE Trade \/ Poll \/ Timeout \/ RestartFeed \/ UNCHANGED vars
  BY <1>3, <1>7 DEF Trade, Poll, Timeout, RestartFeed, vars, store
<1>8. ASSUME NEW t \in batch, FirstTrade(t) \/ AddTrade(t) \/ PostFails(t) PROVE PostedInv'
  BY <1>3, <1>8 DEF FirstTrade, AddTrade, PostFails, store
<1> QED
  BY <1>4, <1>5, <1>6, <1>7, <1>8 DEF Next, Feed

\* Pages overlap, the poller forgets, a feed starts over and posts a minute
\* again: no stored bar holds a trade twice, out of order or of another minute,
\* and a minute has one bar (the _seen_deque of the pollers, on_tick).
THEOREM NoTradeTwice == Spec => []TradesCountOnce
<1>1. Init => TradeInv
  <2> SUFFICES ASSUME Init PROVE TradeInv
    OBVIOUS
  <2>1. Len(<<>>) = 0 /\ 1..0 = {} /\ seen = <<>> /\ batch = {} /\ current = NoBar
    BY DEF Init
  <2>2. Remembered = {}
    BY <2>1 DEF Remembered
  <2>3. SeenInv /\ CurrentInv
    BY <2>1, <2>2 DEF SeenInv, CurrentInv, Whole, NoBar
  <2>4. PostedInv
    BY DEF Init, PostedInv, At, Idle, Busy
  <2> QED
    BY <2>3, <2>4 DEF TradeInv
<1>2. IInv /\ TradeInv /\ [Next]_vars => TradeInv'
  BY FeedKeepsTrades, PostedKeeps DEF TradeInv
<1>3. IInv /\ TradeInv => TradesCountOnce
  BY DEF IInv, UniqueInv, TradeInv, PostedInv, Whole, TradesCountOnce
<1> QED
  BY <1>1, <1>2, <1>3, InvHolds, PTL DEF Spec

=============================================================================
