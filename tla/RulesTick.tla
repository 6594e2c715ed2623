------------------------------- MODULE RulesTick -------------------------------
(***************************************************************************)
(* The two ways into the rules engine (Mode 2).  The ingest handler fires   *)
(* once per 15m bar (_trigger_decide_on_bar_close): a thread posts          *)
(* /decide_multi and then a dry run of /grid_tick.  A loop of start.sh      *)
(* posts /grid_tick for the isolated paper book on a clock of its own.      *)
(* Both requests mark their bar in _last_bars (server/routes/grid_tick.py). *)
(*                                                                          *)
(* One symbol.  Bars are numbered; handlers and requests interleave at      *)
(* every read and write of the shared marks.                                *)
(***************************************************************************)
EXTENDS Integers, Sequences, FiniteSets

CONSTANTS TickHandlers,    \* ingest handlers that can close the same 15m bar
          TickBars, TickEmits, TickPosts, TickStarts,
          KeepAfter        \* the marks kept when the set outgrows its limit

ASSUME RulesTickAssumption ==
    /\ TickBars \in Nat /\ TickEmits \in Nat /\ TickPosts \in Nat /\ TickStarts \in Nat
    /\ KeepAfter \in Nat \ {0} /\ IsFiniteSet(TickHandlers)

VARIABLES tBar,        \* the newest 15m bar in the store
          tTriggered,  \* _triggered_decide_bars
          tHandlers,   \* handler -> [at, bar]
          tDry,        \* dry runs posted and not yet served
          tLast,       \* _last_bars[sym], 0 when unset
          tPost,       \* the loop's request: [at, bar]
          tBook,       \* the isolated paper book holds a position
          tUsed,       \* closings of 15m bars, posts of the loop, starts of the server
          tFires,      \* history: bar -> times it was triggered
          tGrids,      \* history: [bar, start] of the loop's grids, in order
          tReached,    \* history: bars a post of the loop was served on
          tTurned      \* history: bars a post was turned away from before that
tickVars == <<tBar, tTriggered, tHandlers, tDry, tLast, tPost, tBook, tUsed, tFires, tGrids,
              tReached, tTurned>>

Idle == [at |-> "idle", bar |-> 0]

RulesInit ==
    /\ tBar = 0 /\ tTriggered = {} /\ tHandlers = [h \in TickHandlers |-> Idle]
    /\ tDry = 0 /\ tLast = 0 /\ tPost = Idle /\ tBook = FALSE
    /\ tUsed = [emits |-> 0, posts |-> 0, starts |-> 1]
    /\ tFires = [b \in 1..TickBars |-> 0] /\ tGrids = <<>> /\ tReached = {} /\ tTurned = {}

-----------------------------------------------------------------------------
(* ingest: one thread per bar *)
\* A 1m bar that closes the 15m bar is aggregated; a late 1m bar closes it once more.
TickEmit(h, b) ==
    /\ b \in {tBar, tBar + 1} \cap (1..TickBars)
    /\ tHandlers[h] = Idle /\ tUsed.emits < TickEmits
    /\ tUsed' = [tUsed EXCEPT !.emits = @ + 1]
    /\ tBar' = b
    /\ tHandlers' = [tHandlers EXCEPT ![h] = [at |-> "closed", bar |-> b]]
    /\ UNCHANGED <<tTriggered, tDry, tLast, tPost, tBook, tFires, tGrids, tReached, tTurned>>

IsFresh(b) == b \notin tTriggered
TickCheck(h) ==
    /\ tHandlers[h].at = "closed"
    /\ tHandlers' = [tHandlers EXCEPT ![h] =
                        IF IsFresh(@.bar) THEN [@ EXCEPT !.at = "fresh"] ELSE Idle]
    /\ UNCHANGED <<tBar, tTriggered, tDry, tLast, tPost, tBook, tUsed, tFires, tGrids, tReached, tTurned>>

\* The set keeps an arbitrary half of its marks once it is over its limit.
Pruned(marks) ==
    IF Cardinality(marks) <= 2 * KeepAfter THEN {marks}
    ELSE {kept \in SUBSET marks : Cardinality(kept) = KeepAfter}

TickFire(h) ==
    LET b == tHandlers[h].bar
    IN  /\ tHandlers[h].at = "fresh"
        /\ tTriggered' \in Pruned(tTriggered \cup {b})
        /\ tDry' = tDry + 1
        /\ tFires' = [tFires EXCEPT ![b] = @ + 1]
        /\ tHandlers' = [tHandlers EXCEPT ![h] = Idle]
        /\ UNCHANGED <<tBar, tLast, tPost, tBook, tUsed, tGrids, tReached, tTurned>>

-----------------------------------------------------------------------------
(* /grid_tick *)
\* Mutant: a request leaves no mark.
MarkNone(b) == tLast
\* The bar is spent before any guard has looked at it.
Mark(b) == b

\* The dry run of the thread: the engine decides, nothing is dispatched.
TickDryRun ==
    /\ tDry > 0
    /\ tDry' = tDry - 1
    /\ tLast' = IF tLast = tBar THEN tLast ELSE Mark(tBar)
    /\ UNCHANGED <<tBar, tTriggered, tHandlers, tPost, tBook, tUsed, tFires, tGrids, tReached, tTurned>>

\* The loop's post reads the newest bar and its mark.
TickPost ==
    /\ tPost = Idle /\ tUsed.posts < TickPosts /\ tBar > 0
    /\ tUsed' = [tUsed EXCEPT !.posts = @ + 1]
    /\ IF tLast = tBar THEN tTurned' = tTurned \cup ({tBar} \ tReached) /\ UNCHANGED tPost
       ELSE tPost' = [at |-> "checked", bar |-> tBar] /\ UNCHANGED tTurned
    /\ UNCHANGED <<tBar, tTriggered, tHandlers, tDry, tLast, tBook, tFires, tGrids, tReached>>

\* It marks the bar, and dispatches a grid unless the book is taken, the filter sees no
\* setup or the vote is flat.
TickServe(dispatches) ==
    /\ tPost.at = "checked"
    /\ dispatches => ~tBook
    /\ tLast' = Mark(tPost.bar)
    /\ tBook' = (tBook \/ dispatches)
    /\ tGrids' = IF dispatches THEN Append(tGrids, [bar |-> tPost.bar, start |-> tUsed.starts])
                 ELSE tGrids
    /\ tReached' = tReached \cup {tPost.bar}
    /\ tPost' = Idle
    /\ UNCHANGED <<tBar, tTriggered, tHandlers, tDry, tUsed, tFires, tTurned>>

\* The paper position closes.
TickClose ==
    /\ tBook
    /\ tBook' = FALSE
    /\ UNCHANGED <<tBar, tTriggered, tHandlers, tDry, tLast, tPost, tUsed, tFires, tGrids, tReached, tTurned>>

\* The server restarts: both marks are memory, requests and threads die.
TickRestart ==
    /\ tUsed.starts < TickStarts
    /\ tUsed' = [tUsed EXCEPT !.starts = @ + 1]
    /\ tTriggered' = {} /\ tLast' = 0 /\ tDry' = 0 /\ tPost' = Idle
    /\ tHandlers' = [h \in TickHandlers |-> Idle]
    /\ UNCHANGED <<tBar, tBook, tFires, tGrids, tReached, tTurned>>

TickQuiet == /\ tUsed.emits = TickEmits
             /\ UNCHANGED tickVars

RulesNext ==
    \/ \E h \in TickHandlers : TickCheck(h) \/ TickFire(h)
    \/ \E h \in TickHandlers, b \in 1..TickBars : TickEmit(h, b)
    \/ TickDryRun \/ TickPost \/ TickClose \/ TickRestart \/ TickQuiet
    \/ \E dispatches \in BOOLEAN : TickServe(dispatches)
RulesSpec == RulesInit /\ [][RulesNext]_tickVars

-----------------------------------------------------------------------------
(* Properties *)
\* The set of marks stays within its limit however long the server runs, and a handler is
\* between its two steps only for a bar that closed.
MarksBounded ==
    /\ Cardinality(tTriggered) <= 2 * KeepAfter
    /\ tTriggered \subseteq 1..tBar /\ tLast \in 0..tBar
    /\ \A h \in TickHandlers : tHandlers[h].bar <= tBar

\* The loop trades a bar once: within one life of the server no bar gets two grids, though
\* the position closes in between, the feed stalls, and dry runs move the same mark.
OneGridPerBar ==
    \A i, j \in DOMAIN tGrids : tGrids[i] = tGrids[j] => i = j

\* "Idempotent per bar_id" (_trigger_decide_on_bar_close), as far as it goes: until the
\* marks are cut or the server restarts, a bar fires once for each handler that was past
\* the check when the first one marked it, however often late bars close it again.
FiresOncePerRacer ==
    (tUsed.starts = 1 /\ tBar <= 2 * KeepAfter) =>
        \A b \in 1..TickBars : tFires[b] <= Cardinality(TickHandlers)

\* "Mode 2 paper grid_tick alongside Mode 1 for A/B comparison", "so both fire on same
\* bar" (scripts/start.sh): the loop is turned away only from a bar it was served on.
PaperSeesItsBar == tTurned = {}
=============================================================================
