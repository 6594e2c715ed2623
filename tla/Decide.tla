-------------------------------- MODULE Decide --------------------------------
(***************************************************************************)
(* How the server comes to new entries on one symbol: POST /decide and     *)
(* POST /decide_multi, router.dispatch with its kill switch, the hedge     *)
(* evaluation of cycle_manager, and the guards of PaperExecutor.           *)
(*                                                                         *)
(* A request filters, asks the model (seconds to minutes), and only then   *)
(* acts on what it read before; other requests, and the exits that close   *)
(* positions and book their R, go on meanwhile.  The answers of the model  *)
(* are free.                                                               *)
(*                                                                         *)
(* Bars matter only by being the latest one or not: asked says that        *)
(* _last_bar_ids holds the id of the latest bar, and a request knows       *)
(* whether the bar it started from is still the latest.                    *)
(***************************************************************************)
EXTENDS Integers, Sequences, FiniteSets

CONSTANTS
    Thread,         \* requests handled at once (bound)
    Side,           \* long, short
    Flat,           \* the decision not to trade
    Modes,          \* settings trading_mode: "grid", "buy_sell_only"
    Cooldown,       \* settings decide_filter.same_direction_cooldown
    Floor,          \* settings risk.daily.max_dd_r
    Results,        \* realized R of one close
    MaxDaily,       \* bound: the daily R saturates at +-MaxDaily
    MaxOpen,        \* bound: open positions of the symbol
    MaxLog          \* bound: decisions kept of the log, the latest ones

ASSUME DecideAssumption ==
    /\ IsFiniteSet(Thread)
    /\ Flat \notin Side
    /\ Modes \subseteq {"grid", "buy_sell_only"}
    /\ Cooldown \in Nat /\ MaxLog \in Nat /\ Cooldown <= MaxLog
    /\ Floor \in Nat \ {0}
    /\ Results \subseteq Int
    /\ MaxDaily \in Nat /\ Floor <= MaxDaily
    /\ MaxOpen \in Nat \ {0}

VARIABLES
    mode,       \* trading_mode of this process
    asked,      \* the latest bar is the one in decide_multi._last_bar_ids
    log,        \* sides of the decisions the validator passed, latest last
    open,       \* sides of the open positions, in the order of opening
    daily,      \* today's realized R
    req         \* what each request is doing

vars == <<mode, asked, log, open, daily, req>>

-----------------------------------------------------------------------------

Pc == {"idle", "asking", "gate", "guard", "open"}
Route == {"decide", "multi", "hedge"}

\* current: the bar the request started from is still the latest.
Request == [pc : Pc, via : Route, side : Side \cup {Flat}, current : BOOLEAN]
Idle == [pc |-> "idle", via |-> "decide", side |-> Flat, current |-> FALSE]

At(t, pc) == req[t].pc = pc
Becomes(t, r) == req' = [req EXCEPT ![t] = r]
Done(t) == Becomes(t, Idle)
Goto(t, pc) == Becomes(t, [req[t] EXCEPT !.pc = pc])

Halted == daily <= -Floor

\* Mutant: only an unbroken pair of the last two decisions counts.
CoolingAdjacent ==
    /\ Cooldown > 0
    /\ Len(log) >= Cooldown
    /\ \A i \in (Len(log) - Cooldown + 1)..Len(log) : log[i] # Flat /\ log[i] = log[Len(log)]

\* _same_direction_cooldown: of the last Cooldown decisions, the last two that
\* are not flat have the same side.
Cooling ==
    \E i, j \in 1..Len(log) :
        /\ Len(log) - Cooldown < i /\ i < j
        /\ log[i] # Flat /\ log[i] = log[j]
        /\ \A k \in (i + 1)..Len(log) : k # j => log[k] = Flat

-----------------------------------------------------------------------------
(* Requests.                                                               *)

\* /decide without force: no dedup by bar; session hours and the structural
\* pre-filter may skip any bar (no step), the cooldown reads the log.
StartDecide(t) ==
    /\ At(t, "idle")
    /\ ~Cooling
    /\ Becomes(t, [pc |-> "asking", via |-> "decide", side |-> Flat, current |-> TRUE])
    /\ UNCHANGED <<mode, asked, log, open, daily>>

\* /decide_multi; in grid mode it fans out to /decide instead.
StartMulti(t) ==
    /\ At(t, "idle")
    /\ mode # "grid"
    /\ ~asked
    /\ Becomes(t, [pc |-> "asking", via |-> "multi", side |-> Flat, current |-> TRUE])
    /\ UNCHANGED <<mode, asked, log, open, daily>>

\* Mutant: the side of the answer is not compared with the side asked for.
StartHedgeAnySide(t, i) ==
    /\ At(t, "idle")
    /\ \E s \in (Side \cup {Flat}) \ {open[i]} :
          Becomes(t, [pc |-> "asking", via |-> "hedge", side |-> s, current |-> TRUE])
    /\ UNCHANGED <<mode, asked, log, open, daily>>

\* _trigger_hedge_eval for the i-th open position asks for the other side.
StartHedge(t, i) ==
    /\ At(t, "idle")
    /\ \E s \in Side \ {open[i]} :
          Becomes(t, [pc |-> "asking", via |-> "hedge", side |-> s, current |-> TRUE])
    /\ UNCHANGED <<mode, asked, log, open, daily>>

\* The call raises or times out, or a single answer lacks confidence.
NoAnswer(t) ==
    /\ At(t, "asking")
    /\ Done(t)
    /\ UNCHANGED <<mode, asked, log, open, daily>>

\* _last_bar_ids is set when the answer is there, to the bar asked about.
Mark(t) == asked' = IF req[t].via = "multi" THEN req[t].current ELSE asked

\* The validator refuses, or the answer of a joint call leaves the symbol out:
\* no decision that counts.
Rejected(t) ==
    /\ At(t, "asking")
    /\ req[t].via # "hedge"
    /\ Mark(t)
    /\ Done(t)
    /\ UNCHANGED <<mode, log, open, daily>>

\* log_decision.  Bound: MaxLog decisions are kept.
Logged(s) ==
    LET longer == Append(log, s)
    IN  log' = IF Len(longer) > MaxLog THEN Tail(longer) ELSE longer

\* A valid decision: flat ends the request, a grid goes straight to
\* dispatch_grid, the rest through dispatch.
Answer(t, s) ==
    /\ At(t, "asking")
    /\ req[t].via # "hedge"
    /\ Logged(s)
    /\ Mark(t)
    /\ Becomes(t, IF s = Flat THEN Idle
                  ELSE [req[t] EXCEPT !.side = s,
                                      !.pc = IF mode = "grid" THEN "guard" ELSE "gate"])
    /\ UNCHANGED <<mode, open, daily>>

\* _fire_hedge_grid calls dispatch_grid too; nothing is logged.
HedgeConfirmed(t) ==
    /\ At(t, "asking")
    /\ req[t].via = "hedge"
    /\ Goto(t, "guard")
    /\ UNCHANGED <<mode, asked, log, open, daily>>

-----------------------------------------------------------------------------
(* dispatch and submit_grid.                                               *)

\* Mutant: the floor itself does not halt.
GateStrict(t) ==
    /\ At(t, "gate")
    /\ \/ daily >= -Floor /\ Goto(t, "guard")
       \/ Done(t)
    /\ UNCHANGED <<mode, asked, log, open, daily>>

\* Kill switch; then the regime gate, the same-direction guard (which a
\* decision with add_to_existing skips) and the vetoes may refuse as well.
Gate(t) ==
    /\ At(t, "gate")
    /\ \/ ~Halted /\ Goto(t, "guard")
       \/ Done(t)
    /\ UNCHANGED <<mode, asked, log, open, daily>>

\* submit_grid looks at the oldest position; a degenerate target is refused.
Guard(t) ==
    /\ At(t, "guard")
    /\ \/ /\ open # <<>> => Head(open) # req[t].side
          /\ Goto(t, "open")
       \/ Done(t)
    /\ UNCHANGED <<mode, asked, log, open, daily>>

\* Bound: no more than MaxOpen positions.
Open(t) ==
    /\ At(t, "open")
    /\ open' = IF Len(open) < MaxOpen THEN Append(open, req[t].side) ELSE open
    /\ Done(t)
    /\ UNCHANGED <<mode, asked, log, daily>>

-----------------------------------------------------------------------------
(* What goes on meanwhile.                                                 *)

NewBar ==
    /\ asked' = FALSE
    /\ req' = [t \in Thread |-> [req[t] EXCEPT !.current = FALSE]]
    /\ UNCHANGED <<mode, log, open, daily>>

\* Bound: the daily R saturates.
Book(r) ==
    daily' = IF daily + r > MaxDaily THEN MaxDaily
             ELSE IF daily + r < -MaxDaily THEN -MaxDaily ELSE daily + r

\* Any exit: the i-th open position is closed and its R booked.
Close(i) ==
    /\ open' = [j \in 1..(Len(open) - 1) |-> IF j < i THEN open[j] ELSE open[j + 1]]
    /\ \E r \in Results : Book(r)
    /\ UNCHANGED <<mode, asked, log, req>>

Midnight ==
    /\ daily' = 0
    /\ UNCHANGED <<mode, asked, log, open, req>>

\* Requests and _last_bar_ids are gone; log, positions and daily R are files.
Restart ==
    /\ asked' = FALSE
    /\ req' = [t \in Thread |-> Idle]
    /\ UNCHANGED <<mode, log, open, daily>>

Init ==
    /\ mode \in Modes
    /\ asked = FALSE
    /\ log = <<>>
    /\ open = <<>>
    /\ daily = 0
    /\ req = [t \in Thread |-> Idle]

Start(t) ==
    \/ StartDecide(t) \/ StartMulti(t)
    \/ \E i \in 1..Len(open) : StartHedge(t, i)

Serve(t) ==
    \/ NoAnswer(t) \/ Rejected(t) \/ HedgeConfirmed(t)
    \/ \E s \in Side \cup {Flat} : Answer(t, s)
    \/ Gate(t) \/ Guard(t) \/ Open(t)

Next ==
    \/ \E t \in Thread : Start(t) \/ Serve(t)
    \/ \E i \in 1..Len(open) : Close(i)
    \/ NewBar
    \/ Midnight
    \/ Restart

Spec == Init /\ [][Next]_vars

\* The loops of scripts/start.sh post a request every few minutes and wait for
\* its answer; the model call has a timeout, so a request is served.  The
\* model has its say again and again: SF on a flat or opposite answer.
Fairness ==
    \A t \in Thread :
        /\ WF_vars(StartDecide(t))
        /\ WF_vars(Serve(t))
        /\ \A s \in Side \cup {Flat} : SF_vars(Answer(t, s))

FairSpec == Spec /\ Fairness

-----------------------------------------------------------------------------
(* Properties.                                                             *)

TypeOK ==
    /\ mode \in Modes
    /\ asked \in BOOLEAN
    /\ log \in Seq(Side \cup {Flat}) /\ Len(log) <= MaxLog
    /\ open \in Seq(Side) /\ Len(open) <= MaxOpen
    /\ daily \in -MaxDaily..MaxDaily
    /\ req \in [Thread -> Request]

\* In grid mode the cooldown is checked before the model is asked and the
\* decision logged after: still, requests that overlap add no more than one
\* decision each to a run of one side ("prevents repeated entries",
\* decide.py:65), so a run is never longer than one plus the requests.
RunsAreShort ==
    mode = "grid" =>
        ~ \E i \in 1..Len(log) :
              /\ i + Cardinality(Thread) + 1 <= Len(log)
              /\ \A j \in i..(i + Cardinality(Thread) + 1) : log[j] = log[i] /\ log[j] # Flat

\* Requests that may still open a position.
Entering == { t \in Thread : req[t].pc \in {"guard", "open"} }
Dispatched == { t \in Entering : req[t].via # "hedge" }

\* Below the daily floor dispatch admits nobody: the positions that still open
\* come from requests that were past it when the loss was booked, or from
\* hedges, however requests, exits and midnight interleave.
HaltAdmitsNobody ==
    [][mode # "grid" /\ Halted => Dispatched' \subseteq Dispatched]_vars

\* "Halts ALL new entries if today's realized R drops below daily_loss_floor"
\* (router.py:261): below the floor no request gets to the executor.
HaltsAllEntries == [][Halted => Entering' \subseteq Entering]_vars

\* "wait for reversal or flat" (decide.py:93): a cooldown comes to an end.
CooldownEnds == Cooling ~> ~Cooling

=============================================================================
