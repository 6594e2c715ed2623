--------------------------- MODULE PositionLedger ---------------------------
(***************************************************************************)
(* What the position store promises its callers: the daily R is a ledger.  *)
(* A position is opened once, banks at most one partial result while open, *)
(* is settled once, and each of those results is credited to the day it is *)
(* booked on.  Nothing else moves the ledger.                              *)
(***************************************************************************)
EXTENDS Integers

CONSTANTS Pid, RVal, Day

VARIABLES book, partial, daily, today

vars == <<book, partial, daily, today>>

Init ==
    /\ book = [p \in Pid |-> "none"]
    /\ partial = {}
    /\ daily = [d \in Day |-> 0]
    /\ today = 0

OpenEntry(p) ==
    /\ book[p] = "none"
    /\ book' = [book EXCEPT ![p] = "open"]
    /\ UNCHANGED <<partial, daily, today>>

Credit(r) == daily' = [daily EXCEPT ![today] = @ + r]

BankPartial(p, r) ==
    /\ book[p] = "open"
    /\ p \notin partial
    /\ partial' = partial \cup {p}
    /\ Credit(r)
    /\ UNCHANGED <<book, today>>

Settle(p, r) ==
    /\ book[p] = "open"
    /\ book' = [book EXCEPT ![p] = "settled"]
    /\ Credit(r)
    /\ UNCHANGED <<partial, today>>

NextDay ==
    /\ today + 1 \in Day
    /\ today' = today + 1
    /\ UNCHANGED <<book, partial, daily>>

\* An invalidation settles at -1R, whatever R values closes produce.
Next ==
    \/ \E p \in Pid :
          \/ OpenEntry(p)
          \/ \E r \in RVal : BankPartial(p, r)
          \/ \E r \in RVal \cup {-1} : Settle(p, r)
    \/ NextDay

Spec == Init /\ [][Next]_vars

=============================================================================
