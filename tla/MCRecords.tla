------------------------------ MODULE MCRecords ------------------------------
(***************************************************************************)
(* The records on disk: the position store, one object on its file; the    *)
(* programs that judge closed trades and rewrite the files afterwards; and *)
(* the scripts that add and rebuild the bars beside the server.  The parts *)
(* share no state, so a behaviour is a behaviour of one of them.           *)
(***************************************************************************)
EXTENDS PositionStore, OutcomeAudit, History

VARIABLE part
recordVars == <<part, vars, auditVars, historyVars>>

RecordsInit ==
    /\ part \in {"store", "audit", "history"} /\ Init /\ AuditInit /\ HistoryInit
    /\ part # "history" => feed = CHOOSE trades \in Feeds : TRUE
RecordsNext ==
    \/ part = "store" /\ UNCHANGED <<part, auditVars, historyVars>> /\ Next
    \/ part = "audit" /\ UNCHANGED <<part, vars, historyVars>> /\ AuditNext
    \/ part = "history" /\ UNCHANGED <<part, vars, auditVars>> /\ HistoryNext
RecordsSpec == RecordsInit /\ [][RecordsNext]_recordVars

filesOfAudit == <<minutes, ledger, cycles>>
\* Closed trades judged afterwards (OutcomeAudit): a rewrite keeps every event and ends with
\* both files agreeing; what the server closed at its stop or target is found there, no trade
\* goes less far than it booked, and a fill at the price of its venue is no phantom.  Bars
\* added and rebuilt by the scripts (History): one bar a minute, live, rebuilt and backfilled
\* ones with all the trades of their minute, the rows outside a rebuild kept, and 15m bars
\* that are those of their trades.
RecordsSound ==
    [][/\ part = "audit" =>
            /\ EventsKept /\ RunsAgree
            /\ filesOfAudit' # filesOfAudit =>
                  ExitConfirmed' /\ ExcursionsBound' /\ NoVenuePhantom'
       /\ part = "history" =>
            /\ LiveBarsWhole /\ BackfilledWhole /\ RestStands
            /\ bars' # bars => OneBarAMinute' /\ RebuiltWhole' /\ QuartersWhole']_recordVars

-----------------------------------------------------------------------------
(* Small instances *)
AuditPrices == {[h |-> 12, l |-> 9, c |-> 11], [h |-> 16, l |-> 5, c |-> 13]}
AuditSides == [id \in Trades |-> IF id = "p" THEN "long" ELSE "short"]

A(t, p, size, buy) == [t |-> t, p |-> p, size |-> size, buy |-> buy]
\* Trades within the minutes, two of them at one time; and trades on the minutes.
TwoFeeds ==
    {<<A(1, 2, 3, TRUE), A(3, 6, 1, FALSE), A(3, 5, 2, TRUE), A(5, 4, 1, FALSE),
       A(9, 5, 1, TRUE)>>,
     <<A(1, 2, 1, TRUE), A(2, 4, 2, FALSE), A(3, 6, 2, TRUE), A(4, 5, 1, TRUE),
       A(5, 7, 3, FALSE), A(9, 5, 1, TRUE)>>}
=============================================================================
