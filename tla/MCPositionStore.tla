--------------------------- MODULE MCPositionStore ---------------------------
(* The position store's books, summed over its positions and its days.       *)
EXTENDS PositionStore, FiniteSetsExt

Total(f, S) == MapThenSumSet(LAMBDA x : f[x], S)

\* The books balance: the R credited to the days is the R recorded on the
\* positions.  strategies/manager._record_equity sums the latter, the kill
\* switch reads the former; "realized_r added to cycle + daily R" (line 286).
BooksBalance ==
    Total(disk.daily, Day) =
        Total([p \in Pid |-> disk.pos[p].r], Pid)

=============================================================================
