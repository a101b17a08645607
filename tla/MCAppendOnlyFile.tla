--------------------------- MODULE MCAppendOnlyFile ---------------------------
(* Instances of AppendOnlyFile for TLC.                                       *)
EXTENDS AppendOnlyFile

\* Two ways of spending the bounds: two commands and two faults, or three
\* commands and no fault (faults is beyond its bound from the start).
InitBudgets == InitWith(1, 0) \/ InitWith(0, MaxFaults + 1)

SpecBudgets == InitBudgets /\ [][Next]_vars /\ Fairness

\* BGREWRITEAOF while the AOF is off only where nothing fails.  (The code has
\* no such restriction: a fork that fails in startAppendOnly leaves a file open
\* which such a rewrite takes for the one being written.)
OffRewriteFaultFree ==
    \/ faults > MaxFaults
    \/ ~Off(aof) \/ ~Off(aof')
    \/ /\ HasAofChild(aof) = HasAofChild(aof')
       /\ aof.aof_rewrite_scheduled = aof'.aof_rewrite_scheduled
=============================================================================
