---------------------------- MODULE MCTaskWorker ----------------------------
(* Constants of TaskWorker for TLC. *)
EXTENDS TaskWorker, TLC

CONSTANTS k1, t1, t2, t3, p1, p2

\* Both rows ask for the same unique_key.
SameKey == [t \in Tasks |-> k1]
TwoAttempts == [t \in Tasks |-> 2]
FirstRetries == [t \in Tasks |-> IF t = t1 THEN 2 ELSE 1]
OneAttempt == [t \in Tasks |-> 1]
NoKeys == [t \in Tasks |-> NoKey]
OnTime == {0}

\* Processes are interchangeable, and so are chains; rows are not when one of
\* them is corrupt.
Symmetric == Permutations(Procs)
=============================================================================
