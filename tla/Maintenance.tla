---------------------------- MODULE Maintenance ----------------------------
(***************************************************************************)
(* MaintenanceOrchestrator: a run fixes a cutoff for each pruning handler, *)
(* then lets the handlers delete in batches, one after the other.  Runs    *)
(* overlap, rows become prunable meanwhile, handlers fail and runs are     *)
(* aborted by the worker that executes them.                               *)
(***************************************************************************)
EXTENDS Integers, Sequences, FiniteSets, FiniteSetsExt

CONSTANTS Handlers,       \* the registry's handlers in order
          TableRows,      \* rows there may be, numbered
          TableOf,        \* [TableRows -> handlers]
          Runs,           \* calls of pruneAll that may be made
          Retentions,     \* retention periods that may be configured
          Unrepresentable,\* those whose cutoff is not a date
          BatchSize,
          LastDay         \* bound on time

ASSUME MaintenanceAssumption ==
    /\ BatchSize \in Nat \ {0} /\ Len(Handlers) \in Nat /\ IsFiniteSet(TableRows)
    /\ Retentions \subseteq Int /\ Unrepresentable \subseteq Retentions

VARIABLES day,
          table,     \* [rows present -> the day of finished ones, or -1]
          retention, \* [handlers -> retention days in effect]
          runs       \* [Runs -> [pc, handler, cutoffs, failed, aborted, due]]

maintenanceVars == <<day, table, retention, runs>>

Unfinished == -1
NoRun == [pc |-> "idle", at |-> 1, cutoffs |-> <<>>, failed |-> FALSE, aborted |-> FALSE,
          due |-> {}]

MaintenanceInit ==
    /\ day = 0
    /\ table = [r \in TableRows |-> Unfinished]
    /\ retention \in [1 .. Len(Handlers) -> Retentions]
    /\ runs = [m \in Runs |-> NoRun]

\* A row is sent, applied, completed, replicated: it is prunable one day.  A
\* row without that time bears the day it was created.
Finish(r, date) ==
    /\ r \in DOMAIN table /\ table[r] = Unfinished
    /\ table' = [table EXCEPT ![r] = date]
    /\ UNCHANGED <<day, retention, runs>>

DayPasses ==
    /\ day < LastDay /\ day' = day + 1
    /\ UNCHANGED <<table, retention, runs>>

\* setRetentionOverride
SetRetentionOverride(h, days) ==
    /\ retention' = [retention EXCEPT ![h] = days]
    /\ UNCHANGED <<day, table, runs>>

EligibleFor(h, cutoff) ==
    {r \in DOMAIN table : TableOf[r] = Handlers[h] /\ table[r] /= Unfinished /\ table[r] <= cutoff}

\* pruneAll: every cutoff is computed before the first row is deleted; one that
\* is no date makes it throw.
Plan(m) ==
    LET cutoffs == [h \in DOMAIN retention |-> day - retention[h]] IN
    /\ runs[m].pc = "idle"
    /\ \A h \in DOMAIN retention : retention[h] \notin Unrepresentable
    /\ runs' = [runs EXCEPT ![m] =
          [NoRun EXCEPT !.pc = "next", !.cutoffs = cutoffs,
                        !.due = UNION {EligibleFor(h, cutoffs[h]) : h \in DOMAIN retention}]]
    /\ UNCHANGED <<day, table, retention>>

\* The signal of the task's execution.
AbortRun(m) ==
    /\ runs[m].pc \in {"next", "prune", "report"}
    /\ ~runs[m].aborted
    /\ runs' = [runs EXCEPT ![m].aborted = TRUE]
    /\ UNCHANGED <<day, table, retention>>

\* The next handler, or the end of the sequence.
NextHandler(m) ==
    /\ runs[m].pc = "next"
    /\ runs' = [runs EXCEPT ![m].pc =
          IF runs[m].at > Len(Handlers) \/ runs[m].aborted THEN "report" ELSE "prune"]
    /\ UNCHANGED <<day, table, retention>>

\* (Done as soon as a batch does not exceed the limit.)
DoneWithinBatch(affected) == affected <= BatchSize

\* A batch that is not full was the last one.
LastBatch(affected) == affected < BatchSize

\* One DELETE ... LIMIT of the handler's prune loop.
PruneBatch(m) ==
    LET run == runs[m]
        eligible == EligibleFor(run.at, run.cutoffs[run.at])
        limit == IF Cardinality(eligible) < BatchSize THEN Cardinality(eligible) ELSE BatchSize
    IN  /\ run.pc = "prune" /\ ~run.aborted
        /\ \E batch \in kSubset(limit, eligible) :
              table' = [r \in DOMAIN table \ batch |-> table[r]]
        /\ runs' = [runs EXCEPT ![m] =
              IF LastBatch(limit) THEN [run EXCEPT !.pc = "next", !.at = @ + 1] ELSE run]
        /\ UNCHANGED <<day, retention>>

\* Its loop ends at the abort.
HandlerStops(m) ==
    /\ runs[m].pc = "prune" /\ runs[m].aborted
    /\ runs' = [runs EXCEPT ![m].pc = "next", ![m].at = @ + 1]
    /\ UNCHANGED <<day, table, retention>>

\* A handler that throws leaves what it deleted; the others follow.
HandlerFails(m) ==
    /\ runs[m].pc = "prune"
    /\ runs' = [runs EXCEPT ![m].pc = "next", ![m].at = @ + 1, ![m].failed = TRUE]
    /\ UNCHANGED <<day, table, retention>>

\* The report, after a VACUUM that changes no row.  StorageMaintenanceWorker's
\* handle throws if it is no success, so that the task is tried again.
Report(m) ==
    /\ runs[m].pc = "report"
    /\ runs' = [runs EXCEPT ![m] =
          [NoRun EXCEPT !.pc = IF runs[m].aborted \/ runs[m].failed THEN "failed" ELSE "succeeded",
                        !.due = IF runs[m].aborted \/ runs[m].failed THEN {} ELSE runs[m].due]]
    /\ UNCHANGED <<day, table, retention>>

MaintenanceNext ==
    \/ DayPasses
    \/ \E r \in TableRows, date \in 0 .. day : Finish(r, date)
    \/ \E h \in 1 .. Len(Handlers), days \in Retentions : SetRetentionOverride(h, days)
    \/ \E m \in Runs :
        \/ Plan(m) \/ AbortRun(m) \/ NextHandler(m) \/ PruneBatch(m)
        \/ HandlerStops(m) \/ HandlerFails(m) \/ Report(m)

MaintenanceSpec == MaintenanceInit /\ [][MaintenanceNext]_maintenanceVars

----------------------------------------------------------------------------
\* A run that reports success has pruned every row that was prunable when it
\* was planned, by itself or by a run beside it, whatever was finished or
\* configured meanwhile: an abort, a failure or a full batch is never taken for
\* the end of the work.
SuccessMeansPruned ==
    \A m \in Runs : runs[m].pc = "succeeded" => runs[m].due \cap DOMAIN table = {}
============================================================================
