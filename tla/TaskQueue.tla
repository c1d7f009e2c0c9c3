----------------------------- MODULE TaskQueue -----------------------------
(***************************************************************************)
(* The durable task table core_background_tasks and the operations of      *)
(* TaskQueueService on it, at the grain of one SQL statement per step:     *)
(* every await between two statements is a point where another process, or *)
(* another call of the same process, may run.                              *)
(*                                                                         *)
(* Time is relative: row[t].wait is scheduled_at - now and row[t].age is   *)
(* now - started_at, and Tick moves both.  Rows overdue by more than       *)
(* LateBound are not told apart and an age stops growing at HangTimeout.   *)
(* A column that no statement reads in a state keeps a default value.      *)
(***************************************************************************)
EXTENDS Integers, FiniteSets

CONSTANTS Procs,         \* processes that share the database file
          Tasks,         \* row ids: an enqueue call generates a fresh one
          Keys, NoKey,   \* unique_key values, and NULL
          KeyOf,         \* the unique_key of row t
          Corrupt,       \* rows whose payload_json does not parse
          Handled,       \* rows whose task_type has a registered handler
          MaxAttempts,   \* max_attempts of row t
          InitialDelay, Multiplier, MaxDelay,  \* retry policy, in ticks
          Jitter, JitterScale,   \* retry_jitter is Jitter / JitterScale
          ScheduleDelays,        \* the delays scheduledAt may ask for
          HangTimeout,   \* timeoutMs of recoverHangingTasks, in ticks
          LateBound,     \* bound: how far overdue rows are told apart
          MaxBoots,      \* bound: how many times a process is started
          NoTask         \* no enqueue call in progress

ASSUME QueueAssumption ==
  /\ IsFiniteSet(Tasks)
  /\ NoKey \notin Keys /\ KeyOf \in [Tasks -> Keys \cup {NoKey}]
  /\ Corrupt \subseteq Tasks /\ Handled \subseteq Tasks /\ NoTask \notin Tasks
  /\ MaxAttempts \in [Tasks -> Nat \ {0}]
  /\ InitialDelay \in Nat /\ Multiplier \in Nat \ {0} /\ MaxDelay \in Nat
  /\ JitterScale \in Nat \ {0} /\ Jitter \in 0..JitterScale
  /\ ScheduleDelays \subseteq Int
  /\ HangTimeout \in Nat /\ LateBound \in Nat /\ MaxBoots \in Nat

VARIABLES row,    \* the table
          up,     \* up[p]: Platform.init has completed in process p
          boots,  \* how many times a process was started
          enq     \* enq[p]: the row that process p's enqueue is about to insert

queueVars == <<row, up, boots, enq>>

-----------------------------------------------------------------------------
(* The table. *)

Active == {"PENDING", "RUNNING"}
States == Active \cup {"ABSENT", "COMPLETED", "FAILED", "CANCELLED", "DELETED"}

Row == [state : States, attempts : Nat, wait : Int, age : Nat]

Become(r, s, w) == [state |-> s, attempts |-> r.attempts, wait |-> w, age |-> 0]

\* An UPDATE of one row to state s, due in w ticks.
Update(t, s, w) == row' = [row EXCEPT ![t] = Become(@, s, w)]

\* The same UPDATE of every row in S.
UpdateAll(S, s, w) ==
  row' = [t \in Tasks |-> IF t \in S THEN Become(row[t], s, w) ELSE row[t]]

\* The other active rows with t's unique_key: what the partial unique index
\* checks an insert of t against.
Holders(t) ==
  {u \in Tasks \ {t} : /\ KeyOf[t] # NoKey /\ KeyOf[u] = KeyOf[t]
                       /\ row[u].state \in Active}

QueueInit ==
  /\ row = [t \in Tasks |-> [state |-> "ABSENT", attempts |-> 0, wait |-> 0, age |-> 0]]
  /\ up = [p \in Procs |-> FALSE]
  /\ boots = 0
  /\ enq = [p \in Procs |-> NoTask]

-----------------------------------------------------------------------------
(* enqueue: a lookup, then an insert under the partial unique index.  When *)
(* the lookup finds a holder of the key, the call returns that row and     *)
(* changes nothing; the reads that follow the insert change nothing.       *)

EnqueueLookup(p, t) ==
  /\ up[p] /\ enq[p] = NoTask
  /\ row[t].state = "ABSENT" /\ \A q \in Procs : enq[q] # t
  /\ Holders(t) = {}
  /\ enq' = [enq EXCEPT ![p] = t]
  /\ UNCHANGED <<row, up, boots>>

\* Mutant: the table has no partial unique index.
EnqueueInsertUnindexed(p) ==
  /\ enq[p] # NoTask
  /\ \E delay \in ScheduleDelays :
       Update(enq[p], "PENDING", IF delay < -LateBound THEN -LateBound ELSE delay)
  /\ enq' = [enq EXCEPT ![p] = NoTask]
  /\ UNCHANGED <<up, boots>>

EnqueueInsert(p) ==
  /\ enq[p] # NoTask
  /\ Holders(enq[p]) = {}
  /\ \E delay \in ScheduleDelays :
       Update(enq[p], "PENDING", IF delay < -LateBound THEN -LateBound ELSE delay)
  /\ enq' = [enq EXCEPT ![p] = NoTask]
  /\ UNCHANGED <<up, boots>>

\* The insert is rejected, by the index or by the database: the call returns
\* the competing row or throws.
EnqueueRejected(p) ==
  /\ enq[p] # NoTask
  /\ enq' = [enq EXCEPT ![p] = NoTask]
  /\ UNCHANGED <<row, up, boots>>

-----------------------------------------------------------------------------
(* The single-statement operations.  Those with a caller's side of their   *)
(* own (claim, complete, fail) are conjoined with it in TaskWorker.        *)

Due == {t \in Handled : row[t].state = "PENDING" /\ row[t].wait <= 0}

\* What UPDATE ... WHERE id IN (SELECT ... ORDER BY scheduled_at LIMIT limit)
\* picks: as many due rows as it may, the longest overdue first.
Claimable(limit) ==
  {S \in SUBSET Due :
     /\ Cardinality(S) = IF Cardinality(Due) < limit THEN Cardinality(Due) ELSE limit
     /\ \A t \in S, u \in Due \ S : row[t].wait <= row[u].wait}

Claim(S) ==
  row' = [t \in Tasks |->
            IF t \in S
            THEN [state |-> "RUNNING", attempts |-> row[t].attempts + 1,
                  wait |-> 0, age |-> 0]
            ELSE row[t]]

\* Mutant: markCompleted does not look at the row's state.
MarkCompletedBlindly(t) == Update(t, "COMPLETED", 0)

MarkCompleted(t) ==
  IF row[t].state = "RUNNING" THEN Update(t, "COMPLETED", 0) ELSE UNCHANGED row

\* decide: the delays the jittered, capped exponential backoff may round to
\* after attempt n, and whether there is a next attempt at all.
Backoff(n) ==
  LET raw == InitialDelay * Multiplier ^ (n - 1)
  IN  IF raw < MaxDelay THEN raw ELSE MaxDelay

RetryDelays(n) ==
  {d \in 0..(2 * MaxDelay) :
     /\ 2 * Backoff(n) * (JitterScale - Jitter) < (2 * d + 1) * JitterScale
     /\ 2 * Backoff(n) * (JitterScale + Jitter) > (2 * d - 1) * JitterScale}

Retryable(t, permanent) == ~permanent /\ row[t].attempts < MaxAttempts[t]

\* The second statement of markFailed, fenced by the attempt its first read.
StillAt(t, n) == row[t].state = "RUNNING" /\ row[t].attempts = n

Reschedule(t, n) == \E delay \in RetryDelays(n) : Update(t, "PENDING", delay)

Bury(t) == Update(t, "FAILED", 0)

Quarantine(t) ==
  IF row[t].state = "RUNNING" THEN Update(t, "FAILED", 0) ELSE UNCHANGED row

Cancel(t) ==
  /\ \E p \in Procs : up[p]
  /\ row[t].state \in Active
  /\ Update(t, "CANCELLED", 0)
  /\ UNCHANGED <<up, boots, enq>>

\* One DELETE of BackgroundTasksPruner.
Prune(S) ==
  /\ \E p \in Procs : up[p]
  /\ S # {} /\ \A t \in S : row[t].state \in {"COMPLETED", "CANCELLED"}
  /\ UpdateAll(S, "DELETED", 0)
  /\ UNCHANGED <<up, boots, enq>>

Hanging == {t \in Tasks : row[t].state = "RUNNING" /\ row[t].age >= HangTimeout}

\* Mutant: recovery gives the interrupted attempt back.
BootRefunding(p) ==
  /\ ~up[p] /\ boots < MaxBoots
  /\ row' = [t \in Tasks |->
       IF t \in Hanging
       THEN [Become(row[t], "PENDING", 0) EXCEPT !.attempts = row[t].attempts - 1]
       ELSE row[t]]
  /\ up' = [up EXCEPT ![p] = TRUE]
  /\ boots' = boots + 1
  /\ UNCHANGED enq

\* Platform.init: the only caller of recoverHangingTasks.
Boot(p) ==
  /\ ~up[p] /\ boots < MaxBoots
  /\ UpdateAll(Hanging, "PENDING", 0)
  /\ up' = [up EXCEPT ![p] = TRUE]
  /\ boots' = boots + 1
  /\ UNCHANGED enq

Tick ==
  /\ row' = [t \in Tasks |->
       CASE row[t].state = "PENDING" ->
              [row[t] EXCEPT !.wait = IF @ > -LateBound THEN @ - 1 ELSE -LateBound]
         [] row[t].state = "RUNNING" ->
              [row[t] EXCEPT !.age = IF @ < HangTimeout THEN @ + 1 ELSE HangTimeout]
         [] OTHER -> row[t]]
  /\ UNCHANGED <<up, boots, enq>>
=============================================================================
