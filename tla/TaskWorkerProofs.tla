-------------------------- MODULE TaskWorkerProofs --------------------------
(***************************************************************************)
(* Proofs about TaskWorker: for every number of processes, rows, keys and  *)
(* chains, every retry policy and every bound.                             *)
(***************************************************************************)
EXTENDS TaskWorker, FiniteSetTheorems, TLAPS

USE QueueAssumption, WorkerAssumption

-----------------------------------------------------------------------------
(* The types. *)

\* The updates of the table keep its type.
LEMMA UpdateType ==
  ASSUME row \in [Tasks -> Row], NEW t \in Tasks, NEW s \in States, NEW w \in Int,
         Update(t, s, w)
  PROVE  row' \in [Tasks -> Row]
BY DEF Update, Become, Row

LEMMA UpdateAllType ==
  ASSUME row \in [Tasks -> Row], NEW S \in SUBSET Tasks, NEW s \in States, NEW w \in Int,
         UpdateAll(S, s, w)
  PROVE  row' \in [Tasks -> Row]
BY DEF UpdateAll, Become, Row

\* The number of executions in flight is a natural number.
LEMMA InFlightCount ==
  ASSUME NEW p \in Procs
  PROVE  Cardinality(InFlight(p)) \in Nat
<1>1. IsFiniteSet(InFlight(p))
  BY FS_Subset DEF InFlight
<1>2. QED
  BY <1>1, FS_CardinalityType

\* The initial state has its type.
LEMMA InitType == Init => TypeOK
BY DEF Init, QueueInit, TypeOK, Row, States, Active, Chain, ChainPc, Off, Execution,
       ExecPc, NoExec, Stopping, NoStop, NothingClaimed

\* A step on the table alone keeps the types.
LEMMA QueueStepType == TypeOK /\ QueueStep => TypeOK'
<1> SUFFICES ASSUME TypeOK, QueueStep PROVE TypeOK'
  OBVIOUS
<1> /\ row \in [Tasks -> Row] /\ boots \in Nat /\ MaxBoots \in Nat
    /\ "PENDING" \in States /\ "CANCELLED" \in States /\ "DELETED" \in States
    /\ "RUNNING" \in States
  BY DEF TypeOK, States, Active
<1> Outside
  BY DEF QueueStep
<1> SUFFICES /\ row' \in [Tasks -> Row]
             /\ up' \in [Procs -> BOOLEAN] /\ boots' \in 0..MaxBoots
             /\ enq' \in [Procs -> Tasks \cup {NoTask}]
  BY DEF TypeOK, Outside, workerVars
<1>1. CASE \E p \in Procs : EnqueueInsert(p)
  <2>1. PICK p \in Procs : EnqueueInsert(p)
    BY <1>1
  <2>2. enq[p] \in Tasks
    BY <2>1 DEF EnqueueInsert, TypeOK
  <2>3. PICK delay \in ScheduleDelays :
          Update(enq[p], "PENDING", IF delay < -LateBound THEN -LateBound ELSE delay)
    BY <2>1 DEF EnqueueInsert
  <2>4. (IF delay < -LateBound THEN -LateBound ELSE delay) \in Int
    OBVIOUS
  <2>5. row' \in [Tasks -> Row]
    BY <2>2, <2>3, <2>4, UpdateType
  <2>6. QED
    BY <2>1, <2>5 DEF EnqueueInsert, TypeOK
<1>2. CASE \E p \in Procs : EnqueueRejected(p)
  BY <1>2 DEF EnqueueRejected, TypeOK
<1>3. CASE \E p \in Procs : Boot(p)
  <2>1. PICK p \in Procs : Boot(p)
    BY <1>3
  <2>2. row' \in [Tasks -> Row]
    <3>1. Hanging \in SUBSET Tasks
      BY DEF Hanging
    <3>2. QED
      BY <2>1, <3>1, UpdateAllType DEF Boot
  <2>3. boots' \in 0..MaxBoots
    BY <2>1 DEF Boot, TypeOK
  <2>4. QED
    BY <2>1, <2>2, <2>3 DEF Boot, TypeOK
<1>4. CASE \E p \in Procs, t \in Tasks : EnqueueLookup(p, t)
  BY <1>4 DEF EnqueueLookup, TypeOK
<1>5. CASE \E t \in Tasks : Cancel(t)
  BY <1>5, UpdateType DEF Cancel, TypeOK
<1>6. CASE \E S \in SUBSET Tasks : Prune(S)
  <2>1. PICK S \in SUBSET Tasks : Prune(S)
    BY <1>6
  <2>2. row' \in [Tasks -> Row]
    BY <2>1, UpdateAllType DEF Prune
  <2>3. QED
    BY <2>1, <2>2 DEF Prune, TypeOK
<1>7. CASE Tick
  <2>1. row' \in [Tasks -> Row]
    BY <1>7 DEF Tick, Row
  <2>2. QED
    BY <1>7, <2>1 DEF Tick, TypeOK
<1>8. QED
  BY <1>1, <1>2, <1>3, <1>4, <1>5, <1>6, <1>7 DEF QueueStep

\* Each part of a worker's state keeps its type when it is assigned.
LEMMA SetExecType ==
  ASSUME exec \in [Procs -> [Tasks -> Execution]],
         NEW p \in Procs, NEW t \in Tasks, NEW e \in Execution, SetExec(p, t, e)
  PROVE  exec' \in [Procs -> [Tasks -> Execution]]
BY DEF SetExec

LEMMA GoToType ==
  ASSUME exec \in [Procs -> [Tasks -> Execution]],
         NEW p \in Procs, NEW t \in Tasks, NEW pc \in ExecPc, GoTo(p, t, pc)
  PROVE  exec' \in [Procs -> [Tasks -> Execution]]
<1>1. [exec[p][t] EXCEPT !.pc = pc] \in Execution
  BY DEF Execution
<1>2. QED
  BY <1>1, SetExecType DEF GoTo

LEMMA EndPollType ==
  ASSUME TypeOK, NEW p \in Procs, NEW c \in Chains, EndPoll(p, c)
  PROVE  /\ chain' \in [Procs -> [Chains -> Chain]]
         /\ claimed' \in [Procs -> [Chains -> [Tasks -> Nat]]]
         /\ pollTimer' \in [Procs -> Chains \cup {NoChain}]
         /\ polling' \in [Procs -> Chains \cup {NoChain}]
         /\ stopping' \in [Procs -> Stopping]
<1>1. Off \in Chain /\ Waiting \in Chain /\ NothingClaimed \in [Tasks -> Nat]
  BY DEF Chain, ChainPc, Off, Waiting, NothingClaimed
<1>2. stopping[p] \in Stopping
  BY DEF TypeOK
<1>3. \A poll \in Chains \cup {NoChain} : [stopping[p] EXCEPT !.poll = poll] \in Stopping
  BY <1>2 DEF Stopping
<1>4. (IF stopping[p].poll = c THEN NoChain ELSE stopping[p].poll) \in Chains \cup {NoChain}
  BY <1>2 DEF Stopping
<1>5. stopping' \in [Procs -> Stopping]
  BY <1>3, <1>4 DEF TypeOK, EndPoll
<1>6. QED
  BY <1>1, <1>5 DEF TypeOK, EndPoll

\* A step of the poll loop keeps the types.
LEMMA PollStepType ==
  ASSUME TypeOK, NEW p \in Procs, NEW c \in Chains, PollStep(p, c)
  PROVE  TypeOK'
<1> Off \in Chain
  BY DEF Chain, ChainPc, Off
<1> USE DEF TypeOK
<1>1. CASE PollIdle(p, c) /\ running[p]
  BY <1>1 DEF PollIdle, Chain, ChainPc, Waiting
<1>2. CASE PollIdle(p, c) /\ ~running[p]
  BY <1>2 DEF PollIdle
<1>3. CASE PollStart(p, c)
  <2>1. Concurrency - Cardinality(InFlight(p)) \in Nat
    BY <1>3, InFlightCount DEF PollStart
  <2>2. [pc |-> "claiming", limit |-> Concurrency - Cardinality(InFlight(p))] \in Chain
    BY <2>1 DEF Chain, ChainPc
  <2>3. QED
    BY <1>3, <2>2 DEF PollStart
<1>4. CASE PollClaim(p, c)
  <2>1. PICK S \in Claimable(chain[p][c].limit) :
          /\ Claim(S)
          /\ claimed' = [claimed EXCEPT ![p][c] =
               [t \in Tasks |-> IF t \in S THEN row[t].attempts + 1 ELSE 0]]
    BY <1>4 DEF PollClaim
  <2>2. \A t \in Tasks : row[t].attempts + 1 \in Nat
    BY DEF Row
  <2>3. row' \in [Tasks -> Row]
    BY <2>1, <2>2 DEF Claim, Row, States, Active
  <2>4. [t \in Tasks |-> IF t \in S THEN row[t].attempts + 1 ELSE 0] \in [Tasks -> Nat]
    BY <2>2
  <2>5. claimed' \in [Procs -> [Chains -> [Tasks -> Nat]]]
    BY <2>1, <2>4
  <2>6. [pc |-> "claimed", limit |-> 0] \in Chain
    BY DEF Chain, ChainPc
  <2>7. QED
    BY <1>4, <2>3, <2>5, <2>6 DEF PollClaim
<1>5. CASE PollDispatch(p, c)
  <2>1. \A t \in Tasks :
          [pc |-> "handler", attempt |-> claimed[p][c][t], permanent |-> FALSE,
           read |-> 0] \in Execution
    BY DEF Execution, ExecPc
  <2>2. exec' \in [Procs -> [Tasks -> Execution]]
    BY <1>5, <2>1 DEF PollDispatch
  <2>3. QED
    BY <1>5, <2>2, EndPollType DEF PollDispatch
<1>6. CASE PollFails(p, c)
  BY <1>6, EndPollType DEF PollFails
<1>7. CASE \E t \in Tasks : PollQuarantine(p, c, t)
  <2>1. PICK t \in Tasks : PollQuarantine(p, c, t)
    BY <1>7
  <2>2. row' \in [Tasks -> Row]
    BY <2>1, UpdateType DEF PollQuarantine, Quarantine, States, Active
  <2>3. claimed' \in [Procs -> [Chains -> [Tasks -> Nat]]]
    BY <2>1 DEF PollQuarantine
  <2>4. QED
    BY <2>1, <2>2, <2>3 DEF PollQuarantine
<1>8. QED
  BY <1>1, <1>2, <1>3, <1>4, <1>5, <1>6, <1>7 DEF PollStep

\* A step of an execution keeps the types.
LEMMA ExecStepType ==
  ASSUME TypeOK, NEW p \in Procs, NEW t \in Tasks, ExecStep(p, t)
  PROVE  TypeOK'
<1> /\ "overdue" \in ExecPc /\ "completing" \in ExecPc /\ "failing" \in ExecPc
    /\ "rescheduling" \in ExecPc /\ "burying" \in ExecPc /\ "alerting" \in ExecPc
    /\ "settled" \in ExecPc
  BY DEF ExecPc
<1> NoExec \in Execution
  BY DEF NoExec, Execution, ExecPc
<1> exec[p][t] \in Execution
  BY DEF TypeOK
<1> USE DEF TypeOK, OnlyExec
<1>1. CASE AbortFires(p, t)
  BY <1>1, GoToType DEF AbortFires
<1>2. CASE HandlerReturns(p, t)
  <2>1. exec' \in [Procs -> [Tasks -> Execution]]
    BY <1>2, GoToType DEF HandlerReturns
  <2>2. evidence[t] \cup {"returned"} \in SUBSET Shown
    BY DEF Shown
  <2>3. evidence' \in [Tasks -> SUBSET Shown]
    BY <1>2, <2>2 DEF HandlerReturns
  <2>4. QED
    BY <1>2, <2>1, <2>3 DEF HandlerReturns
<1>3. CASE HandlerThrows(p, t)
  <2>1. \A permanent \in BOOLEAN :
          [exec[p][t] EXCEPT !.pc = "failing", !.permanent = permanent] \in Execution
    BY DEF Execution
  <2>2. exec' \in [Procs -> [Tasks -> Execution]]
    BY <1>3, <2>1, SetExecType DEF HandlerThrows
  <2>3. evidence' \in [Tasks -> SUBSET Shown]
    BY <1>3 DEF HandlerThrows, Shown
  <2>4. QED
    BY <1>3, <2>2, <2>3 DEF HandlerThrows
<1>4. CASE Complete(p, t)
  <2>1. row' \in [Tasks -> Row]
    BY <1>4, UpdateType DEF Complete, MarkCompleted, States, Active
  <2>2. QED
    BY <1>4, <2>1, GoToType DEF Complete
<1>5. CASE CompleteFails(p, t)
  <2>1. [exec[p][t] EXCEPT !.pc = "failing", !.permanent = TRUE] \in Execution
    BY DEF Execution
  <2>2. exec' \in [Procs -> [Tasks -> Execution]]
    BY <1>5, <2>1, SetExecType DEF CompleteFails
  <2>3. evidence' \in [Tasks -> SUBSET Shown]
    BY <1>5 DEF CompleteFails, Shown
  <2>4. QED
    BY <1>5, <2>2, <2>3 DEF CompleteFails
<1>6. CASE FailRead(p, t)
  <2>1. row[t].attempts \in Nat
    BY DEF Row
  <2>2. \A pc \in ExecPc :
          [exec[p][t] EXCEPT !.pc = pc, !.read = row[t].attempts] \in Execution
    BY <2>1 DEF Execution
  <2>3. exec' \in [Procs -> [Tasks -> Execution]]
    BY <1>6, <2>2, GoToType, SetExecType DEF FailRead
  <2>4. QED
    BY <1>6, <2>3 DEF FailRead
<1>7. CASE FailWrite(p, t)
  <2>1. RetryDelays(exec[p][t].read) \subseteq Int
    BY DEF RetryDelays
  <2>2. row' \in [Tasks -> Row]
    BY <1>7, <2>1, UpdateType DEF FailWrite, Reschedule, Bury, States, Active
  <2>3. exec' \in [Procs -> [Tasks -> Execution]]
    BY <1>7, GoToType DEF FailWrite
  <2>4. QED
    BY <1>7, <2>2, <2>3 DEF FailWrite
<1>8. ASSUME Remove(p, t) PROVE TypeOK'
  <2>1. [stopping[p] EXCEPT !.wait = @ \ {t}] \in Stopping
    <3>1. stopping[p] \in Stopping
      OBVIOUS
    <3>2. stopping[p].wait \ {t} \in SUBSET Tasks
      BY <3>1 DEF Stopping
    <3>3. \A W \in SUBSET Tasks : [stopping[p] EXCEPT !.wait = W] \in Stopping
      BY <3>1 DEF Stopping
    <3>4. QED
      BY <3>2, <3>3
  <2>2. exec' \in [Procs -> [Tasks -> Execution]]
    BY <1>8, SetExecType DEF Remove
  <2>3. stopping' \in [Procs -> Stopping]
    BY <1>8, <2>1 DEF Remove
  <2>4. QED
    BY <1>8, <2>2, <2>3 DEF Remove
<1>9. QED
  BY <1>1, <1>2, <1>3, <1>4, <1>5, <1>6, <1>7, <1>8 DEF ExecStep, Settle, FailFails

\* A start, a stop or a crash keeps the types.
LEMMA LifecycleStepType ==
  ASSUME TypeOK, NEW p \in Procs,
         Start(p) \/ Stop(p) \/ StopSnapshot(p) \/ StopResolve(p) \/ Crash(p)
  PROVE  TypeOK'
<1> /\ Off \in Chain /\ Waiting \in Chain /\ NoExec \in Execution
    /\ NothingClaimed \in [Tasks -> Nat] /\ NoStop \in Stopping
  BY DEF Chain, ChainPc, Off, Waiting, NoExec, Execution, ExecPc, NothingClaimed,
         NoStop, Stopping
<1> USE DEF TypeOK
<1>1. CASE Start(p)
  BY <1>1 DEF Start
<1>2. CASE Stop(p)
  <2>1. [pc |-> "poll", poll |-> polling[p], wait |-> {}] \in Stopping
    BY DEF Stopping
  <2>2. QED
    BY <1>2, <2>1 DEF Stop
<1>3. CASE StopSnapshot(p)
  <2>1. [pc |-> "drain", poll |-> NoChain, wait |-> InFlight(p)] \in Stopping
    BY DEF Stopping, InFlight
  <2>2. QED
    BY <1>3, <2>1 DEF StopSnapshot
<1>4. CASE StopResolve(p)
  BY <1>4 DEF StopResolve
<1>5. CASE Crash(p)
  BY <1>5 DEF Crash
<1>6. QED
  BY <1>1, <1>2, <1>3, <1>4, <1>5

\* TypeOK is inductive.
LEMMA NextType == TypeOK /\ [Next]_vars => TypeOK'
<1>1. CASE UNCHANGED vars
  BY <1>1 DEF vars, TypeOK
<1>2. QED
  BY <1>1, QueueStepType, PollStepType, ExecStepType, LifecycleStepType DEF Next

\* Every variable of the task system keeps its type; in particular a poll never
\* asks claimNextBatch for a negative number of tasks.
THEOREM TypeCorrect == Spec => []TypeOK
<1>1. QED
  BY InitType, NextType, PTL DEF Spec

-----------------------------------------------------------------------------
(* What a step may do to the table.  The invariants that make this precise *)
(* say which rows an enqueue may insert and what a retry has read.         *)

\* An enqueue call inserts a fresh row, which no other call inserts, in a
\* process that has been started.
EnqueueInv ==
  /\ \A p \in Procs : up[p] => boots > 0
  /\ \A p \in Procs : enq[p] # NoTask => up[p] /\ row[enq[p]].state = "ABSENT"
  /\ \A p, q \in Procs : p # q /\ enq[p] # NoTask => enq[p] # enq[q]

\* A retry is decided on an attempt before the last.
ReadInv ==
  \A p \in Procs, t \in Tasks :
    exec[p][t].pc = "rescheduling" => exec[p][t].read < MaxAttempts[t]

Inserted == \E p \in Procs, w \in Int :
  /\ enq[p] \in Tasks /\ Holders(enq[p]) = {}
  /\ Update(enq[p], "PENDING", w) /\ enq' = [enq EXCEPT ![p] = NoTask]
  /\ up' = up /\ boots' = boots

Claimed == \E S \in SUBSET Tasks :
  (\A t \in S : row[t].state = "PENDING") /\ Claim(S)

Retried == \E t \in Tasks, w \in Int :
  row[t].state = "RUNNING" /\ row[t].attempts < MaxAttempts[t] /\ Update(t, "PENDING", w)

Ended == \E t \in Tasks, s \in {"COMPLETED", "FAILED"} :
  row[t].state = "RUNNING" /\ Update(t, s, 0)

Cancelled == \E t \in Tasks : row[t].state \in Active /\ Update(t, "CANCELLED", 0)

Pruned == \E S \in SUBSET Tasks :
  (\A t \in S : row[t].state \in {"COMPLETED", "CANCELLED"}) /\ UpdateAll(S, "DELETED", 0)

Recovered == \E S \in SUBSET Tasks :
  (\A t \in S : row[t].state = "RUNNING") /\ UpdateAll(S, "PENDING", 0)

Aged == \A t \in Tasks :
  row'[t].state = row[t].state /\ row'[t].attempts = row[t].attempts

\* A step on the table that ends no row; only a start of a process recovers rows.
OpenStep ==
  \/ boots' = boots + 1 /\ enq' = enq /\ Recovered
  \/ boots' = boots /\ (Inserted \/ Claimed \/ Retried \/ Cancelled \/ Pruned \/ Aged)

\* A step of the system on the table.
RowStep == OpenStep \/ (boots' = boots /\ Ended)

\* The operations of the table, one by one.
LEMMA QueueRowStep == TypeOK /\ QueueStep => OpenStep
<1> SUFFICES ASSUME TypeOK, QueueStep PROVE OpenStep
  OBVIOUS
<1> row \in [Tasks -> Row] /\ boots \in Nat
  BY DEF TypeOK
<1>1. ASSUME NEW p \in Procs, EnqueueInsert(p) PROVE OpenStep
  <2>1. enq[p] \in Tasks
    BY <1>1 DEF EnqueueInsert, TypeOK
  <2>2. PICK delay \in ScheduleDelays :
          Update(enq[p], "PENDING", IF delay < -LateBound THEN -LateBound ELSE delay)
    BY <1>1 DEF EnqueueInsert
  <2>3. (IF delay < -LateBound THEN -LateBound ELSE delay) \in Int
    OBVIOUS
  <2>4. QED
    BY <1>1, <2>1, <2>2, <2>3 DEF EnqueueInsert, OpenStep, Inserted
<1>2. ASSUME NEW p \in Procs, EnqueueRejected(p) PROVE OpenStep
  BY <1>2 DEF EnqueueRejected, OpenStep, Aged
<1>3. ASSUME NEW p \in Procs, Boot(p) PROVE OpenStep
  <2>1. Hanging \in SUBSET Tasks /\ \A t \in Hanging : row[t].state = "RUNNING"
    BY DEF Hanging
  <2>2. QED
    BY <1>3, <2>1 DEF Boot, OpenStep, Recovered
<1>4. ASSUME NEW p \in Procs, NEW t \in Tasks, EnqueueLookup(p, t) PROVE OpenStep
  BY <1>4 DEF EnqueueLookup, OpenStep, Aged
<1>5. ASSUME NEW t \in Tasks, Cancel(t) PROVE OpenStep
  BY <1>5 DEF Cancel, OpenStep, Cancelled
<1>6. ASSUME NEW S \in SUBSET Tasks, Prune(S) PROVE OpenStep
  BY <1>6 DEF Prune, OpenStep, Pruned
<1>7. CASE Tick
  BY <1>7 DEF Tick, OpenStep, Aged, Row
<1>8. QED
  BY <1>1, <1>2, <1>3, <1>4, <1>5, <1>6, <1>7 DEF QueueStep

\* The worker's side.
LEMMA WorkerRowStep ==
  ASSUME TypeOK, ReadInv, NEW p \in Procs,
         \/ Start(p) \/ Stop(p) \/ StopSnapshot(p) \/ StopResolve(p) \/ Crash(p)
         \/ \E c \in Chains : PollStep(p, c)
         \/ \E t \in Tasks : ExecStep(p, t)
  PROVE  RowStep
<1> row \in [Tasks -> Row]
  BY DEF TypeOK
<1>1. ASSUME row' = row, boots' = boots PROVE RowStep
  BY <1>1 DEF RowStep, OpenStep, Aged
<1>2. CASE Start(p) \/ Stop(p) \/ StopSnapshot(p) \/ StopResolve(p) \/ Crash(p)
  BY <1>1, <1>2 DEF Start, Stop, StopSnapshot, StopResolve, Crash
<1>3. ASSUME NEW c \in Chains, PollStep(p, c) PROVE RowStep
  <2>1. CASE PollClaim(p, c)
    <3>1. PICK S \in Claimable(chain[p][c].limit) : Claim(S)
      BY <2>1 DEF PollClaim
    <3>2. S \in SUBSET Tasks /\ \A t \in S : row[t].state = "PENDING"
      BY DEF Claimable, Due
    <3>3. QED
      BY <2>1, <3>1, <3>2 DEF PollClaim, RowStep, OpenStep, Claimed
  <2>2. CASE \E t \in Tasks : PollQuarantine(p, c, t)
    <3>1. PICK t \in Tasks : PollQuarantine(p, c, t)
      BY <2>2
    <3>2. CASE row[t].state = "RUNNING"
      BY <3>1, <3>2 DEF PollQuarantine, Quarantine, RowStep, OpenStep, Ended
    <3>3. CASE row[t].state # "RUNNING"
      BY <3>1, <3>3, <1>1 DEF PollQuarantine, Quarantine
    <3>4. QED
      BY <3>2, <3>3
  <2>3. CASE \/ PollIdle(p, c) \/ PollStart(p, c)
             \/ PollDispatch(p, c) \/ PollFails(p, c)
    BY <2>3, <1>1 DEF PollIdle, PollStart, PollDispatch, PollFails
  <2>4. QED
    BY <1>3, <2>1, <2>2, <2>3 DEF PollStep
<1>4. ASSUME NEW t \in Tasks, ExecStep(p, t) PROVE RowStep
  <2>1. CASE Complete(p, t)
    <3>1. CASE row[t].state = "RUNNING"
      BY <2>1, <3>1 DEF Complete, MarkCompleted, OnlyExec, RowStep, OpenStep, Ended
    <3>2. CASE row[t].state # "RUNNING"
      BY <2>1, <3>2, <1>1 DEF Complete, MarkCompleted, OnlyExec
    <3>3. QED
      BY <3>1, <3>2
  <2>2. CASE FailWrite(p, t)
    <3>1. boots' = boots
      BY <2>2 DEF FailWrite, OnlyExec
    <3>2. CASE exec[p][t].pc = "rescheduling" /\ StillAt(t, exec[p][t].read)
      <4>1. \E w \in RetryDelays(exec[p][t].read) : Update(t, "PENDING", w)
        BY <2>2, <3>2 DEF FailWrite, Reschedule
      <4>2. RetryDelays(exec[p][t].read) \subseteq Int
        BY DEF RetryDelays
      <4>3. row[t].state = "RUNNING" /\ row[t].attempts < MaxAttempts[t]
        BY <3>2 DEF StillAt, ReadInv
      <4>4. Retried
        BY <4>1, <4>2, <4>3 DEF Retried
      <4>5. QED
        BY <3>1, <4>4 DEF RowStep, OpenStep
    <3>3. CASE exec[p][t].pc = "burying" /\ StillAt(t, exec[p][t].read)
      BY <2>2, <3>1, <3>3 DEF FailWrite, Bury, StillAt, RowStep, OpenStep, Ended
    <3>4. CASE ~StillAt(t, exec[p][t].read)
      BY <2>2, <3>1, <3>4, <1>1 DEF FailWrite
    <3>5. QED
      BY <2>2, <3>2, <3>3, <3>4 DEF FailWrite
  <2>3. CASE \/ AbortFires(p, t) \/ HandlerReturns(p, t) \/ HandlerThrows(p, t)
             \/ CompleteFails(p, t) \/ FailRead(p, t) \/ Settle(p, t) \/ FailFails(p, t)
    BY <2>3, <1>1 DEF AbortFires, HandlerReturns, HandlerThrows, CompleteFails, FailRead,
       Settle, FailFails, Remove, OnlyExec
  <2>4. QED
    BY <1>4, <2>1, <2>2, <2>3 DEF ExecStep
<1>5. QED
  BY <1>2, <1>3, <1>4

LEMMA NextRowStep == TypeOK /\ ReadInv /\ [Next]_vars => RowStep
<1>1. TypeOK /\ UNCHANGED vars => RowStep
  BY DEF vars, TypeOK, RowStep, OpenStep, Aged
<1>2. QED
  BY <1>1, QueueRowStep, WorkerRowStep DEF Next, RowStep

\* What a RowStep does to one row.
LEMMA RowStepOn ==
  ASSUME TypeOK, RowStep, NEW t \in Tasks
  PROVE  /\ row'[t].attempts >= row[t].attempts
         /\ row[t].state # "ABSENT" => row'[t].state # "ABSENT"
         /\ row[t].state = "ABSENT" =>
              /\ row'[t].attempts = row[t].attempts
              /\ \/ row'[t].state = "ABSENT"
                 \/ \E p \in Procs : enq[p] = t /\ enq' = [enq EXCEPT ![p] = NoTask]
<1> row \in [Tasks -> Row] /\ row[t].attempts \in Nat
  BY DEF TypeOK, Row
<1>1. CASE Inserted
  <2>1. PICK p \in Procs, w \in Int :
          /\ enq[p] \in Tasks /\ Update(enq[p], "PENDING", w)
          /\ enq' = [enq EXCEPT ![p] = NoTask]
    BY <1>1 DEF Inserted
  <2>2. CASE t = enq[p]
    <3>1. row'[t].state = "PENDING" /\ row'[t].attempts = row[t].attempts
      BY <2>1, <2>2 DEF Update, Become
    <3>2. \E q \in Procs : enq[q] = t /\ enq' = [enq EXCEPT ![q] = NoTask]
      BY <2>1, <2>2
    <3>3. row'[t].attempts >= row[t].attempts
      BY <3>1
    <3>4. QED
      BY <3>1, <3>2, <3>3, Zenon
  <2>3. CASE t # enq[p]
    BY <2>1, <2>3 DEF Update
  <2>4. QED
    BY <2>2, <2>3
<1>2. CASE Claimed
  BY <1>2 DEF Claimed, Claim
<1>3. CASE Retried \/ Ended \/ Cancelled
  BY <1>3 DEF Retried, Ended, Cancelled, Update, Become, Active
<1>4. CASE Pruned \/ Recovered
  BY <1>4 DEF Pruned, Recovered, UpdateAll, Become
<1>5. CASE Aged
  BY <1>5 DEF Aged
<1>6. QED
  BY <1>1, <1>2, <1>3, <1>4, <1>5 DEF RowStep, OpenStep

-----------------------------------------------------------------------------
(* The auxiliary invariants hold. *)

\* A step of an execution changes that execution only, never its attempt.
LEMMA ExecStepEffect ==
  ASSUME TypeOK, NEW p \in Procs, NEW t \in Tasks, ExecStep(p, t)
  PROVE  \E e \in Execution :
           /\ SetExec(p, t, e)
           /\ e.pc # "none" => Executes(p, t) /\ e.attempt = exec[p][t].attempt
           /\ e.pc = "rescheduling" => e.read < MaxAttempts[t]
<1> DEFINE old == exec[p][t]
           Goal == \E e \in Execution :
             /\ SetExec(p, t, e)
             /\ e.pc # "none" => Executes(p, t) /\ e.attempt = old.attempt
             /\ e.pc = "rescheduling" => e.read < MaxAttempts[t]
<1> old \in Execution /\ row[t].attempts \in Nat /\ MaxAttempts[t] \in Nat
  BY DEF TypeOK, Row
<1>1. ASSUME Executes(p, t), NEW pc \in ExecPc \ {"none", "rescheduling"}, GoTo(p, t, pc)
      PROVE  Goal
  <2>1. [old EXCEPT !.pc = pc] \in Execution
    BY DEF Execution
  <2>2. [old EXCEPT !.pc = pc].pc = pc /\ [old EXCEPT !.pc = pc].attempt = old.attempt
    BY DEF Execution
  <2>3. QED
    BY <1>1, <2>1, <2>2 DEF GoTo
<1>2. CASE AbortFires(p, t) \/ HandlerReturns(p, t) \/ Complete(p, t) \/ FailWrite(p, t)
  BY <1>1, <1>2 DEF AbortFires, HandlerReturns, Complete, FailWrite, Executes, ExecPc
<1>3. CASE HandlerThrows(p, t) \/ CompleteFails(p, t)
  <2>1. PICK permanent \in BOOLEAN :
          SetExec(p, t, [old EXCEPT !.pc = "failing", !.permanent = permanent])
    BY <1>3 DEF HandlerThrows, CompleteFails
  <2>2. [old EXCEPT !.pc = "failing", !.permanent = permanent] \in Execution
    BY DEF Execution, ExecPc
  <2>3. /\ [old EXCEPT !.pc = "failing", !.permanent = permanent].pc = "failing"
        /\ [old EXCEPT !.pc = "failing", !.permanent = permanent].attempt = old.attempt
    BY DEF Execution
  <2>4. QED
    BY <1>3, <2>1, <2>2, <2>3 DEF HandlerThrows, CompleteFails, Executes
<1>4. CASE FailRead(p, t)
  <2>1. CASE row[t].state # "RUNNING"
    BY <1>1, <1>4, <2>1 DEF FailRead, Executes, ExecPc
  <2>2. CASE row[t].state = "RUNNING"
    <3> DEFINE next == IF Retryable(t, old.permanent) THEN "rescheduling" ELSE "burying"
               e == [old EXCEPT !.pc = next, !.read = row[t].attempts]
    <3>1. SetExec(p, t, e)
      BY <1>4, <2>2 DEF FailRead
    <3>2. e \in Execution /\ e.pc = next /\ e.read = row[t].attempts /\ e.attempt = old.attempt
      BY DEF Execution, ExecPc
    <3>3. e.pc = "rescheduling" => e.read < MaxAttempts[t]
      BY <3>2 DEF Retryable
    <3> HIDE DEF e
    <3>4. QED
      BY <1>4, <3>1, <3>2, <3>3 DEF FailRead, Executes
  <2>3. QED
    BY <2>1, <2>2
<1>5. CASE Settle(p, t) \/ FailFails(p, t)
  <2>1. NoExec \in Execution /\ NoExec.pc = "none"
    BY DEF NoExec, Execution, ExecPc
  <2>2. SetExec(p, t, NoExec)
    BY <1>5 DEF Settle, FailFails, Remove
  <2>3. QED
    BY <2>1, <2>2
<1>6. QED
  BY <1>2, <1>3, <1>4, <1>5 DEF ExecStep

LEMMA ReadInvNext == TypeOK /\ ReadInv /\ [Next]_vars => ReadInv'
<1> SUFFICES ASSUME TypeOK, ReadInv, [Next]_vars, NEW q \in Procs, NEW u \in Tasks,
                    exec'[q][u].pc = "rescheduling"
             PROVE  exec'[q][u].read < MaxAttempts[u]
  BY DEF ReadInv
<1> exec \in [Procs -> [Tasks -> Execution]]
  BY DEF TypeOK
<1>1. exec' = exec => exec'[q][u].read < MaxAttempts[u]
  BY DEF ReadInv
<1>2. CASE UNCHANGED vars \/ QueueStep
  BY <1>1, <1>2 DEF vars, QueueStep, Outside, workerVars
<1>3. ASSUME NEW p \in Procs,
             Start(p) \/ Stop(p) \/ StopSnapshot(p) \/ StopResolve(p)
      PROVE  exec'[q][u].read < MaxAttempts[u]
  BY <1>1, <1>3 DEF Start, Stop, StopSnapshot, StopResolve
<1>4. ASSUME NEW p \in Procs, Crash(p) PROVE exec'[q][u].read < MaxAttempts[u]
  BY <1>4 DEF Crash, NoExec, ReadInv
<1>5. ASSUME NEW p \in Procs, NEW c \in Chains, PollStep(p, c)
      PROVE  exec'[q][u].read < MaxAttempts[u]
  <2>1. CASE PollDispatch(p, c)
    BY <2>1 DEF PollDispatch, ReadInv
  <2>2. CASE ~PollDispatch(p, c)
    BY <1>1, <1>5, <2>2 DEF PollStep, PollIdle, PollStart, PollClaim,
       PollFails, PollQuarantine
  <2>3. QED
    BY <2>1, <2>2
<1>6. ASSUME NEW p \in Procs, NEW t \in Tasks, ExecStep(p, t)
      PROVE  exec'[q][u].read < MaxAttempts[u]
  <2>1. PICK e \in Execution :
          /\ SetExec(p, t, e)
          /\ e.pc = "rescheduling" => e.read < MaxAttempts[t]
    BY <1>6, ExecStepEffect
  <2>2. CASE p = q /\ t = u
    BY <2>1, <2>2 DEF SetExec
  <2>3. CASE p # q \/ t # u
    BY <2>1, <2>3 DEF SetExec, ReadInv
  <2>4. QED
    BY <2>2, <2>3
<1>7. QED
  BY <1>2, <1>3, <1>4, <1>5, <1>6 DEF Next

LEMMA EnqueueInvNext == TypeOK /\ ReadInv /\ EnqueueInv /\ [Next]_vars => EnqueueInv'
<1> SUFFICES ASSUME TypeOK, ReadInv, EnqueueInv, [Next]_vars PROVE EnqueueInv'
  OBVIOUS
<1>1. /\ RowStep /\ boots \in Nat /\ enq \in [Procs -> Tasks \cup {NoTask}]
      /\ row \in [Tasks -> Row] /\ up \in [Procs -> BOOLEAN]
  BY NextRowStep DEF TypeOK
<1>2. boots' \in Nat /\ boots' >= boots
  BY <1>1 DEF RowStep, OpenStep
<1>3. CASE enq' = enq /\ up' = up
  <2>1. \A p \in Procs : enq'[p] # NoTask => row'[enq[p]].state = "ABSENT"
    <3>1. SUFFICES ASSUME NEW p \in Procs, enq[p] # NoTask, row'[enq[p]].state # "ABSENT"
                   PROVE  FALSE
      BY <1>3
    <3>2. enq[p] \in Tasks /\ row[enq[p]].state = "ABSENT"
      BY <1>1, <3>1 DEF EnqueueInv
    <3>3. PICK q \in Procs : enq[q] = enq[p] /\ enq' = [enq EXCEPT ![q] = NoTask]
      BY <1>1, <3>1, <3>2, RowStepOn
    <3>4. QED
      BY <1>1, <1>3, <3>1, <3>3
  <2>2. QED
    BY <1>1, <1>2, <1>3, <2>1 DEF EnqueueInv
<1>4. ASSUME NEW p \in Procs, NEW t \in Tasks, EnqueueLookup(p, t) PROVE EnqueueInv'
  BY <1>1, <1>4 DEF EnqueueLookup, EnqueueInv
<1>5. ASSUME NEW p \in Procs, EnqueueInsert(p) PROVE EnqueueInv'
  <2>1. \A u \in Tasks : u # enq[p] => row'[u] = row[u]
    BY <1>1, <1>5 DEF EnqueueInsert, Update
  <2>2. QED
    BY <1>1, <1>5, <2>1 DEF EnqueueInsert, EnqueueInv
<1>6. ASSUME NEW p \in Procs, EnqueueRejected(p) PROVE EnqueueInv'
  BY <1>1, <1>6 DEF EnqueueRejected, EnqueueInv
<1>7. ASSUME NEW p \in Procs, Boot(p) PROVE EnqueueInv'
  <2>1. \A u \in Tasks : row[u].state = "ABSENT" => row'[u] = row[u]
    BY <1>1, <1>7 DEF Boot, UpdateAll, Hanging
  <2>2. QED
    BY <1>1, <1>7, <2>1 DEF Boot, EnqueueInv
<1>8. ASSUME NEW p \in Procs, Crash(p) PROVE EnqueueInv'
  BY <1>1, <1>8 DEF Crash, EnqueueInv
<1>9. QED
  <2>1. CASE UNCHANGED vars
    BY <1>3, <2>1 DEF vars
  <2>2. CASE QueueStep
    BY <1>3, <1>4, <1>5, <1>6, <1>7, <2>2 DEF QueueStep, Cancel, Prune, Tick
  <2>3. ASSUME NEW p \in Procs,
               Start(p) \/ Stop(p) \/ StopSnapshot(p) \/ StopResolve(p) \/ Crash(p)
        PROVE  EnqueueInv'
    BY <1>3, <1>8, <2>3 DEF Start, Stop, StopSnapshot, StopResolve
  <2>4. ASSUME NEW p \in Procs, NEW c \in Chains, PollStep(p, c) PROVE EnqueueInv'
    BY <1>3, <2>4 DEF PollStep, PollIdle, PollStart, PollClaim, PollDispatch,
       PollFails, PollQuarantine
  <2>5. ASSUME NEW p \in Procs, NEW t \in Tasks, ExecStep(p, t) PROVE EnqueueInv'
    BY <1>3, <2>5 DEF ExecStep, AbortFires, HandlerReturns, HandlerThrows, Complete,
       CompleteFails, FailRead, FailWrite, Settle, FailFails, Remove, OnlyExec
  <2>6. QED
    BY <2>1, <2>2, <2>3, <2>4, <2>5 DEF Next

Aux == TypeOK /\ ReadInv /\ EnqueueInv

LEMMA AuxInvariant == Spec => []Aux
<1>1. Init => Aux
  BY InitType DEF Init, QueueInit, Aux, ReadInv, EnqueueInv, NoExec
<1>2. Aux /\ [Next]_vars => Aux'
  BY NextType, ReadInvNext, EnqueueInvNext DEF Aux
<1>3. QED
  BY <1>1, <1>2, PTL DEF Spec

-----------------------------------------------------------------------------
(* Deduplication, and the number of attempts. *)

LEMMA OneActiveNext == Aux /\ OneActivePerKey /\ [Next]_vars => OneActivePerKey'
<1> SUFFICES ASSUME Aux, OneActivePerKey, [Next]_vars,
                    NEW t \in Tasks, NEW u \in Tasks, t # u, KeyOf[t] # NoKey,
                    KeyOf[t] = KeyOf[u],
                    row'[t].state \in Active, row'[u].state \in Active
             PROVE  FALSE
  BY DEF OneActivePerKey
<1>1. RowStep /\ row \in [Tasks -> Row]
  BY NextRowStep DEF Aux, TypeOK
<1>2. ~(row[t].state \in Active /\ row[u].state \in Active)
  BY DEF OneActivePerKey
<1>3. CASE Inserted
  <2>1. PICK p \in Procs, w \in Int :
          enq[p] \in Tasks /\ Holders(enq[p]) = {} /\ Update(enq[p], "PENDING", w)
    BY <1>3 DEF Inserted
  <2>2. \A v \in Tasks \ {enq[p]} : row'[v] = row[v]
    BY <1>1, <2>1 DEF Update
  <2>3. enq[p] = t \/ enq[p] = u
    BY <1>2, <2>2
  <2>5. CASE enq[p] = t
    BY <2>1, <2>2, <2>5 DEF Holders
  <2>6. CASE enq[p] = u
    BY <2>1, <2>2, <2>6 DEF Holders
  <2>7. QED
    BY <2>3, <2>5, <2>6
<1>4. CASE Claimed
  BY <1>1, <1>2, <1>4 DEF Claimed, Claim, Active
<1>5. CASE Retried \/ Ended \/ Cancelled
  BY <1>1, <1>2, <1>5 DEF Retried, Ended, Cancelled, Update, Become, Active
<1>6. CASE Pruned \/ Recovered
  BY <1>1, <1>2, <1>6 DEF Pruned, Recovered, UpdateAll, Become, Active
<1>7. CASE Aged
  BY <1>2, <1>7 DEF Aged
<1>8. QED
  BY <1>1, <1>3, <1>4, <1>5, <1>6, <1>7 DEF RowStep, OpenStep

\* Whatever enqueue, retry and recovery interleave, no two rows of one
\* unique_key are PENDING or RUNNING together.
THEOREM DeduplicationCorrect == Spec => []OneActivePerKey
<1>1. Init => OneActivePerKey
  BY DEF Init, QueueInit, OneActivePerKey, Active
<1>2. QED
  BY <1>1, OneActiveNext, AuxInvariant, PTL DEF Spec

\* AttemptsBounded made inductive: a row that waits has an attempt left.
AttemptsInv ==
  \A t \in Tasks :
    /\ row[t].state = "ABSENT" => row[t].attempts = 0
    /\ row[t].state # "ABSENT" => /\ boots > 0
                                  /\ row[t].attempts <= MaxAttempts[t] + boots - 1
    /\ row[t].state = "PENDING" => row[t].attempts < MaxAttempts[t] + boots - 1

LEMMA AttemptsNext == Aux /\ AttemptsInv /\ [Next]_vars => AttemptsInv'
<1> SUFFICES ASSUME Aux, AttemptsInv, [Next]_vars, NEW t \in Tasks
             PROVE
    /\ row'[t].state = "ABSENT" => row'[t].attempts = 0
    /\ row'[t].state # "ABSENT" => /\ boots' > 0
                                   /\ row'[t].attempts <= MaxAttempts[t] + boots' - 1
    /\ row'[t].state = "PENDING" => row'[t].attempts < MaxAttempts[t] + boots' - 1
  BY DEF AttemptsInv
<1>1. /\ RowStep /\ row \in [Tasks -> Row] /\ boots \in Nat /\ row[t].attempts \in Nat
      /\ MaxAttempts[t] \in Nat \ {0} /\ boots' >= boots /\ boots' \in Nat
  BY NextRowStep DEF Aux, TypeOK, Row, RowStep, OpenStep
<1>2. /\ row[t].state = "ABSENT" => row[t].attempts = 0
      /\ row[t].state # "ABSENT" => /\ boots > 0
                                    /\ row[t].attempts <= MaxAttempts[t] + boots - 1
      /\ row[t].state = "PENDING" => row[t].attempts < MaxAttempts[t] + boots - 1
  BY DEF AttemptsInv
<1> DEFINE Kept == row'[t].attempts = row[t].attempts
<1>3. CASE row'[t].state = row[t].state /\ Kept
  BY <1>1, <1>2, <1>3
<1>4. CASE Inserted
  <2>1. PICK p \in Procs, w \in Int : enq[p] \in Tasks /\ Update(enq[p], "PENDING", w)
    BY <1>4 DEF Inserted
  <2>2. CASE t = enq[p]
    <3>1. boots > 0 /\ row[t].state = "ABSENT"
      BY <2>1, <2>2 DEF Aux, EnqueueInv
    <3>2. row'[t].state = "PENDING" /\ Kept
      BY <1>1, <2>1, <2>2 DEF Update, Become
    <3>3. QED
      BY <1>1, <1>2, <3>1, <3>2
  <2>3. CASE t # enq[p]
    BY <1>1, <1>3, <2>1, <2>3 DEF Update
  <2>4. QED
    BY <2>2, <2>3
<1>5. CASE Claimed
  <2>1. PICK S \in SUBSET Tasks : (\A u \in S : row[u].state = "PENDING") /\ Claim(S)
    BY <1>5 DEF Claimed
  <2>2. CASE t \in S
    BY <1>1, <1>2, <2>1, <2>2 DEF Claim
  <2>3. CASE t \notin S
    BY <1>1, <1>3, <2>1, <2>3 DEF Claim
  <2>4. QED
    BY <2>2, <2>3
<1>6. CASE Retried
  <2>1. PICK u \in Tasks, w \in Int :
          row[u].state = "RUNNING" /\ row[u].attempts < MaxAttempts[u]
          /\ Update(u, "PENDING", w)
    BY <1>6 DEF Retried
  <2>2. CASE t = u
    <3>1. row'[t].state = "PENDING" /\ Kept
      BY <1>1, <2>1, <2>2 DEF Update, Become
    <3>2. QED
      BY <1>1, <1>2, <2>1, <2>2, <3>1
  <2>3. CASE t # u
    BY <1>1, <1>3, <2>1, <2>3 DEF Update
  <2>4. QED
    BY <2>2, <2>3
<1>7. CASE Ended \/ Cancelled
  <2>1. PICK u \in Tasks, s \in {"COMPLETED", "FAILED", "CANCELLED"} :
          row[u].state \in Active /\ Update(u, s, 0)
    BY <1>7 DEF Ended, Cancelled, Active
  <2>2. CASE t = u
    <3>1. row'[t].state \in {"COMPLETED", "FAILED", "CANCELLED"} /\ Kept
      BY <1>1, <2>1, <2>2 DEF Update, Become
    <3>2. row[t].state # "ABSENT"
      BY <2>1, <2>2 DEF Active
    <3>3. QED
      BY <1>1, <1>2, <3>1, <3>2
  <2>3. CASE t # u
    BY <1>1, <1>3, <2>1, <2>3 DEF Update
  <2>4. QED
    BY <2>2, <2>3
<1>8. CASE Pruned
  <2>1. PICK S \in SUBSET Tasks :
          (\A u \in S : row[u].state \in {"COMPLETED", "CANCELLED"}) /\ UpdateAll(S, "DELETED", 0)
    BY <1>8 DEF Pruned
  <2>2. CASE t \in S
    <3>1. row'[t].state = "DELETED" /\ Kept /\ row[t].state # "ABSENT"
      BY <1>1, <2>1, <2>2 DEF UpdateAll, Become
    <3>2. QED
      BY <1>1, <1>2, <3>1
  <2>3. CASE t \notin S
    BY <1>1, <1>3, <2>1, <2>3 DEF UpdateAll
  <2>4. QED
    BY <2>2, <2>3
<1>9. CASE boots' = boots + 1 /\ Recovered
  <2>1. PICK S \in SUBSET Tasks :
          (\A u \in S : row[u].state = "RUNNING") /\ UpdateAll(S, "PENDING", 0)
    BY <1>9 DEF Recovered
  <2>2. CASE t \in S
    <3>1. row'[t].state = "PENDING" /\ Kept /\ row[t].state # "ABSENT"
      BY <1>1, <2>1, <2>2 DEF UpdateAll, Become
    <3>2. QED
      BY <1>1, <1>2, <1>9, <3>1
  <2>3. CASE t \notin S
    BY <1>1, <1>3, <2>1, <2>3 DEF UpdateAll
  <2>4. QED
    BY <2>2, <2>3
<1>10. CASE Aged
  BY <1>3, <1>10 DEF Aged
<1>11. QED
  BY <1>1, <1>4, <1>5, <1>6, <1>7, <1>8, <1>9, <1>10 DEF RowStep, OpenStep

\* A row is leased max_attempts times at most, and once more for every later
\* start of a process: no other interleaving consumes attempts.
THEOREM AttemptsCorrect == Spec => []AttemptsBounded
<1>1. Init => AttemptsInv
  BY DEF Init, QueueInit, AttemptsInv
<1>2. AttemptsInv => AttemptsBounded
  BY DEF AttemptsInv, AttemptsBounded
<1>3. QED
  BY <1>1, <1>2, AttemptsNext, AuxInvariant, PTL DEF Spec

-----------------------------------------------------------------------------
(* Exclusive leases. *)

\* LeaseExclusive made inductive: an attempt that is held is one that the row
\* has counted.
HeldInv ==
  \A t \in Tasks, p \in Procs :
    /\ Executes(p, t) => exec[p][t].attempt > 0 /\ exec[p][t].attempt <= row[t].attempts
    /\ \A c \in Chains : claimed[p][c][t] <= row[t].attempts

LeaseInv == HeldInv /\ LeaseExclusive

\* A step that gives away no new attempt: each attempt held after it was held
\* in the same place before, or has moved from a poll's claim to its dispatch.
LEMMA LeaseKept ==
  ASSUME Aux, LeaseInv, RowStep, TypeOK',
         \A q \in Procs, u \in Tasks :
           Executes(q, u)' => Executes(q, u) /\ exec'[q][u].attempt = exec[q][u].attempt,
         \A q \in Procs, d \in Chains, u \in Tasks :
           claimed'[q][d][u] = claimed[q][d][u] \/ claimed'[q][d][u] = 0
  PROVE  LeaseInv'
<1>1. \A u \in Tasks : row'[u].attempts >= row[u].attempts
  BY RowStepOn DEF Aux
<1>2. /\ \A q \in Procs, d \in Chains, u \in Tasks :
           claimed[q][d][u] \in Nat /\ claimed'[q][d][u] \in Nat
      /\ \A q \in Procs, u \in Tasks :
           exec[q][u].attempt \in Nat /\ exec'[q][u].attempt \in Nat
      /\ \A u \in Tasks : row[u].attempts \in Nat /\ row'[u].attempts \in Nat
  BY DEF Aux, TypeOK, Execution, Row
<1>3. HeldInv'
  BY <1>1, <1>2 DEF LeaseInv, HeldInv
<1>4. LeaseExclusive'
  BY <1>2 DEF LeaseInv, HeldInv, LeaseExclusive
<1>5. QED
  BY <1>3, <1>4 DEF LeaseInv

LEMMA LeaseClaim ==
  ASSUME Aux, LeaseInv, RowStep, TypeOK', NEW p \in Procs, NEW c \in Chains, PollClaim(p, c)
  PROVE  LeaseInv'
<1>1. PICK S \in Claimable(chain[p][c].limit) :
        /\ Claim(S)
        /\ claimed' = [claimed EXCEPT ![p][c] =
             [t \in Tasks |-> IF t \in S THEN row[t].attempts + 1 ELSE 0]]
  BY DEF PollClaim
<1>2. /\ exec' = exec
      /\ \A t \in Tasks : row'[t].attempts = IF t \in S THEN row[t].attempts + 1
                                             ELSE row[t].attempts
  BY <1>1 DEF PollClaim, Claim
<1>3. \A q \in Procs, d \in Chains, t \in Tasks :
        claimed'[q][d][t] = IF q = p /\ d = c
                            THEN IF t \in S THEN row[t].attempts + 1 ELSE 0
                            ELSE claimed[q][d][t]
  BY <1>1 DEF Aux, TypeOK
<1>4. /\ \A q \in Procs, d \in Chains, u \in Tasks : claimed[q][d][u] \in Nat
      /\ \A q \in Procs, u \in Tasks : exec[q][u].attempt \in Nat
      /\ \A u \in Tasks : row[u].attempts \in Nat
  BY DEF Aux, TypeOK, Execution, Row
<1>5. HeldInv'
  BY <1>2, <1>3, <1>4 DEF LeaseInv, HeldInv, Executes
<1>6. LeaseExclusive'
  <2> SUFFICES ASSUME NEW t \in Tasks, NEW q \in Procs, NEW r \in Procs
      PROVE
        /\ Executes(q, t)' /\ Executes(r, t)' /\ exec'[q][t].attempt = exec'[r][t].attempt
             => q = r
        /\ \A d, e \in Chains :
             claimed'[q][d][t] > 0 /\ claimed'[q][d][t] = claimed'[r][e][t] => q = r /\ d = e
        /\ \A d \in Chains : Executes(r, t)' => exec'[r][t].attempt # claimed'[q][d][t]
    BY DEF LeaseExclusive
  <2>1. Executes(q, t)' /\ Executes(r, t)' /\ exec'[q][t].attempt = exec'[r][t].attempt
          => q = r
    BY <1>2 DEF LeaseInv, LeaseExclusive, Executes
  <2>2. ASSUME NEW d \in Chains, NEW e \in Chains,
               claimed'[q][d][t] > 0, claimed'[q][d][t] = claimed'[r][e][t]
        PROVE  q = r /\ d = e
    <3>1. claimed[q][d][t] <= row[t].attempts /\ claimed[r][e][t] <= row[t].attempts
      BY DEF LeaseInv, HeldInv
    <3>2. claimed[q][d][t] > 0 /\ claimed[q][d][t] = claimed[r][e][t] => q = r /\ d = e
      BY DEF LeaseInv, LeaseExclusive
    <3>3. QED
      BY <1>3, <1>4, <2>2, <3>1, <3>2
  <2>3. ASSUME NEW d \in Chains, Executes(r, t)'
        PROVE  exec'[r][t].attempt # claimed'[q][d][t]
    <3>1. /\ exec[r][t].attempt > 0 /\ exec[r][t].attempt <= row[t].attempts
          /\ exec[r][t].attempt # claimed[q][d][t]
      BY <1>2, <2>3 DEF LeaseInv, HeldInv, LeaseExclusive, Executes
    <3>2. QED
      BY <1>2, <1>3, <1>4, <3>1
  <2>4. QED
    BY <2>1, <2>2, <2>3
<1>7. QED
  BY <1>5, <1>6 DEF LeaseInv

LEMMA LeaseDispatch ==
  ASSUME Aux, LeaseInv, RowStep, TypeOK', NEW p \in Procs, NEW c \in Chains,
         PollDispatch(p, c)
  PROVE  LeaseInv'
<1>1. /\ row' = row
      /\ \A q \in Procs, t \in Tasks :
           exec'[q][t] = IF q = p /\ t \in Dispatched(p, c)
                         THEN [pc |-> "handler", attempt |-> claimed[p][c][t],
                               permanent |-> FALSE, read |-> 0]
                         ELSE exec[q][t]
      /\ \A q \in Procs, d \in Chains, t \in Tasks :
           claimed'[q][d][t] = IF q = p /\ d = c THEN 0 ELSE claimed[q][d][t]
  BY DEF PollDispatch, EndPoll, NothingClaimed, Aux, TypeOK
<1>2. \A t \in Dispatched(p, c) : claimed[p][c][t] > 0 /\ ~Executes(p, t)
  BY DEF Dispatched, Executes
<1>3. \A q \in Procs, t \in Tasks :
        /\ exec'[q][t].attempt = IF q = p /\ t \in Dispatched(p, c) THEN claimed[p][c][t]
                                 ELSE exec[q][t].attempt
        /\ Executes(q, t)' <=> Executes(q, t) \/ (q = p /\ t \in Dispatched(p, c))
  <2> SUFFICES ASSUME NEW q \in Procs, NEW t \in Tasks
      PROVE
        /\ exec'[q][t].attempt = IF q = p /\ t \in Dispatched(p, c) THEN claimed[p][c][t]
                                 ELSE exec[q][t].attempt
        /\ Executes(q, t)' <=> Executes(q, t) \/ (q = p /\ t \in Dispatched(p, c))
    OBVIOUS
  <2>1. CASE q = p /\ t \in Dispatched(p, c)
    <3>1. exec'[q][t] = [pc |-> "handler", attempt |-> claimed[p][c][t],
                         permanent |-> FALSE, read |-> 0]
      BY <1>1, <2>1
    <3>2. Executes(q, t)'
      BY <3>1 DEF Executes
    <3>3. QED
      BY <2>1, <3>1, <3>2
  <2>2. CASE ~(q = p /\ t \in Dispatched(p, c))
    <3>1. exec'[q][t] = exec[q][t]
      BY <1>1, <2>2
    <3>2. QED
      BY <2>2, <3>1 DEF Executes
  <2>3. QED
    BY <2>1, <2>2
<1>4. /\ \A q \in Procs, d \in Chains, u \in Tasks : claimed[q][d][u] \in Nat
      /\ \A q \in Procs, u \in Tasks : exec[q][u].attempt \in Nat
      /\ \A u \in Tasks : row[u].attempts \in Nat
  BY DEF Aux, TypeOK, Execution, Row
<1>5. HeldInv'
  BY <1>1, <1>2, <1>3, <1>4 DEF LeaseInv, HeldInv
<1>6. LeaseExclusive'
  BY <1>1, <1>2, <1>3, <1>4 DEF LeaseInv, HeldInv, LeaseExclusive
<1>7. QED
  BY <1>5, <1>6 DEF LeaseInv

LEMMA LeaseNext == Aux /\ LeaseInv /\ [Next]_vars => LeaseInv'
<1> SUFFICES ASSUME Aux, LeaseInv, [Next]_vars PROVE LeaseInv'
  OBVIOUS
<1>1. RowStep /\ TypeOK'
  BY NextRowStep, NextType DEF Aux
<1> /\ exec \in [Procs -> [Tasks -> Execution]]
    /\ claimed \in [Procs -> [Chains -> [Tasks -> Nat]]]
  BY DEF Aux, TypeOK
<1>2. exec' = exec /\ claimed' = claimed => LeaseInv'
  BY <1>1, LeaseKept DEF Executes
<1>3. CASE UNCHANGED vars \/ QueueStep
  BY <1>2, <1>3 DEF vars, QueueStep, Outside, workerVars
<1>4. ASSUME NEW p \in Procs, Start(p) \/ Stop(p) \/ StopSnapshot(p) \/ StopResolve(p)
      PROVE  LeaseInv'
  BY <1>2, <1>4 DEF Start, Stop, StopSnapshot, StopResolve
<1>5. ASSUME NEW p \in Procs, Crash(p) PROVE LeaseInv'
  <2>1. \A q \in Procs, u \in Tasks :
          Executes(q, u)' => Executes(q, u) /\ exec'[q][u].attempt = exec[q][u].attempt
    BY <1>5 DEF Crash, Executes, NoExec
  <2>2. \A q \in Procs, d \in Chains, u \in Tasks :
          claimed'[q][d][u] = claimed[q][d][u] \/ claimed'[q][d][u] = 0
    BY <1>5 DEF Crash, NothingClaimed
  <2>3. QED
    BY <1>1, <2>1, <2>2, LeaseKept
<1>6. ASSUME NEW p \in Procs, NEW c \in Chains, PollStep(p, c) PROVE LeaseInv'
  <2>1. CASE PollIdle(p, c) \/ PollStart(p, c)
    BY <1>2, <2>1 DEF PollIdle, PollStart
  <2>2. CASE PollClaim(p, c)
    BY <1>1, <2>2, LeaseClaim
  <2>3. CASE PollDispatch(p, c)
    BY <1>1, <2>3, LeaseDispatch
  <2>4. CASE PollFails(p, c) \/ \E t \in Tasks : PollQuarantine(p, c, t)
    <3>1. exec' = exec
      BY <2>4 DEF PollFails, PollQuarantine
    <3>2. \A q \in Procs, d \in Chains, u \in Tasks :
            claimed'[q][d][u] = claimed[q][d][u] \/ claimed'[q][d][u] = 0
      <4>1. CASE PollFails(p, c)
        BY <4>1 DEF PollFails, EndPoll, NothingClaimed
      <4>2. CASE \E t \in Tasks : PollQuarantine(p, c, t)
        BY <4>2 DEF PollQuarantine
      <4>3. QED
        BY <2>4, <4>1, <4>2
    <3>3. QED
      BY <1>1, <3>1, <3>2, LeaseKept DEF Executes
  <2>5. QED
    BY <1>6, <2>1, <2>2, <2>3, <2>4 DEF PollStep
<1>7. ASSUME NEW p \in Procs, NEW t \in Tasks, ExecStep(p, t) PROVE LeaseInv'
  <2>1. claimed' = claimed
    BY <1>7 DEF ExecStep, AbortFires, HandlerReturns, HandlerThrows, Complete, CompleteFails,
       FailRead, FailWrite, Settle, FailFails, Remove, OnlyExec
  <2>2. PICK e \in Execution :
          /\ SetExec(p, t, e)
          /\ e.pc # "none" => Executes(p, t) /\ e.attempt = exec[p][t].attempt
    BY <1>7, ExecStepEffect DEF Aux
  <2>3. \A q \in Procs, u \in Tasks :
          Executes(q, u)' => Executes(q, u) /\ exec'[q][u].attempt = exec[q][u].attempt
    BY <2>2 DEF SetExec, Executes
  <2>4. QED
    BY <1>1, <2>1, <2>3, LeaseKept
<1>8. QED
  BY <1>3, <1>4, <1>5, <1>6, <1>7 DEF Next

\* No two workers ever hold the same attempt of the same task, dispatched or
\* about to be.
THEOREM LeasesCorrect == Spec => []LeaseExclusive
<1>1. Init => LeaseInv
  BY DEF Init, QueueInit, LeaseInv, HeldInv, LeaseExclusive, Executes, NoExec, NothingClaimed
<1>2. LeaseInv => LeaseExclusive
  BY DEF LeaseInv
<1>3. QED
  BY <1>1, <1>2, LeaseNext, AuxInvariant, PTL DEF Spec

-----------------------------------------------------------------------------
(* How an execution ends. *)

\* A row is leased only by an attempt of its own.
LEMMA LeaseIsNew ==
  ASSUME TypeOK, RowStep, NEW t \in Tasks, row'[t].state = "RUNNING"
  PROVE  row[t].state = "RUNNING" \/ row'[t].attempts = row[t].attempts + 1
<1> row \in [Tasks -> Row]
  BY DEF TypeOK
<1>1. CASE Inserted \/ Retried \/ Ended \/ Cancelled
  <2>1. PICK u \in Tasks, s \in States \ {"RUNNING"}, w \in Int : Update(u, s, w)
    BY <1>1 DEF Inserted, Retried, Ended, Cancelled, States, Active
  <2>2. CASE t = u
    BY <2>1, <2>2 DEF Update, Become
  <2>3. CASE t # u
    BY <2>1, <2>3 DEF Update
  <2>4. QED
    BY <2>2, <2>3
<1>2. CASE Claimed
  BY <1>2 DEF Claimed, Claim
<1>3. CASE Pruned \/ Recovered
  <2>1. PICK S \in SUBSET Tasks, s \in {"PENDING", "DELETED"} : UpdateAll(S, s, 0)
    BY <1>3 DEF Pruned, Recovered
  <2>2. CASE t \in S
    BY <2>1, <2>2 DEF UpdateAll, Become
  <2>3. CASE t \notin S
    BY <2>1, <2>3 DEF UpdateAll
  <2>4. QED
    BY <2>2, <2>3
<1>4. CASE Aged
  BY <1>4 DEF Aged
<1>5. QED
  BY <1>1, <1>2, <1>3, <1>4 DEF RowStep, OpenStep

\* AlertedLeaseIsOver made inductive: a failure is decided on the row as it was
\* at this attempt or a later one.
OverOn(p, t) ==
  /\ exec[p][t].pc \in {"rescheduling", "burying"} =>
       exec[p][t].attempt <= exec[p][t].read /\ exec[p][t].read <= row[t].attempts
  /\ exec[p][t].pc = "alerting" =>
       row[t].state # "RUNNING" \/ exec[p][t].attempt < row[t].attempts

OverInv == \A p \in Procs, t \in Tasks : OverOn(p, t)

\* Whatever happens to the row, an execution that stays where it is stays right.
LEMMA OverKept ==
  ASSUME Aux, HeldInv, RowStep, TypeOK', NEW p \in Procs, NEW t \in Tasks, OverOn(p, t),
         exec'[p][t] = exec[p][t]
  PROVE  OverOn(p, t)'
<1>1. /\ row[t].attempts \in Nat /\ row'[t].attempts \in Nat
      /\ exec[p][t].attempt \in Nat /\ exec[p][t].read \in Nat
  BY DEF Aux, TypeOK, Row, Execution
<1>2. row'[t].attempts >= row[t].attempts
  BY RowStepOn DEF Aux
<1>3. exec[p][t].pc = "alerting" => exec[p][t].attempt <= row[t].attempts
  BY DEF HeldInv, Executes
<1>4. row'[t].state = "RUNNING" =>
        row[t].state = "RUNNING" \/ row'[t].attempts = row[t].attempts + 1
  BY LeaseIsNew DEF Aux
<1>5. QED
  BY <1>1, <1>2, <1>3, <1>4 DEF OverOn

\* The steps of the execution itself: only FailRead and FailWrite decide.
LEMMA OverExecStep ==
  ASSUME Aux, HeldInv, TypeOK', NEW p \in Procs, NEW t \in Tasks, OverOn(p, t),
         ExecStep(p, t)
  PROVE  OverOn(p, t)'
<1> DEFINE old == exec[p][t]
           new == exec'[p][t]
<1>1. /\ row[t].attempts \in Nat /\ row'[t].attempts \in Nat
      /\ old \in Execution /\ old.attempt \in Nat /\ old.read \in Nat
      /\ exec \in [Procs -> [Tasks -> Execution]] /\ row \in [Tasks -> Row]
  BY DEF Aux, TypeOK, Row, Execution
<1>2. ASSUME NEW pc \in ExecPc, GoTo(p, t, pc)
      PROVE  new.pc = pc /\ new.attempt = old.attempt /\ new.read = old.read
  <2>1. new = [old EXCEPT !.pc = pc]
    BY <1>1, <1>2 DEF GoTo, SetExec
  <2>2. QED
    BY <1>1, <2>1 DEF Execution
<1>3. CASE AbortFires(p, t) \/ HandlerReturns(p, t) \/ Complete(p, t)
  <2>1. PICK pc \in {"overdue", "completing", "failing", "settled"} : GoTo(p, t, pc)
    BY <1>3 DEF AbortFires, HandlerReturns, Complete
  <2>2. new.pc = pc
    BY <1>2, <2>1 DEF ExecPc
  <2>3. QED
    BY <2>2 DEF OverOn
<1>4. CASE HandlerThrows(p, t) \/ CompleteFails(p, t)
  <2>1. PICK permanent \in BOOLEAN :
          SetExec(p, t, [old EXCEPT !.pc = "failing", !.permanent = permanent])
    BY <1>4 DEF HandlerThrows, CompleteFails
  <2>2. new = [old EXCEPT !.pc = "failing", !.permanent = permanent]
    BY <1>1, <2>1 DEF SetExec
  <2>3. new.pc = "failing"
    BY <1>1, <2>2 DEF Execution
  <2>4. QED
    BY <2>3 DEF OverOn
<1>5. CASE FailRead(p, t)
  <2>1. row' = row /\ old.pc = "failing"
    BY <1>5 DEF FailRead
  <2>2. CASE row[t].state # "RUNNING"
    <3>1. new.pc = "alerting"
      BY <1>2, <1>5, <2>2 DEF FailRead, ExecPc
    <3>2. QED
      BY <2>1, <2>2, <3>1 DEF OverOn
  <2>3. CASE row[t].state = "RUNNING"
    <3>1. PICK pc \in {"rescheduling", "burying"} :
            SetExec(p, t, [old EXCEPT !.pc = pc, !.read = row[t].attempts])
      BY <1>5, <2>3 DEF FailRead
    <3>2. new = [old EXCEPT !.pc = pc, !.read = row[t].attempts]
      BY <1>1, <3>1 DEF SetExec
    <3>3. new.pc = pc /\ new.attempt = old.attempt /\ new.read = row[t].attempts
      BY <1>1, <3>2 DEF Execution
    <3>4. old.attempt <= row[t].attempts
      BY <2>1 DEF HeldInv, Executes
    <3>5. QED
      BY <1>1, <2>1, <3>3, <3>4 DEF OverOn
  <2>4. QED
    BY <2>2, <2>3
<1>6. CASE FailWrite(p, t)
  <2>1. CASE GoTo(p, t, "settled")
    <3>1. new.pc = "settled"
      BY <1>2, <2>1 DEF ExecPc
    <3>2. QED
      BY <3>1 DEF OverOn
  <2>2. CASE Bury(t) /\ GoTo(p, t, "alerting")
    <3>1. row'[t].state = "FAILED"
      BY <1>1, <2>2 DEF Bury, Update, Become
    <3>2. new.pc = "alerting"
      BY <1>2, <2>2 DEF ExecPc
    <3>3. QED
      BY <3>1, <3>2 DEF OverOn
  <2>3. CASE /\ old.pc \in {"rescheduling", "burying"} /\ ~StillAt(t, old.read)
             /\ row' = row /\ GoTo(p, t, "alerting")
    <3>1. old.attempt <= old.read /\ old.read <= row[t].attempts
      BY <2>3 DEF OverOn
    <3>2. row[t].state # "RUNNING" \/ row[t].attempts # old.read
      BY <2>3 DEF StillAt
    <3>3. new.pc = "alerting" /\ new.attempt = old.attempt
      BY <1>2, <2>3 DEF ExecPc
    <3>4. QED
      BY <1>1, <2>3, <3>1, <3>2, <3>3 DEF OverOn
  <2>4. QED
    BY <1>6, <2>1, <2>2, <2>3 DEF FailWrite
<1>7. CASE Settle(p, t) \/ FailFails(p, t)
  <2>1. new = NoExec
    BY <1>1, <1>7 DEF Settle, FailFails, Remove, SetExec
  <2>2. QED
    BY <2>1 DEF NoExec, OverOn
<1>8. QED
  BY <1>3, <1>4, <1>5, <1>6, <1>7 DEF ExecStep

\* What a step does to an execution: nothing, one of its own steps, or its
\* start, or its loss in a crash.
LEMMA ExecutionStep ==
  ASSUME TypeOK, [Next]_vars, NEW p \in Procs, NEW t \in Tasks
  PROVE  \/ exec'[p][t] = exec[p][t]
         \/ ExecStep(p, t)
         \/ exec'[p][t] = NoExec
         \/ exec'[p][t].pc = "handler" /\ ~exec'[p][t].permanent
<1> exec \in [Procs -> [Tasks -> Execution]]
  BY DEF TypeOK
<1>1. CASE UNCHANGED vars \/ QueueStep
  BY <1>1 DEF vars, QueueStep, Outside, workerVars
<1>2. ASSUME NEW q \in Procs, Start(q) \/ Stop(q) \/ StopSnapshot(q) \/ StopResolve(q)
      PROVE  exec'[p][t] = exec[p][t]
  BY <1>2 DEF Start, Stop, StopSnapshot, StopResolve
<1>3. ASSUME NEW q \in Procs, Crash(q)
      PROVE  exec'[p][t] = exec[p][t] \/ exec'[p][t] = NoExec
  BY <1>3 DEF Crash
<1>4. ASSUME NEW q \in Procs, NEW c \in Chains, PollStep(q, c)
      PROVE  \/ exec'[p][t] = exec[p][t]
             \/ exec'[p][t].pc = "handler" /\ ~exec'[p][t].permanent
  <2>1. CASE PollDispatch(q, c)
    <3>1. exec'[p][t] = IF p = q /\ t \in Dispatched(q, c)
                        THEN [pc |-> "handler", attempt |-> claimed[q][c][t],
                              permanent |-> FALSE, read |-> 0]
                        ELSE exec[p][t]
      BY <2>1 DEF PollDispatch
    <3>2. QED
      BY <3>1
  <2>2. CASE ~PollDispatch(q, c)
    BY <1>4, <2>2 DEF PollStep, PollIdle, PollStart, PollClaim,
       PollFails, PollQuarantine
  <2>3. QED
    BY <2>1, <2>2
<1>5. ASSUME NEW q \in Procs, NEW u \in Tasks, ExecStep(q, u), p # q \/ t # u
      PROVE  exec'[p][t] = exec[p][t]
  <2>1. PICK e \in Execution : SetExec(q, u, e)
    BY <1>5, ExecStepEffect
  <2>2. QED
    BY <1>5, <2>1 DEF SetExec
<1>6. QED
  BY <1>1, <1>2, <1>3, <1>4, <1>5 DEF Next

LEMMA OverNext == Aux /\ LeaseInv /\ OverInv /\ [Next]_vars => OverInv'
<1> SUFFICES ASSUME Aux, LeaseInv, OverInv, [Next]_vars, NEW p \in Procs, NEW t \in Tasks
             PROVE  OverOn(p, t)'
  BY DEF OverInv
<1>1. RowStep /\ TypeOK' /\ HeldInv /\ OverOn(p, t)
  BY NextRowStep, NextType DEF Aux, LeaseInv, OverInv
<1>2. CASE exec'[p][t] = exec[p][t]
  BY <1>1, <1>2, OverKept
<1>3. CASE ExecStep(p, t)
  BY <1>1, <1>3, OverExecStep
<1>4. CASE exec'[p][t].pc \in {"none", "handler"}
  BY <1>4 DEF OverOn
<1>5. QED
  BY <1>2, <1>3, <1>4, ExecutionStep DEF NoExec, Aux

\* onNonRetryableError is never called for a lease that still stands: neither a
\* recovery and a new claim nor another worker's report makes it wrong.
THEOREM AlertsCorrect == Spec => []AlertedLeaseIsOver
<1>1. Init => LeaseInv /\ OverInv
  BY DEF Init, QueueInit, LeaseInv, HeldInv, LeaseExclusive, Executes, NoExec, NothingClaimed,
     OverInv, OverOn
<1>2. Aux /\ OverInv => AlertedLeaseIsOver
  <2>1. Aux => \A p \in Procs, t \in Tasks :
          row[t].attempts \in Nat /\ exec[p][t].attempt \in Nat
    BY DEF Aux, TypeOK, Row, Execution
  <2>2. QED
    BY <2>1 DEF OverInv, OverOn, AlertedLeaseIsOver
<1>3. QED
  BY <1>1, <1>2, OverNext, LeaseNext, AuxInvariant, PTL DEF Spec

\* An execution of t has met an error that is not retried.
Final(t) == \/ "permanent" \in evidence[t]
            \/ {"returned", "unrecorded"} \subseteq evidence[t]

\* EndsForAReason made inductive: an execution acts on what its handler showed.
ReasonOn(p, t) ==
  /\ exec[p][t].pc = "completing" => "returned" \in evidence[t]
  /\ exec[p][t].permanent => Final(t)
  /\ exec[p][t].pc = "burying" => exec[p][t].read >= MaxAttempts[t] \/ Final(t)

ExecReasonInv == \A p \in Procs, t \in Tasks : ReasonOn(p, t)

\* What a handler has shown is not taken back.
LEMMA EvidenceGrows ==
  ASSUME TypeOK, [Next]_vars, NEW t \in Tasks
  PROVE  evidence[t] \subseteq evidence'[t]
<1> evidence \in [Tasks -> SUBSET Shown]
  BY DEF TypeOK
<1>1. CASE UNCHANGED vars \/ QueueStep
  BY <1>1 DEF vars, QueueStep, Outside
<1>2. ASSUME NEW q \in Procs,
             Start(q) \/ Stop(q) \/ StopSnapshot(q) \/ StopResolve(q) \/ Crash(q)
      PROVE  evidence' = evidence
  BY <1>2 DEF Start, Stop, StopSnapshot, StopResolve, Crash
<1>3. ASSUME NEW q \in Procs, NEW c \in Chains, PollStep(q, c)
      PROVE  evidence' = evidence
  BY <1>3 DEF PollStep, PollIdle, PollStart, PollClaim, PollDispatch,
     PollFails, PollQuarantine
<1>4. ASSUME NEW q \in Procs, NEW u \in Tasks, ExecStep(q, u)
      PROVE  evidence' = evidence \/ \E shown \in Shown :
               evidence' = [evidence EXCEPT ![u] = @ \cup {shown}]
  BY <1>4 DEF ExecStep, AbortFires, HandlerReturns, HandlerThrows, Complete, CompleteFails,
     FailRead, FailWrite, Settle, FailFails, Remove, Shown
<1>5. QED
  BY <1>1, <1>2, <1>3, <1>4 DEF Next

\* The steps of the execution itself.
LEMMA ReasonExecStep ==
  ASSUME Aux, TypeOK', NEW p \in Procs, NEW t \in Tasks, ReasonOn(p, t), ExecStep(p, t),
         evidence[t] \subseteq evidence'[t]
  PROVE  ReasonOn(p, t)'
<1> DEFINE old == exec[p][t]
           new == exec'[p][t]
<1>1. /\ old \in Execution /\ row[t].attempts \in Nat
      /\ exec \in [Procs -> [Tasks -> Execution]] /\ row \in [Tasks -> Row]
      /\ evidence \in [Tasks -> SUBSET Shown]
  BY DEF Aux, TypeOK, Row
<1>2. ASSUME NEW pc \in ExecPc, GoTo(p, t, pc)
      PROVE  new.pc = pc /\ new.permanent = old.permanent
  <2>1. new = [old EXCEPT !.pc = pc]
    BY <1>1, <1>2 DEF GoTo, SetExec
  <2>2. QED
    BY <1>1, <2>1 DEF Execution
<1>3. old.permanent => Final(t)'
  BY DEF ReasonOn, Final
<1>4. CASE AbortFires(p, t) \/ Complete(p, t) \/ FailWrite(p, t)
  <2>1. PICK pc \in {"overdue", "settled", "alerting"} : GoTo(p, t, pc)
    BY <1>4 DEF AbortFires, Complete, FailWrite
  <2>2. new.pc = pc /\ new.permanent = old.permanent
    BY <1>2, <2>1 DEF ExecPc
  <2>3. QED
    BY <1>3, <2>2 DEF ReasonOn
<1>5. CASE HandlerReturns(p, t)
  <2>1. CASE GoTo(p, t, "completing") /\ evidence' = [evidence EXCEPT ![t] = @ \cup {"returned"}]
    <3>1. new.pc = "completing" /\ new.permanent = old.permanent
      BY <1>2, <2>1 DEF ExecPc
    <3>2. "returned" \in evidence'[t]
      BY <1>1, <2>1
    <3>3. QED
      BY <1>3, <3>1, <3>2 DEF ReasonOn
  <2>2. CASE GoTo(p, t, "failing")
    <3>1. new.pc = "failing" /\ new.permanent = old.permanent
      BY <1>2, <2>2 DEF ExecPc
    <3>2. QED
      BY <1>3, <3>1 DEF ReasonOn
  <2>3. QED
    BY <1>5, <2>1, <2>2 DEF HandlerReturns
<1>6. CASE HandlerThrows(p, t)
  <2>1. PICK permanent \in BOOLEAN :
          /\ SetExec(p, t, [old EXCEPT !.pc = "failing", !.permanent = permanent])
          /\ permanent => evidence' = [evidence EXCEPT ![t] = @ \cup {"permanent"}]
    BY <1>6 DEF HandlerThrows
  <2>2. new = [old EXCEPT !.pc = "failing", !.permanent = permanent]
    BY <1>1, <2>1 DEF SetExec
  <2>3. new.pc = "failing" /\ new.permanent = permanent
    BY <1>1, <2>2 DEF Execution
  <2>4. permanent => Final(t)'
    BY <1>1, <2>1 DEF Final
  <2>5. QED
    BY <2>3, <2>4 DEF ReasonOn
<1>7. CASE FailRead(p, t)
  <2>1. CASE row[t].state # "RUNNING"
    <3>1. new.pc = "alerting" /\ new.permanent = old.permanent
      BY <1>2, <1>7, <2>1 DEF FailRead, ExecPc
    <3>2. QED
      BY <1>3, <3>1 DEF ReasonOn
  <2>2. CASE row[t].state = "RUNNING"
    <3> DEFINE next == IF Retryable(t, old.permanent) THEN "rescheduling" ELSE "burying"
    <3>1. new = [old EXCEPT !.pc = next, !.read = row[t].attempts]
      BY <1>1, <1>7, <2>2 DEF FailRead, SetExec
    <3>2. new.pc = next /\ new.read = row[t].attempts /\ new.permanent = old.permanent
      BY <1>1, <3>1 DEF Execution
    <3>3. new.pc # "completing"
      BY <3>2
    <3>4. new.pc = "burying" => ~Retryable(t, old.permanent)
      BY <3>2
    <3>5. new.pc = "burying" => new.read >= MaxAttempts[t] \/ old.permanent
      BY <1>1, <3>2, <3>4 DEF Retryable
    <3> HIDE DEF next
    <3>6. QED
      BY <1>3, <3>2, <3>3, <3>5 DEF ReasonOn
  <2>3. QED
    BY <2>1, <2>2
<1>8. CASE Settle(p, t) \/ FailFails(p, t)
  <2>1. new = NoExec
    BY <1>1, <1>8 DEF Settle, FailFails, Remove, SetExec
  <2>2. QED
    BY <2>1 DEF NoExec, ReasonOn
<1>9. CASE CompleteFails(p, t)
  <2>1. /\ SetExec(p, t, [old EXCEPT !.pc = "failing", !.permanent = TRUE])
        /\ evidence' = [evidence EXCEPT ![t] = @ \cup {"unrecorded"}]
        /\ "returned" \in evidence[t]
    BY <1>9 DEF CompleteFails, ReasonOn
  <2>2. new = [old EXCEPT !.pc = "failing", !.permanent = TRUE]
    BY <1>1, <2>1 DEF SetExec
  <2>3. new.pc = "failing"
    BY <1>1, <2>2 DEF Execution
  <2>4. Final(t)'
    BY <1>1, <2>1 DEF Final
  <2>5. QED
    BY <2>3, <2>4 DEF ReasonOn
<1>10. QED
  BY <1>4, <1>5, <1>6, <1>7, <1>8, <1>9 DEF ExecStep

LEMMA ExecReasonNext == Aux /\ ExecReasonInv /\ [Next]_vars => ExecReasonInv'
<1> SUFFICES ASSUME Aux, ExecReasonInv, [Next]_vars, NEW p \in Procs, NEW t \in Tasks
             PROVE  ReasonOn(p, t)'
  BY DEF ExecReasonInv
<1>1. TypeOK' /\ ReasonOn(p, t) /\ evidence[t] \subseteq evidence'[t]
  BY NextType, EvidenceGrows DEF Aux, ExecReasonInv
<1>2. CASE exec'[p][t] = exec[p][t]
  BY <1>1, <1>2 DEF ReasonOn, Final
<1>3. CASE ExecStep(p, t)
  BY <1>1, <1>3, ReasonExecStep
<1>4. CASE exec'[p][t].pc \in {"none", "handler"} /\ ~exec'[p][t].permanent
  BY <1>4 DEF ReasonOn
<1>5. QED
  BY <1>2, <1>3, <1>4, ExecutionStep DEF NoExec, Aux

\* The steps that end a row, with the reason each one has; every other step
\* leaves an ended row as it is.
LEMMA EndingStep ==
  ASSUME Aux, [Next]_vars, NEW t \in Tasks, row'[t].state \in {"COMPLETED", "FAILED"}
  PROVE  \/ row'[t].state = row[t].state /\ row'[t].attempts = row[t].attempts
         \/ t \in Corrupt /\ row'[t].state = "FAILED"
         \/ \E p \in Procs : /\ exec[p][t].pc = "completing"
                             /\ row'[t].state = "COMPLETED"
         \/ \E p \in Procs : /\ exec[p][t].pc = "burying"
                             /\ row'[t].state = "FAILED" /\ row'[t].attempts = exec[p][t].read
<1> row \in [Tasks -> Row]
  BY DEF Aux, TypeOK
<1> DEFINE Kept == row'[t].state = row[t].state /\ row'[t].attempts = row[t].attempts
<1>1. ASSUME NEW u \in Tasks, NEW s \in States, NEW w \in Int, Update(u, s, w), t # u
      PROVE  Kept
  BY <1>1 DEF Update
<1>2. ASSUME NEW u \in Tasks, NEW s \in States \ {"COMPLETED", "FAILED"}, NEW w \in Int,
             Update(u, s, w)
      PROVE  Kept
  BY <1>2 DEF Update, Become
<1>3. CASE OpenStep
  <2>1. CASE Inserted \/ Retried \/ Cancelled
    BY <1>2, <2>1 DEF Inserted, Retried, Cancelled, States, Active
  <2>2. CASE Claimed
    BY <2>2 DEF Claimed, Claim
  <2>3. CASE Pruned \/ Recovered
    <3>1. PICK S \in SUBSET Tasks, s \in {"PENDING", "DELETED"} : UpdateAll(S, s, 0)
      BY <2>3 DEF Pruned, Recovered
    <3>2. t \notin S
      BY <3>1 DEF UpdateAll, Become
    <3>3. QED
      BY <3>1, <3>2 DEF UpdateAll
  <2>4. CASE Aged
    BY <2>4 DEF Aged
  <2>5. QED
    BY <1>3, <2>1, <2>2, <2>3, <2>4 DEF OpenStep
<1>4. CASE row' = row
  BY <1>4
<1>5. CASE UNCHANGED vars \/ QueueStep
  BY <1>3, <1>4, <1>5, QueueRowStep DEF vars, Aux
<1>6. ASSUME NEW p \in Procs,
             Start(p) \/ Stop(p) \/ StopSnapshot(p) \/ StopResolve(p) \/ Crash(p)
      PROVE  Kept
  BY <1>4, <1>6 DEF Start, Stop, StopSnapshot, StopResolve, Crash
<1>7. ASSUME NEW p \in Procs, NEW c \in Chains, PollStep(p, c)
      PROVE  Kept \/ (t \in Corrupt /\ row'[t].state = "FAILED")
  <2>1. CASE PollClaim(p, c)
    <3>1. PICK S \in Claimable(chain[p][c].limit) : Claim(S)
      BY <2>1 DEF PollClaim
    <3>2. QED
      BY <3>1 DEF Claim
  <2>2. CASE \E u \in Tasks : PollQuarantine(p, c, u)
    <3>1. PICK u \in Tasks : u \in Corrupt /\ Quarantine(u)
      BY <2>2 DEF PollQuarantine
    <3>2. CASE t = u /\ Update(u, "FAILED", 0)
      BY <3>1, <3>2 DEF Update, Become
    <3>3. CASE t # u /\ Update(u, "FAILED", 0)
      BY <3>3 DEF Update
    <3>4. QED
      BY <1>4, <3>1, <3>2, <3>3 DEF Quarantine
  <2>3. CASE \/ PollIdle(p, c) \/ PollStart(p, c)
             \/ PollDispatch(p, c) \/ PollFails(p, c)
    BY <2>3, <1>4 DEF PollIdle, PollStart, PollDispatch, PollFails
  <2>4. QED
    BY <1>7, <2>1, <2>2, <2>3 DEF PollStep
<1>8. ASSUME NEW p \in Procs, NEW u \in Tasks, ExecStep(p, u)
      PROVE  \/ Kept
             \/ exec[p][t].pc = "completing" /\ row'[t].state = "COMPLETED"
             \/ /\ exec[p][t].pc = "burying"
                /\ row'[t].state = "FAILED" /\ row'[t].attempts = exec[p][t].read
  <2>1. CASE Complete(p, u)
    <3>1. CASE Update(u, "COMPLETED", 0)
      <4>1. CASE t = u
        BY <2>1, <3>1, <4>1 DEF Complete, Update, Become
      <4>2. CASE t # u
        BY <3>1, <4>2 DEF Update
      <4>3. QED
        BY <4>1, <4>2
    <3>2. QED
      BY <1>4, <2>1, <3>1 DEF Complete, MarkCompleted
  <2>2. CASE FailWrite(p, u)
    <3>1. CASE Reschedule(u, exec[p][u].read)
      <4>1. PICK w \in RetryDelays(exec[p][u].read) : Update(u, "PENDING", w)
        BY <3>1 DEF Reschedule
      <4>2. w \in Int
        BY DEF RetryDelays
      <4>3. QED
        BY <4>1 DEF Update, Become
    <3>2. CASE exec[p][u].pc = "burying" /\ StillAt(u, exec[p][u].read) /\ Bury(u)
      <4>1. CASE t = u
        BY <3>2, <4>1 DEF StillAt, Bury, Update, Become
      <4>2. CASE t # u
        BY <3>2, <4>2 DEF Bury, Update
      <4>3. QED
        BY <4>1, <4>2
    <3>3. QED
      BY <1>4, <2>2, <3>1, <3>2 DEF FailWrite
  <2>3. CASE \/ AbortFires(p, u) \/ HandlerReturns(p, u) \/ HandlerThrows(p, u)
             \/ CompleteFails(p, u) \/ FailRead(p, u) \/ Settle(p, u) \/ FailFails(p, u)
    BY <2>3, <1>4 DEF AbortFires, HandlerReturns, HandlerThrows, CompleteFails, FailRead,
       Settle, FailFails, Remove
  <2>4. QED
    BY <1>8, <2>1, <2>2, <2>3 DEF ExecStep
<1>9. QED
  BY <1>5, <1>6, <1>7, <1>8 DEF Next

LEMMA ReasonNext ==
  Aux /\ ExecReasonInv /\ EndsForAReason /\ [Next]_vars => EndsForAReason'
<1> SUFFICES ASSUME Aux, ExecReasonInv, EndsForAReason, [Next]_vars, NEW t \in Tasks
             PROVE  /\ row'[t].state = "FAILED" =>
                         row'[t].attempts >= MaxAttempts[t] \/ Final(t)' \/ t \in Corrupt
                    /\ row'[t].state = "COMPLETED" => "returned" \in evidence'[t]
  BY DEF EndsForAReason, Final
<1>1. evidence[t] \subseteq evidence'[t]
  BY EvidenceGrows DEF Aux
<1>2. CASE row'[t].state = row[t].state /\ row'[t].attempts = row[t].attempts
  BY <1>1, <1>2 DEF EndsForAReason, Final
<1>3. CASE t \in Corrupt /\ row'[t].state = "FAILED"
  BY <1>3
<1>4. ASSUME NEW p \in Procs, exec[p][t].pc = "completing", row'[t].state = "COMPLETED"
      PROVE  "returned" \in evidence'[t]
  BY <1>1, <1>4 DEF ExecReasonInv, ReasonOn
<1>5. ASSUME NEW p \in Procs, exec[p][t].pc = "burying", row'[t].state = "FAILED",
             row'[t].attempts = exec[p][t].read
      PROVE  row'[t].attempts >= MaxAttempts[t] \/ Final(t)'
  BY <1>1, <1>5 DEF ExecReasonInv, ReasonOn, Final
<1>6. QED
  BY <1>2, <1>3, <1>4, <1>5, EndingStep

\* Whatever recovers, claims, retries and crashes in between, a row fails only
\* for a reason (which may be that its completion could not be recorded) and
\* completes only because a handler returned in time.
THEOREM EndingsCorrect == Spec => []EndsForAReason
<1>1. Init => EndsForAReason /\ ExecReasonInv
  BY DEF Init, QueueInit, EndsForAReason, ExecReasonInv, ReasonOn, NoExec
<1>2. QED
  BY <1>1, ReasonNext, ExecReasonNext, AuxInvariant, PTL DEF Spec

-----------------------------------------------------------------------------
(* The worker: its poll chains, its slots and stop(). *)

\* Only a poll that has its claim's result holds claimed tasks.
ClaimedInv(p) ==
  \A c \in Chains, t \in Tasks : claimed[p][c][t] > 0 => chain[p][c].pc = "claimed"

\* A worker that has not been forked has one chain, which its last timer or its
\* polling promise names.
OneChain(p) ==
  \A c \in Chains : chain[p][c].pc # "off" =>
    /\ \A d \in Chains \ {c} : chain[p][d].pc = "off"
    /\ chain[p][c].pc = "timer" => running[p] /\ pollTimer[p] = c
    /\ chain[p][c].pc # "timer" => polling[p] = c

\* A claim in progress asks for free slots only, and what it returns fits them.
SlotsOn(p, c) ==
  /\ Cardinality(InFlight(p) \cup {t \in Tasks : claimed[p][c][t] > 0}) <= Concurrency
  /\ chain[p][c].pc = "claiming" =>
       Cardinality(InFlight(p)) + chain[p][c].limit <= Concurrency

\* stop() waits for the poll there is, and then for all there is in flight.
DrainInv(p) ==
  ~running[p] =>
    /\ stopping[p].pc = "poll" =>
         \A c \in Chains : chain[p][c].pc # "off" => stopping[p].poll = c
    /\ stopping[p].pc = "drain" =>
         /\ \A c \in Chains : chain[p][c].pc = "off"
         /\ \A t \in Tasks : exec[p][t].pc # "none" => t \in stopping[p].wait

WorkerOn(p) ==
  /\ ClaimedInv(p)
  /\ ~forked[p] => OneChain(p) /\ DrainInv(p) /\ \A c \in Chains : SlotsOn(p, c)

WorkerInv == \A p \in Procs : WorkerOn(p)

\* Sets of tasks can be counted, and a part of one has no more than the whole.
LEMMA Fewer ==
  ASSUME NEW S \in SUBSET Tasks, NEW T \in SUBSET S
  PROVE  Cardinality(S) \in Nat /\ Cardinality(T) \in Nat /\ Cardinality(T) <= Cardinality(S)
<1>1. IsFiniteSet(S)
  BY FS_Subset
<1>2. IsFiniteSet(T) /\ Cardinality(T) <= Cardinality(S)
  BY <1>1, FS_Subset
<1>3. QED
  BY <1>1, <1>2, FS_CardinalityType

\* Slots stay free when nothing is dispatched, claimed or asked for.
LEMMA SlotsKept ==
  ASSUME TypeOK, NEW p \in Procs, NEW c \in Chains, SlotsOn(p, c),
         \A t \in Tasks : exec'[p][t].pc # "none" => exec[p][t].pc # "none",
         \A t \in Tasks : claimed'[p][c][t] > 0 => claimed[p][c][t] > 0,
         chain'[p][c].pc = "claiming" => chain'[p][c] = chain[p][c]
  PROVE  SlotsOn(p, c)'
<1> DEFINE full == InFlight(p) \cup {t \in Tasks : claimed[p][c][t] > 0}
<1>1. InFlight(p) \in SUBSET Tasks /\ InFlight(p)' \in SUBSET InFlight(p)
  BY DEF InFlight
<1>2. full \in SUBSET Tasks /\ full' \in SUBSET full
  BY DEF InFlight
<1>3. /\ Cardinality(full') \in Nat /\ Cardinality(full) \in Nat
      /\ Cardinality(full') <= Cardinality(full)
  BY <1>2, Fewer
<1>4. /\ Cardinality(InFlight(p)') \in Nat /\ Cardinality(InFlight(p)) \in Nat
      /\ Cardinality(InFlight(p)') <= Cardinality(InFlight(p))
  BY <1>1, Fewer
<1>5. chain[p][c].limit \in Nat
  BY DEF TypeOK, Chain
<1>6. Cardinality(full) <= Concurrency
  BY DEF SlotsOn
<1>7. Cardinality(full') <= Concurrency
  BY <1>3, <1>6
<1>8. chain'[p][c].pc = "claiming" =>
        Cardinality(InFlight(p)') + chain'[p][c].limit <= Concurrency
  <2> SUFFICES ASSUME chain'[p][c].pc = "claiming"
               PROVE  Cardinality(InFlight(p)') + chain'[p][c].limit <= Concurrency
    OBVIOUS
  <2>1. chain'[p][c] = chain[p][c]
    OBVIOUS
  <2>2. Cardinality(InFlight(p)) + chain[p][c].limit <= Concurrency
    BY <2>1 DEF SlotsOn
  <2>3. QED
    BY <1>4, <1>5, <2>1, <2>2
<1>9. QED
  BY <1>7, <1>8 DEF SlotsOn

\* A step that leaves the chains of p alone, starts and claims nothing, and
\* does not disturb what stop() waits for.
LEMMA WorkerKept ==
  ASSUME TypeOK, NEW p \in Procs, WorkerOn(p),
         chain'[p] = chain[p], running'[p] = running[p], pollTimer'[p] = pollTimer[p],
         polling'[p] = polling[p], forked'[p] = forked[p],
         \A c \in Chains, t \in Tasks : claimed'[p][c][t] > 0 => claimed[p][c][t] > 0,
         \A t \in Tasks : exec'[p][t].pc # "none" => exec[p][t].pc # "none",
         ~forked[p] => DrainInv(p)'
  PROVE  WorkerOn(p)'
<1>1. ClaimedInv(p)'
  BY DEF WorkerOn, ClaimedInv
<1>2. ~forked[p] => OneChain(p)'
  BY DEF WorkerOn, OneChain
<1>3. ASSUME ~forked[p], NEW c \in Chains PROVE SlotsOn(p, c)'
  BY <1>3, SlotsKept DEF WorkerOn
<1>4. QED
  BY <1>1, <1>2, <1>3 DEF WorkerOn

LEMMA WorkerUntouched ==
  ASSUME TypeOK, NEW p \in Procs, WorkerOn(p),
         chain'[p] = chain[p], claimed'[p] = claimed[p], running'[p] = running[p],
         pollTimer'[p] = pollTimer[p], polling'[p] = polling[p], forked'[p] = forked[p],
         exec'[p] = exec[p], stopping'[p] = stopping[p]
  PROVE  WorkerOn(p)'
<1>1. ~forked[p] => DrainInv(p)'
  BY DEF WorkerOn, DrainInv
<1>2. QED
  BY <1>1, WorkerKept

\* A worker whose one chain is c after the step: c is where it may be, and no
\* other chain has moved.
LEMMA OneChainMoves ==
  ASSUME TypeOK, NEW p \in Procs, NEW c \in Chains, OneChain(p),
         \A d \in Chains \ {c} : chain[p][d].pc = "off",
         \A d \in Chains \ {c} : chain'[p][d] = chain[p][d],
         chain'[p][c].pc = "timer" => running'[p] /\ pollTimer'[p] = c,
         chain'[p][c].pc \notin {"off", "timer"} => polling'[p] = c
  PROVE  OneChain(p)'
BY DEF OneChain

\* start() leaves one chain, unless it finds one alive.
LEMMA WorkerStart ==
  ASSUME TypeOK, NEW p \in Procs, WorkerOn(p), Start(p)
  PROVE  WorkerOn(p)'
<1>1. PICK c \in Chains :
        /\ chain[p][c].pc = "off"
        /\ chain' = [chain EXCEPT ![p][c] = Waiting]
        /\ pollTimer' = [pollTimer EXCEPT ![p] = c]
  BY DEF Start
<1>2. /\ chain'[p][c] = Waiting
      /\ \A d \in Chains \ {c} : chain'[p][d] = chain[p][d]
      /\ pollTimer'[p] = c /\ running'[p]
      /\ claimed' = claimed /\ exec' = exec
      /\ ~forked'[p] => ~forked[p] /\ \A d \in Chains : chain[p][d].pc = "off"
  BY <1>1 DEF Start, TypeOK
<1>3. chain'[p][c].pc = "timer"
  BY <1>2 DEF Waiting
<1>4. ClaimedInv(p)'
  BY <1>1, <1>2 DEF WorkerOn, ClaimedInv
<1>5. ASSUME ~forked'[p] PROVE OneChain(p)' /\ DrainInv(p)'
  BY <1>2, <1>3, <1>5 DEF OneChain, DrainInv
<1>6. ASSUME ~forked'[p], NEW d \in Chains PROVE SlotsOn(p, d)'
  <2>1. SlotsOn(p, d)
    BY <1>2, <1>6 DEF WorkerOn
  <2>2. chain'[p][d].pc # "claiming"
    BY <1>2, <1>3, <1>6
  <2>3. QED
    BY <1>2, <2>1, <2>2, SlotsKept
<1>7. QED
  BY <1>4, <1>5, <1>6 DEF WorkerOn

\* stop() clears the only timer there can be, or finds the only poll.
LEMMA WorkerStop ==
  ASSUME TypeOK, NEW p \in Procs, WorkerOn(p), Stop(p)
  PROVE  WorkerOn(p)'
<1>1. /\ \A c \in Chains : chain'[p][c] = IF c = pollTimer[p] /\ chain[p][c].pc = "timer"
                                          THEN Off ELSE chain[p][c]
      /\ ~running'[p] /\ forked' = forked /\ claimed' = claimed /\ exec' = exec
      /\ polling' = polling
      /\ stopping'[p] = [pc |-> "poll", poll |-> polling[p], wait |-> {}]
  BY DEF Stop, TypeOK
<1>2. \A c \in Chains : \/ chain'[p][c] = chain[p][c]
                        \/ chain'[p][c].pc = "off" /\ chain[p][c].pc = "timer"
  BY <1>1 DEF Off
<1>3. ClaimedInv(p)'
  BY <1>1, <1>2 DEF WorkerOn, ClaimedInv
<1>4. ASSUME ~forked[p], NEW c \in Chains
      PROVE  chain'[p][c].pc # "off" =>
               chain'[p][c] = chain[p][c] /\ chain[p][c].pc # "timer" /\ polling[p] = c
  <2>1. chain[p][c].pc = "timer" => chain'[p][c] = Off
    BY <1>1, <1>4 DEF WorkerOn, OneChain
  <2>2. chain[p][c].pc \notin {"off", "timer"} => polling[p] = c
    BY <1>4 DEF WorkerOn, OneChain
  <2>3. QED
    BY <1>2, <2>1, <2>2 DEF Off
<1>5. ASSUME ~forked[p] PROVE OneChain(p)'
  BY <1>1, <1>2, <1>4, <1>5 DEF WorkerOn, OneChain
<1>6. ASSUME ~forked[p] PROVE DrainInv(p)'
  BY <1>1, <1>4, <1>6 DEF DrainInv
<1>7. ASSUME ~forked[p], NEW d \in Chains PROVE SlotsOn(p, d)'
  <2>1. SlotsOn(p, d) /\ (chain'[p][d].pc = "claiming" => chain'[p][d] = chain[p][d])
    BY <1>2, <1>7 DEF WorkerOn
  <2>2. QED
    BY <1>1, <2>1, SlotsKept
<1>8. QED
  BY <1>1, <1>3, <1>5, <1>6, <1>7 DEF WorkerOn

\* The snapshot is taken when no poll is left, and holds all there is in flight.
LEMMA WorkerSnapshot ==
  ASSUME TypeOK, NEW p \in Procs, WorkerOn(p), StopSnapshot(p)
  PROVE  WorkerOn(p)'
<1>1. /\ stopping[p].pc = "poll" /\ stopping[p].poll = NoChain
      /\ stopping'[p] = [pc |-> "drain", poll |-> NoChain, wait |-> InFlight(p)]
      /\ UNCHANGED <<chain, claimed, running, pollTimer, polling, forked, exec>>
  BY DEF StopSnapshot, TypeOK
<1>2. ASSUME ~forked[p], ~running[p], NEW c \in Chains PROVE chain[p][c].pc = "off"
  BY <1>1, <1>2 DEF WorkerOn, DrainInv
<1>3. \A t \in Tasks : exec[p][t].pc # "none" => t \in stopping'[p].wait
  BY <1>1 DEF InFlight
<1>4. ~forked[p] => DrainInv(p)'
  BY <1>1, <1>2, <1>3 DEF DrainInv
<1>5. QED
  BY <1>1, <1>4, WorkerKept

\* A crash leaves nothing of the worker.
LEMMA WorkerCrash ==
  ASSUME TypeOK, NEW p \in Procs, Crash(p)
  PROVE  WorkerOn(p)'
<1>1. /\ chain'[p] = [c \in Chains |-> Off] /\ claimed'[p] = [c \in Chains |-> NothingClaimed]
      /\ exec'[p] = [t \in Tasks |-> NoExec] /\ stopping'[p] = NoStop
  BY DEF Crash, TypeOK
<1>2. /\ \A c \in Chains : chain'[p][c].pc = "off"
      /\ \A c \in Chains, t \in Tasks : claimed'[p][c][t] = 0
      /\ \A t \in Tasks : exec'[p][t].pc = "none"
      /\ stopping'[p].pc = "none"
  BY <1>1 DEF Off, NothingClaimed, NoExec, NoStop
<1>3. ClaimedInv(p)' /\ OneChain(p)' /\ DrainInv(p)'
  BY <1>2 DEF ClaimedInv, OneChain, DrainInv
<1>4. ASSUME NEW c \in Chains PROVE SlotsOn(p, c)'
  <2> DEFINE now == InFlight(p) \cup {t \in Tasks : claimed[p][c][t] > 0}
  <2>1. now' = {}
    BY <1>2 DEF InFlight
  <2>2. Cardinality(now') = 0
    BY <2>1, FS_EmptySet
  <2>3. Cardinality(now') <= Concurrency /\ chain'[p][c].pc # "claiming"
    BY <1>2, <2>2
  <2>4. QED
    BY <2>3 DEF SlotsOn
<1>5. QED
  BY <1>3, <1>4 DEF WorkerOn

\* The end of a poll: its chain waits, or is over if the worker was stopped.
LEMMA WorkerEndPoll ==
  ASSUME TypeOK, NEW p \in Procs, NEW c \in Chains, WorkerOn(p), EndPoll(p, c),
         chain[p][c].pc \in {"claiming", "claimed"},
         running' = running, forked' = forked,
         \A t \in Tasks : exec'[p][t].pc # "none" =>
           exec[p][t].pc # "none" \/ claimed[p][c][t] > 0
  PROVE  WorkerOn(p)'
<1>1. /\ chain'[p][c] = IF running[p] THEN Waiting ELSE Off
      /\ \A d \in Chains \ {c} : chain'[p][d] = chain[p][d] /\ claimed'[p][d] = claimed[p][d]
      /\ claimed'[p][c] = NothingClaimed
      /\ running[p] => pollTimer'[p] = c
      /\ \A q \in Procs, d \in Chains, t \in Tasks : claimed[q][d][t] \in Nat
  BY DEF EndPoll, TypeOK
<1>2. /\ chain'[p][c].pc = IF running[p] THEN "timer" ELSE "off"
      /\ \A t \in Tasks : claimed'[p][c][t] = 0
  BY <1>1 DEF Waiting, Off, NothingClaimed
<1>3. stopping'[p].pc = stopping[p].pc
  <2>1. stopping[p] \in Stopping /\ stopping \in [Procs -> Stopping]
    BY DEF TypeOK
  <2>2. stopping'[p] = [stopping[p] EXCEPT !.poll = IF @ = c THEN NoChain ELSE @]
    BY <2>1 DEF EndPoll
  <2>3. QED
    BY <2>1, <2>2 DEF Stopping
<1>4. ClaimedInv(p)'
  <2> SUFFICES ASSUME NEW d \in Chains, NEW t \in Tasks, claimed'[p][d][t] > 0
               PROVE  chain'[p][d].pc = "claimed"
    BY DEF ClaimedInv
  <2>1. d # c
    BY <1>2
  <2>2. QED
    BY <1>1, <2>1 DEF WorkerOn, ClaimedInv
<1>5. ASSUME ~forked[p]
      PROVE  OneChain(p)' /\ DrainInv(p)' /\ \A d \in Chains : SlotsOn(p, d)'
  <2>1. OneChain(p) /\ DrainInv(p) /\ ClaimedInv(p) /\ \A d \in Chains : SlotsOn(p, d)
    BY <1>5 DEF WorkerOn
  <2>2. \A d \in Chains \ {c} : chain[p][d].pc = "off"
    BY <2>1 DEF OneChain
  <2>3. OneChain(p)'
    BY <1>1, <1>2, <2>2, <2>1, OneChainMoves
  <2>4. ~running[p] => \A d \in Chains : chain'[p][d].pc = "off"
    BY <1>1, <1>2, <2>2
  <2>5. ~running[p] => stopping[p].pc # "drain"
    BY <2>1 DEF DrainInv
  <2>6. DrainInv(p)'
    BY <1>3, <2>4, <2>5 DEF DrainInv
  <2>7. ASSUME NEW d \in Chains PROVE SlotsOn(p, d)'
    <3> DEFINE full == InFlight(p) \cup {t \in Tasks : claimed[p][c][t] > 0}
               now == InFlight(p) \cup {t \in Tasks : claimed[p][d][t] > 0}
    <3>1. \A t \in Tasks : ~(claimed'[p][d][t] > 0)
      <4>1. CASE d = c
        BY <1>2, <4>1
      <4>2. CASE d # c
        BY <1>1, <2>1, <2>2, <4>2 DEF ClaimedInv
      <4>3. QED
        BY <4>1, <4>2
    <3>2. full \in SUBSET Tasks /\ now' \in SUBSET full
      BY <3>1 DEF InFlight
    <3>3. Cardinality(now') <= Cardinality(full) /\ Cardinality(now') \in Nat
          /\ Cardinality(full) \in Nat
      BY <3>2, Fewer
    <3>4. Cardinality(full) <= Concurrency
      BY <2>1 DEF SlotsOn
    <3>5. chain'[p][d].pc # "claiming"
      BY <1>1, <1>2, <2>2
    <3>6. Cardinality(now') <= Concurrency
      BY <3>3, <3>4
    <3>7. QED
      BY <3>5, <3>6 DEF SlotsOn
  <2>8. QED
    BY <2>3, <2>6, <2>7
<1>6. QED
  BY <1>4, <1>5 DEF WorkerOn

\* The other steps of the poll loop.
LEMMA WorkerPollStart ==
  ASSUME TypeOK, NEW p \in Procs, NEW c \in Chains, WorkerOn(p), PollStart(p, c)
  PROVE  WorkerOn(p)'
<1> DEFINE free == Concurrency - Cardinality(InFlight(p))
<1>1. /\ chain[p][c].pc = "timer" /\ running'[p]
      /\ \A d \in Chains \ {c} : chain'[p][d] = chain[p][d]
      /\ chain'[p][c] = [pc |-> "claiming", limit |-> free]
      /\ polling'[p] = c /\ UNCHANGED <<forked, exec, claimed>>
  BY DEF PollStart, TypeOK
<1>2. chain'[p][c].pc = "claiming" /\ chain'[p][c].limit = free
  BY <1>1
<1>3. ClaimedInv(p)'
  <2> SUFFICES ASSUME NEW d \in Chains, NEW t \in Tasks, claimed'[p][d][t] > 0
               PROVE  chain'[p][d].pc = "claimed"
    BY DEF ClaimedInv
  <2>1. chain[p][d].pc = "claimed"
    BY <1>1 DEF WorkerOn, ClaimedInv
  <2>2. QED
    BY <1>1, <2>1
<1>4. ASSUME ~forked[p]
      PROVE  OneChain(p)' /\ DrainInv(p)' /\ \A d \in Chains : SlotsOn(p, d)'
  <2>1. OneChain(p) /\ \A d \in Chains : SlotsOn(p, d)
    BY <1>4 DEF WorkerOn
  <2>2. \A d \in Chains \ {c} : chain[p][d].pc = "off"
    BY <1>1, <2>1 DEF OneChain
  <2>3. OneChain(p)'
    BY <1>1, <1>2, <2>1, <2>2, OneChainMoves
  <2>4. DrainInv(p)'
    BY <1>1 DEF DrainInv
  <2>5. SlotsOn(p, c)'
    <3> DEFINE full == InFlight(p) \cup {t \in Tasks : claimed[p][c][t] > 0}
    <3>1. Cardinality(full') <= Concurrency
      <4>1. full' = full
        BY <1>1 DEF InFlight
      <4>2. Cardinality(full) <= Concurrency
        BY <2>1 DEF SlotsOn
      <4>3. QED
        BY <4>1, <4>2
    <3>2. InFlight(p)' = InFlight(p)
      BY <1>1 DEF InFlight
    <3>3. Cardinality(InFlight(p)') + free <= Concurrency
      BY <3>2, InFlightCount
    <3>4. QED
      BY <1>2, <3>1, <3>3 DEF SlotsOn
  <2>6. ASSUME NEW d \in Chains, d # c PROVE SlotsOn(p, d)'
    BY <1>1, <2>1, <2>6, SlotsKept
  <2>7. QED
    BY <2>3, <2>4, <2>5, <2>6
<1>5. QED
  BY <1>1, <1>3, <1>4 DEF WorkerOn

LEMMA WorkerPollClaim ==
  ASSUME TypeOK, NEW p \in Procs, NEW c \in Chains, WorkerOn(p), PollClaim(p, c)
  PROVE  WorkerOn(p)'
<1>1. PICK S \in Claimable(chain[p][c].limit) :
        claimed' = [claimed EXCEPT ![p][c] =
             [t \in Tasks |-> IF t \in S THEN row[t].attempts + 1 ELSE 0]]
  BY DEF PollClaim
<1>2. /\ chain[p][c].pc = "claiming"
      /\ \A d \in Chains \ {c} : chain'[p][d] = chain[p][d] /\ claimed'[p][d] = claimed[p][d]
      /\ chain'[p][c] = [pc |-> "claimed", limit |-> 0]
      /\ UNCHANGED <<forked, exec, running, stopping, polling, pollTimer>>
  BY <1>1 DEF PollClaim, TypeOK
<1>3. chain'[p][c].pc = "claimed"
  BY <1>2
<1>4. S \in SUBSET Tasks /\ {t \in Tasks : claimed'[p][c][t] > 0} = S
  <2>1. S \in SUBSET Tasks
    BY DEF Claimable, Due
  <2>2. \A t \in Tasks : claimed'[p][c][t] = IF t \in S THEN row[t].attempts + 1 ELSE 0
    BY <1>1 DEF TypeOK
  <2>3. \A t \in Tasks : row[t].attempts \in Nat
    BY DEF TypeOK, Row
  <2>4. \A t \in Tasks : claimed'[p][c][t] > 0 <=> t \in S
    BY <2>2, <2>3
  <2>5. QED
    BY <2>1, <2>4
<1>5. ClaimedInv(p)'
  <2> SUFFICES ASSUME NEW d \in Chains, NEW t \in Tasks, claimed'[p][d][t] > 0, d # c
               PROVE  chain'[p][d].pc = "claimed"
    BY <1>3 DEF ClaimedInv
  <2>1. QED
    BY <1>2 DEF WorkerOn, ClaimedInv
<1>6. Cardinality(S) \in Nat /\ Cardinality(S) <= chain[p][c].limit
  <2>1. chain[p][c].limit \in Nat
    BY DEF TypeOK, Chain
  <2>2. Cardinality(S) \in Nat
    BY <1>4, Fewer
  <2>3. Due \in SUBSET Tasks
    BY DEF Due
  <2>4. Cardinality(Due) \in Nat
    BY <2>3, Fewer
  <2>5. Cardinality(S) = IF Cardinality(Due) < chain[p][c].limit THEN Cardinality(Due)
                         ELSE chain[p][c].limit
    BY DEF Claimable
  <2>6. QED
    BY <2>1, <2>2, <2>4, <2>5
<1>7. ASSUME ~forked[p]
      PROVE  OneChain(p)' /\ DrainInv(p)' /\ \A d \in Chains : SlotsOn(p, d)'
  <2>1. OneChain(p) /\ DrainInv(p) /\ \A d \in Chains : SlotsOn(p, d)
    BY <1>7 DEF WorkerOn
  <2>2. (\A d \in Chains \ {c} : chain[p][d].pc = "off") /\ polling[p] = c
    BY <1>2, <2>1 DEF OneChain
  <2>3. OneChain(p)'
    BY <1>2, <1>3, <2>1, <2>2, OneChainMoves
  <2>4. DrainInv(p)'
    BY <1>2, <1>3, <2>1, <2>2 DEF DrainInv
  <2>5. SlotsOn(p, c)'
    <3> DEFINE now == InFlight(p) \cup {t \in Tasks : claimed[p][c][t] > 0}
    <3>1. InFlight(p)' = InFlight(p) /\ InFlight(p) \in SUBSET Tasks
      BY <1>2 DEF InFlight
    <3>2. now' = InFlight(p) \cup S
      BY <1>4, <3>1
    <3>3. IsFiniteSet(InFlight(p)) /\ IsFiniteSet(S)
      BY <1>4, <3>1, FS_Subset
    <3>4. /\ Cardinality(now')
               = Cardinality(InFlight(p)) + Cardinality(S) - Cardinality(InFlight(p) \cap S)
          /\ Cardinality(InFlight(p) \cap S) \in Nat
      <4>1. InFlight(p) \cap S \in SUBSET Tasks
        BY <3>1
      <4>2. Cardinality(InFlight(p) \cap S) \in Nat
        BY <4>1, Fewer
      <4>3. QED
        BY <3>2, <3>3, <4>2, FS_Union
    <3>5. Cardinality(InFlight(p)) + chain[p][c].limit <= Concurrency
      BY <1>2, <2>1 DEF SlotsOn
    <3>6. chain[p][c].limit \in Nat
      BY DEF TypeOK, Chain
    <3>7. Cardinality(now') <= Concurrency
      BY <1>6, <3>4, <3>5, <3>6, InFlightCount
    <3>8. QED
      BY <1>3, <3>7 DEF SlotsOn
  <2>6. ASSUME NEW d \in Chains, d # c PROVE SlotsOn(p, d)'
    BY <1>2, <2>1, <2>6, SlotsKept
  <2>7. QED
    BY <2>3, <2>4, <2>5, <2>6
<1>8. QED
  BY <1>2, <1>5, <1>7 DEF WorkerOn

LEMMA WorkerPollStep ==
  ASSUME TypeOK, NEW p \in Procs, NEW c \in Chains, WorkerOn(p), PollStep(p, c)
  PROVE  WorkerOn(p)'
<1>1. CASE PollIdle(p, c) /\ ~running[p]
  <2>1. forked[p]
    BY <1>1 DEF PollIdle, WorkerOn, OneChain
  <2>2. /\ \A d \in Chains : chain'[p][d] = IF d = c THEN Off ELSE chain[p][d]
        /\ chain[p][c].pc = "timer" /\ claimed' = claimed /\ forked' = forked
    BY <1>1 DEF PollIdle, TypeOK
  <2>3. ClaimedInv(p)'
    BY <2>2 DEF WorkerOn, ClaimedInv
  <2>4. QED
    BY <2>1, <2>2, <2>3 DEF WorkerOn
<1>2. CASE PollIdle(p, c) /\ running[p]
  <2>1. /\ chain[p][c].pc = "timer" /\ running[p] /\ pollTimer'[p] = c
        /\ \A d \in Chains : chain'[p][d] = IF d = c THEN Waiting ELSE chain[p][d]
        /\ UNCHANGED <<claimed, running, forked, exec>>
    BY <1>2 DEF PollIdle, TypeOK
  <2>2. \A d \in Chains : /\ chain'[p][d].pc = chain[p][d].pc
                          /\ chain'[p][d].pc = "claiming" => chain'[p][d] = chain[p][d]
    BY <2>1 DEF Waiting
  <2>3. ClaimedInv(p)'
    BY <2>1, <2>2 DEF WorkerOn, ClaimedInv
  <2>4. ASSUME ~forked[p] PROVE OneChain(p)' /\ DrainInv(p)'
    BY <2>1, <2>2, <2>4 DEF WorkerOn, OneChain, DrainInv
  <2>5. ASSUME ~forked[p], NEW d \in Chains PROVE SlotsOn(p, d)'
    BY <2>1, <2>2, <2>5, SlotsKept DEF WorkerOn
  <2>6. QED
    BY <2>1, <2>3, <2>4, <2>5 DEF WorkerOn
<1>3. CASE PollStart(p, c)
  BY <1>3, WorkerPollStart
<1>4. CASE PollClaim(p, c)
  BY <1>4, WorkerPollClaim
<1>5. CASE PollDispatch(p, c)
  <2>1. \A t \in Tasks : exec'[p][t].pc # "none" =>
          exec[p][t].pc # "none" \/ claimed[p][c][t] > 0
    BY <1>5 DEF PollDispatch, Dispatched, TypeOK
  <2>2. QED
    BY <1>5, <2>1, WorkerEndPoll DEF PollDispatch
<1>6. CASE PollFails(p, c)
  <2>1. chain[p][c].pc \in {"claiming", "claimed"}
    BY <1>6 DEF PollFails, WorkerOn, ClaimedInv
  <2>2. QED
    BY <1>6, <2>1, WorkerEndPoll DEF PollFails
<1>7. CASE \E t \in Tasks : PollQuarantine(p, c, t)
  <2>1. PICK t \in Tasks : PollQuarantine(p, c, t)
    BY <1>7
  <2>2. \A d \in Chains, u \in Tasks : claimed'[p][d][u] > 0 => claimed[p][d][u] > 0
    BY <2>1 DEF PollQuarantine, TypeOK
  <2>3. UNCHANGED <<chain, running, pollTimer, polling, exec, stopping, forked>>
    BY <2>1 DEF PollQuarantine
  <2>4. ~forked[p] => DrainInv(p)'
    BY <2>3 DEF WorkerOn, DrainInv
  <2>5. QED
    BY <2>2, <2>3, <2>4, WorkerKept
<1>8. QED
  BY <1>1, <1>2, <1>3, <1>4, <1>5, <1>6, <1>7 DEF PollStep

\* A step of an execution: one that ends is no longer waited for.
LEMMA WorkerExecStep ==
  ASSUME TypeOK, NEW p \in Procs, NEW t \in Tasks, WorkerOn(p), ExecStep(p, t)
  PROVE  WorkerOn(p)'
<1>1. PICK e \in Execution :
        SetExec(p, t, e) /\ (e.pc # "none" => Executes(p, t))
  BY ExecStepEffect
<1>2. \A u \in Tasks : exec'[p][u].pc # "none" => exec[p][u].pc # "none"
  BY <1>1 DEF SetExec, Executes, TypeOK
<1>3. UNCHANGED <<chain, claimed, running, pollTimer, polling, forked>>
  BY DEF ExecStep, AbortFires, HandlerReturns, HandlerThrows, Complete, CompleteFails,
     FailRead, FailWrite, Settle, FailFails, Remove, OnlyExec
<1>4. CASE stopping' = stopping
  <2>1. ~forked[p] => DrainInv(p)'
    BY <1>2, <1>3, <1>4 DEF WorkerOn, DrainInv
  <2>2. QED
    BY <1>2, <1>3, <2>1, WorkerKept
<1>5. CASE Remove(p, t)
  <2>1. stopping[p] \in Stopping /\ stopping \in [Procs -> Stopping]
    BY DEF TypeOK
  <2>2. stopping'[p] = [stopping[p] EXCEPT !.wait = @ \ {t}]
    BY <1>5, <2>1 DEF Remove
  <2>3. /\ stopping'[p].pc = stopping[p].pc /\ stopping'[p].poll = stopping[p].poll
        /\ stopping'[p].wait = stopping[p].wait \ {t}
    BY <2>1, <2>2 DEF Stopping
  <2>4. exec'[p][t].pc = "none"
    BY <1>5 DEF Remove, SetExec, NoExec, TypeOK
  <2>5. ~forked[p] => DrainInv(p)'
    BY <1>2, <1>3, <2>3, <2>4 DEF WorkerOn, DrainInv
  <2>6. QED
    BY <1>2, <1>3, <2>5, WorkerKept
<1>6. QED
  BY <1>4, <1>5 DEF ExecStep, AbortFires, HandlerReturns, HandlerThrows, Complete,
     CompleteFails, FailRead, FailWrite, Settle, FailFails, OnlyExec

LEMMA WorkerNext == TypeOK /\ WorkerInv /\ [Next]_vars => WorkerInv'
<1> SUFFICES ASSUME TypeOK, WorkerInv, [Next]_vars, NEW p \in Procs
             PROVE  WorkerOn(p)'
  BY DEF WorkerInv
<1>1. WorkerOn(p)
  BY DEF WorkerInv
<1>2. CASE UNCHANGED vars \/ QueueStep
  BY <1>1, <1>2, WorkerUntouched DEF vars, QueueStep, Outside, workerVars
<1>3. ASSUME NEW q \in Procs,
             Start(q) \/ Stop(q) \/ StopSnapshot(q) \/ StopResolve(q) \/ Crash(q)
      PROVE  WorkerOn(p)'
  <2>1. CASE q # p
    <3>1. /\ chain'[p] = chain[p] /\ claimed'[p] = claimed[p] /\ running'[p] = running[p]
          /\ pollTimer'[p] = pollTimer[p] /\ polling'[p] = polling[p]
          /\ forked'[p] = forked[p] /\ exec'[p] = exec[p] /\ stopping'[p] = stopping[p]
      BY <1>3, <2>1 DEF Start, Stop, StopSnapshot, StopResolve, Crash, TypeOK
    <3>2. QED
      BY <1>1, <3>1, WorkerUntouched
  <2>2. CASE q = p /\ StopResolve(p)
    <3>1. /\ stopping'[p] = NoStop
          /\ UNCHANGED <<chain, claimed, running, pollTimer, polling, forked, exec>>
      BY <2>2 DEF StopResolve, TypeOK
    <3>2. DrainInv(p)'
      BY <3>1 DEF NoStop, DrainInv
    <3>3. QED
      BY <1>1, <3>1, <3>2, WorkerKept
  <2>3. QED
    BY <1>1, <1>3, <2>1, <2>2, WorkerStart, WorkerStop, WorkerSnapshot, WorkerCrash
<1>4. ASSUME NEW q \in Procs, NEW c \in Chains, PollStep(q, c), q # p
      PROVE  WorkerOn(p)'
  <2>1. /\ chain'[p] = chain[p] /\ claimed'[p] = claimed[p] /\ running'[p] = running[p]
        /\ pollTimer'[p] = pollTimer[p] /\ polling'[p] = polling[p]
        /\ forked'[p] = forked[p] /\ exec'[p] = exec[p] /\ stopping'[p] = stopping[p]
    BY <1>4 DEF PollStep, PollIdle, PollStart, PollClaim, PollDispatch,
       PollFails, PollQuarantine, EndPoll, TypeOK
  <2>2. QED
    BY <1>1, <2>1, WorkerUntouched
<1>5. ASSUME NEW q \in Procs, NEW t \in Tasks, ExecStep(q, t), q # p
      PROVE  WorkerOn(p)'
  <2>1. PICK e \in Execution : SetExec(q, t, e)
    BY <1>5, ExecStepEffect
  <2>2. exec'[p] = exec[p]
    BY <1>5, <2>1 DEF SetExec
  <2>3. /\ UNCHANGED <<chain, claimed, running, pollTimer, polling, forked>>
        /\ stopping' = stopping
             \/ stopping' = [stopping EXCEPT ![q].wait = @ \ {t}]
    BY <1>5 DEF ExecStep, AbortFires, HandlerReturns, HandlerThrows, Complete, CompleteFails,
       FailRead, FailWrite, Settle, FailFails, Remove, OnlyExec
  <2>4. stopping'[p] = stopping[p]
    BY <1>5, <2>3 DEF TypeOK
  <2>5. QED
    BY <1>1, <2>2, <2>3, <2>4, WorkerUntouched
<1>6. QED
  BY <1>1, <1>2, <1>3, <1>4, <1>5, WorkerPollStep, WorkerExecStep DEF Next

LEMMA WorkerInvariant == Spec => []WorkerInv
<1>1. Init => WorkerInv
  <2> SUFFICES ASSUME Init, NEW p \in Procs PROVE WorkerOn(p)
    BY DEF WorkerInv
  <2>1. /\ \A c \in Chains : chain[p][c].pc = "off"
        /\ \A c \in Chains, t \in Tasks : claimed[p][c][t] = 0
        /\ \A t \in Tasks : exec[p][t].pc = "none"
        /\ stopping[p].pc = "none"
    BY DEF Init, Off, NothingClaimed, NoExec, NoStop
  <2>2. ClaimedInv(p) /\ OneChain(p) /\ DrainInv(p)
    BY <2>1 DEF ClaimedInv, OneChain, DrainInv
  <2>3. ASSUME NEW c \in Chains PROVE SlotsOn(p, c)
    <3> DEFINE now == InFlight(p) \cup {t \in Tasks : claimed[p][c][t] > 0}
    <3>1. now = {}
      BY <2>1 DEF InFlight
    <3>2. Cardinality(now) = 0
      BY <3>1, FS_EmptySet
    <3>3. Cardinality(now) <= Concurrency /\ chain[p][c].pc # "claiming"
      BY <2>1, <3>2
    <3>4. QED
      BY <3>3 DEF SlotsOn
  <2>4. QED
    BY <2>2, <2>3 DEF WorkerOn
<1>2. QED
  BY <1>1, WorkerNext, AuxInvariant, PTL DEF Spec, Aux

\* A worker whose start() never finds an old poll alive executes and leases no
\* more than its concurrency, although executions end while a claim is awaited.
THEOREM ConcurrencyCorrect == Spec => []ConcurrencyRespected
<1>1. WorkerInv => ConcurrencyRespected
  BY DEF WorkerInv, WorkerOn, SlotsOn, ConcurrencyRespected
<1>2. QED
  BY <1>1, WorkerInvariant, PTL

\* After its snapshot, stop() of such a worker leaves no poll behind and waits
\* for every execution.
THEOREM StopCorrect == Spec => []StopWaitsForAll
<1>1. WorkerInv => StopWaitsForAll
  BY DEF WorkerInv, WorkerOn, DrainInv, StopWaitsForAll, InFlight
<1>2. QED
  BY <1>1, WorkerInvariant, PTL

-----------------------------------------------------------------------------
(* Refinement. *)

\* The initial table is TaskLifecycle's.
LEMMA LifecycleInit == Init => Lifecycle!Init
BY DEF Init, QueueInit, Lifecycle!Init

\* Every step of the system is a step of TaskLifecycle or changes nothing there.
LEMMA LifecycleNext ==
  Aux /\ [Next]_vars => [Lifecycle!Next]_(Lifecycle!lifecycle)
<1> DEFINE status == [t \in Tasks |-> row[t].state]
           attempts == [t \in Tasks |-> row[t].attempts]
<1> SUFFICES ASSUME Aux, [Next]_vars
             PROVE  Lifecycle!Next \/ (status' = status /\ attempts' = attempts)
  BY DEF Lifecycle!lifecycle
<1>1. RowStep /\ row \in [Tasks -> Row] /\ row' \in [Tasks -> Row]
  BY NextRowStep, NextType DEF Aux, TypeOK
<1> USE <1>1
<1>2. CASE Inserted
  <2>1. PICK t \in Tasks, w \in Int :
          Holders(t) = {} /\ Update(t, "PENDING", w) /\ row[t].state = "ABSENT"
    BY <1>2 DEF Inserted, Aux, EnqueueInv
  <2>2. \A u \in Tasks : Lifecycle!Conflicts(t, u) => status[u] \notin Lifecycle!Active
    BY <2>1 DEF Lifecycle!Conflicts, Lifecycle!Active, Holders, Active
  <2>3. status' = [status EXCEPT ![t] = "PENDING"] /\ attempts' = attempts
    BY <2>1 DEF Update, Become
  <2>4. Lifecycle!Create(t)
    BY <2>1, <2>2, <2>3 DEF Lifecycle!Create
  <2>5. QED
    BY <2>4 DEF Lifecycle!Next
<1>3. CASE Claimed
  <2>1. PICK S \in SUBSET Tasks : (\A t \in S : row[t].state = "PENDING") /\ Claim(S)
    BY <1>3 DEF Claimed
  <2>2. /\ status' = [t \in Tasks |-> IF t \in S THEN "RUNNING" ELSE status[t]]
        /\ attempts' = [t \in Tasks |-> IF t \in S THEN attempts[t] + 1 ELSE attempts[t]]
    BY <2>1 DEF Claim
  <2>3. CASE S = {}
    BY <2>2, <2>3
  <2>4. CASE S # {}
    BY <2>1, <2>2, <2>4 DEF Lifecycle!Next, Lifecycle!Lease
  <2>5. QED
    BY <2>3, <2>4
<1>4. CASE Retried
  <2>1. PICK t \in Tasks, w \in Int : row[t].state = "RUNNING" /\ Update(t, "PENDING", w)
    BY <1>4 DEF Retried
  <2>2. /\ status' = [u \in Tasks |-> IF u \in {t} THEN "PENDING" ELSE status[u]]
        /\ attempts' = attempts
    BY <2>1 DEF Update, Become
  <2>3. Lifecycle!Release({t})
    BY <2>1, <2>2 DEF Lifecycle!Release
  <2>4. QED
    BY <2>3 DEF Lifecycle!Next
<1>5. CASE Ended
  <2>1. PICK t \in Tasks, s \in {"COMPLETED", "FAILED"} :
          row[t].state = "RUNNING" /\ Update(t, s, 0)
    BY <1>5 DEF Ended
  <2>2. status' = [status EXCEPT ![t] = s] /\ attempts' = attempts
    BY <2>1 DEF Update, Become
  <2>3. Lifecycle!Finish(t, s)
    BY <2>1, <2>2 DEF Lifecycle!Finish
  <2>4. QED
    BY <2>3 DEF Lifecycle!Next
<1>6. CASE Cancelled
  <2>1. PICK t \in Tasks : row[t].state \in Active /\ Update(t, "CANCELLED", 0)
    BY <1>6 DEF Cancelled
  <2>2. status' = [status EXCEPT ![t] = "CANCELLED"] /\ attempts' = attempts
    BY <2>1 DEF Update, Become
  <2>3. Lifecycle!Withdraw(t)
    BY <2>1, <2>2 DEF Lifecycle!Withdraw, Lifecycle!Active, Active
  <2>4. QED
    BY <2>3 DEF Lifecycle!Next
<1>7. CASE Pruned
  <2>1. PICK S \in SUBSET Tasks :
          (\A t \in S : row[t].state \in {"COMPLETED", "CANCELLED"}) /\ UpdateAll(S, "DELETED", 0)
    BY <1>7 DEF Pruned
  <2>2. /\ status' = [t \in Tasks |-> IF t \in S THEN "DELETED" ELSE status[t]]
        /\ attempts' = attempts
    BY <2>1 DEF UpdateAll, Become
  <2>3. CASE S = {}
    BY <2>2, <2>3
  <2>4. CASE S # {}
    BY <2>1, <2>2, <2>4 DEF Lifecycle!Next, Lifecycle!Discard
  <2>5. QED
    BY <2>3, <2>4
<1>8. CASE Recovered
  <2>1. PICK S \in SUBSET Tasks :
          (\A t \in S : row[t].state = "RUNNING") /\ UpdateAll(S, "PENDING", 0)
    BY <1>8 DEF Recovered
  <2>2. /\ status' = [t \in Tasks |-> IF t \in S THEN "PENDING" ELSE status[t]]
        /\ attempts' = attempts
    BY <2>1 DEF UpdateAll, Become
  <2>3. CASE S = {}
    BY <2>2, <2>3
  <2>4. CASE S # {}
    BY <2>1, <2>2, <2>4 DEF Lifecycle!Next, Lifecycle!Release
  <2>5. QED
    BY <2>3, <2>4
<1>9. CASE Aged
  BY <1>9 DEF Aged
<1>10. QED
  BY <1>2, <1>3, <1>4, <1>5, <1>6, <1>7, <1>8, <1>9 DEF RowStep, OpenStep

\* The task system implements the row lifecycle of TaskLifecycle.
THEOREM LifecycleImplemented == Spec => ImplementsLifecycle
<1>1. QED
  BY LifecycleInit, LifecycleNext, AuxInvariant, PTL DEF Spec, ImplementsLifecycle, Lifecycle!Spec
=============================================================================
