----------------------------- MODULE TaskWorker -----------------------------
(***************************************************************************)
(* The worker of each process (TaskWorker) over the shared table of        *)
(* TaskQueue: the self-rescheduling poll loop, the executions it            *)
(* dispatches, start, stop and the process's crash.                        *)
(*                                                                         *)
(* A poll loop is called a chain: a timer, the poll it fires, and the      *)
(* timer that poll leaves behind.  A worker has one chain until start() is *)
(* called while a poll of an earlier start() is still awaiting its claim.  *)
(***************************************************************************)
EXTENDS TaskQueue

CONSTANTS Concurrency,  \* TaskWorkerOptions.concurrency
          Chains,       \* bound: chains a worker may have at once
          Stoppable,    \* bound: processes whose host calls stop()
          DbErrors,     \* bound: whether statements of the worker may fail
          NoChain

ASSUME WorkerAssumption ==
  /\ Concurrency \in Nat \ {0}
  /\ Stoppable \subseteq Procs /\ DbErrors \in BOOLEAN /\ NoChain \notin Chains

VARIABLES running,   \* running[p]: the worker's flag
          chain,     \* chain[p][c]: where a chain is, and its poll's claim limit
          claimed,   \* claimed[p][c][t]: the attempt of t the poll's claim returned
          pollTimer, \* pollTimer[p]: the chain whose timer was set last
          polling,   \* polling[p]: the chain whose poll was started last
          exec,      \* exec[p][t]: the execution in inFlight under t
          stopping,  \* stopping[p]: the stop() call in progress
          forked,    \* forked[p]: history, start() found an old chain alive
          evidence   \* evidence[t]: history, what t's handlers have shown

workerVars == <<running, chain, claimed, pollTimer, polling, exec, stopping, forked>>
vars == <<row, up, boots, enq, running, chain, claimed, pollTimer, polling, exec,
          stopping, forked, evidence>>

-----------------------------------------------------------------------------
ChainPc == {"off", "timer", "claiming", "claimed"}
Chain == [pc : ChainPc, limit : Nat]
Off == [pc |-> "off", limit |-> 0]
Waiting == [pc |-> "timer", limit |-> 0]

\* "handler" runs in time, "overdue" past its abort signal; then the row is
\* reported and the execution removed from inFlight.
ExecPc == {"none", "handler", "overdue", "completing", "failing",
           "rescheduling", "burying", "alerting", "settled"}
Execution == [pc : ExecPc, attempt : Nat, permanent : BOOLEAN, read : Nat]
NoExec == [pc |-> "none", attempt |-> 0, permanent |-> FALSE, read |-> 0]
Stopping == [pc : {"none", "poll", "drain"}, poll : Chains \cup {NoChain},
             wait : SUBSET Tasks]
NoStop == [pc |-> "none", poll |-> NoChain, wait |-> {}]
NothingClaimed == [t \in Tasks |-> 0]

\* A handler returned in time, one threw an error that is not retried, or the
\* completion of a row could not be recorded.
Shown == {"returned", "permanent", "unrecorded"}

InFlight(p) == {t \in Tasks : exec[p][t].pc # "none"}

Init ==
  /\ QueueInit
  /\ running = [p \in Procs |-> FALSE]
  /\ chain = [p \in Procs |-> [c \in Chains |-> Off]]
  /\ claimed = [p \in Procs |-> [c \in Chains |-> NothingClaimed]]
  /\ pollTimer = [p \in Procs |-> NoChain]
  /\ polling = [p \in Procs |-> NoChain]
  /\ exec = [p \in Procs |-> [t \in Tasks |-> NoExec]]
  /\ stopping = [p \in Procs |-> NoStop]
  /\ forked = [p \in Procs |-> FALSE]
  /\ evidence = [t \in Tasks |-> {}]

-----------------------------------------------------------------------------
(* Lifecycle: start, stop, crash. *)

Start(p) ==
  /\ up[p] /\ ~running[p]
  /\ running' = [running EXCEPT ![p] = TRUE]
  /\ \E c \in Chains :
       /\ chain[p][c].pc = "off"
       /\ chain' = [chain EXCEPT ![p][c] = Waiting]
       /\ pollTimer' = [pollTimer EXCEPT ![p] = c]
  /\ forked' = [forked EXCEPT ![p] = @ \/ \E c \in Chains : chain[p][c].pc # "off"]
  /\ UNCHANGED <<row, up, boots, enq, claimed, polling, exec, stopping, evidence>>

\* Mutant: stop() does not await the poll in progress.
StopAtOnce(p) ==
  /\ p \in Stoppable /\ running[p] /\ stopping[p] = NoStop
  /\ running' = [running EXCEPT ![p] = FALSE]
  /\ chain' = [chain EXCEPT ![p] = [c \in Chains |->
       IF c = pollTimer[p] /\ @[c].pc = "timer" THEN Off ELSE @[c]]]
  /\ pollTimer' = [pollTimer EXCEPT ![p] = NoChain]
  /\ stopping' = [stopping EXCEPT ![p] = [pc |-> "poll", poll |-> NoChain, wait |-> {}]]
  /\ UNCHANGED <<row, up, boots, enq, claimed, polling, exec, forked, evidence>>

\* stop() up to its first await: only the timer set last can be cleared.
\* Bound: one stop() call of a process in progress at a time.
Stop(p) ==
  /\ p \in Stoppable /\ running[p] /\ stopping[p] = NoStop
  /\ running' = [running EXCEPT ![p] = FALSE]
  /\ chain' = [chain EXCEPT ![p] = [c \in Chains |->
       IF c = pollTimer[p] /\ @[c].pc = "timer" THEN Off ELSE @[c]]]
  /\ pollTimer' = [pollTimer EXCEPT ![p] = NoChain]
  /\ stopping' = [stopping EXCEPT ![p] = [pc |-> "poll", poll |-> polling[p], wait |-> {}]]
  /\ UNCHANGED <<row, up, boots, enq, claimed, polling, exec, forked, evidence>>

\* The awaited poll is over: take the shutdown snapshot.
StopSnapshot(p) ==
  /\ stopping[p].pc = "poll" /\ stopping[p].poll = NoChain
  /\ stopping' = [stopping EXCEPT ![p] =
                    [pc |-> "drain", poll |-> NoChain, wait |-> InFlight(p)]]
  /\ UNCHANGED <<row, up, boots, enq, running, chain, claimed, pollTimer, polling,
                 exec, forked, evidence>>

\* stop() resolves: everything in the snapshot has settled, or the graceful
\* shutdown timeout has won the race.
StopResolve(p) ==
  /\ stopping[p].pc = "drain"
  /\ stopping' = [stopping EXCEPT ![p] = NoStop]
  /\ UNCHANGED <<row, up, boots, enq, running, chain, claimed, pollTimer, polling,
                 exec, forked, evidence>>

\* The process dies, or quits: everything but the table is lost.
Crash(p) ==
  /\ up[p]
  /\ up' = [up EXCEPT ![p] = FALSE]
  /\ enq' = [enq EXCEPT ![p] = NoTask]
  /\ running' = [running EXCEPT ![p] = FALSE]
  /\ chain' = [chain EXCEPT ![p] = [c \in Chains |-> Off]]
  /\ claimed' = [claimed EXCEPT ![p] = [c \in Chains |-> NothingClaimed]]
  /\ pollTimer' = [pollTimer EXCEPT ![p] = NoChain]
  /\ polling' = [polling EXCEPT ![p] = NoChain]
  /\ exec' = [exec EXCEPT ![p] = [t \in Tasks |-> NoExec]]
  /\ stopping' = [stopping EXCEPT ![p] = NoStop]
  /\ forked' = [forked EXCEPT ![p] = FALSE]
  /\ UNCHANGED <<row, boots, evidence>>

-----------------------------------------------------------------------------
(* The poll loop. *)

\* A timer fires and nothing is awaited: the poll finds the worker stopped and
\* ends its chain, or finds no free slot and sets the next timer.
PollIdle(p, c) ==
  /\ chain[p][c].pc = "timer"
  /\ running[p] => Cardinality(InFlight(p)) >= Concurrency
  /\ chain' = [chain EXCEPT ![p][c] = IF running[p] THEN Waiting ELSE Off]
  /\ pollTimer' = [pollTimer EXCEPT ![p] = IF running[p] THEN c ELSE @]
  /\ polling' = [polling EXCEPT ![p] = NoChain]
  /\ UNCHANGED <<row, up, boots, enq, running, claimed, exec, stopping, forked, evidence>>

\* Mutant: the poll does not subtract the executions in flight.
PollStartGreedy(p, c) ==
  /\ chain[p][c].pc = "timer" /\ running[p]
  /\ chain' = [chain EXCEPT ![p][c] = [pc |-> "claiming", limit |-> Concurrency]]
  /\ polling' = [polling EXCEPT ![p] = c]
  /\ UNCHANGED <<row, up, boots, enq, running, claimed, pollTimer, exec, stopping,
                 forked, evidence>>

\* A timer fires with a slot free: the poll computes its limit, awaits the claim.
PollStart(p, c) ==
  /\ chain[p][c].pc = "timer" /\ running[p]
  /\ Cardinality(InFlight(p)) < Concurrency
  /\ chain' = [chain EXCEPT ![p][c] =
                 [pc |-> "claiming", limit |-> Concurrency - Cardinality(InFlight(p))]]
  /\ polling' = [polling EXCEPT ![p] = c]
  /\ UNCHANGED <<row, up, boots, enq, running, claimed, pollTimer, exec, stopping,
                 forked, evidence>>

\* claimNextBatch's UPDATE ... RETURNING runs in the database.
PollClaim(p, c) ==
  /\ chain[p][c].pc = "claiming"
  /\ \E S \in Claimable(chain[p][c].limit) :
       /\ Claim(S)
       /\ claimed' = [claimed EXCEPT ![p][c] =
            [t \in Tasks |-> IF t \in S THEN row[t].attempts + 1 ELSE 0]]
  /\ chain' = [chain EXCEPT ![p][c] = [pc |-> "claimed", limit |-> 0]]
  /\ UNCHANGED <<up, boots, enq, running, pollTimer, polling, exec, stopping, forked,
                 evidence>>

\* A claimed row whose payload does not parse fails in a statement of its own.
PollQuarantine(p, c, t) ==
  /\ t \in Corrupt /\ claimed[p][c][t] > 0
  /\ Quarantine(t)
  /\ claimed' = [claimed EXCEPT ![p][c][t] = 0]
  /\ UNCHANGED <<up, boots, enq, running, chain, pollTimer, polling, exec, stopping,
                 forked, evidence>>

\* Mutant: a stop() that awaits the poll is not told of its end.
EndPollSilently(p, c) ==
  /\ chain' = [chain EXCEPT ![p][c] = IF running[p] THEN Waiting ELSE Off]
  /\ pollTimer' = [pollTimer EXCEPT ![p] = IF running[p] THEN c ELSE @]
  /\ polling' = [polling EXCEPT ![p] = IF @ = c THEN NoChain ELSE @]
  /\ claimed' = [claimed EXCEPT ![p][c] = NothingClaimed]
  /\ UNCHANGED stopping

\* The end of poll(): set the next timer while the worker runs, and let go of
\* the polling promise, also for a stop() that awaits it.
EndPoll(p, c) ==
  /\ chain' = [chain EXCEPT ![p][c] = IF running[p] THEN Waiting ELSE Off]
  /\ pollTimer' = [pollTimer EXCEPT ![p] = IF running[p] THEN c ELSE @]
  /\ polling' = [polling EXCEPT ![p] = IF @ = c THEN NoChain ELSE @]
  /\ stopping' = [stopping EXCEPT ![p].poll = IF @ = c THEN NoChain ELSE @]
  /\ claimed' = [claimed EXCEPT ![p][c] = NothingClaimed]

Dispatched(p, c) ==
  {t \in Tasks : claimed[p][c][t] > 0 /\ exec[p][t].pc = "none"}

\* Every claimed task that is not in flight yet starts its handler; one whose
\* earlier execution is still in inFlight is skipped.
PollDispatch(p, c) ==
  /\ chain[p][c].pc = "claimed"
  /\ \A t \in Corrupt : claimed[p][c][t] = 0
  /\ exec' = [exec EXCEPT ![p] = [t \in Tasks |->
       IF t \in Dispatched(p, c)
       THEN [pc |-> "handler", attempt |-> claimed[p][c][t],
             permanent |-> FALSE, read |-> 0]
       ELSE @[t]]]
  /\ EndPoll(p, c)
  /\ UNCHANGED <<row, up, boots, enq, running, forked, evidence>>

\* Mutant: a claim that throws ends the poll before it sets the next timer.
PollFailsForGood(p, c) ==
  /\ DbErrors
  /\ \/ chain[p][c].pc = "claiming"
     \/ \E t \in Corrupt : claimed[p][c][t] > 0
  /\ chain' = [chain EXCEPT ![p][c] = Off]
  /\ polling' = [polling EXCEPT ![p] = IF @ = c THEN NoChain ELSE @]
  /\ stopping' = [stopping EXCEPT ![p].poll = IF @ = c THEN NoChain ELSE @]
  /\ claimed' = [claimed EXCEPT ![p][c] = NothingClaimed]
  /\ UNCHANGED <<row, up, boots, enq, running, pollTimer, exec, forked, evidence>>

\* The claim, or a quarantining update after it, throws: the poll logs it.
PollFails(p, c) ==
  /\ DbErrors
  /\ \/ chain[p][c].pc = "claiming"
     \/ \E t \in Corrupt : claimed[p][c][t] > 0
  /\ EndPoll(p, c)
  /\ UNCHANGED <<row, up, boots, enq, running, exec, forked, evidence>>

-----------------------------------------------------------------------------
(* One execution. *)

SetExec(p, t, e) == exec' = [exec EXCEPT ![p][t] = e]
GoTo(p, t, pc) == SetExec(p, t, [exec[p][t] EXCEPT !.pc = pc])

OnlyExec == UNCHANGED <<up, boots, enq, running, chain, claimed, pollTimer, polling,
                        stopping, forked>>

\* The timeout fires its AbortSignal; handlers end when they choose to.
AbortFires(p, t) ==
  /\ exec[p][t].pc = "handler"
  /\ GoTo(p, t, "overdue")
  /\ OnlyExec /\ UNCHANGED <<row, evidence>>

\* Mutant: a handler that returns after the abort signal counts as a success.
HandlerReturnsAnyTime(p, t) ==
  /\ exec[p][t].pc \in {"handler", "overdue"}
  /\ GoTo(p, t, "completing")
  /\ evidence' = IF exec[p][t].pc = "handler"
                 THEN [evidence EXCEPT ![t] = @ \cup {"returned"}] ELSE evidence
  /\ OnlyExec /\ UNCHANGED row

\* The handler returns: in time, or after the abort, which is a failure.
HandlerReturns(p, t) ==
  /\ \/ /\ exec[p][t].pc = "handler"
        /\ GoTo(p, t, "completing")
        /\ evidence' = [evidence EXCEPT ![t] = @ \cup {"returned"}]
     \/ /\ exec[p][t].pc = "overdue"
        /\ GoTo(p, t, "failing")
        /\ UNCHANGED evidence
  /\ OnlyExec /\ UNCHANGED row

\* The handler throws an error that decide() retries, or one it does not.
HandlerThrows(p, t) ==
  /\ exec[p][t].pc \in {"handler", "overdue"}
  /\ \E permanent \in BOOLEAN :
       /\ SetExec(p, t, [exec[p][t] EXCEPT !.pc = "failing", !.permanent = permanent])
       /\ evidence' = IF permanent
                      THEN [evidence EXCEPT ![t] = @ \cup {"permanent"}]
                      ELSE evidence
  /\ OnlyExec /\ UNCHANGED row

Complete(p, t) ==
  /\ exec[p][t].pc = "completing"
  /\ MarkCompleted(t)
  /\ GoTo(p, t, "settled")
  /\ OnlyExec /\ UNCHANGED evidence

\* markCompleted throws: its DatabaseError goes the way of a handler's error,
\* and is one that decide() does not retry.
CompleteFails(p, t) ==
  /\ DbErrors /\ exec[p][t].pc = "completing"
  /\ SetExec(p, t, [exec[p][t] EXCEPT !.pc = "failing", !.permanent = TRUE])
  /\ evidence' = [evidence EXCEPT ![t] = @ \cup {"unrecorded"}]
  /\ OnlyExec /\ UNCHANGED row

\* markFailed reads the row, by id alone, and decides on what it reads.
FailRead(p, t) ==
  /\ exec[p][t].pc = "failing"
  /\ IF row[t].state # "RUNNING"
     THEN GoTo(p, t, "alerting")
     ELSE SetExec(p, t,
            [exec[p][t] EXCEPT
               !.pc = IF Retryable(t, exec[p][t].permanent)
                      THEN "rescheduling" ELSE "burying",
               !.read = row[t].attempts])
  /\ OnlyExec /\ UNCHANGED <<row, evidence>>

\* markFailed writes, if the row is still RUNNING at the attempt it read.
\* The delay is taken when the write runs.
FailWrite(p, t) ==
  /\ \/ /\ exec[p][t].pc = "rescheduling"
        /\ StillAt(t, exec[p][t].read)
        /\ Reschedule(t, exec[p][t].read)
        /\ GoTo(p, t, "settled")
     \/ /\ exec[p][t].pc = "burying"
        /\ StillAt(t, exec[p][t].read)
        /\ Bury(t)
        /\ GoTo(p, t, "alerting")
     \/ /\ exec[p][t].pc \in {"rescheduling", "burying"}
        /\ ~StillAt(t, exec[p][t].read)
        /\ UNCHANGED row
        /\ GoTo(p, t, "alerting")
  /\ OnlyExec /\ UNCHANGED evidence

\* The execution ends: after onNonRetryableError when markFailed reported no
\* retry, at once otherwise.  inFlight forgets it, and so does a waiting stop().
Remove(p, t) ==
  /\ SetExec(p, t, NoExec)
  /\ stopping' = [stopping EXCEPT ![p].wait = @ \ {t}]
  /\ UNCHANGED <<row, up, boots, enq, running, chain, claimed, pollTimer, polling,
                 forked, evidence>>

Settle(p, t) ==
  /\ exec[p][t].pc \in {"alerting", "settled"}
  /\ Remove(p, t)

\* markFailed throws: the poll loop's catch logs it and the row stays as it is.
FailFails(p, t) ==
  /\ DbErrors /\ exec[p][t].pc \in {"failing", "rescheduling", "burying"}
  /\ Remove(p, t)

-----------------------------------------------------------------------------
Outside == UNCHANGED workerVars /\ UNCHANGED evidence

QueueStep ==
  /\ \/ \E p \in Procs : EnqueueInsert(p) \/ EnqueueRejected(p) \/ Boot(p)
     \/ \E p \in Procs, t \in Tasks : EnqueueLookup(p, t)
     \/ \E t \in Tasks : Cancel(t)
     \/ \E S \in SUBSET Tasks : Prune(S)
     \/ Tick
  /\ Outside

PollStep(p, c) ==
  \/ PollIdle(p, c) \/ PollStart(p, c) \/ PollClaim(p, c)
  \/ PollDispatch(p, c) \/ PollFails(p, c)
  \/ \E t \in Tasks : PollQuarantine(p, c, t)

ExecStep(p, t) ==
  \/ AbortFires(p, t) \/ HandlerReturns(p, t) \/ HandlerThrows(p, t)
  \/ Complete(p, t) \/ CompleteFails(p, t) \/ FailRead(p, t) \/ FailWrite(p, t)
  \/ Settle(p, t) \/ FailFails(p, t)

Next ==
  \/ QueueStep
  \/ \E p \in Procs : Start(p) \/ Stop(p) \/ StopSnapshot(p) \/ StopResolve(p) \/ Crash(p)
  \/ \E p \in Procs, c \in Chains : PollStep(p, c)
  \/ \E p \in Procs, t \in Tasks : ExecStep(p, t)

Spec == Init /\ [][Next]_vars

\* Time passes; timers fire and the database answers; a statement issued again
\* and again succeeds at some time; handlers honour their abort signal.  No
\* process need crash or be started, nor any work be enqueued, cancelled or pruned.
Fairness ==
  /\ WF_vars(Tick /\ Outside)
  /\ \A p \in Procs :
       /\ WF_vars(StopSnapshot(p)) /\ WF_vars(StopResolve(p))
       /\ \A c \in Chains : WF_vars(PollStep(p, c)) /\ SF_vars(PollClaim(p, c))
       /\ \A t \in Tasks : WF_vars(ExecStep(p, t))

FairSpec == Spec /\ Fairness

-----------------------------------------------------------------------------
(* Properties. *)

\* Every variable keeps its type.
TypeOK ==
  /\ row \in [Tasks -> Row]
  /\ up \in [Procs -> BOOLEAN] /\ boots \in 0..MaxBoots
  /\ enq \in [Procs -> Tasks \cup {NoTask}]
  /\ running \in [Procs -> BOOLEAN]
  /\ chain \in [Procs -> [Chains -> Chain]]
  /\ claimed \in [Procs -> [Chains -> [Tasks -> Nat]]]
  /\ pollTimer \in [Procs -> Chains \cup {NoChain}]
  /\ polling \in [Procs -> Chains \cup {NoChain}]
  /\ exec \in [Procs -> [Tasks -> Execution]]
  /\ stopping \in [Procs -> Stopping]
  /\ forked \in [Procs -> BOOLEAN]
  /\ evidence \in [Tasks -> SUBSET Shown]

\* At most one row of a unique_key is PENDING or RUNNING, although enqueue
\* checks in one statement and inserts in another, and although retry and
\* recovery put rows back to PENDING without looking at the index.
OneActivePerKey ==
  \A t, u \in Tasks :
    /\ t # u /\ KeyOf[t] # NoKey /\ KeyOf[t] = KeyOf[u]
    => ~(row[t].state \in Active /\ row[u].state \in Active)

\* Two workers that race never hold the same attempt of the same task, whether
\* it has been dispatched or is still on its way from the claim: after a
\* recovery an old execution may still run, but as an older attempt.
Executes(p, t) == exec[p][t].pc # "none"

LeaseExclusive ==
  \A t \in Tasks, p, q \in Procs :
    /\ Executes(p, t) /\ Executes(q, t) /\ exec[p][t].attempt = exec[q][t].attempt
         => p = q
    /\ \A c, d \in Chains :
         claimed[p][c][t] > 0 /\ claimed[p][c][t] = claimed[q][d][t]
           => p = q /\ c = d
    /\ \A c \in Chains : Executes(q, t) => exec[q][t].attempt # claimed[p][c][t]

\* What types.ts:19 says of maxAttempts: "Maximum number of execution attempts
\* (including the first)".  Recovery puts a row whose attempts are used up back
\* to PENDING, and the next claim exceeds them.
AttemptsWithinMax ==
  \A t \in Tasks : row[t].attempts <= MaxAttempts[t]

\* What holds instead: a row is leased at most once more for every later start
\* of a process, which is when its recovery runs.
AttemptsBounded ==
  \A t \in Tasks :
    row[t].state # "ABSENT" => row[t].attempts <= MaxAttempts[t] + boots - 1

\* A row is FAILED only if its attempts are used up, a handler threw an error
\* that is not retried, a handler returned in time but its completion could not
\* be recorded, or its payload does not parse; it is COMPLETED only if one of
\* its handlers returned before its abort signal.
EndsForAReason ==
  \A t \in Tasks :
    /\ row[t].state = "FAILED" => \/ row[t].attempts >= MaxAttempts[t]
                                  \/ "permanent" \in evidence[t]
                                  \/ {"returned", "unrecorded"} \subseteq evidence[t]
                                  \/ t \in Corrupt
    /\ row[t].state = "COMPLETED" => "returned" \in evidence[t]

\* What types.ts:158 says of onNonRetryableError: it is called only when a task
\* "is permanently in FAILED state".  A row that markFailed finds cancelled, or
\* in the hands of a later attempt, is reported like one that failed.
AlertedWhenFailed ==
  \A p \in Procs, t \in Tasks : exec[p][t].pc = "alerting" => row[t].state = "FAILED"

\* What holds instead: the task is not leased any more at the attempt that
\* reports the failure.
AlertedLeaseIsOver ==
  \A p \in Procs, t \in Tasks :
    exec[p][t].pc = "alerting" =>
      ~(row[t].state = "RUNNING" /\ row[t].attempts = exec[p][t].attempt)

\* Tasks in flight, and those a claim has leased for dispatch, never exceed
\* the worker's concurrency as long as the worker has one poll chain.
ConcurrencyRespected ==
  \A p \in Procs : ~forked[p] =>
    \A c \in Chains :
      Cardinality(InFlight(p) \cup {t \in Tasks : claimed[p][c][t] > 0}) <= Concurrency

\* What types.ts:141 and the option's name say: no more than concurrency tasks
\* execute in a worker.  Calling start() before stop() has resolved breaks it.
ConcurrencyNeverExceeded ==
  \A p \in Procs : Cardinality(InFlight(p)) <= Concurrency

\* From the moment stop() takes its snapshot, a worker that is not restarted
\* has no poll left that could dispatch work, and nothing in flight that the
\* snapshot does not wait for.
StopWaitsForAll ==
  \A p \in Procs :
    stopping[p].pc = "drain" /\ ~running[p] /\ ~forked[p] =>
      /\ \A c \in Chains : chain[p][c].pc = "off"
      /\ InFlight(p) \subseteq stopping[p].wait

\* A due task does not starve: with a worker running, it is leased (or
\* cancelled) at some time, whatever errors the poll loop meets.
DueTaskIsLeased ==
  \A t \in Handled :
    row[t].state = "PENDING" ~> row[t].state # "PENDING" \/ \A p \in Procs : ~running[p]

\* What background-tasks.md:68 and :229 say: with a worker running, a lease is
\* not kept for ever.  A restart within HangTimeout of a crash breaks it.
LeaseReclaimed ==
  \A t \in Tasks :
    row[t].state = "RUNNING" ~> row[t].state # "RUNNING" \/ \A p \in Procs : ~running[p]

\* stop() resolves, also when the poll it awaits fails.
StopTerminates ==
  \A p \in Procs : stopping[p] # NoStop ~> stopping[p] = NoStop

\* The table only ever does what TaskLifecycle allows, whatever the workers do.
Lifecycle == INSTANCE TaskLifecycle
  WITH status <- [t \in Tasks |-> row[t].state],
       attempts <- [t \in Tasks |-> row[t].attempts]
ImplementsLifecycle == Lifecycle!Spec
=============================================================================
