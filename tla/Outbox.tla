------------------------------- MODULE Outbox -------------------------------
(***************************************************************************)
(* The sending side of replication on one device, for one organisation:    *)
(* the durable table core_sync_outbox, the operations of OutboxService on  *)
(* it, and the handler of OutboxSyncWorker, one step per await.            *)
(*                                                                         *)
(* The handler is leased through a task of the queue modelled in           *)
(* TaskWorker; what that module shows of a task with a unique key is all   *)
(* that is kept of it here: `task` is the one active row.  Cancelling it   *)
(* does not end its handler, so two runs may overlap.                      *)
(***************************************************************************)
EXTENDS Naturals, FiniteSets

CONSTANTS Envelopes,    \* envelope ids, numbered in the order of created_at
          NoEnvelope,
          Peers,        \* the other devices of the sync group
          NoPeer,
          Runs,         \* bound: executions of the handler at a time
          Unreadable,   \* rows whose stored envelope does not validate
          MaxSends,     \* maxAttempts of OutboxService.markFailed
          BatchLimit,   \* batchLimit of the sync task
          MaxTries,     \* max_attempts of the sync task
          QuickRestart, \* whether a restart may find a lease too young to recover
          MaxFaults     \* bound: crashes, timeouts, cancellations, failing statements

ASSUME OutboxAssumption ==
  /\ Envelopes \subseteq Nat /\ NoEnvelope \notin Envelopes
  /\ NoPeer \notin Peers /\ Unreadable \subseteq Envelopes
  /\ MaxSends \in Nat \ {0} /\ BatchLimit \in Nat \ {0} /\ MaxTries \in Nat \ {0}
  /\ QuickRestart \in BOOLEAN /\ MaxFaults \in Nat

VARIABLES outbox,   \* the table
          task,     \* the active sync task: queued, leased by a run, or interrupted
          tries,    \* its attempt_count
          run,      \* run[r]: an execution of the handler
          faults    \* how many faults there were

outboxVars == <<outbox, task, tries, run, faults>>

-----------------------------------------------------------------------------
Statuses == {"ABSENT", "PENDING", "SENT", "FAILED", "DELETED"}
OutboxRow == [status : Statuses, attempts : Nat]

\* "load" reads the batch, "next" is the head of the loop over it, "send" awaits
\* the dispatcher, "sent" and "unsent" the update that follows.
RunPc == {"off", "load", "next", "send", "sent", "unsent"}
Run == [pc : RunPc, batch : SUBSET Envelopes, entry : Envelopes \cup {NoEnvelope},
        todo : SUBSET Peers, peer : Peers \cup {NoPeer}, acked : BOOLEAN,
        dispatched : BOOLEAN, failed : BOOLEAN, aborted : BOOLEAN]
NoRun == [pc |-> "off", batch |-> {}, entry |-> NoEnvelope, todo |-> {},
          peer |-> NoPeer, acked |-> FALSE, dispatched |-> FALSE,
          failed |-> FALSE, aborted |-> FALSE]

OutboxInit ==
  /\ outbox = [e \in Envelopes |-> [status |-> "ABSENT", attempts |-> 0]]
  /\ task = "idle" /\ tries = 0
  /\ run = [r \in Runs |-> NoRun]
  /\ faults = 0

Fault == faults < MaxFaults /\ faults' = faults + 1

Pending == {e \in Envelopes : outbox[e].status = "PENDING"}

\* SELECT ... ORDER BY created_at ASC LIMIT BatchLimit.
Oldest == {e \in Pending : Cardinality({f \in Pending : f < e}) < BatchLimit}

-----------------------------------------------------------------------------
(* The host: business mutations and requests to sync. *)

\* enqueue, in the transaction of the business mutation.
Enqueue(e) ==
  /\ outbox[e].status = "ABSENT"
  /\ \A f \in Envelopes : f < e => outbox[f].status # "ABSENT"
  /\ outbox' = [outbox EXCEPT ![e].status = "PENDING"]
  /\ UNCHANGED <<task, tries, run, faults>>

\* enqueueSync: while a sync task is active, queued or RUNNING, the call
\* returns that one and changes nothing.
EnqueueSync ==
  /\ task' = IF task = "idle" THEN "queued" ELSE task
  /\ tries' = IF task = "idle" THEN 0 ELSE tries
  /\ UNCHANGED <<outbox, run, faults>>

\* One tick of the native scheduler: it has a sync task enqueued if there are
\* rows whose status is 'pending'.
Tick ==
  IF \E e \in Envelopes : outbox[e].status = "pending"
  THEN EnqueueSync ELSE UNCHANGED outboxVars

CancelSync ==
  /\ task # "idle"
  /\ Fault
  /\ task' = "idle"
  /\ UNCHANGED <<outbox, tries, run>>

\* SyncOutboxPruner: one DELETE of rows past the retention period.
PruneOutbox(S) ==
  /\ S # {} /\ \A e \in S : outbox[e].status = "SENT"
  /\ outbox' = [e \in Envelopes |->
       IF e \in S THEN [outbox[e] EXCEPT !.status = "DELETED"] ELSE outbox[e]]
  /\ UNCHANGED <<task, tries, run, faults>>

-----------------------------------------------------------------------------
(* One run of the handler. *)

Go(r, pc) == run' = [run EXCEPT ![r].pc = pc]

Lease(r) ==
  /\ task = "queued" /\ run[r].pc = "off"
  /\ task' = r /\ tries' = tries + 1
  /\ run' = [run EXCEPT ![r] = [NoRun EXCEPT !.pc = "load"]]
  /\ UNCHANGED <<outbox, faults>>

Abort(r) ==
  /\ run[r].pc # "off" /\ ~run[r].aborted
  /\ Fault
  /\ run' = [run EXCEPT ![r].aborted = TRUE]
  /\ UNCHANGED <<outbox, task, tries>>

\* The handler returns: its task, unless it was cancelled, is COMPLETED.
Return(r) ==
  /\ run' = [run EXCEPT ![r] = NoRun]
  /\ task' = IF task = r THEN "idle" ELSE task
  /\ UNCHANGED tries

\* The handler throws: its task is FAILED at once if decide() does not retry the
\* error, as it never does with a DatabaseError or a ValidationError, or if this
\* was the last attempt; otherwise it is PENDING again.
Throw(r, permanent) ==
  /\ run' = [run EXCEPT ![r] = NoRun]
  /\ task' = IF task # r THEN task
             ELSE IF ~permanent /\ tries < MaxTries THEN "queued" ELSE "idle"
  /\ UNCHANGED tries

\* pendingBatch.
Load(r) ==
  /\ run[r].pc = "load" /\ ~run[r].aborted
  /\ Oldest \cap Unreadable = {}
  /\ run' = [run EXCEPT ![r].pc = "next", ![r].batch = Oldest]
  /\ UNCHANGED <<outbox, task, tries, faults>>

\* One row that does not validate fails the whole batch, as a failing SELECT
\* does; a run aborted by now throws an error that is retried.
LoadFails(r) ==
  /\ run[r].pc = "load"
  /\ \/ Oldest \cap Unreadable # {} /\ Throw(r, TRUE) /\ UNCHANGED faults
     \/ Fault /\ Throw(r, TRUE)
     \/ run[r].aborted /\ Throw(r, FALSE) /\ UNCHANGED faults
  /\ UNCHANGED outbox

\* The loop goes to the next entry, the oldest one left.
Take(r) ==
  /\ run[r].pc = "next" /\ ~run[r].aborted
  /\ \E e \in run[r].batch :
       /\ \A f \in run[r].batch : e <= f
       /\ run' = [run EXCEPT ![r].pc = "send", ![r].entry = e,
                             ![r].batch = @ \ {e}, ![r].todo = Peers]
  /\ UNCHANGED <<outbox, task, tries, faults>>

\* No envelope of the batch was dispatched, although there was one.
AllFailed(r) == run[r].batch = {} /\ run[r].failed /\ ~run[r].dispatched

\* The end of the loop, and of the handler.
Finish(r) ==
  /\ run[r].pc = "next"
  /\ IF run[r].aborted \/ AllFailed(r) THEN Throw(r, FALSE)
     ELSE run[r].batch = {} /\ Return(r)
  /\ UNCHANGED <<outbox, faults>>

EndEntry(r, d, f) ==
  run' = [run EXCEPT ![r].pc = "next", ![r].entry = NoEnvelope,
                     ![r].dispatched = @ \/ d, ![r].failed = @ \/ f]

\* Mutant: markSent does not look at the row's status.
MarkSentBlindly(r) ==
  /\ run[r].pc = "sent"
  /\ outbox' = [outbox EXCEPT ![run[r].entry].status = "SENT"]
  /\ EndEntry(r, TRUE, FALSE)
  /\ UNCHANGED <<task, tries, faults>>

MarkSent(r) ==
  /\ run[r].pc = "sent"
  /\ outbox' = IF outbox[run[r].entry].status = "PENDING"
               THEN [outbox EXCEPT ![run[r].entry].status = "SENT"] ELSE outbox
  /\ EndEntry(r, TRUE, FALSE)
  /\ UNCHANGED <<task, tries, faults>>

\* markSent throws: its error goes the way of the dispatcher's.
MarkSentFails(r) ==
  /\ run[r].pc = "sent"
  /\ Fault
  /\ Go(r, "unsent")
  /\ UNCHANGED <<outbox, task, tries>>

\* Mutants: markFailed does not look at the row's status; it does not count.
MarkFailedBlindly(r) ==
  LET e == run[r].entry
      n == outbox[e].attempts + 1
  IN  /\ run[r].pc = "unsent" /\ ~run[r].aborted
      /\ outbox' = [outbox EXCEPT ![e] =
                      [status |-> IF n >= MaxSends THEN "FAILED" ELSE "PENDING",
                       attempts |-> n]]
      /\ EndEntry(r, FALSE, TRUE)
      /\ UNCHANGED <<task, tries, faults>>

MarkFailedUncounted(r) ==
  /\ run[r].pc = "unsent" /\ ~run[r].aborted
  /\ EndEntry(r, FALSE, TRUE)
  /\ UNCHANGED <<outbox, task, tries, faults>>

MarkFailed(r) ==
  LET e == run[r].entry
      n == outbox[e].attempts + 1
  IN  /\ run[r].pc = "unsent" /\ ~run[r].aborted
      /\ outbox' = IF outbox[e].status = "PENDING"
                   THEN [outbox EXCEPT ![e] =
                          [status |-> IF n >= MaxSends THEN "FAILED" ELSE "PENDING",
                           attempts |-> n]]
                   ELSE outbox
      /\ EndEntry(r, FALSE, TRUE)
      /\ UNCHANGED <<task, tries, faults>>

\* The row is left as it is: the dispatch failed after the abort signal, and its
\* error is thrown on, or markFailed throws.
MarkFailedSkipped(r) ==
  /\ run[r].pc = "unsent"
  /\ \/ run[r].aborted /\ (\E permanent \in BOOLEAN : Throw(r, permanent)) /\ UNCHANGED faults
     \/ Fault /\ Throw(r, TRUE)
  /\ UNCHANGED outbox

\* The handler throws, and so does the queue's markFailed: nobody holds the
\* task any more, whose row stays RUNNING.
Unreported(r) ==
  /\ \/ run[r].pc \in {"load", "unsent"}
     \/ run[r].pc = "next" /\ (run[r].aborted \/ AllFailed(r))
  /\ Fault
  /\ run' = [run EXCEPT ![r] = NoRun]
  /\ task' = IF task = r THEN "interrupted" ELSE task
  /\ UNCHANGED <<outbox, tries>>

\* The process dies and starts again: recovery puts the interrupted task back
\* in the queue, unless the lease is younger than its threshold.
Restart ==
  /\ Fault
  /\ run' = [r \in Runs |-> NoRun]
  /\ IF task \in Runs \cup {"interrupted"}
     THEN task' \in {"queued"} \cup (IF QuickRestart THEN {"interrupted"} ELSE {})
     ELSE UNCHANGED task
  /\ UNCHANGED <<outbox, tries>>
=============================================================================
