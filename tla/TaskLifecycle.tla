--------------------------- MODULE TaskLifecycle ---------------------------
(***************************************************************************)
(* What the durable task table promises, whoever the workers are and       *)
(* whatever they do: the abstract specification that TaskWorker is shown   *)
(* to implement.  It knows nothing of processes, polls, clocks or crashes: *)
(* only the state of each row of core_background_tasks and the number of   *)
(* attempts it has consumed.                                               *)
(***************************************************************************)
EXTENDS Naturals

CONSTANTS Tasks,   \* the row ids, each used by at most one enqueue
          Keys,    \* deduplication keys (unique_key)
          NoKey,   \* the NULL unique_key
          KeyOf    \* [Tasks -> Keys \cup {NoKey}]

VARIABLES status,    \* status[t]: the state column, "ABSENT" before the insert
          attempts   \* attempts[t]: the attempt_count column

lifecycle == <<status, attempts>>

Active == {"PENDING", "RUNNING"}
Statuses == Active \cup {"ABSENT", "COMPLETED", "FAILED", "CANCELLED", "DELETED"}

\* Rows t and u may not be active together (the partial unique index).
Conflicts(t, u) == t # u /\ KeyOf[t] # NoKey /\ KeyOf[t] = KeyOf[u]

Init == /\ status = [t \in Tasks |-> "ABSENT"]
        /\ attempts = [t \in Tasks |-> 0]

\* A new row; no active row has its key.
Create(t) ==
  /\ status[t] = "ABSENT"
  /\ \A u \in Tasks : Conflicts(t, u) => status[u] \notin Active
  /\ status' = [status EXCEPT ![t] = "PENDING"]
  /\ UNCHANGED attempts

\* One claim leases a set of waiting rows and consumes one attempt of each.
Lease(S) ==
  /\ S # {} /\ \A t \in S : status[t] = "PENDING"
  /\ status' = [t \in Tasks |-> IF t \in S THEN "RUNNING" ELSE status[t]]
  /\ attempts' = [t \in Tasks |-> IF t \in S THEN attempts[t] + 1 ELSE attempts[t]]

\* A retry or a recovery gives leases back; the attempts stay consumed.
Release(S) ==
  /\ S # {} /\ \A t \in S : status[t] = "RUNNING"
  /\ status' = [t \in Tasks |-> IF t \in S THEN "PENDING" ELSE status[t]]
  /\ UNCHANGED attempts

\* Only a leased row completes or fails.
Finish(t, end) ==
  /\ status[t] = "RUNNING" /\ end \in {"COMPLETED", "FAILED"}
  /\ status' = [status EXCEPT ![t] = end]
  /\ UNCHANGED attempts

Withdraw(t) ==
  /\ status[t] \in Active
  /\ status' = [status EXCEPT ![t] = "CANCELLED"]
  /\ UNCHANGED attempts

\* Retention removes finished rows, never a failed one.
Discard(S) ==
  /\ S # {} /\ \A t \in S : status[t] \in {"COMPLETED", "CANCELLED"}
  /\ status' = [t \in Tasks |-> IF t \in S THEN "DELETED" ELSE status[t]]
  /\ UNCHANGED attempts

Next ==
  \/ \E t \in Tasks : Create(t) \/ Withdraw(t)
  \/ \E t \in Tasks, end \in {"COMPLETED", "FAILED"} : Finish(t, end)
  \/ \E S \in SUBSET Tasks : Lease(S) \/ Release(S) \/ Discard(S)

Spec == Init /\ [][Next]_lifecycle
=============================================================================
