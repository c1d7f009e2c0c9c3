------------------------------ MODULE Records ------------------------------
(***************************************************************************)
(* The feature services over one connection: notes, which are replicated   *)
(* and leave tombstones, and widgets and organisations, which are rows     *)
(* with a unique SKU or domain.  Each call is a transaction that reads,    *)
(* writes, signs and enqueues in steps; signing and statements fail; the   *)
(* caller's permission and membership change between transactions.         *)
(***************************************************************************)
EXTENDS Naturals, Sequences

CONSTANTS Notes, Widgets, Companies, \* ids, which their services generate
          Values,          \* contents of notes, SKUs of widgets, domains
          Editors,         \* calls that may be under way
          Nil,
          MaxOperations    \* bound on the operations given an id

Ids == Notes \cup Widgets \cup Companies

ASSUME EditorsAssumption == Nil \notin Editors
ASSUME IdsAssumption ==
    Notes \cap (Widgets \cup Companies) = {} /\ Widgets \cap Companies = {} /\ Nil \notin Ids

VARIABLES store,      \* the database: rows, tombstones, outbox
          image,      \* the database as the open transaction found it
          locked,     \* the call whose transaction is open, or Nil
          edits,      \* per call: operation, id, content, where it is, what it read
          operations, \* operation ids given out
          allowed,    \* requirePermission and requireActiveMembership let the caller pass
          replicated  \* operation ids whose tombstones were marked replicated

recordVars == <<store, image, locked, edits, operations, allowed, replicated>>

Absent == [state |-> "absent"]
Committed == IF locked = Nil THEN store ELSE image
NoEdit == [op |-> "none", id |-> Nil, pc |-> "idle", value |-> Nil, existing |-> Absent, opId |-> 0]

RecordsInit ==
    /\ store = [rows |-> [i \in Ids |-> Absent], tombstones |-> {}, outbox |-> <<>>]
    /\ image = store
    /\ locked = Nil
    /\ edits = [e \in Editors |-> NoEdit]
    /\ operations = 0
    /\ allowed = TRUE
    /\ replicated = {}

StepTo(e, pc) == edits' = [edits EXCEPT ![e].pc = pc]
Unrelated == <<operations, allowed, replicated>>

\* (Not waiting for the transaction that is open.)
BeginEditAtOnce(e, op, i, value) ==
    /\ edits[e] = NoEdit
    /\ operations < MaxOperations
    /\ operations' = operations + 1
    /\ locked' = e /\ image' = store
    /\ edits' = [edits EXCEPT ![e] = [NoEdit EXCEPT !.op = op, !.id = i, !.value = value,
                                                    !.pc = "read", !.opId = operations']]
    /\ UNCHANGED <<store, allowed, replicated>>

\* The call arrives with its operation id to be; the lock orders transactions.
BeginEdit(e, op, i, value) ==
    /\ edits[e] = NoEdit /\ locked = Nil
    /\ operations < MaxOperations
    /\ operations' = operations + 1
    /\ locked' = e /\ image' = store
    /\ edits' = [edits EXCEPT ![e] = [NoEdit EXCEPT !.op = op, !.id = i, !.value = value,
                                                    !.pc = "read", !.opId = operations']]
    /\ UNCHANGED <<store, allowed, replicated>>

\* (Deleted rows included.)
ExistingOrDeleted(i) == store.rows[i]

\* findByIdWithinOrganisation finds live rows only.
Existing(i) == IF store.rows[i].state = "live" THEN store.rows[i] ELSE Absent

\* findBySku, findByDomain.
Rivals(i) == IF i \in Widgets THEN Widgets ELSE IF i \in Companies THEN Companies ELSE {}
Taken(i, value) == \E j \in Rivals(i) : Existing(j) /= Absent /\ Existing(j).value = value

RollbackEdit(e) ==
    /\ edits[e].pc \notin {"idle", "done"}
    /\ store' = image /\ locked' = Nil /\ StepTo(e, "done")
    /\ UNCHANGED <<image, Unrelated>>

CommitEdit(e) ==
    /\ edits[e].pc = "commit"
    /\ locked' = Nil /\ StepTo(e, "done")
    /\ UNCHANGED <<store, image, Unrelated>>

\* A service call up to its first write: permission, the row, membership.
Reads(e, op, ids) ==
    /\ edits[e].pc = "read" /\ edits[e].op = op /\ edits[e].id \in ids
    /\ allowed
    /\ UNCHANGED <<store, image, locked, Unrelated>>

CreateNote(e) ==
    /\ Reads(e, "create", Notes)
    /\ store.rows[edits[e].id] = Absent
    /\ StepTo(e, "write")

\* (The id alone is looked up.)
InsertNew(e) ==
    /\ store.rows[edits[e].id] = Absent
    /\ StepTo(e, "write")

\* A SKU or domain that is in use is refused.
InsertUnique(e) ==
    /\ store.rows[edits[e].id] = Absent
    /\ ~Taken(edits[e].id, edits[e].value)
    /\ StepTo(e, "write")

CreateWidget(e) == Reads(e, "create", Widgets) /\ InsertUnique(e)
CreateOrganisation(e) == Reads(e, "create", Companies) /\ InsertUnique(e)

UpdateExisting(e) ==
    LET existing == Existing(edits[e].id) IN
    /\ existing /= Absent
    /\ edits' = [edits EXCEPT ![e].pc = "write", ![e].existing = existing]

UpdateNote(e) == Reads(e, "update", Notes) /\ UpdateExisting(e)
UpdateWidget(e) == Reads(e, "update", Widgets) /\ UpdateExisting(e)
UpdateOrganisation(e) == Reads(e, "update", Companies) /\ UpdateExisting(e)

\* Nothing to delete is no error.
DeleteNote(e) ==
    /\ Reads(e, "delete", Notes)
    /\ StepTo(e, IF Existing(edits[e].id) = Absent THEN "commit" ELSE "tombstone")

DeleteWidget(e) ==
    /\ Reads(e, "delete", Widgets)
    /\ StepTo(e, IF Existing(edits[e].id) = Absent THEN "commit" ELSE "write")

\* TombstoneService.record.
Entomb(e) ==
    /\ edits[e].pc = "tombstone"
    /\ store' = [store EXCEPT !.tombstones = @ \cup {[note |-> edits[e].id, op |-> edits[e].opId]}]
    /\ StepTo(e, "write")
    /\ UNCHANGED <<image, locked, Unrelated>>

\* A note is updated with every column of the row that was read, its deleted_at
\* included; the others with changed columns, never the unique one.  Only
\* softDeleteWithOperationId spares a row that is deleted already.
Written(edit, row) ==
    CASE edit.op = "create" -> [state |-> "live", value |-> edit.value, op |-> 0]
      [] edit.op = "update" -> IF edit.id \in Notes
                               THEN [edit.existing EXCEPT !.value = edit.value]
                               ELSE row
      [] edit.op = "delete" -> IF edit.id \in Notes /\ row.state = "deleted" THEN row
                               ELSE [row EXCEPT !.state = "deleted", !.op = edit.opId]

WriteRow(e) ==
    /\ edits[e].pc = "write"
    /\ store' = [store EXCEPT !.rows[edits[e].id] = Written(edits[e], @)]
    /\ StepTo(e, IF edits[e].id \in Notes THEN "sign" ELSE "commit")
    /\ UNCHANGED <<image, locked, Unrelated>>

\* The operation is copied, checked, signed and checked again.
Sign(e) ==
    /\ edits[e].pc = "sign"
    /\ StepTo(e, "enqueue")
    /\ UNCHANGED <<store, image, locked, Unrelated>>

Enqueue(e) ==
    /\ edits[e].pc = "enqueue"
    /\ store' = [store EXCEPT !.outbox = Append(@, [note |-> edits[e].id, op |-> edits[e].op,
                                                    id |-> edits[e].opId, value |-> edits[e].value])]
    /\ StepTo(e, "commit")
    /\ UNCHANGED <<image, locked, Unrelated>>

MembershipChanges ==
    /\ locked = Nil /\ allowed' = ~allowed
    /\ UNCHANGED <<store, image, locked, edits, operations, replicated>>

\* markReplicated, and the pruner of replicated tombstones.
MarkReplicated(t) ==
    /\ locked = Nil /\ t \in store.tombstones
    /\ replicated' = replicated \cup {t.op}
    /\ UNCHANGED <<store, image, locked, edits, operations, allowed>>

PruneTombstones ==
    /\ locked = Nil
    /\ store' = [store EXCEPT !.tombstones = {t \in @ : t.op \notin replicated}]
    /\ UNCHANGED <<image, locked, edits, Unrelated>>

RecordsNext ==
    \/ \E e \in Editors :
        \/ \E op \in {"create", "update", "delete"}, i \in Ids, v \in Values :
              (op = "delete" => i \notin Companies) /\ BeginEdit(e, op, i, v)
        \/ CreateNote(e) \/ CreateWidget(e) \/ CreateOrganisation(e)
        \/ UpdateNote(e) \/ UpdateWidget(e) \/ UpdateOrganisation(e)
        \/ DeleteNote(e) \/ DeleteWidget(e)
        \/ Entomb(e) \/ WriteRow(e) \/ Sign(e) \/ Enqueue(e)
        \/ CommitEdit(e) \/ RollbackEdit(e)
    \/ MembershipChanges
    \/ \E t \in store.tombstones : MarkReplicated(t)
    \/ PruneTombstones

RecordsSpec == RecordsInit /\ [][RecordsNext]_recordVars

----------------------------------------------------------------------------
\* What a peer makes of a note's row and an operation.
Apply(row, o) ==
    CASE o.op = "delete" -> [row EXCEPT !.state = "deleted", !.op = o.id]
      [] o.op = "create" -> [state |-> "live", value |-> o.value, op |-> 0]
      [] OTHER -> [row EXCEPT !.value = o.value]

\* What the operations of a note make of it, in the order they were enqueued.
Replayed(outbox, n) ==
    LET after[k \in 0 .. Len(outbox)] ==
          IF k = 0 THEN Absent
          ELSE IF outbox[k].note = n THEN Apply(after[k - 1], outbox[k]) ELSE after[k - 1]
    IN  after[Len(outbox)]

\* A peer that applies a note's operations in order arrives at its row, whatever
\* calls competed or failed: no change goes unrecorded and none is recorded that
\* was rolled back, no update follows a deletion or undoes it.
OutboxReplaysNotes == \A n \in Notes : Committed.rows[n] = Replayed(Committed.outbox, n)

\* No two live widgets share a SKU and no two organisations a domain, although
\* each call only looks before it inserts.
ValuesAreUnique ==
    \A i \in Ids : \A j \in Rivals(i) \ {i} :
        LET row == Committed.rows IN
        row[i].state = "live" /\ row[j].state = "live" => row[i].value /= row[j].value

\* A deleted note has one tombstone, of the operation that deleted it, until it
\* is replicated and pruned; a note that is not deleted has none.
DeletionsLeaveTombstones ==
    \A n \in Notes :
        LET row == Committed.rows[n] IN
        /\ \A t \in Committed.tombstones : t.note = n => row.state = "deleted" /\ row.op = t.op
        /\ row.state = "deleted" => [note |-> n, op |-> row.op] \in Committed.tombstones
                                      \/ row.op \in replicated
============================================================================
