------------------------------- MODULE Import -------------------------------
(***************************************************************************)
(* ImportEngine.executeImport: a file is accepted, announced in the audit  *)
(* trail, validated and written in one transaction with the audit event    *)
(* that completes it.  Imports overlap; audits, statements and commits     *)
(* fail; the process may end at any point.                                 *)
(***************************************************************************)
EXTENDS Naturals, FiniteSets

CONSTANTS Imports,         \* calls that may be made
          Files,           \* files that may be offered
          MaxBytes, MaxSheets, MaxRows, MaxCells, MaxLength, \* MAX_IMPORT_...
          AcceptedFormats  \* of the ImportDefinition

ASSUME ImportAssumption == MaxRows \in Nat /\ \A file \in Files : file.rows \in Nat

VARIABLES imports, \* [Imports -> [pc, file, rows and events in its transaction]]
          stored,  \* [import, row] of every row in the database
          trail    \* [import, event] of the audit table, IMPORT_ left out

importVars == <<imports, stored, trail>>

ImportInit ==
    /\ imports \in [Imports -> [pc : {"idle"}, file : Files, rows : {{}}, pending : {{}}]]
    /\ stored = {} /\ trail = {}

\* sheetRows: one row more than is allowed is read, the heading included.
RowsRead(file) == IF file.rows > MaxRows + 2 THEN MaxRows + 2 ELSE file.rows

\* parseBuffer, the limits of which keep the parser's work bounded.
Parses(file) ==
    /\ file.bytes <= MaxBytes /\ ~file.slow
    /\ file.sheets \in 1 .. MaxSheets
    /\ RowsRead(file) <= MaxRows + 1
    /\ RowsRead(file) * file.columns <= MaxCells
    /\ file.longest <= MaxLength
    /\ ~file.repeatedHeading

\* What sheet_to_json returns: the rows under the heading.
Rows(file) == 1 .. (IF RowsRead(file) = 0 THEN 0 ELSE RowsRead(file) - 1)

Proceed(i, pc) == imports' = [imports EXCEPT ![i].pc = pc]
Emit(i, event) == trail' = trail \cup {[import |-> i, event |-> event]}

\* A file that is refused leaves no trace.
Offer(i) ==
    /\ imports[i].pc = "idle"
    /\ Proceed(i, IF imports[i].file.format \in AcceptedFormats /\ Parses(imports[i].file)
                  THEN "announce" ELSE "refused")
    /\ UNCHANGED <<stored, trail>>

Announce(i) ==
    /\ imports[i].pc = "announce"
    /\ Emit(i, "STARTED")
    /\ Proceed(i, IF imports[i].file.badRow \in Rows(imports[i].file) THEN "reject" ELSE "commit")
    /\ UNCHANGED stored

\* One bad row rejects the whole file.
Reject(i) ==
    /\ imports[i].pc = "reject"
    /\ Emit(i, "FAILED")
    /\ Proceed(i, "rejected")
    /\ UNCHANGED stored

\* definition.commit within the transaction.  It writes the rows it likes: any
\* importedCount from none to all of the valid rows is taken (another one fails).
WriteRows(i) ==
    /\ imports[i].pc = "commit"
    /\ \E rows \in SUBSET Rows(imports[i].file) :
          imports' = [imports EXCEPT ![i].pc = "written", ![i].rows = rows]
    /\ UNCHANGED <<stored, trail>>

\* (The audit is not given the transaction.)
AuditAtOnce(i) ==
    /\ imports[i].pc = "written"
    /\ Emit(i, "COMPLETED")
    /\ Proceed(i, "audited")
    /\ UNCHANGED stored

\* The event of completion, in the transaction like the rows.
AuditCompletion(i) ==
    /\ imports[i].pc = "written"
    /\ imports' = [imports EXCEPT ![i].pc = "audited", ![i].pending = {"COMPLETED"}]
    /\ UNCHANGED <<stored, trail>>

CommitImport(i) ==
    /\ imports[i].pc = "audited"
    /\ stored' = stored \cup {[import |-> i, row |-> r] : r \in imports[i].rows}
    /\ trail' = trail \cup {[import |-> i, event |-> e] : e \in imports[i].pending}
    /\ Proceed(i, "completed")

InTransaction(i) == imports[i].pc \in {"commit", "written", "audited"}

\* BEGIN, a statement, the count, the audit or COMMIT fails: ROLLBACK.
CommitFails(i) ==
    /\ InTransaction(i)
    /\ Proceed(i, "recover")
    /\ UNCHANGED <<stored, trail>>

\* The catch: the failure is recorded and thrown on.
Recover(i) ==
    /\ imports[i].pc = "recover"
    /\ Emit(i, "FAILED")
    /\ Proceed(i, "failed")
    /\ UNCHANGED stored

\* An audit outside the transaction fails, or the process ends.
Breaks(i) ==
    /\ InTransaction(i) \/ imports[i].pc \in {"announce", "reject", "recover"}
    /\ Proceed(i, "broken")
    /\ UNCHANGED <<stored, trail>>

ImportNext ==
    \E i \in Imports :
        \/ Offer(i) \/ Announce(i) \/ Reject(i) \/ WriteRows(i) \/ AuditCompletion(i)
        \/ CommitImport(i) \/ CommitFails(i) \/ Recover(i) \/ Breaks(i)

ImportSpec == ImportInit /\ [][ImportNext]_importVars

----------------------------------------------------------------------------
Of(i) == {s.row : s \in {t \in stored : t.import = i}}
Events(i) == {e.event : e \in {t \in trail : t.import = i}}

\* An import that the audit trail calls completed has stored exactly what its
\* definition wrote, of a file every row of which was read and passed validation,
\* never one cut off at a limit; the trail then does not say that it failed.  Any
\* other import has stored nothing.  And one that ran to its end is closed in the
\* trail.  (That the definition writes every row, the engine does not ask.)
ImportsAreWhole ==
    \A i \in Imports :
        /\ IF "COMPLETED" \in Events(i)
           THEN /\ Of(i) = imports[i].rows
                /\ imports[i].file.rows - 1 <= MaxRows
                /\ imports[i].file.badRow \notin 1 .. imports[i].file.rows - 1
                /\ "FAILED" \notin Events(i)
           ELSE Of(i) = {}
        /\ imports[i].pc \in {"rejected", "completed", "failed"} =>
              "STARTED" \in Events(i) /\ Events(i) /= {"STARTED"}
=============================================================================
