--------------------------- MODULE PlatformProofs ---------------------------
(***************************************************************************)
(* Proofs about the parts of the platform that must leave nothing half     *)
(* done, however calls overlap and fail: import, maintenance, the          *)
(* transport's endpoint and start-up with its migrations.                  *)
(***************************************************************************)
EXTENDS Import, Maintenance, Endpoint, Startup, FiniteSetTheorems, TLAPS

-----------------------------------------------------------------------------
(***************************************************************************)
(* Import: what a definition wrote is stored or nothing is, as the audit   *)
(* trail says.  The inductive invariant says for each place in             *)
(* executeImport what the trail and the tables hold of the import.         *)
(***************************************************************************)

Pcs == {"idle", "refused", "announce", "reject", "rejected", "commit", "written", "audited",
        "completed", "recover", "failed", "broken"}

ImportType ==
    imports \in [Imports -> [pc : Pcs, file : Files, rows : SUBSET Nat,
                            pending : SUBSET {"COMPLETED"}]]

Running == {"reject", "commit", "written", "audited", "recover"}

\* What is known of an import with its events and its rows.
Accords(import, events, rows) ==
    /\ import.pc \in {"idle", "refused", "announce"} => events = {} /\ rows = {}
    /\ import.pc \in Running => events = {"STARTED"} /\ rows = {}
    /\ import.pc \in {"rejected", "failed"} =>
          events = {"STARTED", "FAILED"} /\ rows = {}
    /\ import.pc = "broken" => events \subseteq {"STARTED"} /\ rows = {}
    /\ import.pc = "completed" =>
          events = {"STARTED", "COMPLETED"} /\ rows = import.rows
    /\ import.pc \in {"commit", "written", "audited", "completed"} =>
          import.file.badRow \notin Rows(import.file)
    /\ import.pc \in Running \cup {"announce", "completed"} => Parses(import.file)
    /\ import.pc = "audited" => import.pending = {"COMPLETED"}

ImportInv == ImportType /\ \A i \in Imports : Accords(imports[i], Events(i), Of(i))

\* A file that parses was read to its end.
LEMMA ReadWhole ==
    ASSUME NEW file \in Files, Parses(file)
    PROVE  Rows(file) = 1 .. file.rows - 1 /\ file.rows - 1 <= MaxRows
<1>1. file.rows \in Nat /\ MaxRows \in Nat  BY ImportAssumption
<1>2. RowsRead(file) = file.rows  BY <1>1 DEF Parses, RowsRead
<1> QED BY <1>1, <1>2 DEF Rows, Parses

LEMMA Proceeding ==
    ASSUME ImportType, NEW i \in Imports, NEW pc \in Pcs, Proceed(i, pc)
    PROVE  /\ ImportType' /\ imports'[i] = [imports[i] EXCEPT !.pc = pc]
           /\ \A j \in Imports \ {i} : imports'[j] = imports[j]
BY DEF ImportType, Proceed

LEMMA Emitting ==
    ASSUME NEW i \in Imports, NEW event, Emit(i, event)
    PROVE  /\ Events(i)' = Events(i) \cup {event}
           /\ \A j \in Imports \ {i} : Events(j)' = Events(j)
<1>1. trail' = trail \cup {[import |-> i, event |-> event]}  BY DEF Emit
<1>2. [import |-> i, event |-> event].import = i /\ [import |-> i, event |-> event].event = event
  OBVIOUS
<1>3. Events(i)' = Events(i) \cup {event}
  <2>1. \A e : e \in Events(i)' <=> \E t \in trail' : t.import = i /\ t.event = e  BY DEF Events
  <2>2. \A e : e \in Events(i) <=> \E t \in trail : t.import = i /\ t.event = e  BY DEF Events
  <2> QED BY <1>1, <1>2, <2>1, <2>2
<1>4. ASSUME NEW j \in Imports \ {i} PROVE Events(j)' = Events(j)
  <2> DEFINE new == [import |-> i, event |-> event]
  <2>1. new.import /= j /\ trail' = trail \cup {new}  BY <1>1, <1>2
  <2> HIDE DEF new
  <2>2. {t \in trail' : t.import = j} = {t \in trail : t.import = j}  BY <2>1
  <2> QED BY <2>2 DEF Events
<1> QED BY <1>3, <1>4

\* The step of one import keeps what is known of the others.
LEMMA OneMoves ==
    ASSUME ImportInv, ImportType', NEW i \in Imports,
           \A j \in Imports \ {i} :
              imports'[j] = imports[j] /\ Events(j)' = Events(j) /\ Of(j)' = Of(j),
           Accords(imports'[i], Events(i)', Of(i)')
    PROVE  ImportInv'
BY DEF ImportInv

LEMMA ImportStep ==
    ASSUME ImportInv, [ImportNext]_importVars
    PROVE  ImportInv'
<1>0. ImportType  BY DEF ImportInv
<1>1. ASSUME NEW i \in Imports, NEW pc \in Pcs, Proceed(i, pc), UNCHANGED <<stored, trail>>,
             Accords([imports[i] EXCEPT !.pc = pc], Events(i), Of(i))
      PROVE  ImportInv'
  <2>1. \A j \in Imports : Events(j)' = Events(j) /\ Of(j)' = Of(j)  BY <1>1 DEF Events, Of
  <2> QED BY <1>0, <1>1, <2>1, Proceeding, OneMoves
<1>2. ASSUME NEW i \in Imports, NEW pc \in Pcs, NEW event, Proceed(i, pc), Emit(i, event),
             UNCHANGED stored,
             Accords([imports[i] EXCEPT !.pc = pc], Events(i) \cup {event}, Of(i))
      PROVE  ImportInv'
  <2>1. \A j \in Imports : Of(j)' = Of(j)  BY <1>2 DEF Of
  <2> QED BY <1>0, <1>2, <2>1, Proceeding, Emitting, OneMoves
<1>3. ASSUME NEW i \in Imports, NEW pc \in Pcs
      PROVE  LET new == [imports[i] EXCEPT !.pc = pc]
             IN  new.pc = pc /\ new.file = imports[i].file /\ new.rows = imports[i].rows
                /\ new.pending = imports[i].pending
  BY <1>0 DEF ImportType
<1>4. ASSUME NEW i \in Imports PROVE Accords(imports[i], Events(i), Of(i))
  BY DEF ImportInv
<1>5. ASSUME NEW i \in Imports, Offer(i) PROVE ImportInv'
  <2>1. CASE imports[i].file.format \in AcceptedFormats /\ Parses(imports[i].file)
    <3>1. Proceed(i, "announce") /\ UNCHANGED <<stored, trail>>  BY <1>5, <2>1 DEF Offer
    <3>2. Accords([imports[i] EXCEPT !.pc = "announce"], Events(i), Of(i))
      BY <1>3, <1>4, <1>5, <2>1 DEF Offer, Accords, Pcs, Running
    <3> QED BY <3>1, <3>2, <1>1 DEF Pcs
  <2>2. CASE ~(imports[i].file.format \in AcceptedFormats /\ Parses(imports[i].file))
    <3>1. Proceed(i, "refused") /\ UNCHANGED <<stored, trail>>  BY <1>5, <2>2 DEF Offer
    <3>2. Accords([imports[i] EXCEPT !.pc = "refused"], Events(i), Of(i))
      BY <1>3, <1>4, <1>5 DEF Offer, Accords, Pcs, Running
    <3> QED BY <3>1, <3>2, <1>1 DEF Pcs
  <2> QED BY <2>1, <2>2
<1>6. ASSUME NEW i \in Imports, Announce(i) PROVE ImportInv'
  <2>1. PICK pc \in {"reject", "commit"} :
            /\ Proceed(i, pc)
            /\ pc = "commit" => imports[i].file.badRow \notin Rows(imports[i].file)
    BY <1>6 DEF Announce
  <2>2. Emit(i, "STARTED") /\ UNCHANGED stored /\ imports[i].pc = "announce"
    BY <1>6 DEF Announce
  <2>3. pc \in Pcs /\ pc \in Running /\ pc /= "audited"  BY DEF Pcs, Running
  <2>4. Accords([imports[i] EXCEPT !.pc = pc], Events(i) \cup {"STARTED"}, Of(i))
    BY <1>3, <1>4, <2>1, <2>2, <2>3 DEF Accords, Running
  <2> QED BY <2>1, <2>2, <2>3, <2>4, <1>2
<1>7. ASSUME NEW i \in Imports, Reject(i) PROVE ImportInv'
  <2>1. Proceed(i, "rejected") /\ Emit(i, "FAILED") /\ UNCHANGED stored
        /\ imports[i].pc = "reject"
    BY <1>7 DEF Reject
  <2>2. Accords([imports[i] EXCEPT !.pc = "rejected"], Events(i) \cup {"FAILED"}, Of(i))
    BY <1>3, <1>4, <2>1 DEF Accords, Running, Pcs
  <2> QED BY <2>1, <2>2, <1>2 DEF Pcs
<1>8. ASSUME NEW i \in Imports, WriteRows(i) PROVE ImportInv'
  <2>1. PICK rows \in SUBSET Rows(imports[i].file) :
            imports' = [imports EXCEPT ![i].pc = "written", ![i].rows = rows]
    BY <1>8 DEF WriteRows
  <2>2. UNCHANGED <<stored, trail>> /\ imports[i].pc = "commit"  BY <1>8 DEF WriteRows
  <2>3. rows \subseteq Nat
    <3>1. Rows(imports[i].file) \subseteq Nat
      BY <1>0, ImportAssumption DEF Rows, RowsRead, ImportType
    <3> QED BY <3>1
  <2>4. ImportType'  BY <1>0, <2>1, <2>3 DEF ImportType, Pcs
  <2>5. /\ imports'[i].pc = "written" /\ imports'[i].file = imports[i].file
        /\ \A j \in Imports \ {i} : imports'[j] = imports[j]
    BY <1>0, <2>1 DEF ImportType
  <2>6. \A j \in Imports : Events(j)' = Events(j) /\ Of(j)' = Of(j)  BY <2>2 DEF Events, Of
  <2>7. Accords(imports'[i], Events(i)', Of(i)')
    BY <1>4, <2>2, <2>5, <2>6 DEF Accords, Running
  <2> QED BY <2>4, <2>5, <2>6, <2>7, OneMoves
<1>9. ASSUME NEW i \in Imports, AuditCompletion(i) PROVE ImportInv'
  <2>1. /\ imports' = [imports EXCEPT ![i].pc = "audited", ![i].pending = {"COMPLETED"}]
        /\ UNCHANGED <<stored, trail>> /\ imports[i].pc = "written"
    BY <1>9 DEF AuditCompletion
  <2>2. ImportType'  BY <1>0, <2>1 DEF ImportType, Pcs
  <2>3. /\ imports'[i].pc = "audited" /\ imports'[i].file = imports[i].file
        /\ imports'[i].pending = {"COMPLETED"}
        /\ \A j \in Imports \ {i} : imports'[j] = imports[j]
    BY <1>0, <2>1 DEF ImportType
  <2>4. \A j \in Imports : Events(j)' = Events(j) /\ Of(j)' = Of(j)  BY <2>1 DEF Events, Of
  <2>5. Accords(imports'[i], Events(i)', Of(i)')
    BY <1>4, <2>1, <2>3, <2>4 DEF Accords, Running
  <2> QED BY <2>2, <2>3, <2>4, <2>5, OneMoves
<1>10. ASSUME NEW i \in Imports, CommitImport(i) PROVE ImportInv'
  <2>1. /\ imports[i].pc = "audited" /\ Proceed(i, "completed")
        /\ stored' = stored \cup {[import |-> i, row |-> r] : r \in imports[i].rows}
        /\ trail' = trail \cup {[import |-> i, event |-> e] : e \in imports[i].pending}
    BY <1>10 DEF CommitImport
  <2>2. /\ Events(i) = {"STARTED"} /\ Of(i) = {} /\ Parses(imports[i].file)
        /\ imports[i].file.badRow \notin Rows(imports[i].file)
        /\ imports[i].pending = {"COMPLETED"}
    BY <1>4, <2>1 DEF Accords, Running
  <2>3. Emit(i, "COMPLETED")
    <3>1. {[import |-> i, event |-> e] : e \in {"COMPLETED"}}
            = {[import |-> i, event |-> "COMPLETED"]}
      OBVIOUS
    <3> QED BY <2>1, <2>2, <3>1 DEF Emit
  <2>4. Events(i)' = {"STARTED", "COMPLETED"}
        /\ \A j \in Imports \ {i} : Events(j)' = Events(j)
    BY <2>2, <2>3, Emitting
  <2> DEFINE new == {[import |-> i, row |-> r] : r \in imports[i].rows}
  <2>5. \A s \in new : s.import = i /\ s.row \in imports[i].rows  OBVIOUS
  <2>6. \A r \in imports[i].rows : \E s \in new : s.import = i /\ s.row = r
    <3> TAKE r \in imports[i].rows
    <3>1. [import |-> i, row |-> r] \in new  OBVIOUS
    <3> QED BY <3>1
  <2>7. stored' = stored \cup new  BY <2>1
  <2> HIDE DEF new
  <2>8. Of(i)' = imports[i].rows
    <3>1. \A r : r \in Of(i)' <=> \E s \in stored' : s.import = i /\ s.row = r  BY DEF Of
    <3>2. \A s \in stored : s.import /= i  BY <2>2 DEF Of
    <3>3. \A r : r \in Of(i)' <=> \E s \in new : s.import = i /\ s.row = r
      BY <3>1, <3>2, <2>7
    <3> QED BY <3>3, <2>5, <2>6
  <2>9. ASSUME NEW j \in Imports \ {i} PROVE Of(j)' = Of(j)
    <3>1. \A r : r \in Of(j)' <=> \E s \in stored' : s.import = j /\ s.row = r  BY DEF Of
    <3>2. \A r : r \in Of(j) <=> \E s \in stored : s.import = j /\ s.row = r  BY DEF Of
    <3>3. \A s \in new : s.import /= j  BY <2>5
    <3>4. \A s \in stored' : s.import = j => s \in stored  BY <2>7, <3>3
    <3>5. \A r : r \in Of(j)' <=> r \in Of(j)  BY <3>1, <3>2, <3>4, <2>7
    <3> QED BY <3>5 DEF Of
  <2>10. /\ ImportType' /\ imports'[i] = [imports[i] EXCEPT !.pc = "completed"]
         /\ \A j \in Imports \ {i} : imports'[j] = imports[j]
    BY <1>0, <2>1, Proceeding DEF Pcs
  <2>11. imports'[i].pc = "completed" /\ imports'[i].file = imports[i].file
         /\ imports'[i].rows = imports[i].rows
    BY <2>10, <1>3 DEF Pcs
  <2>12. Accords(imports'[i], Events(i)', Of(i)')
    BY <2>2, <2>4, <2>8, <2>11 DEF Accords, Running
  <2> QED BY <2>4, <2>9, <2>10, <2>12, OneMoves
<1>11. ASSUME NEW i \in Imports, CommitFails(i) PROVE ImportInv'
  <2>1. Proceed(i, "recover") /\ UNCHANGED <<stored, trail>>
        /\ imports[i].pc \in {"commit", "written", "audited"}
    BY <1>11 DEF CommitFails, InTransaction
  <2>2. Accords([imports[i] EXCEPT !.pc = "recover"], Events(i), Of(i))
    BY <1>3, <1>4, <2>1 DEF Accords, Running, Pcs
  <2> QED BY <2>1, <2>2, <1>1 DEF Pcs
<1>12. ASSUME NEW i \in Imports, Recover(i) PROVE ImportInv'
  <2>1. Proceed(i, "failed") /\ Emit(i, "FAILED") /\ UNCHANGED stored
        /\ imports[i].pc = "recover"
    BY <1>12 DEF Recover
  <2>2. Accords([imports[i] EXCEPT !.pc = "failed"], Events(i) \cup {"FAILED"}, Of(i))
    BY <1>3, <1>4, <2>1 DEF Accords, Running, Pcs
  <2> QED BY <2>1, <2>2, <1>2 DEF Pcs
<1>13. ASSUME NEW i \in Imports, Breaks(i) PROVE ImportInv'
  <2>1. Proceed(i, "broken") /\ UNCHANGED <<stored, trail>>
        /\ imports[i].pc \in {"commit", "written", "audited", "announce", "reject", "recover"}
    BY <1>13 DEF Breaks, InTransaction
  <2>2. Accords([imports[i] EXCEPT !.pc = "broken"], Events(i), Of(i))
    BY <1>3, <1>4, <2>1 DEF Accords, Running, Pcs
  <2> QED BY <2>1, <2>2, <1>1 DEF Pcs
<1>14. CASE UNCHANGED importVars
  BY <1>14 DEF importVars, ImportInv, ImportType, Events, Of
<1> QED BY <1>5, <1>6, <1>7, <1>8, <1>9, <1>10, <1>11, <1>12, <1>13, <1>14 DEF ImportNext

\* For any files, limits and number of overlapping imports, whatever fails or ends
\* (executeImport): the tables hold what the definition of an import wrote, of a
\* file read and validated as a whole, exactly if its trail says that it completed.
THEOREM ImportsAreAlwaysWhole == ImportSpec => []ImportsAreWhole
<1>1. ImportInit => ImportInv
  <2> SUFFICES ASSUME ImportInit PROVE ImportInv  OBVIOUS
  <2>1. ImportType  BY DEF ImportInit, ImportType, Pcs
  <2>2. \A i \in Imports : imports[i].pc = "idle" /\ Events(i) = {} /\ Of(i) = {}
    BY DEF ImportInit, Events, Of
  <2> QED BY <2>1, <2>2 DEF ImportInv, Accords, Running
<1>2. ImportInv /\ [ImportNext]_importVars => ImportInv'  BY ImportStep
<1>3. ImportInv => ImportsAreWhole
  <2> SUFFICES ASSUME ImportInv, NEW i \in Imports
               PROVE  /\ IF "COMPLETED" \in Events(i)
                         THEN /\ Of(i) = imports[i].rows
                              /\ imports[i].file.rows - 1 <= MaxRows
                              /\ imports[i].file.badRow \notin 1 .. imports[i].file.rows - 1
                              /\ "FAILED" \notin Events(i)
                         ELSE Of(i) = {}
                      /\ imports[i].pc \in {"rejected", "completed", "failed"} =>
                            "STARTED" \in Events(i) /\ Events(i) /= {"STARTED"}
    BY DEF ImportsAreWhole
  <2>1. Accords(imports[i], Events(i), Of(i)) /\ imports[i].pc \in Pcs /\ imports[i].file \in Files
    BY DEF ImportInv, ImportType
  <2>2. CASE imports[i].pc = "completed"
    <3>1. /\ Rows(imports[i].file) = 1 .. imports[i].file.rows - 1
          /\ imports[i].file.rows - 1 <= MaxRows
      BY <2>1, <2>2, ReadWhole DEF Accords, Running
    <3>2. /\ Events(i) = {"STARTED", "COMPLETED"} /\ Of(i) = imports[i].rows
          /\ imports[i].file.badRow \notin Rows(imports[i].file)
      BY <2>1, <2>2 DEF Accords
    <3> QED BY <2>2, <3>1, <3>2
  <2>3. CASE imports[i].pc /= "completed"
    <3>1. "COMPLETED" \notin Events(i) /\ Of(i) = {}
      BY <2>1, <2>3 DEF Accords, Running, Pcs
    <3>2. imports[i].pc \in {"rejected", "failed"} =>
            "STARTED" \in Events(i) /\ Events(i) /= {"STARTED"}
      BY <2>1 DEF Accords
    <3> QED BY <2>3, <3>1, <3>2
  <2> QED BY <2>2, <2>3
<1> QED BY <1>1, <1>2, <1>3, PTL DEF ImportSpec

-----------------------------------------------------------------------------
(* Maintenance. *)

USE MaintenanceAssumption

Busy == {"next", "prune", "report"}
Run == [pc : Busy \cup {"idle", "failed", "succeeded"}, at : Nat,
        cutoffs : [1 .. Len(Handlers) -> Int] \cup {<<>>},
        failed : BOOLEAN, aborted : BOOLEAN, due : SUBSET TableRows]

MaintenanceTypeOK ==
    /\ day \in Nat /\ DOMAIN table \subseteq TableRows
    /\ retention \in [1 .. Len(Handlers) -> Retentions]
    /\ runs \in [Runs -> Run]

\* What is left of the rows that were due, while nothing failed and nobody aborted,
\* is left to a handler whose turn is still to come, or the present one.
RunInv(m) ==
    /\ runs[m].pc \in Busy /\ ~runs[m].aborted /\ ~runs[m].failed =>
          \A r \in runs[m].due \cap DOMAIN table :
              \E h \in runs[m].at .. Len(Handlers) : r \in EligibleFor(h, runs[m].cutoffs[h])
    /\ runs[m].pc = "report" /\ ~runs[m].aborted => runs[m].at > Len(Handlers)
    /\ runs[m].pc = "succeeded" => runs[m].due \cap DOMAIN table = {}

MaintenanceInv == MaintenanceTypeOK /\ \A m \in Runs : RunInv(m)

\* No row appears, and one that is finished keeps its date.
TableShrinks ==
    /\ DOMAIN table' \subseteq DOMAIN table
    /\ \A r \in DOMAIN table' : table'[r] = table[r] \/ table[r] = Unfinished

LEMMA EligibleStays ==
    ASSUME TableShrinks, NEW h, NEW cutoff, NEW r \in DOMAIN table', r \in EligibleFor(h, cutoff)
    PROVE  r \in {q \in DOMAIN table' :
                    TableOf[q] = Handlers[h] /\ table'[q] /= Unfinished /\ table'[q] <= cutoff}
BY DEF TableShrinks, EligibleFor

LEMMA RunKept ==
    ASSUME TableShrinks, NEW m \in Runs, RunInv(m), runs'[m] = runs[m]
    PROVE  RunInv(m)'
<1>1. DOMAIN table' \subseteq DOMAIN table  BY DEF TableShrinks
<1>2. ASSUME runs[m].pc \in Busy, ~runs[m].aborted, ~runs[m].failed,
             NEW r \in runs[m].due \cap DOMAIN table'
      PROVE  \E h \in runs[m].at .. Len(Handlers) : r \in EligibleFor(h, runs[m].cutoffs[h])'
  <2>1. PICK h \in runs[m].at .. Len(Handlers) : r \in EligibleFor(h, runs[m].cutoffs[h])
    BY <1>1, <1>2 DEF RunInv
  <2>2. r \in EligibleFor(h, runs[m].cutoffs[h])'
    BY <1>2, <2>1, EligibleStays DEF EligibleFor
  <2> QED BY <2>2
<1> QED BY <1>1, <1>2 DEF RunInv

LEMMA MaintenanceInitially == MaintenanceInit => MaintenanceInv
<1> SUFFICES ASSUME MaintenanceInit PROVE MaintenanceInv  OBVIOUS
<1>1. NoRun \in Run /\ NoRun.pc = "idle"  BY DEF NoRun, Run
<1>2. runs = [m \in Runs |-> NoRun]  BY DEF MaintenanceInit
<1>3. MaintenanceTypeOK  BY <1>1, <1>2 DEF MaintenanceInit, MaintenanceTypeOK
<1>4. \A m \in Runs : RunInv(m)  BY <1>1, <1>2 DEF RunInv, Busy
<1> QED BY <1>3, <1>4 DEF MaintenanceInv

\* Steps that leave the runs alone.
LEMMA RunsStand ==
    ASSUME MaintenanceInv, TableShrinks, UNCHANGED runs, day' \in Nat,
           retention' \in [1 .. Len(Handlers) -> Retentions]
    PROVE  MaintenanceInv'
<1>1. MaintenanceTypeOK'  BY DEF MaintenanceInv, MaintenanceTypeOK, TableShrinks
<1> QED BY <1>1, RunKept DEF MaintenanceInv

\* Steps of one run m, to the state new.
LEMMA RunSteps ==
    ASSUME MaintenanceInv, NEW m \in Runs, NEW new \in Run,
           TableShrinks, UNCHANGED <<day, retention>>,
           runs' = [runs EXCEPT ![m] = new], RunInv(m)'
    PROVE  MaintenanceInv'
<1>1. MaintenanceTypeOK'  BY DEF MaintenanceInv, MaintenanceTypeOK, TableShrinks
<1>2. ASSUME NEW q \in Runs PROVE RunInv(q)'
  <2>1. CASE q = m  BY <2>1
  <2>2. CASE q /= m
    <3>1. runs'[q] = runs[q] /\ RunInv(q)  BY <2>2 DEF MaintenanceInv, MaintenanceTypeOK
    <3> QED BY <3>1, RunKept
  <2> QED BY <2>1, <2>2
<1> QED BY <1>1, <1>2 DEF MaintenanceInv

LEMMA Planned ==
    ASSUME MaintenanceInv, NEW m \in Runs, Plan(m)
    PROVE  MaintenanceInv'
<1> DEFINE cutoffs == [h \in DOMAIN retention |-> day - retention[h]]
           due == UNION {EligibleFor(h, cutoffs[h]) : h \in DOMAIN retention}
           new == [NoRun EXCEPT !.pc = "next", !.cutoffs = cutoffs, !.due = due]
<1>0. MaintenanceTypeOK /\ DOMAIN retention = 1 .. Len(Handlers)
  BY DEF MaintenanceInv, MaintenanceTypeOK
<1>1. runs' = [runs EXCEPT ![m] = new] /\ UNCHANGED <<day, table, retention>>
  BY DEF Plan
<1>2. cutoffs \in [1 .. Len(Handlers) -> Int]
  <2>1. \A h \in 1 .. Len(Handlers) : retention[h] \in Int
    BY <1>0 DEF MaintenanceTypeOK
  <2>2. \A h \in 1 .. Len(Handlers) : day - retention[h] \in Int
    BY <1>0, <2>1 DEF MaintenanceTypeOK
  <2> QED BY <1>0, <2>2
<1>3. due \in SUBSET TableRows
  BY <1>0 DEF MaintenanceTypeOK, EligibleFor
<1>4. \A r \in due : \E h \in 1 .. Len(Handlers) : r \in EligibleFor(h, cutoffs[h])
  BY <1>0
<1> HIDE DEF cutoffs, due
<1>5. /\ new \in Run /\ new.pc = "next" /\ new.at = 1 /\ new.cutoffs = cutoffs
      /\ new.due = due
  BY <1>2, <1>3 DEF NoRun, Run, Busy
<1> HIDE DEF new
<1>6. runs'[m] = new  BY <1>0, <1>1 DEF MaintenanceTypeOK
<1>7. TableShrinks  BY <1>1 DEF TableShrinks
<1>8. RunInv(m)'
  BY <1>1, <1>4, <1>5, <1>6 DEF RunInv, EligibleFor
<1> QED BY <1>1, <1>5, <1>7, <1>8, RunSteps

\* Steps of a run over the same table after which it promises no more than before.
LEMMA RunMoves ==
    ASSUME MaintenanceInv, NEW m \in Runs, UNCHANGED table,
           AbortRun(m) \/ NextHandler(m) \/ HandlerStops(m) \/ HandlerFails(m) \/ Report(m)
    PROVE  MaintenanceInv'
<1>0. /\ MaintenanceTypeOK /\ runs[m] \in Run /\ RunInv(m) /\ runs \in [Runs -> Run]
      /\ UNCHANGED <<day, retention>> /\ TableShrinks
  BY DEF MaintenanceInv, MaintenanceTypeOK, TableShrinks, AbortRun, NextHandler, HandlerStops,
         HandlerFails, Report
<1>1. CASE AbortRun(m)
  <2> DEFINE new == [runs[m] EXCEPT !.aborted = TRUE]
  <2>1. /\ new \in Run /\ new.pc = runs[m].pc /\ new.aborted /\ new.pc \in Busy
    BY <1>0, <1>1 DEF Run, AbortRun, Busy
  <2>2. runs' = [runs EXCEPT ![m] = new]  BY <1>1 DEF AbortRun
  <2> HIDE DEF new
  <2>3. runs'[m] = new  BY <1>0, <2>2
  <2>4. RunInv(m)'  BY <2>1, <2>3 DEF RunInv, Busy
  <2> QED BY <1>0, <2>1, <2>2, <2>4, RunSteps
<1>2. CASE NextHandler(m)
  <2> DEFINE to == IF runs[m].at > Len(Handlers) \/ runs[m].aborted THEN "report" ELSE "prune"
             new == [runs[m] EXCEPT !.pc = to]
  <2>0. to \in {"report", "prune"}  OBVIOUS
  <2>5. to = "report" => runs[m].at > Len(Handlers) \/ runs[m].aborted  OBVIOUS
  <2>2. runs' = [runs EXCEPT ![m] = new] /\ runs[m].pc = "next"  BY <1>2 DEF NextHandler
  <2> HIDE DEF to
  <2>1. /\ new \in Run /\ new.pc = to /\ new.at = runs[m].at /\ new.aborted = runs[m].aborted
        /\ new.failed = runs[m].failed /\ new.due = runs[m].due
        /\ new.cutoffs = runs[m].cutoffs
    BY <1>0, <2>0 DEF Run, Busy
  <2> HIDE DEF new
  <2>3. runs'[m] = new  BY <1>0, <2>2
  <2>4. RunInv(m)'
    BY <1>0, <2>0, <2>1, <2>2, <2>3, <2>5 DEF RunInv, Busy, EligibleFor
  <2> QED BY <1>0, <2>1, <2>2, <2>4, RunSteps
<1>3. CASE HandlerStops(m)
  <2> DEFINE new == [runs[m] EXCEPT !.pc = "next", !.at = runs[m].at + 1]
  <2>1. /\ new \in Run /\ new.pc = "next" /\ new.aborted
    BY <1>0, <1>3 DEF Run, HandlerStops, Busy
  <2>2. runs' = [runs EXCEPT ![m] = new]  BY <1>0, <1>3 DEF HandlerStops
  <2> HIDE DEF new
  <2>3. runs'[m] = new  BY <1>0, <2>2
  <2>4. RunInv(m)'  BY <2>1, <2>3 DEF RunInv, Busy
  <2> QED BY <1>0, <2>1, <2>2, <2>4, RunSteps
<1>4. CASE HandlerFails(m)
  <2> DEFINE after == runs[m].at + 1
             new == [runs[m] EXCEPT !.pc = "next", !.at = after, !.failed = TRUE]
  <2>0. after \in Nat  BY <1>0 DEF Run
  <2>2. runs' = [runs EXCEPT ![m] = new]  BY <1>0, <1>4 DEF HandlerFails
  <2> HIDE DEF after
  <2>1. /\ new \in Run /\ new.pc = "next" /\ new.failed
    BY <1>0, <2>0 DEF Run, Busy
  <2> HIDE DEF new
  <2>3. runs'[m] = new  BY <1>0, <2>2
  <2>4. RunInv(m)'  BY <2>1, <2>3 DEF RunInv, Busy
  <2> QED BY <1>0, <2>1, <2>2, <2>4, RunSteps
<1>5. CASE Report(m)
  <2> DEFINE bad == runs[m].aborted \/ runs[m].failed
             new == [NoRun EXCEPT !.pc = IF bad THEN "failed" ELSE "succeeded",
                                  !.due = IF bad THEN {} ELSE runs[m].due]
  <2>0. runs[m].due \in SUBSET TableRows /\ runs[m].at \in Nat  BY <1>0 DEF Run
  <2>1. /\ new \in Run /\ new.pc \in {"failed", "succeeded"}
        /\ new.pc = "succeeded" => ~bad /\ new.due = runs[m].due
    BY <2>0 DEF NoRun, Run, Busy
  <2>2. runs' = [runs EXCEPT ![m] = new] /\ runs[m].pc = "report"  BY <1>5 DEF Report
  <2> HIDE DEF new
  <2>3. runs'[m] = new  BY <1>0, <2>2
  <2>4. ~bad => runs[m].due \cap DOMAIN table = {}
    <3> SUFFICES ASSUME ~bad, NEW r \in runs[m].due \cap DOMAIN table PROVE FALSE  OBVIOUS
    <3>1. runs[m].at > Len(Handlers)  BY <1>0, <2>2 DEF RunInv
    <3>2. \E h \in runs[m].at .. Len(Handlers) : TRUE
      BY <1>0, <2>2 DEF RunInv, Busy
    <3> QED BY <2>0, <3>1, <3>2
  <2>5. RunInv(m)'  BY <2>1, <2>3, <2>4 DEF RunInv, Busy
  <2> QED BY <1>0, <2>1, <2>2, <2>5, RunSteps
<1> QED BY <1>1, <1>2, <1>3, <1>4, <1>5

\* A batch that is not full took every row that was eligible.
LEMMA BatchPruned ==
    ASSUME MaintenanceInv, NEW m \in Runs, PruneBatch(m)
    PROVE  MaintenanceInv'
<1> DEFINE run == runs[m]
           eligible == EligibleFor(run.at, run.cutoffs[run.at])
           limit == IF Cardinality(eligible) < BatchSize THEN Cardinality(eligible) ELSE BatchSize
           new == IF LastBatch(limit) THEN [run EXCEPT !.pc = "next", !.at = run.at + 1] ELSE run
<1>0. /\ MaintenanceTypeOK /\ run \in Run /\ RunInv(m) /\ runs \in [Runs -> Run]
  BY DEF MaintenanceInv, MaintenanceTypeOK
<1>1. /\ run.pc = "prune" /\ ~run.aborted /\ runs' = [runs EXCEPT ![m] = new]
      /\ UNCHANGED <<day, retention>>
  BY <1>0 DEF PruneBatch
<1>2. PICK batch \in kSubset(limit, eligible) :
        table' = [r \in DOMAIN table \ batch |-> table[r]]
  BY DEF PruneBatch
<1>3. batch \in SUBSET eligible /\ Cardinality(batch) = limit  BY <1>2 DEF kSubset
<1>4. DOMAIN table' = DOMAIN table \ batch /\ TableShrinks
  BY <1>2 DEF TableShrinks
<1>5. LastBatch(limit) => batch = eligible
  <2>1. eligible \in SUBSET TableRows
    BY <1>0 DEF MaintenanceTypeOK, EligibleFor
  <2>2. IsFiniteSet(eligible)  BY <2>1, FS_Subset
  <2>3. Cardinality(eligible) = Cardinality(batch) => batch = eligible
    BY <1>3, <2>2, FS_Subset
  <2>4. Cardinality(eligible) \in Nat  BY <2>2, FS_CardinalityType
  <2> HIDE DEF eligible
  <2> QED BY <1>3, <2>3, <2>4 DEF LastBatch
<1>6. CASE LastBatch(limit)
  <2>1. new = [run EXCEPT !.pc = "next", !.at = run.at + 1]  BY <1>6
  <2>2. /\ new \in Run /\ new.pc = "next" /\ new.at = run.at + 1
        /\ new.cutoffs = run.cutoffs /\ new.due = run.due /\ new.aborted = run.aborted
        /\ new.failed = run.failed /\ run.at \in Nat
    <3>1. run.at \in Nat /\ run.at + 1 \in Nat  BY <1>0 DEF Run
    <3> QED BY <1>0, <2>1, <3>1 DEF Run, Busy
  <2>3. runs'[m] = new  BY <1>0, <1>1
  <2>4. batch = EligibleFor(run.at, run.cutoffs[run.at])  BY <1>5, <1>6
  <2> HIDE DEF new, limit, eligible
  <2>5. ASSUME ~run.failed, NEW r \in run.due \cap DOMAIN table'
        PROVE  \E h \in run.at + 1 .. Len(Handlers) : r \in EligibleFor(h, runs[m].cutoffs[h])'
    <3>1. r \in DOMAIN table /\ r \notin batch  BY <1>4, <2>5
    <3>2. PICK h \in run.at .. Len(Handlers) : r \in EligibleFor(h, run.cutoffs[h])
      BY <1>0, <1>1, <2>5, <3>1 DEF RunInv, Busy
    <3>3. h /= run.at  BY <2>4, <3>1, <3>2
    <3>4. h \in run.at + 1 .. Len(Handlers)  BY <2>2, <3>3
    <3>5. r \in {q \in DOMAIN table' : TableOf[q] = Handlers[h] /\ table'[q] /= Unfinished
                                         /\ table'[q] <= run.cutoffs[h]}
      BY <1>4, <2>5, <3>2, EligibleStays
    <3>6. run.cutoffs[h] = runs'[m].cutoffs[h]  BY <2>2, <2>3
    <3>7. r \in EligibleFor(h, runs[m].cutoffs[h])'  BY <3>5, <3>6 DEF EligibleFor
    <3> QED BY <3>4, <3>7
  <2>6. RunInv(m)'  BY <1>1, <2>2, <2>3, <2>5 DEF RunInv, Busy
  <2> QED BY <1>1, <1>4, <2>2, <2>6, RunSteps
<1>7. CASE ~LastBatch(limit)
  <2>1. new = run  BY <1>7
  <2> HIDE DEF new, limit, eligible
  <2>2. runs'[m] = runs[m]  BY <1>0, <1>1, <2>1
  <2>3. RunInv(m)'  BY <1>0, <1>4, <2>2, RunKept
  <2> QED BY <1>0, <1>1, <1>4, <2>1, <2>3, RunSteps
<1> QED BY <1>6, <1>7

LEMMA MaintenanceStep == MaintenanceInv /\ [MaintenanceNext]_maintenanceVars => MaintenanceInv'
<1> SUFFICES ASSUME MaintenanceInv, [MaintenanceNext]_maintenanceVars PROVE MaintenanceInv'
  OBVIOUS
<1>0. MaintenanceTypeOK  BY DEF MaintenanceInv
<1>1. CASE UNCHANGED maintenanceVars
  <2>1. TableShrinks  BY <1>1 DEF maintenanceVars, TableShrinks
  <2> QED BY <1>0, <1>1, <2>1, RunsStand DEF maintenanceVars, MaintenanceTypeOK
<1>2. CASE DayPasses
  <2>1. TableShrinks  BY <1>2 DEF DayPasses, TableShrinks
  <2> QED BY <1>0, <1>2, <2>1, RunsStand DEF DayPasses, MaintenanceTypeOK
<1>3. ASSUME NEW r \in TableRows, NEW date \in 0 .. day, Finish(r, date) PROVE MaintenanceInv'
  <2>1. TableShrinks  BY <1>3 DEF Finish, TableShrinks
  <2> QED BY <1>0, <1>3, <2>1, RunsStand DEF Finish, MaintenanceTypeOK
<1>4. ASSUME NEW h \in 1 .. Len(Handlers), NEW days \in Retentions, SetRetentionOverride(h, days)
      PROVE  MaintenanceInv'
  <2>1. TableShrinks  BY <1>4 DEF SetRetentionOverride, TableShrinks
  <2> QED BY <1>0, <1>4, <2>1, RunsStand DEF SetRetentionOverride, MaintenanceTypeOK
<1>5. ASSUME NEW m \in Runs,
             \/ Plan(m) \/ AbortRun(m) \/ NextHandler(m) \/ PruneBatch(m)
             \/ HandlerStops(m) \/ HandlerFails(m) \/ Report(m)
      PROVE  MaintenanceInv'
  <2>1. CASE AbortRun(m) \/ NextHandler(m) \/ HandlerStops(m) \/ HandlerFails(m) \/ Report(m)
    <3>1. UNCHANGED table
      BY <2>1 DEF AbortRun, NextHandler, HandlerStops, HandlerFails, Report
    <3> QED BY <2>1, <3>1, RunMoves
  <2> QED BY <1>5, <2>1, Planned, BatchPruned
<1> QED BY <1>1, <1>2, <1>3, <1>4, <1>5 DEF MaintenanceNext

\* However runs overlap, fail and are aborted while rows are finished and retention
\* is changed, one that reports success left no row that was prunable when it was
\* planned (MaintenanceOrchestrator.pruneAll).
THEOREM SuccessAlwaysPruned == MaintenanceSpec => []SuccessMeansPruned
<1>1. MaintenanceInit => MaintenanceInv  BY MaintenanceInitially
<1>2. MaintenanceInv /\ [MaintenanceNext]_maintenanceVars => MaintenanceInv'
  BY MaintenanceStep
<1>3. MaintenanceInv => SuccessMeansPruned
  BY DEF MaintenanceInv, RunInv, SuccessMeansPruned
<1> QED BY <1>1, <1>2, <1>3, PTL DEF MaintenanceSpec

-----------------------------------------------------------------------------
(***************************************************************************)
(* Endpoint: one listener at most.  The flag isInitializing is a lock: the *)
(* inductive invariant says that one call at most is inside init, that the *)
(* flag is set while one is, and what the call inside knows of unlistenFn. *)
(***************************************************************************)

Ops == {"none", "init", "dispose", "connect", "disconnect"}
InsidePcs == {"start", "started", "listen", "listening"}
EndpointPcs ==
    InsidePcs \cup {"idle", "init", "wait", "dispose", "connect", "connected", "disconnect",
                    "stop", "done"}

CallsOK == calls \in [Callers -> [op : Ops, peer : Peers \cup {Undefined}, pc : EndpointPcs]]

Inside(c) == calls[c].pc \in InsidePcs

OneInside == \A c, d \in Callers : Inside(c) /\ Inside(d) => c = d
FlagIsSet == \A c \in Callers : Inside(c) => isInitializing
StillUnset == \A c \in Callers : calls[c].pc = "listen" => unlistenFn = Undefined
Unrecorded ==
    \A c \in Callers : calls[c].pc = "listening" => listeners = {c} /\ unlistenFn = Undefined
KeptToRemove ==
    (\A c \in Callers : calls[c].pc /= "listening") => listeners = {unlistenFn} \ {Undefined}

EndpointInv == CallsOK /\ OneInside /\ FlagIsSet /\ StillUnset /\ Unrecorded /\ KeptToRemove

LEMMA Going ==
    ASSUME CallsOK, NEW c \in Callers, NEW pc \in EndpointPcs, GoTo(c, pc)
    PROVE  /\ CallsOK' /\ calls'[c].pc = pc
           /\ \A d \in Callers \ {c} : calls'[d] = calls[d]
BY DEF CallsOK, GoTo

LEMMA OpenedIsOutside ==
    ASSUME NEW c \in Callers
    PROVE  Opened(c) \in EndpointPcs \ InsidePcs
BY DEF Opened, EndpointPcs, InsidePcs

\* A call that stays outside init, or leaves another's step alone.
LEMMA OutsideMove ==
    ASSUME EndpointInv, NEW c \in Callers, NEW pc \in EndpointPcs \ InsidePcs, GoTo(c, pc),
           ~Inside(c), UNCHANGED <<unlistenFn, isInitializing, listeners>>
    PROVE  EndpointInv'
<1>1. /\ CallsOK' /\ calls'[c].pc = pc
      /\ \A d \in Callers \ {c} : calls'[d] = calls[d]
  BY Going DEF EndpointInv
<1>2. calls[c].pc /= "listening" /\ calls[c].pc /= "listen"  BY DEF Inside, InsidePcs
<1>3. pc /= "listening" /\ pc /= "listen"  BY DEF InsidePcs
<1>4. \A d \in Callers : Inside(d)' => Inside(d) /\ d /= c  BY <1>1 DEF Inside
<1>5. OneInside' /\ FlagIsSet'  BY <1>4 DEF EndpointInv, OneInside, FlagIsSet
<1>6. \A d \in Callers : \A q \in {"listen", "listening"} : calls'[d].pc = q <=> calls[d].pc = q
  BY <1>1, <1>2, <1>3
<1>7. StillUnset' /\ Unrecorded'  BY <1>6 DEF EndpointInv, StillUnset, Unrecorded
<1>8. KeptToRemove'  BY <1>6 DEF EndpointInv, KeptToRemove
<1> QED BY <1>1, <1>5, <1>7, <1>8 DEF EndpointInv

LEMMA EndpointStep ==
    ASSUME EndpointInv, [EndpointNext]_endpointVars
    PROVE  EndpointInv'
<1> USE DEF TransportState
<1>1. ASSUME NEW c \in Callers, NEW op \in Ops \ {"none"}, NEW p \in Peers \cup {Undefined},
             Arrive(c, op, p)
      PROVE  EndpointInv'
  <2> DEFINE pc == IF op = "connect" THEN "init" ELSE op
  <2>1. pc \in EndpointPcs \ InsidePcs  BY DEF Ops, EndpointPcs, InsidePcs
  <2>2. calls' = [calls EXCEPT ![c] = [op |-> op, peer |-> p, pc |-> pc]]
    BY <1>1 DEF Arrive
  <2>3. ~Inside(c) /\ calls[c].pc = "idle"  BY <1>1 DEF Arrive, Inside, Uncalled, InsidePcs
  <2> HIDE DEF pc
  <2>4. CallsOK' /\ calls'[c].pc = pc /\ \A d \in Callers \ {c} : calls'[d] = calls[d]
    BY <2>1, <2>2 DEF EndpointInv, CallsOK
  <2>5. UNCHANGED <<unlistenFn, isInitializing, listeners>>  BY <1>1 DEF Arrive
  <2>6. pc /= "listening" /\ pc /= "listen"  BY <2>1 DEF InsidePcs
  <2>7. \A d \in Callers : Inside(d)' => Inside(d) /\ d /= c  BY <2>1, <2>4 DEF Inside
  <2>8. OneInside' /\ FlagIsSet'  BY <2>5, <2>7 DEF EndpointInv, OneInside, FlagIsSet
  <2>9. \A d \in Callers : \A q \in {"listen", "listening"} : calls'[d].pc = q <=> calls[d].pc = q
    BY <2>3, <2>4, <2>6
  <2>10. StillUnset' /\ Unrecorded'  BY <2>5, <2>9 DEF EndpointInv, StillUnset, Unrecorded
  <2>11. KeptToRemove'  BY <2>5, <2>9 DEF EndpointInv, KeptToRemove
  <2> QED BY <2>4, <2>8, <2>10, <2>11 DEF EndpointInv
<1>2. ASSUME NEW c \in Callers, WaitForInit(c) PROVE EndpointInv'
  <2>1. ~Inside(c) /\ GoTo(c, "wait") /\ UNCHANGED <<unlistenFn, isInitializing, listeners>>
    BY <1>2 DEF WaitForInit, InStep, Inside, InsidePcs
  <2>2. "wait" \in EndpointPcs \ InsidePcs  BY DEF EndpointPcs, InsidePcs
  <2> QED BY <2>1, <2>2, OutsideMove
<1>3. ASSUME NEW c \in Callers, AlreadyOpen(c) PROVE EndpointInv'
  <2>1. ~Inside(c) /\ GoTo(c, Opened(c)) /\ UNCHANGED <<unlistenFn, isInitializing, listeners>>
    BY <1>3 DEF AlreadyOpen, MayEnter, InStep, Inside, InsidePcs
  <2> QED BY <2>1, OpenedIsOutside, OutsideMove
<1>4. ASSUME NEW c \in Callers, EnterInit(c) PROVE EndpointInv'
  <2> DEFINE pc == IF endpointInfo THEN "listen" ELSE "start"
  <2>1. pc \in EndpointPcs /\ pc \in InsidePcs /\ pc /= "listening"  BY DEF EndpointPcs, InsidePcs
  <2>2. GoTo(c, pc) /\ ~isInitializing /\ isInitializing' = TRUE
        /\ UNCHANGED <<unlistenFn, listeners>>
    BY <1>4 DEF EnterInit, MayEnter
  <2>3. pc = "listen" => unlistenFn = Undefined  BY <1>4 DEF EnterInit, Ready
  <2> HIDE DEF pc
  <2>4. CallsOK' /\ calls'[c].pc = pc /\ \A d \in Callers \ {c} : calls'[d] = calls[d]
    BY <2>1, <2>2, Going DEF EndpointInv
  <2>5. \A d \in Callers : ~Inside(d)  BY <2>2 DEF EndpointInv, FlagIsSet
  <2>6. \A d \in Callers : Inside(d)' => d = c  BY <2>4, <2>5 DEF Inside
  <2>7. OneInside' /\ FlagIsSet'  BY <2>2, <2>6 DEF OneInside, FlagIsSet
  <2>8. \A d \in Callers : calls[d].pc /= "listening" /\ calls[d].pc /= "listen"
    BY <2>5 DEF Inside, InsidePcs
  <2>9. \A d \in Callers : calls'[d].pc /= "listening" /\ (calls'[d].pc = "listen" => d = c)
    BY <2>1, <2>4, <2>8
  <2>10. StillUnset'  BY <2>2, <2>3, <2>4, <2>9 DEF StillUnset
  <2>11. Unrecorded'  BY <2>9 DEF Unrecorded
  <2>12. KeptToRemove'  BY <2>2, <2>8, <2>9 DEF EndpointInv, KeptToRemove
  <2> QED BY <2>4, <2>7, <2>10, <2>11, <2>12 DEF EndpointInv
<1>5. ASSUME NEW c \in Callers, NEW pc \in {"started", "listen"}, GoTo(c, pc),
             Inside(c), calls[c].pc /= "listening",
             pc = "listen" => unlistenFn = Undefined,
             UNCHANGED <<unlistenFn, isInitializing, listeners>>
      PROVE  EndpointInv'
  <2>1. pc \in EndpointPcs /\ pc \in InsidePcs /\ pc /= "listening"  BY DEF EndpointPcs, InsidePcs
  <2>2. CallsOK' /\ calls'[c].pc = pc /\ \A d \in Callers \ {c} : calls'[d] = calls[d]
    BY <1>5, <2>1, Going DEF EndpointInv
  <2>3. \A d \in Callers : Inside(d)' <=> Inside(d)  BY <1>5, <2>1, <2>2 DEF Inside
  <2>4. OneInside' /\ FlagIsSet'  BY <1>5, <2>3 DEF EndpointInv, OneInside, FlagIsSet
  <2>5. \A d \in Callers : calls'[d].pc = "listening" <=> calls[d].pc = "listening"
    BY <1>5, <2>1, <2>2
  <2>6. StillUnset'  BY <1>5, <2>2 DEF EndpointInv, StillUnset
  <2>7. Unrecorded' /\ KeptToRemove'  BY <1>5, <2>5 DEF EndpointInv, Unrecorded, KeptToRemove
  <2> QED BY <2>2, <2>4, <2>6, <2>7 DEF EndpointInv
<1>6. ASSUME NEW c \in Callers, StartEndpoint(c) PROVE EndpointInv'
  <2>1. GoTo(c, "started") /\ Inside(c) /\ calls[c].pc /= "listening"
        /\ UNCHANGED <<unlistenFn, isInitializing, listeners>>
    BY <1>6 DEF StartEndpoint, InStep, Inside, InsidePcs
  <2> QED BY <2>1, <1>5
<1>7. ASSUME NEW c \in Callers, NEW pc \in EndpointPcs \ InsidePcs, Leave(c, pc), Inside(c),
             UNCHANGED listeners, listeners = {unlistenFn'} \ {Undefined}
      PROVE  EndpointInv'
  <2>1. CallsOK' /\ calls'[c].pc = pc /\ \A d \in Callers \ {c} : calls'[d] = calls[d]
    BY <1>7, Going DEF EndpointInv, Leave
  <2>2. \A d \in Callers : ~Inside(d)'
    BY <1>7, <2>1 DEF EndpointInv, OneInside, Inside
  <2>3. OneInside' /\ FlagIsSet'  BY <2>2 DEF OneInside, FlagIsSet
  <2>4. \A d \in Callers : calls'[d].pc /= "listen" /\ calls'[d].pc /= "listening"
    BY <2>2 DEF Inside, InsidePcs
  <2>5. StillUnset' /\ Unrecorded' /\ KeptToRemove'
    BY <1>7, <2>4 DEF StillUnset, Unrecorded, KeptToRemove
  <2> QED BY <2>1, <2>3, <2>5 DEF EndpointInv
<1>8. ASSUME NEW c \in Callers, Inside(c), calls[c].pc /= "listening"
      PROVE  listeners = {unlistenFn} \ {Undefined}
  <2>1. \A d \in Callers : calls[d].pc = "listening" => d = c
    BY <1>8 DEF EndpointInv, OneInside, Inside, InsidePcs
  <2>2. \A d \in Callers : calls[d].pc /= "listening"  BY <1>8, <2>1
  <2> QED BY <2>2 DEF EndpointInv, KeptToRemove
<1>9. ASSUME NEW c \in Callers, Started(c) PROVE EndpointInv'
  <2>1. Inside(c) /\ calls[c].pc /= "listening"
    BY <1>9 DEF Started, InStep, Inside, InsidePcs
  <2>2. CASE unlistenFn = Undefined
    <3>1. GoTo(c, "listen") /\ UNCHANGED <<unlistenFn, isInitializing, listeners>>
      BY <1>9, <2>2 DEF Started
    <3> QED BY <2>1, <2>2, <3>1, <1>5
  <2>3. CASE unlistenFn /= Undefined
    <3>1. Leave(c, Opened(c)) /\ UNCHANGED <<unlistenFn, listeners>>
      BY <1>9, <2>3 DEF Started
    <3>2. listeners = {unlistenFn'} \ {Undefined}  BY <2>1, <3>1, <1>8
    <3> QED BY <2>1, <3>1, <3>2, <1>7, OpenedIsOutside
  <2> QED BY <2>2, <2>3
<1>10. ASSUME NEW c \in Callers, Listen(c) PROVE EndpointInv'
  <2>1. Inside(c) /\ calls[c].pc = "listen"  BY <1>10 DEF Listen, InStep, Inside, InsidePcs
  <2>2. unlistenFn = Undefined  BY <2>1 DEF EndpointInv, StillUnset
  <2>3. listeners = {}  BY <2>1, <2>2, <1>8
  <2>4. listeners' = {c} /\ GoTo(c, "listening") /\ UNCHANGED <<unlistenFn, isInitializing>>
    BY <1>10, <2>3 DEF Listen
  <2>5. "listening" \in EndpointPcs /\ "listening" \in InsidePcs  BY DEF EndpointPcs, InsidePcs
  <2>6. CallsOK' /\ calls'[c].pc = "listening"
        /\ \A d \in Callers \ {c} : calls'[d] = calls[d]
    BY <2>4, <2>5, Going DEF EndpointInv
  <2>7. \A d \in Callers : Inside(d)' <=> Inside(d)  BY <2>1, <2>5, <2>6 DEF Inside
  <2>8. OneInside' /\ FlagIsSet'  BY <2>4, <2>7 DEF EndpointInv, OneInside, FlagIsSet
  <2>9. \A d \in Callers : Inside(d)' => d = c
    BY <2>1, <2>7 DEF EndpointInv, OneInside
  <2>10. \A d \in Callers : calls'[d].pc = "listening" => d = c
    BY <2>9 DEF Inside, InsidePcs
  <2>11. StillUnset' /\ Unrecorded'  BY <2>2, <2>4, <2>10 DEF StillUnset, Unrecorded
  <2>12. KeptToRemove'  BY <2>6 DEF KeptToRemove
  <2> QED BY <2>6, <2>8, <2>11, <2>12 DEF EndpointInv
<1>11. ASSUME NEW c \in Callers, Listening(c) PROVE EndpointInv'
  <2>1. Inside(c) /\ calls[c].pc = "listening"
    BY <1>11 DEF Listening, InStep, Inside, InsidePcs
  <2>2. listeners = {c}  BY <2>1 DEF EndpointInv, Unrecorded
  <2>3. unlistenFn' = c /\ Leave(c, Opened(c)) /\ UNCHANGED listeners
    BY <1>11 DEF Listening
  <2>4. listeners = {unlistenFn'} \ {Undefined}  BY <2>2, <2>3, UndefinedAssumption
  <2> QED BY <2>1, <2>3, <2>4, <1>7, OpenedIsOutside
<1>12. ASSUME NEW c \in Callers, InitFails(c) PROVE EndpointInv'
  <2>1. Inside(c) /\ calls[c].pc /= "listening"
    BY <1>12 DEF InitFails, InStep, Inside, InsidePcs
  <2>2. Leave(c, "done") /\ UNCHANGED <<unlistenFn, listeners>>  BY <1>12 DEF InitFails
  <2>3. listeners = {unlistenFn'} \ {Undefined}  BY <2>1, <2>2, <1>8
  <2>4. "done" \in EndpointPcs \ InsidePcs
    BY DEF EndpointPcs, InsidePcs
  <2> QED BY <2>1, <2>2, <2>3, <2>4, <1>7
<1>13. ASSUME NEW c \in Callers,
              ConnectPeer(c) \/ Connected(c) \/ ConnectFails(c) \/ Disconnect(c) \/ StopEndpoint(c)
       PROVE  EndpointInv'
  <2>1. ~Inside(c)
    BY <1>13 DEF ConnectPeer, Connected, ConnectFails, Disconnect, StopEndpoint, InStep, Inside,
                 InsidePcs
  <2>2. GoTo(c, "connected") \/ GoTo(c, "done")
    BY <1>13 DEF ConnectPeer, Connected, ConnectFails, Disconnect, StopEndpoint
  <2>3. UNCHANGED <<unlistenFn, isInitializing, listeners>>
    BY <1>13 DEF ConnectPeer, Connected, ConnectFails, Disconnect, StopEndpoint
  <2>4. "connected" \in EndpointPcs \ InsidePcs /\ "done" \in EndpointPcs \ InsidePcs
    BY DEF EndpointPcs, InsidePcs
  <2> QED BY <2>1, <2>2, <2>3, <2>4, OutsideMove
<1>14. ASSUME NEW c \in Callers, Dispose(c) PROVE EndpointInv'
  <2> DEFINE pc == IF endpointInfo THEN "stop" ELSE "done"
  <2>1. pc \in EndpointPcs \ InsidePcs /\ pc \in EndpointPcs  BY DEF EndpointPcs, InsidePcs
  <2>2. /\ ~isInitializing /\ GoTo(c, pc) /\ UNCHANGED isInitializing
        /\ listeners' = listeners \ {unlistenFn} /\ unlistenFn' = Undefined
    BY <1>14 DEF Dispose
  <2> HIDE DEF pc
  <2>3. \A d \in Callers : ~Inside(d)  BY <2>2 DEF EndpointInv, FlagIsSet
  <2>4. CallsOK' /\ calls'[c].pc = pc /\ \A d \in Callers \ {c} : calls'[d] = calls[d]
    BY <2>1, <2>2, Going DEF EndpointInv
  <2>5. \A d \in Callers : ~Inside(d)'  BY <2>1, <2>3, <2>4 DEF Inside
  <2>6. OneInside' /\ FlagIsSet'  BY <2>5 DEF OneInside, FlagIsSet
  <2>7. \A d \in Callers : calls[d].pc /= "listening"  BY <2>3 DEF Inside, InsidePcs
  <2>8. listeners = {unlistenFn} \ {Undefined}  BY <2>7 DEF EndpointInv, KeptToRemove
  <2>9. listeners' = {unlistenFn'} \ {Undefined}  BY <2>2, <2>8
  <2>10. \A d \in Callers : calls'[d].pc /= "listen" /\ calls'[d].pc /= "listening"
    BY <2>5 DEF Inside, InsidePcs
  <2>11. StillUnset' /\ Unrecorded' /\ KeptToRemove'
    BY <2>9, <2>10 DEF StillUnset, Unrecorded, KeptToRemove
  <2> QED BY <2>4, <2>6, <2>11 DEF EndpointInv
<1>15. CASE UNCHANGED endpointVars
  BY <1>15 DEF endpointVars, EndpointInv, CallsOK, OneInside, FlagIsSet, StillUnset, Unrecorded,
               KeptToRemove, Inside
<1>16. ASSUME NEW c \in Callers,
              \/ \E op \in {"init", "dispose"} : Arrive(c, op, Undefined)
              \/ \E op \in {"connect", "disconnect"}, p \in Peers : Arrive(c, op, p)
       PROVE  EndpointInv'
  BY <1>1, <1>16 DEF Ops
<1> QED BY <1>2, <1>3, <1>4, <1>6, <1>9, <1>10, <1>11, <1>12, <1>13, <1>14, <1>15, <1>16
        DEF EndpointNext

\* For any number of overlapping calls to init, connect, disconnect and dispose,
\* whichever fail: init registers one listener at most, and between attempts it
\* is the one that dispose would remove.
THEOREM OneListenerAlways == EndpointSpec => []OneListener
<1>1. EndpointInit => EndpointInv
  BY DEF EndpointInit, EndpointInv, CallsOK, OneInside, FlagIsSet, StillUnset, Unrecorded,
         KeptToRemove, Inside, InsidePcs, Uncalled, Ops, EndpointPcs
<1>2. EndpointInv /\ [EndpointNext]_endpointVars => EndpointInv'  BY EndpointStep
<1>3. EndpointInv => OneListener
  <2> SUFFICES ASSUME EndpointInv PROVE OneListener  OBVIOUS
  <2>1. listeners = {} \/ \E x : listeners = {x}
    BY DEF EndpointInv, Unrecorded, KeptToRemove
  <2>2. Cardinality(listeners) \in {0, 1}
    BY <2>1, FS_EmptySet, FS_Singleton
  <2>3. ASSUME ~isInitializing PROVE listeners = {unlistenFn} \ {Undefined}
    <3>1. \A c \in Callers : calls[c].pc /= "listening"
      BY <2>3 DEF EndpointInv, FlagIsSet, Inside, InsidePcs
    <3> QED BY <3>1 DEF EndpointInv, KeptToRemove
  <2> QED BY <2>2, <2>3 DEF OneListener
<1> QED BY <1>1, <1>2, <1>3, PTL DEF EndpointSpec

-----------------------------------------------------------------------------
(***************************************************************************)
(* Startup: the database is what its history says.  A version is written   *)
(* only when the ones before it are recorded: the owner's scripts are      *)
(* numbered without a gap, and whatever an earlier position holds was      *)
(* found or written on the way.                                            *)
(***************************************************************************)

\* The schema follows the history, record by record.
SchemaFollows ==
    /\ schema \in Seq(history)
    /\ Distinct(schema)
    /\ ToSet(schema) = history

\* One record for a version, and one for the version before it.
HistoryIsGapless ==
    /\ \A r \in history : r.version \in Nat
    /\ \A r, s \in history : r.owner = s.owner /\ r.version = s.version => r = s
    /\ \A r \in history : r.version > 1 =>
          \E s \in history : s.owner = r.owner /\ s.version = r.version - 1

StartType ==
    /\ DOMAIN features = Platforms /\ DOMAIN initPc = Platforms
    /\ DOMAIN frames = Platforms /\ DOMAIN ordered = Platforms /\ DOMAIN turn = Platforms
    /\ DOMAIN applied = Platforms
    /\ next \in [Platforms -> Nat \ {0}]

\* What a platform has read is still recorded, and so is what it has passed.
Passed(p) ==
    /\ applied[p] \subseteq history
    /\ initPc[p] /= "apply" => next[p] = 1
    /\ initPc[p] = "apply" =>
          /\ Sequential(Group(p).scripts)
          /\ \A i \in 1 .. next[p] - 1 :
                \E r \in history : r.owner = Group(p).owner /\ r.version = i

StartupInv ==
    /\ StartType /\ SchemaFollows /\ HistoryIsGapless
    /\ \A p \in Platforms : Passed(p)

LEMMA StartupInitially == StartInit => StartupInv
<1> SUFFICES ASSUME StartInit PROVE StartupInv  OBVIOUS
<1>1. history = {} /\ schema = <<>>  BY DEF StartInit
<1>2. StartType  BY DEF StartInit, StartType, NoneYet
<1>3. SchemaFollows
  <2>1. DOMAIN schema = {}  BY <1>1
  <2> QED  BY <1>1, <2>1 DEF SchemaFollows, Distinct, IsInjective, ToSet
<1>4. HistoryIsGapless  BY <1>1 DEF HistoryIsGapless
<1>5. \A p \in Platforms : Passed(p)  BY DEF StartInit, Passed
<1> QED  BY <1>2, <1>3, <1>4, <1>5 DEF StartupInv

\* A platform that does not move: nothing of it changes, whatever the history.
StandsStill(q) ==
    UNCHANGED <<features[q], initPc[q], frames[q], ordered[q], turn[q], applied[q], next[q]>>

LEMMA LeavesAlone ==
    ASSUME StartType, NEW p \in Platforms, NEW pc, Leaves(p, pc), NEW q \in Platforms
    PROVE  /\ DOMAIN initPc' = Platforms /\ DOMAIN applied' = Platforms
           /\ next' \in [Platforms -> Nat \ {0}]
           /\ initPc'[p] = pc /\ applied'[p] = {} /\ next'[p] = 1
           /\ q /= p => UNCHANGED <<initPc[q], applied[q], next[q]>>
BY DEF StartType, Leaves

LEMMA ForgetsAlone ==
    ASSUME StartType, NEW p \in Platforms, Forgets(p), NEW q \in Platforms
    PROVE  /\ DOMAIN frames' = Platforms /\ DOMAIN ordered' = Platforms /\ DOMAIN turn' = Platforms
           /\ frames'[p] = <<>> /\ ordered'[p] = <<>> /\ turn'[p] = 0
           /\ q /= p => UNCHANGED <<frames[q], ordered[q], turn[q]>>
BY DEF StartType, Forgets

\* Where init rejects, what it had worked out is forgotten.
LEMMA RejectsAlone ==
    ASSUME StartType, NEW p \in Platforms, Rejects(p)
    PROVE  /\ StartType'
           /\ initPc'[p] = "registering" /\ applied'[p] = {} /\ next'[p] = 1
           /\ frames'[p] = <<>> /\ ordered'[p] = <<>> /\ turn'[p] = 0
           /\ UNCHANGED features
           /\ \A q \in Platforms \ {p} : StandsStill(q)
<1>1. Leaves(p, "registering") /\ Forgets(p) /\ UNCHANGED features  BY DEF Rejects
<1>2. StartType'  BY <1>1, LeavesAlone, ForgetsAlone DEF StartType
<1>3. ASSUME NEW q \in Platforms \ {p} PROVE StandsStill(q)
  BY <1>1, LeavesAlone, ForgetsAlone DEF StandsStill
<1> QED  BY <1>1, <1>2, <1>3, LeavesAlone, ForgetsAlone

\* A step of one platform leaves the others where they are, and the history only
\* grows.
LEMMA OnePlatformMoves ==
    ASSUME StartType, NEW p \in Platforms, StartStep(p)
    PROVE  /\ StartType' /\ history \subseteq history'
           /\ \A q \in Platforms \ {p} : StandsStill(q)
<1> USE DEF StandsStill
<1>1. ASSUME NEW m \in Manifests, RegisterFeature(p, m)
      PROVE  StartType' /\ history \subseteq history' /\ \A q \in Platforms \ {p} : StandsStill(q)
  BY <1>1 DEF RegisterFeature, StartType, graphVars
<1>2. CASE BeginInit(p)  BY <1>2 DEF BeginInit, StartType, graphVars
<1>3. CASE VisitFeature(p)
  <2>1. PICK f : frames' = [frames EXCEPT ![p] = f]  BY <1>3 DEF VisitFeature
  <2>2. UNCHANGED <<features, initPc, ordered, turn, applied, next, history>>
    BY <1>3 DEF VisitFeature, Walks
  <2> QED  BY <2>1, <2>2 DEF StartType
<1>4. CASE FollowDependency(p)
  <2>1. PICK f : frames' = [frames EXCEPT ![p] = f]  BY <1>4 DEF FollowDependency
  <2>2. UNCHANGED <<features, initPc, ordered, turn, applied, next, history>>
    BY <1>4 DEF FollowDependency, Walks
  <2> QED  BY <2>1, <2>2 DEF StartType
<1>5. CASE RejectCycle(p)  BY <1>5, RejectsAlone DEF RejectCycle
<1>6. CASE LeaveFeature(p)
  <2>1. PICK f, o : frames' = [frames EXCEPT ![p] = f] /\ ordered' = [ordered EXCEPT ![p] = o]
    BY <1>6 DEF LeaveFeature
  <2>2. UNCHANGED <<features, initPc, turn, applied, next, history>>
    BY <1>6 DEF LeaveFeature, Walks
  <2> QED  BY <2>1, <2>2 DEF StartType
<1>7. CASE EndWalk(p)  BY <1>7 DEF EndWalk, Walks, StartType, graphVars
<1>8. CASE ReadApplied(p)
  <2>1. UNCHANGED history  BY <1>8 DEF ReadApplied
  <2>2. CASE Rejects(p)  BY <2>1, <2>2, RejectsAlone
  <2>3. CASE /\ initPc' = [initPc EXCEPT ![p] = "apply"]
             /\ applied' = [applied EXCEPT ![p] = history]
             /\ UNCHANGED <<features, graphVars, turn, next>>
    BY <2>1, <2>3 DEF StartType, graphVars
  <2> QED  BY <1>8, <2>2, <2>3 DEF ReadApplied
<1>9. ASSUME next' = [next EXCEPT ![p] = @ + 1],
             UNCHANGED <<features, initPc, graphVars, turn, applied>>
      PROVE  StartType' /\ \A q \in Platforms \ {p} : StandsStill(q)
  BY <1>9 DEF StartType, graphVars
<1>10. CASE Recognise(p)
  <2>1. UNCHANGED history  BY <1>10 DEF Recognise
  <2>2. CASE Rejects(p)  BY <2>1, <2>2, RejectsAlone
  <2> QED  BY <1>9, <1>10, <2>1, <2>2 DEF Recognise
<1>11. CASE ApplyMigration(p)
  <2>1. PICK record : history' = history \cup {record}  BY <1>11 DEF ApplyMigration
  <2>2. /\ next' = [next EXCEPT ![p] = @ + 1]
        /\ UNCHANGED <<features, initPc, graphVars, turn, applied>>
    BY <1>11 DEF ApplyMigration
  <2> QED  BY <1>9, <2>1, <2>2
<1>12. CASE MigrationFails(p)  BY <1>12, RejectsAlone DEF MigrationFails
<1>13. CASE NextOwner(p)
  <2>1. PICK pc, k : /\ Leaves(p, pc)
                     /\ turn' = turn \/ turn' = [turn EXCEPT ![p] = k]
    BY <1>13 DEF NextOwner
  <2>2. UNCHANGED <<features, graphVars, history>>  BY <1>13 DEF NextOwner
  <2>3. DOMAIN turn' = Platforms /\ \A q \in Platforms \ {p} : turn'[q] = turn[q]
    BY <2>1 DEF StartType
  <2> QED  BY <2>1, <2>2, <2>3, LeavesAlone DEF StartType, graphVars
<1>14. CASE EndProcess(p)
  <2>1. /\ features' = [features EXCEPT ![p] = <<>>] /\ Leaves(p, "registering") /\ Forgets(p)
        /\ UNCHANGED history
    BY <1>14 DEF EndProcess
  <2> QED  BY <2>1, LeavesAlone, ForgetsAlone DEF StartType
<1> QED
  BY <1>1, <1>2, <1>3, <1>4, <1>5, <1>6, <1>7, <1>8, <1>10, <1>11, <1>12, <1>13, <1>14
  DEF StartStep

\* What is run depends on the platform's own build and turn only.
LEMMA GroupStays ==
    ASSUME NEW p, UNCHANGED <<features[p], ordered[p], turn[p]>>
    PROVE  Group(p)' = Group(p)
BY DEF Group, OwnerAt, ScriptsAt

\* A platform that does not move keeps what it knows while the history grows.
LEMMA PassedStays ==
    ASSUME NEW p, Passed(p), history \subseteq history', StandsStill(p)
    PROVE  Passed(p)'
<1>1. Group(p)' = Group(p)  BY GroupStays DEF StandsStill
<1> QED  BY <1>1 DEF Passed, StandsStill

LEMMA SchemaStays ==
    ASSUME StartupInv, UNCHANGED <<history, schema>>
    PROVE  SchemaFollows' /\ HistoryIsGapless'
BY DEF StartupInv, SchemaFollows, HistoryIsGapless

\* Before an owner's run, and wherever init ends, nothing is taken for granted.
LEMMA PassesNothing ==
    ASSUME NEW p, applied'[p] \subseteq history', initPc'[p] /= "apply", next'[p] = 1
    PROVE  Passed(p)'
BY DEF Passed

\* A position is passed when its version is recorded.
LEMMA MovesOn ==
    ASSUME StartupInv, NEW p \in Platforms, Due(p), next' = [next EXCEPT ![p] = @ + 1],
           UNCHANGED <<features, initPc, graphVars, turn, applied>>, history \subseteq history',
           \E r \in history' : r.owner = Group(p).owner /\ r.version = next[p]
    PROVE  Passed(p)'
<1>1. next[p] \in Nat \ {0} /\ next'[p] = next[p] + 1  BY DEF StartupInv, StartType
<1>2. Passed(p) /\ initPc[p] = "apply"  BY DEF StartupInv, Due
<1>3. Group(p)' = Group(p)  BY GroupStays DEF graphVars
<1>4. ASSUME NEW i \in 1 .. next'[p] - 1
      PROVE  \E r \in history' : r.owner = Group(p).owner /\ r.version = i
  <2>1. i = next[p] \/ i \in 1 .. next[p] - 1  BY <1>1
  <2> QED  BY <1>2, <2>1 DEF Passed
<1> QED  BY <1>2, <1>3, <1>4 DEF Passed

\* A migration that is passed by was recorded when the history was read.
LEMMA RecognisedIsRecorded ==
    ASSUME NEW p, Passed(p), Due(p), Record(Group(p).owner, Script(p)) \in Recorded(p)
    PROVE  /\ Record(Group(p).owner, Script(p)) \in history
           /\ \E r \in history : r.owner = Group(p).owner /\ r.version = next[p]
<1>1. Script(p).version = next[p]  BY DEF Passed, Due, Sequential, Script
<1> QED  BY <1>1 DEF Passed, Recorded, Identified, Record

\* The record that is written is new, and the version before it is recorded.
LEMMA ApplyMigrationIsSafe ==
    ASSUME StartupInv, NEW p \in Platforms, ApplyMigration(p)
    PROVE  SchemaFollows' /\ HistoryIsGapless' /\ Passed(p)'
<1>1. PICK record : record = Record(Group(p).owner, Script(p))  OBVIOUS
<1>2. /\ Due(p) /\ history' = history \cup {record} /\ schema' = Append(schema, record)
      /\ next' = [next EXCEPT ![p] = @ + 1]
      /\ UNCHANGED <<features, initPc, graphVars, turn, applied>>
  BY <1>1 DEF ApplyMigration
<1>3. next[p] \in Nat \ {0} /\ next[p] \in DOMAIN Group(p).scripts /\ Passed(p)
      /\ initPc[p] = "apply"
  BY <1>2 DEF StartupInv, StartType, Due
<1>4. record.owner = Group(p).owner /\ record.version = next[p]
  <2>1. Script(p).version = next[p]  BY <1>3 DEF Passed, Sequential, Script
  <2> QED  BY <1>1, <2>1 DEF Record
<1>5. \A r \in history : ~(r.owner = record.owner /\ r.version = record.version)
  BY <1>1 DEF ApplyMigration, Identified
<1>6. SchemaFollows'
  <2>1. schema \in Seq(history) /\ schema' \in Seq(history')
    <3>1. schema \in Seq(history) /\ schema \in Seq(history')
      BY <1>2 DEF StartupInv, SchemaFollows
    <3> QED  BY <1>2, <3>1
  <2>2. /\ DOMAIN schema = 1 .. Len(schema) /\ Len(schema) \in Nat
        /\ DOMAIN schema' = 1 .. Len(schema) + 1
        /\ \A i \in 1 .. Len(schema) : schema'[i] = schema[i]
        /\ schema'[Len(schema) + 1] = record
    BY <1>2, <2>1
  <2>3. \A i \in 1 .. Len(schema) : schema[i] \in history  BY <2>1, <2>2
  <2>4. record \notin history  BY <1>5
  <2>5. Distinct(schema)'
    BY <2>2, <2>3, <2>4 DEF Distinct, IsInjective, StartupInv, SchemaFollows
  <2>6. ToSet(schema)' = history'
    <3>1. \A r : r \in ToSet(schema)' <=> \E i \in DOMAIN schema' : schema'[i] = r  BY DEF ToSet
    <3>2. \A r : r \in ToSet(schema) <=> \E i \in DOMAIN schema : schema[i] = r  BY DEF ToSet
    <3>3. \A r : r \in ToSet(schema)' <=> r \in ToSet(schema) \/ r = record
      BY <2>2, <3>1, <3>2
    <3>4. ToSet(schema) = history  BY DEF StartupInv, SchemaFollows
    <3> QED  BY <1>2, <3>3, <3>4
  <2> QED  BY <2>1, <2>5, <2>6 DEF SchemaFollows
<1>7. HistoryIsGapless'
  <2>1. HistoryIsGapless  BY DEF StartupInv
  <2>2. \A r \in history' : r.version \in Nat
    BY <1>2, <1>3, <1>4, <2>1 DEF HistoryIsGapless
  <2>3. \A r, s \in history' : r.owner = s.owner /\ r.version = s.version => r = s
    BY <1>2, <1>5, <2>1 DEF HistoryIsGapless
  <2>4. ASSUME NEW r \in history', r.version > 1
        PROVE  \E s \in history' : s.owner = r.owner /\ s.version = r.version - 1
    <3>1. CASE r \in history  BY <1>2, <2>1, <2>4, <3>1 DEF HistoryIsGapless
    <3>2. CASE r = record
      <4>1. next[p] - 1 \in 1 .. next[p] - 1  BY <1>3, <1>4, <2>4, <3>2
      <4>2. PICK s \in history : s.owner = Group(p).owner /\ s.version = next[p] - 1
        BY <1>3, <4>1 DEF Passed
      <4> QED  BY <1>2, <1>4, <3>2, <4>2
    <3> QED  BY <1>2, <3>1, <3>2
  <2> QED  BY <2>2, <2>3, <2>4 DEF HistoryIsGapless
<1>8. \E r \in history' : r.owner = Group(p).owner /\ r.version = next[p]
  BY <1>2, <1>4
<1> QED  BY <1>2, <1>6, <1>7, <1>8, MovesOn

LEMMA StartupStep == StartupInv /\ [StartNext]_startVars => StartupInv'
<1> SUFFICES ASSUME StartupInv, [StartNext]_startVars PROVE StartupInv'  OBVIOUS
<1>1. ASSUME UNCHANGED startVars PROVE StartupInv'
  <2>1. UNCHANGED <<history, schema>> /\ \A q \in Platforms : StandsStill(q)
    BY <1>1 DEF startVars, graphVars, StandsStill
  <2>2. StartType'  BY <1>1 DEF startVars, graphVars, StartupInv, StartType
  <2> QED  BY <2>1, <2>2, PassedStays, SchemaStays DEF StartupInv
<1>2. ASSUME NEW p \in Platforms, StartStep(p) PROVE StartupInv'
  <2>1. /\ StartType' /\ history \subseteq history'
        /\ \A q \in Platforms \ {p} : Passed(q)'
    BY <1>2, OnePlatformMoves, PassedStays DEF StartupInv
  <2>2. StartType /\ Passed(p)  BY DEF StartupInv
  <2>3. CASE Rejects(p) /\ UNCHANGED <<history, schema>>
    BY <2>1, <2>2, <2>3, RejectsAlone, PassesNothing, SchemaStays DEF StartupInv
  <2>4. CASE /\ initPc[p] /= "apply" /\ initPc'[p] /= "apply"
             /\ UNCHANGED <<applied, next, history, schema>>
    <3>1. Passed(p)'  BY <2>2, <2>4, PassesNothing DEF Passed
    <3> QED  BY <2>1, <2>4, <3>1, SchemaStays DEF StartupInv
  <2>5. ASSUME NEW m \in Manifests, RegisterFeature(p, m) PROVE StartupInv'
    BY <2>4, <2>5 DEF RegisterFeature
  <2>6. CASE BeginInit(p)  BY <2>2, <2>4, <2>6 DEF BeginInit, StartType
  <2>7. CASE VisitFeature(p) \/ FollowDependency(p) \/ LeaveFeature(p)
    BY <2>4, <2>7 DEF VisitFeature, FollowDependency, LeaveFeature, Walks
  <2>8. CASE EndWalk(p)  BY <2>2, <2>4, <2>8 DEF EndWalk, Walks, StartType
  <2>9. CASE RejectCycle(p)  BY <2>3, <2>9 DEF RejectCycle
  <2>10. CASE ReadApplied(p)
    <3>1. initPc[p] = "read" /\ UNCHANGED <<history, schema>>  BY <2>10 DEF ReadApplied
    <3>2. CASE /\ Sequential(Group(p).scripts) /\ initPc' = [initPc EXCEPT ![p] = "apply"]
               /\ applied' = [applied EXCEPT ![p] = history]
               /\ UNCHANGED <<features, graphVars, turn, next>>
      <4>1. Group(p)' = Group(p)  BY <3>2, GroupStays DEF graphVars
      <4>2. /\ applied'[p] = history /\ initPc'[p] = "apply" /\ next'[p] = 1
            /\ history' = history
        BY <2>2, <3>1, <3>2 DEF StartType, Passed
      <4>3. 1 .. next'[p] - 1 = {}  BY <4>2
      <4>4. Sequential(Group(p)'.scripts)  BY <3>2, <4>1
      <4>5. Passed(p)'  BY <4>2, <4>3, <4>4 DEF Passed
      <4> QED  BY <2>1, <3>1, <4>5, SchemaStays DEF StartupInv
    <3> QED  BY <2>3, <2>10, <3>1, <3>2 DEF ReadApplied
  <2>11. CASE Recognise(p)
    <3>1. Due(p) /\ UNCHANGED <<history, schema>>  BY <2>11 DEF Recognise
    <3>2. CASE /\ Record(Group(p).owner, Script(p)) \in Recorded(p)
               /\ next' = [next EXCEPT ![p] = @ + 1]
               /\ UNCHANGED <<features, initPc, graphVars, turn, applied>>
      <4>1. \E r \in history' : r.owner = Group(p).owner /\ r.version = next[p]
        BY <2>2, <3>1, <3>2, RecognisedIsRecorded
      <4>2. Passed(p)'  BY <3>1, <3>2, <4>1, MovesOn
      <4> QED  BY <2>1, <3>1, <4>2, SchemaStays DEF StartupInv
    <3> QED  BY <2>3, <2>11, <3>1, <3>2 DEF Recognise
  <2>12. CASE ApplyMigration(p)
    BY <2>1, <2>12, ApplyMigrationIsSafe DEF StartupInv
  <2>13. CASE MigrationFails(p)  BY <2>3, <2>13 DEF MigrationFails
  <2>14. ASSUME NEW pc, pc /= "apply", Leaves(p, pc), UNCHANGED <<history, schema>>
         PROVE  StartupInv'
    <3>1. initPc'[p] = pc /\ applied'[p] = {} /\ next'[p] = 1  BY <2>2, <2>14, LeavesAlone
    <3>2. Passed(p)'  BY <2>14, <3>1, PassesNothing
    <3> QED  BY <2>1, <2>14, <3>2, SchemaStays DEF StartupInv
  <2>15. CASE NextOwner(p)  BY <2>14, <2>15 DEF NextOwner
  <2>16. CASE EndProcess(p)  BY <2>14, <2>16 DEF EndProcess
  <2> QED
    BY <1>2, <2>5, <2>6, <2>7, <2>8, <2>9, <2>10, <2>11, <2>12, <2>13, <2>15, <2>16
    DEF StartStep
<1> QED  BY <1>1, <1>2 DEF StartNext

\* For any builds, any number of processes over one database, and wherever one
\* fails or crashes: each recorded migration took effect once, nothing else did,
\* and no owner misses an earlier version.
THEOREM SchemaIsAlwaysHistory == StartSpec => []SchemaIsHistory
<1>1. ASSUME StartupInv PROVE SchemaIsHistory
  <2>1. Distinct(schema) /\ ToSet(schema) = history  BY <1>1 DEF StartupInv, SchemaFollows
  <2>2. ASSUME NEW r \in history
        PROVE  /\ Cardinality(Identified(history, r.owner, r.version)) = 1
               /\ r.version > 1 => Identified(history, r.owner, r.version - 1) /= {}
    <3>1. Identified(history, r.owner, r.version) = {r}
      BY <1>1 DEF StartupInv, HistoryIsGapless, Identified
    <3>2. Cardinality({r}) = 1  BY FS_Singleton
    <3>3. r.version > 1 => Identified(history, r.owner, r.version - 1) /= {}
      BY <1>1 DEF StartupInv, HistoryIsGapless, Identified
    <3> QED  BY <3>1, <3>2, <3>3
  <2> QED  BY <2>1, <2>2 DEF SchemaIsHistory
<1> QED  BY <1>1, StartupInitially, StartupStep, PTL DEF StartSpec

-----------------------------------------------------------------------------
(***************************************************************************)
(* Startup: a build is migrated as it is declared and in the order its     *)
(* dependencies ask for.  The resolver's stack is a chain of dependencies  *)
(* and what is not on it or left to follow is in order; an owner's turn ends *)
(* when each of its migrations is recorded, and turns follow the order.    *)
(***************************************************************************)

\* What the resolver's stack, its order and a feature's lists are built with.
LEMMA ListFacts ==
    ASSUME NEW s, IsList(s)
    PROVE  /\ Len(s) \in Nat /\ DOMAIN s = 1 .. Len(s)
           /\ \A e : e \in ToSet(s) <=> \E i \in 1 .. Len(s) : s[i] = e
           /\ s = <<>> <=> Len(s) = 0
<1>1. s \in Seq(ToSet(s))  BY DEF IsList
<1>2. Len(s) \in Nat /\ DOMAIN s = 1 .. Len(s)  BY <1>1
<1>3. s = <<>> <=> Len(s) = 0  BY <1>1
<1> QED  BY <1>2, <1>3 DEF ToSet

LEMMA ListOf == ASSUME NEW S, NEW s \in Seq(S) PROVE IsList(s)
<1>1. Len(s) \in Nat /\ DOMAIN s = 1 .. Len(s) /\ s \in [1 .. Len(s) -> S]  OBVIOUS
<1>2. \A i \in 1 .. Len(s) : s[i] \in ToSet(s)  BY <1>1 DEF ToSet
<1>3. s \in [1 .. Len(s) -> ToSet(s)]  BY <1>1, <1>2
<1>4. s \in Seq(ToSet(s))  BY <1>1, <1>3
<1> QED  BY <1>4 DEF IsList

LEMMA AppendFacts ==
    ASSUME NEW s, IsList(s), NEW e
    PROVE  /\ IsList(Append(s, e)) /\ Len(Append(s, e)) = Len(s) + 1
           /\ \A i \in 1 .. Len(s) : Append(s, e)[i] = s[i]
           /\ Append(s, e)[Len(s) + 1] = e
           /\ ToSet(Append(s, e)) = ToSet(s) \cup {e}
<1> DEFINE t == Append(s, e)
<1>1. s \in Seq(ToSet(s)) /\ s \in Seq(ToSet(s) \cup {e})  BY ListFacts DEF IsList
<1>2. t \in Seq(ToSet(s) \cup {e})  BY <1>1
<1>3. IsList(t)  BY <1>2, ListOf
<1>4. /\ Len(s) \in Nat /\ Len(t) = Len(s) + 1 /\ t[Len(s) + 1] = e
      /\ \A i \in 1 .. Len(s) : t[i] = s[i]
  BY <1>1
<1> HIDE DEF t
<1>5. ASSUME NEW x PROVE x \in ToSet(t) <=> x \in ToSet(s) \cup {e}
  <2>1. x \in ToSet(t) <=> \E i \in 1 .. Len(t) : t[i] = x  BY <1>3, ListFacts
  <2>2. x \in ToSet(s) <=> \E i \in 1 .. Len(s) : s[i] = x  BY ListFacts
  <2> QED  BY <1>4, <2>1, <2>2
<1>6. ToSet(t) = ToSet(s) \cup {e}  BY <1>5
<1> QED  BY <1>3, <1>4, <1>6 DEF t

LEMMA FrontFacts ==
    ASSUME NEW s, IsList(s), s /= <<>>
    PROVE  /\ IsList(Front(s)) /\ Len(Front(s)) = Len(s) - 1 /\ Len(s) \in Nat \ {0}
           /\ \A i \in 1 .. Len(s) - 1 : Front(s)[i] = s[i]
           /\ Last(s) = s[Len(s)] /\ Last(s) \in ToSet(s)
<1>1. s \in Seq(ToSet(s)) /\ Len(s) \in Nat \ {0}  BY ListFacts DEF IsList
<1>2. Front(s) \in Seq(ToSet(s)) /\ Len(Front(s)) = Len(s) - 1
  <2>1. SubSeq(s, 1, Len(s) - 1) \in Seq(ToSet(s))  BY <1>1
  <2>2. Len(SubSeq(s, 1, Len(s) - 1)) = Len(s) - 1
    <3>1. PICK n \in Nat : n = Len(s) - 1  BY <1>1
    <3>2. Len(SubSeq(s, 1, n)) = IF 1 <= n THEN n - 1 + 1 ELSE 0  BY <1>1, <3>1
    <3> QED  BY <3>1, <3>2
  <2> QED  BY <2>1, <2>2 DEF Front
<1>3. IsList(Front(s))  BY <1>2, ListOf
<1>4. ASSUME NEW i \in 1 .. Len(s) - 1 PROVE Front(s)[i] = s[i]
  <2>1. SubSeq(s, 1, Len(s) - 1)[i] = s[i]  BY <1>1
  <2> QED  BY <2>1 DEF Front
<1>5. Last(s) = s[Len(s)] /\ Last(s) \in ToSet(s)  BY <1>1 DEF Last
<1> QED  BY <1>1, <1>2, <1>3, <1>4, <1>5

LEMMA TailFacts ==
    ASSUME NEW s, IsList(s), s /= <<>>
    PROVE  IsList(Tail(s)) /\ Head(s) \in ToSet(s) /\ ToSet(s) = {Head(s)} \cup ToSet(Tail(s))
<1> DEFINE t == Tail(s)
<1>1. s \in Seq(ToSet(s)) /\ Len(s) \in Nat \ {0}  BY ListFacts DEF IsList
<1>2. IsList(t)
  <2>1. t \in Seq(ToSet(s))  BY <1>1
  <2> QED  BY <2>1, ListOf
<1>3. Len(t) = Len(s) - 1 /\ \A i \in 1 .. Len(s) - 1 : t[i] = s[i + 1]  BY <1>1
<1>4. Head(s) = s[1]  BY <1>1
<1> HIDE DEF t
<1>5. ASSUME NEW x PROVE x \in ToSet(s) <=> x \in {Head(s)} \cup ToSet(t)
  <2>1. x \in ToSet(t) <=> \E i \in 1 .. Len(t) : t[i] = x  BY <1>2, ListFacts
  <2>2. x \in ToSet(s) <=> \E i \in 1 .. Len(s) : s[i] = x  BY ListFacts
  <2>3. ASSUME NEW i \in 1 .. Len(s), i /= 1 PROVE i - 1 \in 1 .. Len(t) /\ t[i - 1] = s[i]
    BY <1>1, <1>3, <2>3
  <2>4. ASSUME NEW i \in 1 .. Len(t) PROVE i + 1 \in 1 .. Len(s) /\ t[i] = s[i + 1]
    BY <1>1, <1>3, <2>4
  <2>5. 1 \in 1 .. Len(s)  BY <1>1
  <2> QED  BY <1>4, <2>1, <2>2, <2>3, <2>4, <2>5
<1>6. Head(s) \in ToSet(s) /\ ToSet(s) = {Head(s)} \cup ToSet(t)  BY <1>5
<1> QED  BY <1>2, <1>6 DEF t

LEMMA ConcatFacts ==
    ASSUME NEW s, IsList(s), NEW t, IsList(t)
    PROVE  IsList(s \o t) /\ ToSet(s \o t) = ToSet(s) \cup ToSet(t)
<1> DEFINE u == s \o t
<1>1. s \in Seq(ToSet(s) \cup ToSet(t)) /\ t \in Seq(ToSet(s) \cup ToSet(t))
  BY DEF IsList
<1>2. u \in Seq(ToSet(s) \cup ToSet(t))  BY <1>1
<1>3. IsList(u)  BY <1>2, ListOf
<1>4. /\ Len(s) \in Nat /\ Len(t) \in Nat /\ Len(u) = Len(s) + Len(t)
      /\ \A i \in 1 .. Len(s) : u[i] = s[i]
      /\ \A i \in 1 .. Len(t) : u[Len(s) + i] = t[i]
  BY <1>1
<1> HIDE DEF u
<1>5. ASSUME NEW x PROVE x \in ToSet(u) <=> x \in ToSet(s) \cup ToSet(t)
  <2>1. x \in ToSet(u) <=> \E i \in 1 .. Len(u) : u[i] = x  BY <1>3, ListFacts
  <2>2. x \in ToSet(s) <=> \E i \in 1 .. Len(s) : s[i] = x  BY ListFacts
  <2>3. x \in ToSet(t) <=> \E i \in 1 .. Len(t) : t[i] = x  BY ListFacts
  <2>4. ASSUME NEW i \in 1 .. Len(u), i \notin 1 .. Len(s)
        PROVE  i - Len(s) \in 1 .. Len(t) /\ u[i] = t[i - Len(s)]
    BY <1>4, <2>4
  <2>5. ASSUME NEW i \in 1 .. Len(t) PROVE Len(s) + i \in 1 .. Len(u)  BY <1>4, <2>5
  <2>6. ASSUME NEW i \in 1 .. Len(s) PROVE i \in 1 .. Len(u)  BY <1>4, <2>6
  <2> QED  BY <1>4, <2>1, <2>2, <2>3, <2>4, <2>5, <2>6
<1>6. ToSet(u) = ToSet(s) \cup ToSet(t)  BY <1>5
<1> QED  BY <1>3, <1>6 DEF u

\* Sorting loses none of the migrations: each has a version of its own, and the
\* number of the smaller ones is its position.
LEMMA SortedKeepsAll ==
    ASSUME NEW scripts, Versioned([scripts |-> scripts]), NEW j \in DOMAIN scripts
    PROVE  \E i \in DOMAIN scripts : Sorted(scripts)[i] = scripts[j]
<1> DEFINE All == ToSet(scripts)
           Lower(s) == {t \in All : t.version < s.version}
<1>1. /\ scripts \in Seq(All) /\ Len(scripts) \in Nat /\ DOMAIN scripts = 1 .. Len(scripts)
      /\ \A s \in All : s.version \in Nat
      /\ \A s, t \in All : s.version = t.version => s = t
  <2>1. scripts \in Seq(All)  BY DEF Versioned, IsList
  <2>2. Len(scripts) \in Nat /\ DOMAIN scripts = 1 .. Len(scripts)  BY <2>1
  <2>3. \A s : s \in All <=> \E i \in DOMAIN scripts : scripts[i] = s  BY DEF ToSet
  <2>4. /\ \A i \in DOMAIN scripts : scripts[i].version \in Nat
        /\ \A i, k \in DOMAIN scripts : scripts[i].version = scripts[k].version => i = k
    <3>1. PICK v : v = [i \in DOMAIN scripts |-> scripts[i].version]  OBVIOUS
    <3>2. v = Versions([scripts |-> scripts])  BY <3>1 DEF Versions
    <3>3. ToSet(v) \subseteq Nat \ {0} /\ IsInjective(v)
      BY <3>2 DEF Versioned, Distinct
    <3>4. DOMAIN v = DOMAIN scripts /\ \A i \in DOMAIN scripts : v[i] = scripts[i].version
      BY <3>1
    <3> QED  BY <3>3, <3>4 DEF ToSet, IsInjective
  <2> QED  BY <2>1, <2>2, <2>3, <2>4
<1>2. IsFiniteSet(All) /\ Cardinality(All) <= Len(scripts)
  <2>1. scripts \in Surjection(1 .. Len(scripts), All)
    <3>1. \A s \in All : \E i \in 1 .. Len(scripts) : scripts[i] = s  BY <1>1 DEF ToSet
    <3>2. scripts \in [1 .. Len(scripts) -> All]  BY <1>1
    <3> QED  BY <3>1, <3>2 DEF Surjection
  <2>2. IsFiniteSet(1 .. Len(scripts)) /\ Cardinality(1 .. Len(scripts)) = Len(scripts)
    <3>1. 1 \in Int /\ Len(scripts) \in Int  BY <1>1
    <3>2. /\ IsFiniteSet(1 .. Len(scripts))
          /\ Cardinality(1 .. Len(scripts)) = IF 1 > Len(scripts) THEN 0 ELSE Len(scripts) - 1 + 1
      BY ONLY <3>1, FS_Interval
    <3> QED  BY ONLY <1>1, <3>2
  <2> QED  BY <2>1, <2>2, FS_Surjection
<1>3. ASSUME NEW s \in All PROVE IsFiniteSet(Lower(s)) /\ Rank(scripts, s) = Cardinality(Lower(s))
  <2>1. Lower(s) \in SUBSET All  OBVIOUS
  <2> QED  BY <1>2, <2>1, FS_Subset DEF Rank
<1>4. ASSUME NEW s \in All, NEW t \in All, t.version < s.version
      PROVE  Rank(scripts, t) + 1 <= Rank(scripts, s)
  <2>1. Lower(t) \cup {t} \in SUBSET Lower(s)  BY <1>1, <1>4
  <2>2. t \notin Lower(t)  BY <1>1
  <2>3. Cardinality(Lower(t) \cup {t}) = Cardinality(Lower(t)) + 1
    BY <1>3, <2>2, FS_AddElement
  <2>4. Cardinality(Lower(t) \cup {t}) <= Cardinality(Lower(s))  BY <1>3, <2>1, FS_Subset
  <2> QED  BY <1>3, <2>3, <2>4
<1>5. ASSUME NEW s \in All, NEW t \in All, Rank(scripts, s) = Rank(scripts, t) PROVE s = t
  <2>1. Rank(scripts, s) \in Nat /\ Rank(scripts, t) \in Nat  BY <1>3, FS_CardinalityType
  <2>2. ~(s.version < t.version) /\ ~(t.version < s.version)  BY <1>4, <1>5, <2>1
  <2> QED  BY <1>1, <2>2
<1>6. PICK s \in All : s = scripts[j]  BY DEF ToSet
<1>7. Rank(scripts, s) \in Nat /\ Rank(scripts, s) + 1 <= Len(scripts)
  <2>1. Lower(s) \cup {s} \in SUBSET All  OBVIOUS
  <2>2. s \notin Lower(s)  BY <1>1
  <2>3. Cardinality(Lower(s) \cup {s}) = Cardinality(Lower(s)) + 1
    BY <1>3, <2>2, FS_AddElement
  <2>4. Cardinality(Lower(s) \cup {s}) <= Cardinality(All)  BY <1>2, <2>1, FS_Subset
  <2>5. Cardinality(Lower(s)) \in Nat /\ Cardinality(All) \in Nat
    BY <1>2, <1>3, FS_CardinalityType
  <2>6. Rank(scripts, s) = Cardinality(Lower(s))  BY <1>3
  <2>7. Cardinality(Lower(s)) + 1 <= Len(scripts)
    BY ONLY <1>1, <1>2, <2>3, <2>4, <2>5
  <2> QED  BY ONLY <2>5, <2>6, <2>7
<1>8. PICK i \in DOMAIN scripts : i = Rank(scripts, s) + 1  BY <1>1, <1>7
<1>9. Sorted(scripts)[i] = CHOOSE t \in All : Rank(scripts, t) = i - 1  BY DEF Sorted
<1>10. i - 1 = Rank(scripts, s)  BY <1>7, <1>8
<1>11. Sorted(scripts)[i] \in All /\ Rank(scripts, Sorted(scripts)[i]) = Rank(scripts, s)
  <2>1. \E t \in All : Rank(scripts, t) = i - 1  BY <1>10
  <2> QED  BY <1>9, <1>10, <2>1
<1> QED  BY <1>5, <1>6, <1>11

\* What registerFeature let in: proper manifests, one for an id.
BuildFits(build) ==
    /\ IsList(build)
    /\ \A m \in ToSet(build) : m \in Manifests /\ ValidManifest(m)
    /\ \A m, n \in ToSet(build) : m.id = n.id => m = n

\* A feature on the stack: what it depends on has been ordered, or is left to
\* follow, or is being visited in the frame above.
FrameFits(build, fs, os, i) ==
    /\ fs[i].id \in Installed(build)
    /\ IsList(fs[i].left)
    /\ ToSet(fs[i].left) \cap Installed(build) \subseteq DependenciesOf(build, fs[i].id)
    /\ i < Len(fs) => fs[i + 1].id \in DependenciesOf(build, fs[i].id)
    /\ \A d \in DependenciesOf(build, fs[i].id) :
          d \in ToSet(os) \/ d \in ToSet(fs[i].left) \/ (i < Len(fs) /\ d = fs[i + 1].id)

\* The order so far: features of the build, each after all it depends on.
OrderFits(build, os) ==
    /\ IsList(os) /\ ToSet(os) \subseteq Installed(build)
    /\ \A k \in 1 .. Len(os) :
          \A d \in DependenciesOf(build, os[k]) : \E j \in 1 .. k - 1 : os[j] = d

WalkFits(build, fs, os) ==
    /\ IsList(fs) /\ OrderFits(build, os)
    /\ \A i \in 1 .. Len(fs) : FrameFits(build, fs, os, i)

LEMMA ManifestIsIts ==
    ASSUME NEW build, BuildFits(build), NEW m \in ToSet(build)
    PROVE  m.id \in Installed(build) /\ ManifestOf(build, m.id) = m
BY DEF BuildFits, Installed, ManifestOf

LEMMA ManifestOfInstalled ==
    ASSUME NEW build, BuildFits(build), NEW id \in Installed(build)
    PROVE  /\ ManifestOf(build, id) \in ToSet(build) /\ ManifestOf(build, id).id = id
           /\ IsList(ManifestOf(build, id).dependencies)
           /\ IsList(ManifestOf(build, id).optional)
           /\ Versioned(ManifestOf(build, id))
<1>1. PICK m \in ToSet(build) : m.id = id  BY DEF Installed
<1>2. ManifestOf(build, id) = m  BY <1>1, ManifestIsIts
<1> QED  BY <1>1, <1>2, ManifestsAssumption DEF BuildFits, ValidManifest

\* A new frame has all of the feature's dependencies left, and installed ones only
\* by those.
LEMMA NewFrame ==
    ASSUME NEW build, BuildFits(build), Complete(build), NEW id \in Installed(build)
    PROVE  /\ Frame(build, id).id = id /\ IsList(Frame(build, id).left)
           /\ ToSet(Frame(build, id).left) \cap Installed(build) \subseteq DependenciesOf(build, id)
           /\ DependenciesOf(build, id) \subseteq ToSet(Frame(build, id).left)
           /\ DependenciesOf(build, id) \subseteq Installed(build)
<1>1. PICK m : m = ManifestOf(build, id)  OBVIOUS
<1>2. m \in ToSet(build) /\ IsList(m.dependencies) /\ IsList(m.optional)
  BY <1>1, ManifestOfInstalled
<1>3. PICK left : left = m.dependencies \o m.optional  OBVIOUS
<1>4. IsList(left) /\ ToSet(left) = ToSet(m.dependencies) \cup ToSet(m.optional)
  BY <1>2, <1>3, ConcatFacts
<1>5. DependenciesOf(build, id) =
          ToSet(m.dependencies) \cup (ToSet(m.optional) \cap Installed(build))
  BY <1>1 DEF DependenciesOf
<1>6. ToSet(m.dependencies) \subseteq Installed(build)  BY <1>2 DEF Complete
<1>7. Frame(build, id).id = id /\ Frame(build, id).left = left
  <2>1. Frame(build, id) = [id |-> id, left |-> left]  BY <1>1, <1>3 DEF Frame
  <2> QED  BY <2>1
<1> QED  BY <1>4, <1>5, <1>6, <1>7

LEMMA VisitFits ==
    ASSUME NEW build, BuildFits(build), Complete(build), NEW id \in Installed(build),
           NEW os, WalkFits(build, <<>>, os)
    PROVE  WalkFits(build, <<Frame(build, id)>>, os)
<1>1. PICK f : f = Frame(build, id)  OBVIOUS
<1>2. IsList(<<f>>)
  <2>1. <<f>> \in Seq({f})  OBVIOUS
  <2> QED  BY <2>1, ListOf
<1>3. PICK fs : fs = <<f>>  OBVIOUS
<1>4. Len(fs) = 1 /\ fs[1] = f  BY <1>3
<1>5. /\ f.id = id /\ IsList(f.left)
      /\ ToSet(f.left) \cap Installed(build) \subseteq DependenciesOf(build, id)
      /\ DependenciesOf(build, id) \subseteq ToSet(f.left)
  BY <1>1, NewFrame
<1>6. FrameFits(build, fs, os, 1)
  <2>1. ~(1 < Len(fs))  BY <1>4
  <2>2. \A d \in DependenciesOf(build, f.id) : d \in ToSet(f.left)  BY <1>5
  <2> QED  BY <1>4, <1>5, <2>1, <2>2 DEF FrameFits
<1>7. \A i \in 1 .. Len(fs) : i = 1  BY <1>4
<1> QED  BY <1>1, <1>2, <1>3, <1>6, <1>7 DEF WalkFits

\* The top's next dependency is dropped from what it has left; without a frame of
\* its own only where it is in order or not installed.
Dropped(fs) == Append(Front(fs), [Last(fs) EXCEPT !.left = Tail(@)])

LEMMA DroppedFacts ==
    ASSUME NEW build, NEW fs, NEW os, WalkFits(build, fs, os),
           fs /= <<>>, Last(fs).left /= <<>>
    PROVE  /\ IsList(Dropped(fs)) /\ Len(Dropped(fs)) = Len(fs) /\ Len(fs) \in Nat \ {0}
           /\ \A i \in 1 .. Len(fs) : Dropped(fs)[i].id = fs[i].id
           /\ \A i \in 1 .. Len(fs) - 1 : Dropped(fs)[i] = fs[i]
           /\ IsList(Dropped(fs)[Len(fs)].left)
           /\ ToSet(fs[Len(fs)].left) =
                 {Head(Last(fs).left)} \cup ToSet(Dropped(fs)[Len(fs)].left)
<1>1. PICK top : top = [Last(fs) EXCEPT !.left = Tail(@)]  OBVIOUS
<1>2. IsList(fs)  BY DEF WalkFits
<1>3. /\ IsList(Front(fs)) /\ Len(Front(fs)) = Len(fs) - 1 /\ Len(fs) \in Nat \ {0}
      /\ \A i \in 1 .. Len(fs) - 1 : Front(fs)[i] = fs[i]
      /\ Last(fs) = fs[Len(fs)]
  BY <1>2, FrontFacts
<1>4. PICK rest : rest = Front(fs)  OBVIOUS
<1>5. Dropped(fs) = Append(rest, top)  BY <1>1, <1>4 DEF Dropped
<1>6. /\ IsList(Append(rest, top)) /\ Len(Append(rest, top)) = Len(rest) + 1
      /\ \A i \in 1 .. Len(rest) : Append(rest, top)[i] = rest[i]
      /\ Append(rest, top)[Len(rest) + 1] = top
  BY <1>3, <1>4, AppendFacts
<1>7. /\ IsList(Dropped(fs)) /\ Len(Dropped(fs)) = Len(fs)
      /\ \A i \in 1 .. Len(fs) - 1 : Dropped(fs)[i] = fs[i]
      /\ Dropped(fs)[Len(fs)] = top
  BY <1>3, <1>4, <1>5, <1>6
<1>8. FrameFits(build, fs, os, Len(fs))  BY <1>3 DEF WalkFits
<1>9. IsList(Last(fs).left) /\ Last(fs).id = fs[Len(fs)].id  BY <1>3, <1>8 DEF FrameFits
<1>10. top.id = Last(fs).id /\ top.left = Tail(Last(fs).left)
  BY <1>1, <1>3
<1>11. IsList(top.left) /\ ToSet(Last(fs).left) = {Head(Last(fs).left)} \cup ToSet(top.left)
  BY <1>9, <1>10, TailFacts
<1>12. \A i \in 1 .. Len(fs) : Dropped(fs)[i].id = fs[i].id
  BY <1>3, <1>7, <1>9, <1>10
<1> QED  BY <1>3, <1>7, <1>11, <1>12

LEMMA PassByFits ==
    ASSUME NEW build, NEW fs, NEW os, WalkFits(build, fs, os),
           fs /= <<>>, Last(fs).left /= <<>>,
           Head(Last(fs).left) \in ToSet(os) \/ Head(Last(fs).left) \notin Installed(build),
           \A id \in Installed(build) : DependenciesOf(build, id) \subseteq Installed(build)
    PROVE  WalkFits(build, Dropped(fs), os)
<1>1. PICK rest, d : rest = Dropped(fs) /\ d = Head(Last(fs).left)  OBVIOUS
<1>2. /\ IsList(rest) /\ Len(rest) = Len(fs) /\ Len(fs) \in Nat \ {0}
      /\ \A i \in 1 .. Len(fs) : rest[i].id = fs[i].id
      /\ \A i \in 1 .. Len(fs) - 1 : rest[i] = fs[i]
      /\ IsList(rest[Len(fs)].left)
      /\ ToSet(fs[Len(fs)].left) = {d} \cup ToSet(rest[Len(fs)].left)
  <2>1. /\ IsList(Dropped(fs)) /\ Len(Dropped(fs)) = Len(fs) /\ Len(fs) \in Nat \ {0}
        /\ \A i \in 1 .. Len(fs) : Dropped(fs)[i].id = fs[i].id
        /\ \A i \in 1 .. Len(fs) - 1 : Dropped(fs)[i] = fs[i]
        /\ IsList(Dropped(fs)[Len(fs)].left)
        /\ ToSet(fs[Len(fs)].left) =
              {Head(Last(fs).left)} \cup ToSet(Dropped(fs)[Len(fs)].left)
    BY DroppedFacts
  <2> QED  BY ONLY <1>1, <2>1
<1>3. ASSUME NEW i \in 1 .. Len(fs) PROVE FrameFits(build, rest, os, i)
  <2>1. FrameFits(build, fs, os, i)  BY DEF WalkFits
  <2>2. CASE i < Len(fs)
    <3>1. rest[i] = fs[i] /\ i + 1 \in 1 .. Len(fs)  BY <1>2, <2>2
    <3>2. rest[i + 1].id = fs[i + 1].id  BY <1>2, <3>1
    <3> QED  BY <1>2, <2>1, <2>2, <3>1, <3>2 DEF FrameFits
  <2>3. CASE i = Len(fs)
    <3>1. rest[i].id = fs[i].id /\ ~(i < Len(fs))  BY <1>2, <2>3
    <3>2. fs[i].id \in Installed(build)  BY <2>1 DEF FrameFits
    <3>3. d \in ToSet(os) \/ d \notin DependenciesOf(build, fs[i].id)  BY <1>1, <3>2
    <3>4. ToSet(rest[i].left) \subseteq ToSet(fs[i].left)  BY <1>2, <2>3
    <3>5. ASSUME NEW e \in DependenciesOf(build, fs[i].id)
          PROVE  e \in ToSet(os) \/ e \in ToSet(rest[i].left)
      <4>1. e \in ToSet(os) \/ e \in ToSet(fs[i].left)  BY <2>1, <3>1 DEF FrameFits
      <4> QED  BY <1>2, <2>3, <3>3, <4>1
    <3> QED  BY <1>2, <2>1, <2>3, <3>1, <3>4, <3>5 DEF FrameFits
  <2> QED  BY <1>2, <2>2, <2>3
<1> QED  BY <1>1, <1>2, <1>3 DEF WalkFits

LEMMA PushFits ==
    ASSUME NEW build, BuildFits(build), Complete(build),
           NEW fs, NEW os, WalkFits(build, fs, os), fs /= <<>>, Last(fs).left /= <<>>,
           Head(Last(fs).left) \in Installed(build)
    PROVE  WalkFits(build, Append(Dropped(fs), Frame(build, Head(Last(fs).left))), os)
<1>1. PICK rest, d : rest = Dropped(fs) /\ d = Head(Last(fs).left)  OBVIOUS
<1>2. /\ IsList(rest) /\ Len(rest) = Len(fs) /\ Len(fs) \in Nat \ {0}
      /\ \A i \in 1 .. Len(fs) : rest[i].id = fs[i].id
      /\ \A i \in 1 .. Len(fs) - 1 : rest[i] = fs[i]
      /\ IsList(rest[Len(fs)].left)
      /\ ToSet(fs[Len(fs)].left) = {d} \cup ToSet(rest[Len(fs)].left)
  <2>1. /\ IsList(Dropped(fs)) /\ Len(Dropped(fs)) = Len(fs) /\ Len(fs) \in Nat \ {0}
        /\ \A i \in 1 .. Len(fs) : Dropped(fs)[i].id = fs[i].id
        /\ \A i \in 1 .. Len(fs) - 1 : Dropped(fs)[i] = fs[i]
        /\ IsList(Dropped(fs)[Len(fs)].left)
        /\ ToSet(fs[Len(fs)].left) =
              {Head(Last(fs).left)} \cup ToSet(Dropped(fs)[Len(fs)].left)
    BY DroppedFacts
  <2> QED  BY ONLY <1>1, <2>1
<1>3. PICK f : f = Frame(build, d)  OBVIOUS
<1>4. /\ f.id = d /\ IsList(f.left)
      /\ ToSet(f.left) \cap Installed(build) \subseteq DependenciesOf(build, d)
      /\ DependenciesOf(build, d) \subseteq ToSet(f.left)
  BY <1>1, <1>3, NewFrame
<1>5. PICK new : new = Append(rest, f)  OBVIOUS
<1>6. /\ IsList(new) /\ Len(new) = Len(fs) + 1 /\ new[Len(fs) + 1] = f
      /\ \A i \in 1 .. Len(fs) : new[i] = rest[i]
  BY <1>2, <1>5, AppendFacts
<1>7. ASSUME NEW i \in 1 .. Len(new) PROVE FrameFits(build, new, os, i)
  <2>1. CASE i < Len(fs)
    <3>1. new[i] = fs[i] /\ i + 1 \in 1 .. Len(fs) /\ i < Len(new) /\ i \in 1 .. Len(fs)
      BY <1>2, <1>6, <2>1
    <3>2. new[i + 1].id = fs[i + 1].id  BY <1>2, <1>6, <3>1
    <3>3. FrameFits(build, fs, os, i)  BY <3>1 DEF WalkFits
    <3> QED  BY <2>1, <3>1, <3>2, <3>3 DEF FrameFits
  <2>2. CASE i = Len(fs)
    <3>1. FrameFits(build, fs, os, i) /\ i \in 1 .. Len(fs)  BY <1>2, <2>2 DEF WalkFits
    <3>2. new[i].id = fs[i].id /\ new[i].left = rest[i].left /\ i < Len(new)
          /\ new[i + 1] = f /\ ~(i < Len(fs))
      BY <1>2, <1>6, <2>2, <3>1
    <3>3. d \in DependenciesOf(build, fs[i].id)
      BY <1>1, <1>2, <2>2, <3>1 DEF FrameFits
    <3> QED  BY <1>2, <1>4, <2>2, <3>1, <3>2, <3>3 DEF FrameFits
  <2>3. CASE i = Len(fs) + 1
    <3>1. new[i] = f /\ ~(i < Len(new))  BY <1>2, <1>6, <2>3
    <3>2. d \in Installed(build)  BY <1>1
    <3>3. \A e \in DependenciesOf(build, f.id) : e \in ToSet(f.left)  BY <1>4
    <3> QED  BY <1>4, <3>1, <3>2, <3>3 DEF FrameFits
  <2> QED  BY <1>2, <1>6, <2>1, <2>2, <2>3
<1> QED  BY <1>1, <1>3, <1>5, <1>6, <1>7 DEF WalkFits

\* A feature left with nothing to follow has all it depends on in the order.
LEMMA LeaveFits ==
    ASSUME NEW build, NEW fs, NEW os, WalkFits(build, fs, os),
           fs /= <<>>, Last(fs).left = <<>>
    PROVE  WalkFits(build, Front(fs), Append(os, Last(fs).id))
<1>1. IsList(fs) /\ IsList(os)  BY DEF WalkFits, OrderFits
<1>2. PICK below, top : below = Front(fs) /\ top = Last(fs)  OBVIOUS
<1>3. /\ IsList(below) /\ Len(below) = Len(fs) - 1 /\ Len(fs) \in Nat \ {0}
      /\ \A i \in 1 .. Len(fs) - 1 : below[i] = fs[i]
      /\ top = fs[Len(fs)]
  BY <1>1, <1>2, FrontFacts
<1>4. PICK new : new = Append(os, top.id)  OBVIOUS
<1>5. /\ IsList(new) /\ Len(new) = Len(os) + 1 /\ Len(os) \in Nat
      /\ \A i \in 1 .. Len(os) : new[i] = os[i]
      /\ new[Len(os) + 1] = top.id
      /\ ToSet(new) = ToSet(os) \cup {top.id}
  BY <1>1, <1>4, AppendFacts, ListFacts
<1>6. /\ top.id \in Installed(build)
      /\ \A d \in DependenciesOf(build, top.id) : d \in ToSet(os)
  <2>1. FrameFits(build, fs, os, Len(fs))  BY <1>3 DEF WalkFits
  <2>2. ToSet(fs[Len(fs)].left) = {}  BY <1>2, <1>3 DEF ToSet
  <2>3. ~(Len(fs) < Len(fs))  BY <1>3
  <2> QED  BY <1>3, <2>1, <2>2, <2>3 DEF FrameFits
<1>7. OrderFits(build, new)
  <2>1. ToSet(new) \subseteq Installed(build)  BY <1>5, <1>6 DEF WalkFits, OrderFits
  <2>2. ASSUME NEW k \in 1 .. Len(new), NEW d \in DependenciesOf(build, new[k])
        PROVE  \E j \in 1 .. k - 1 : new[j] = d
    <3>1. CASE k \in 1 .. Len(os)
      <4>1. PICK j \in 1 .. k - 1 : os[j] = d  BY <1>5, <2>2, <3>1 DEF WalkFits, OrderFits
      <4> QED  BY <1>5, <3>1, <4>1
    <3>2. CASE k = Len(os) + 1
      <4>1. PICK j \in 1 .. Len(os) : os[j] = d
        BY <1>1, <1>5, <1>6, <2>2, <3>2, ListFacts
      <4> QED  BY <1>5, <3>2, <4>1
    <3> QED  BY <1>5, <3>1, <3>2
  <2> QED  BY <1>5, <2>1, <2>2 DEF OrderFits
<1>8. ASSUME NEW i \in 1 .. Len(below) PROVE FrameFits(build, below, new, i)
  <2>1. below[i] = fs[i] /\ i < Len(fs) /\ i \in 1 .. Len(fs)  BY <1>3
  <2>2. FrameFits(build, fs, os, i)  BY <2>1 DEF WalkFits
  <2>3. CASE i < Len(below)
    <3>1. below[i + 1] = fs[i + 1]  BY <1>3, <2>3
    <3> QED  BY <1>5, <2>1, <2>2, <2>3, <3>1 DEF FrameFits
  <2>4. CASE i = Len(below)
    <3>1. fs[i + 1] = top /\ ~(i < Len(below))  BY <1>3, <2>4
    <3>2. \A d \in DependenciesOf(build, fs[i].id) :
              d \in ToSet(os) \/ d \in ToSet(fs[i].left) \/ d = top.id
      BY <2>1, <2>2, <3>1 DEF FrameFits
    <3> QED  BY <1>5, <2>1, <2>2, <3>1, <3>2 DEF FrameFits
  <2> QED  BY <1>3, <2>3, <2>4
<1> QED  BY <1>2, <1>3, <1>4, <1>7, <1>8 DEF WalkFits

\* A dependency met on the path closes a circle: each frame from there on depends
\* on the next, and the last on the first.
LEMMA PathIsACircle ==
    ASSUME NEW build, NEW fs, NEW os, WalkFits(build, fs, os), fs /= <<>>, Last(fs).left /= <<>>,
           NEW k \in 1 .. Len(fs), fs[k].id = Head(Last(fs).left)
    PROVE  \E C \in (SUBSET Installed(build)) \ {{}} :
              \A c \in C : DependenciesOf(build, c) \cap C /= {}
<1>1. Len(fs) \in Nat \ {0} /\ Last(fs) = fs[Len(fs)]  BY FrontFacts DEF WalkFits
<1>2. \A i \in 1 .. Len(fs) : FrameFits(build, fs, os, i)  BY DEF WalkFits
<1>3. PICK C : C = {fs[i].id : i \in k .. Len(fs)}  OBVIOUS
<1>4. C \subseteq Installed(build)  BY <1>1, <1>2, <1>3 DEF FrameFits
<1>5. fs[k].id \in C  BY <1>1, <1>3
<1>6. ASSUME NEW c \in C PROVE DependenciesOf(build, c) \cap C /= {}
  <2>1. PICK i \in k .. Len(fs) : fs[i].id = c  BY <1>3
  <2>2. i \in 1 .. Len(fs)  BY <1>1
  <2>3. CASE i < Len(fs)
    <3>1. i + 1 \in k .. Len(fs)  BY <1>1, <2>3
    <3>2. fs[i + 1].id \in C  BY <1>3, <3>1
    <3> QED  BY <1>2, <2>1, <2>2, <2>3, <3>2 DEF FrameFits
  <2>4. CASE i = Len(fs)
    <3>1. fs[k].id \in ToSet(fs[i].left)
      <4>1. IsList(fs[i].left) /\ fs[i].left /= <<>> /\ fs[k].id = Head(fs[i].left)
        BY <1>1, <1>2, <2>2, <2>4 DEF FrameFits
      <4> QED  BY <4>1, TailFacts
    <3>2. fs[k].id \in Installed(build)  BY <1>2 DEF FrameFits
    <3>3. fs[k].id \in DependenciesOf(build, c)
      BY <1>2, <2>1, <2>2, <3>1, <3>2 DEF FrameFits
    <3> QED  BY <1>5, <3>3
  <2> QED  BY <1>1, <2>3, <2>4
<1> QED  BY <1>4, <1>5, <1>6

\* What the resolver has of the platform's build, and what it has worked out.
GraphInv(p) ==
    /\ BuildFits(features[p])
    /\ WalkFits(features[p], frames[p], ordered[p])
    /\ initPc[p] = "registering" => frames[p] = <<>> /\ ordered[p] = <<>>
    /\ initPc[p] /= "registering" => Complete(features[p])
    /\ initPc[p] \in {"read", "apply", "ready"} =>
          Installed(features[p]) \subseteq ToSet(ordered[p])

\* The owners whose turn is over are migrated, and so is the running one up to its
\* position.
OwnersDone(p) == IF initPc[p] = "ready" THEN Len(ordered[p]) ELSE turn[p] - 1

TurnInv(p) ==
    /\ turn[p] \in 0 .. Len(ordered[p])
    /\ initPc[p] \in {"registering", "resolve"} => turn[p] = 0
    /\ \A k \in 0 .. OwnersDone(p) : AllRecorded(OwnerAt(p, k), ScriptsAt(p, k))
    /\ initPc[p] = "apply" =>
          \A i \in 1 .. next[p] - 1 : Record(Group(p).owner, Group(p).scripts[i]) \in history

BuildInv == \A p \in Platforms : GraphInv(p) /\ TurnInv(p)

LEMMA EmptyFits == ASSUME NEW build PROVE WalkFits(build, <<>>, <<>>)
<1>1. PICK e : e = <<>>  OBVIOUS
<1>2. IsList(e) /\ Len(e) = 0 /\ ToSet(e) = {}
  <2>1. e \in Seq({}) /\ DOMAIN e = {} /\ Len(e) = 0  BY <1>1
  <2> QED  BY <2>1, ListOf DEF ToSet
<1>3. \A i : i \notin 1 .. Len(e)  BY <1>2
<1>4. WalkFits(build, e, e)  BY <1>2, <1>3 DEF WalkFits, OrderFits
<1> QED  BY <1>1, <1>4

LEMMA NoFeaturesFit == BuildFits(<<>>)
<1>1. PICK e : e = <<>>  OBVIOUS
<1>2. IsList(e) /\ ToSet(e) = {}
  <2>1. e \in Seq({}) /\ DOMAIN e = {}  BY <1>1
  <2> QED  BY <2>1, ListOf DEF ToSet
<1>3. BuildFits(e)  BY <1>2 DEF BuildFits
<1> QED  BY <1>1, <1>3

LEMMA BuildInitially == StartInit => BuildInv
<1> SUFFICES ASSUME StartInit, NEW p \in Platforms PROVE GraphInv(p) /\ TurnInv(p)
  BY DEF BuildInv
<1>1. /\ features[p] = <<>> /\ frames[p] = <<>> /\ ordered[p] = <<>>
      /\ initPc[p] = "registering" /\ turn[p] = 0
  BY DEF StartInit, NoneYet
<1>2. GraphInv(p)  BY <1>1, EmptyFits, NoFeaturesFit DEF GraphInv
<1>3. 0 .. OwnersDone(p) = {} /\ Len(ordered[p]) = 0  BY <1>1 DEF OwnersDone
<1>4. TurnInv(p)  BY <1>1, <1>3 DEF TurnInv
<1> QED  BY <1>2, <1>4

\* A platform that does not move keeps what it has worked out and what is done.
LEMMA GraphStays == ASSUME NEW p, GraphInv(p), StandsStill(p) PROVE GraphInv(p)'
BY DEF GraphInv, StandsStill

LEMMA RecordedStays ==
    ASSUME NEW p, NEW k, AllRecorded(OwnerAt(p, k), ScriptsAt(p, k)), history \subseteq history',
           UNCHANGED <<features[p], ordered[p]>>
    PROVE  AllRecorded(OwnerAt(p, k), ScriptsAt(p, k))'
BY DEF AllRecorded, OwnerAt, ScriptsAt

LEMMA RunStays ==
    ASSUME NEW p, TurnInv(p), history \subseteq history', StandsStill(p)
    PROVE  TurnInv(p)'
<1> USE DEF StandsStill
<1>1. OwnersDone(p)' = OwnersDone(p)  BY DEF OwnersDone
<1>2. ASSUME NEW k \in 0 .. OwnersDone(p)' PROVE AllRecorded(OwnerAt(p, k), ScriptsAt(p, k))'
  BY <1>1, RecordedStays DEF TurnInv
<1>3. Group(p)' = Group(p)  BY GroupStays
<1>4. turn'[p] \in 0 .. Len(ordered'[p])
      /\ (initPc'[p] \in {"registering", "resolve"} => turn'[p] = 0)
  BY DEF TurnInv
<1>5. initPc'[p] = "apply" =>
          \A i \in 1 .. next'[p] - 1 : Record(Group(p)'.owner, Group(p)'.scripts[i]) \in history'
  BY <1>3 DEF TurnInv
<1> QED  BY <1>2, <1>4, <1>5 DEF TurnInv

\* Until the first owner is read nothing has to be done.
LEMMA RunsNothing ==
    ASSUME NEW p, turn'[p] = 0, Len(ordered'[p]) \in Nat,
           initPc'[p] \in {"registering", "resolve", "read"}
    PROVE  TurnInv(p)'
<1>1. OwnersDone(p)' = -1  BY DEF OwnersDone
<1>2. 0 .. OwnersDone(p)' = {}  BY <1>1
<1>3. turn'[p] \in 0 .. Len(ordered'[p])  OBVIOUS
<1> QED  BY <1>2, <1>3 DEF TurnInv

LEMMA ScriptsAreVersioned ==
    ASSUME NEW p, GraphInv(p), NEW k \in 0 .. Len(ordered[p])
    PROVE  Versioned([scripts |-> ScriptsAt(p, k)])
<1>1. CASE k = 0  BY <1>1, ManifestsAssumption DEF ScriptsAt
<1>2. CASE k /= 0
  <2>1. k \in 1 .. Len(ordered[p]) /\ IsList(ordered[p])
    BY <1>2, ListFacts DEF GraphInv, WalkFits, OrderFits
  <2>2. ordered[p][k] \in Installed(features[p])
    BY <2>1, ListFacts DEF GraphInv, WalkFits, OrderFits
  <2>3. PICK m : m = ManifestOf(features[p], ordered[p][k])  OBVIOUS
  <2>4. Versioned(m)  BY <2>2, <2>3, ManifestOfInstalled DEF GraphInv
  <2>5. ScriptsAt(p, k) = m.scripts  BY <1>2, <2>3 DEF ScriptsAt
  <2>6. Versioned([scripts |-> m.scripts])  BY <2>4 DEF Versioned, Versions
  <2> QED  BY <2>5, <2>6
<1> QED  BY <1>1, <1>2

\* An owner's turn ends when every migration of its is recorded.
LEMMA TurnIsOver ==
    ASSUME NEW p \in Platforms, StartType, GraphInv(p), TurnInv(p), ~Due(p),
           initPc[p] = "apply" \/ (initPc[p] = "read" /\ Group(p).scripts = <<>>)
    PROVE  AllRecorded(OwnerAt(p, turn[p]), ScriptsAt(p, turn[p]))
<1>1. PICK scripts : scripts = ScriptsAt(p, turn[p])  OBVIOUS
<1>2. Versioned([scripts |-> scripts])  BY <1>1, ScriptsAreVersioned DEF TurnInv
<1>3. Len(scripts) \in Nat /\ DOMAIN scripts = 1 .. Len(scripts)
  BY <1>2, ListFacts DEF Versioned
<1>4. Group(p).owner = OwnerAt(p, turn[p]) /\ Group(p).scripts = Sorted(scripts)
  BY <1>1 DEF Group
<1>5. DOMAIN Group(p).scripts = 1 .. Len(scripts)  BY <1>3, <1>4 DEF Sorted
<1>6. ASSUME NEW i \in 1 .. Len(scripts)
      PROVE  Record(Group(p).owner, Group(p).scripts[i]) \in history
  <2>1. CASE initPc[p] = "apply"
    <3>1. next[p] \in Nat \ {0} /\ next[p] \notin 1 .. Len(scripts)
      BY <1>5, <2>1 DEF Due, StartType
    <3>2. i \in 1 .. next[p] - 1  BY <1>3, <3>1
    <3> QED  BY <2>1, <3>2 DEF TurnInv
  <2>2. CASE Group(p).scripts = <<>>
    <3>1. DOMAIN Group(p).scripts = {}  BY <2>2
    <3> QED  BY <1>5, <3>1
  <2> QED  BY <2>1, <2>2
<1>7. ASSUME NEW j \in DOMAIN scripts
      PROVE  Record(OwnerAt(p, turn[p]), scripts[j]) \in history
  <2>1. PICK i \in DOMAIN scripts : Sorted(scripts)[i] = scripts[j]  BY <1>2, SortedKeepsAll
  <2> QED  BY <1>3, <1>4, <1>6, <2>1
<1> QED  BY <1>1, <1>7 DEF AllRecorded

LEMMA RegisterFeatureKeeps ==
    ASSUME StartupInv, NEW p \in Platforms, GraphInv(p), TurnInv(p),
           NEW m \in Manifests, RegisterFeature(p, m)
    PROVE  GraphInv(p)' /\ TurnInv(p)'
<1>1. /\ initPc[p] = "registering" /\ ValidManifest(m)
      /\ m.id \notin {f.id : f \in ToSet(features[p])}
      /\ features' = [features EXCEPT ![p] = Append(@, m)]
      /\ UNCHANGED <<initPc, graphVars, turn, applied, next, history, schema>>
  BY DEF RegisterFeature
<1>2. PICK build : build = Append(features[p], m)  OBVIOUS
<1>3. features'[p] = build /\ DOMAIN features = Platforms
  BY <1>1, <1>2 DEF StartupInv, StartType
<1>4. IsList(build) /\ ToSet(build) = ToSet(features[p]) \cup {m}
  BY <1>2, AppendFacts DEF GraphInv, BuildFits
<1>5. BuildFits(build)
  <2>1. \A f \in ToSet(features[p]) : f.id /= m.id  BY <1>1
  <2> QED  BY <1>1, <1>4, <2>1 DEF GraphInv, BuildFits
<1>6. frames'[p] = <<>> /\ ordered'[p] = <<>> /\ turn'[p] = 0 /\ initPc'[p] = "registering"
  BY <1>1 DEF GraphInv, TurnInv, graphVars
<1>7. GraphInv(p)'  BY <1>3, <1>5, <1>6, EmptyFits DEF GraphInv
<1>8. TurnInv(p)'
  <2>1. Len(ordered'[p]) \in Nat  BY <1>6
  <2> QED  BY <1>6, <2>1, RunsNothing
<1> QED  BY <1>7, <1>8

\* The resolver's steps: the stack and the order keep fitting the build.
LEMMA WalkKeeps ==
    ASSUME StartupInv, NEW p \in Platforms, GraphInv(p), TurnInv(p), Walks(p),
           VisitFeature(p) \/ FollowDependency(p) \/ LeaveFeature(p) \/ EndWalk(p)
    PROVE  GraphInv(p)' /\ TurnInv(p)'
<1> DEFINE build == features[p]
<1>1. /\ initPc[p] = "resolve" /\ turn[p] = 0 /\ BuildFits(build) /\ Complete(build)
      /\ WalkFits(build, frames[p], ordered[p]) /\ IsList(frames[p]) /\ IsList(ordered[p])
  BY DEF Walks, GraphInv, TurnInv, WalkFits, OrderFits
<1>2. /\ UNCHANGED <<features, turn, applied, next, history, schema>>
      /\ DOMAIN initPc = Platforms /\ DOMAIN frames = Platforms /\ DOMAIN ordered = Platforms
  BY DEF Walks, StartupInv, StartType
<1>3. ASSUME initPc'[p] = "resolve", WalkFits(build, frames'[p], ordered'[p])
      PROVE  GraphInv(p)' /\ TurnInv(p)'
  <2>1. Len(ordered'[p]) \in Nat  BY <1>3, ListFacts DEF WalkFits, OrderFits
  <2> QED  BY <1>1, <1>2, <1>3, <2>1, RunsNothing DEF GraphInv
<1>4. CASE VisitFeature(p)
  <2>1. PICK i \in DOMAIN features[p] :
            /\ frames[p] = <<>> /\ UNCHANGED <<initPc, ordered>>
            /\ features[p][i].id \in Unvisited(p)
            /\ frames' = [frames EXCEPT ![p] = <<Frame(features[p], features[p][i].id)>>]
    BY <1>4 DEF VisitFeature
  <2>2. features[p][i].id \in Installed(build)  BY <2>1 DEF Unvisited
  <2>3. WalkFits(build, <<Frame(build, features[p][i].id)>>, ordered[p])
    BY <1>1, <2>1, <2>2, VisitFits
  <2>4. frames'[p] = <<Frame(features[p], features[p][i].id)>> /\ ordered'[p] = ordered[p]
        /\ initPc'[p] = "resolve"
    BY <1>1, <1>2, <2>1
  <2> QED  BY <1>3, <2>3, <2>4
<1>5. CASE FollowDependency(p)
  <2>1. PICK fs, os, d : fs = frames[p] /\ os = ordered[p] /\ d = Head(Last(fs).left)  OBVIOUS
  <2>2. fs /= <<>> /\ Last(fs).left /= <<>> /\ d \notin OnPath(p)
    BY <1>5, <2>1 DEF FollowDependency, Follows, Cyclic, Top
  <2>3. PICK new : /\ new = IF d \in Unvisited(p) THEN Append(Dropped(fs), Frame(build, d))
                                                  ELSE Dropped(fs)
                   /\ frames' = [frames EXCEPT ![p] = new] /\ UNCHANGED <<initPc, ordered>>
    BY <1>5, <2>1 DEF FollowDependency, Top, Dropped
  <2>4. WalkFits(build, new, os)
    <3>1. CASE d \in Unvisited(p)
      <4>1. d \in Installed(build)  BY <3>1 DEF Unvisited
      <4> QED  BY <1>1, <2>1, <2>2, <2>3, <3>1, <4>1, PushFits
    <3>2. CASE d \notin Unvisited(p)
      <4>1. d \in ToSet(os) \/ d \notin Installed(build)  BY <2>1, <2>2, <3>2 DEF Unvisited
      <4>2. \A id \in Installed(build) : DependenciesOf(build, id) \subseteq Installed(build)
        BY <1>1, NewFrame
      <4>3. WalkFits(build, Dropped(fs), os)  BY <1>1, <2>1, <2>2, <4>1, <4>2, PassByFits
      <4> QED  BY <2>3, <3>2, <4>3
    <3> QED  BY <3>1, <3>2
  <2>5. frames'[p] = new /\ ordered'[p] = os /\ initPc'[p] = "resolve"
    BY <1>1, <1>2, <2>1, <2>3
  <2> QED  BY <1>3, <2>4, <2>5
<1>6. CASE LeaveFeature(p)
  <2>1. /\ frames[p] /= <<>> /\ Last(frames[p]).left = <<>> /\ UNCHANGED initPc
        /\ ordered' = [ordered EXCEPT ![p] = Append(@, Last(frames[p]).id)]
        /\ frames' = [frames EXCEPT ![p] = Front(@)]
    BY <1>6 DEF LeaveFeature, Top
  <2>2. WalkFits(build, Front(frames[p]), Append(ordered[p], Last(frames[p]).id))
    BY <1>1, <2>1, LeaveFits
  <2>3. /\ frames'[p] = Front(frames[p]) /\ initPc'[p] = "resolve"
        /\ ordered'[p] = Append(ordered[p], Last(frames[p]).id)
    BY <1>1, <1>2, <2>1
  <2> QED  BY <1>3, <2>2, <2>3
<1>7. CASE EndWalk(p)
  <2>1. /\ frames[p] = <<>> /\ Unvisited(p) = {} /\ UNCHANGED <<frames, ordered>>
        /\ initPc'[p] = "read"
    BY <1>2, <1>7 DEF EndWalk, graphVars
  <2>2. OnPath(p) = {}
    <3>1. DOMAIN frames[p] = {}  BY <2>1
    <3> QED  BY <3>1 DEF OnPath
  <2>3. Installed(build) \subseteq ToSet(ordered[p])  BY <2>1, <2>2 DEF Unvisited
  <2>4. GraphInv(p)'  BY <1>1, <1>2, <2>1, <2>3 DEF GraphInv
  <2>5. Len(ordered'[p]) \in Nat  BY <1>1, <2>1, ListFacts
  <2>6. TurnInv(p)'  BY <1>1, <1>2, <2>1, <2>5, RunsNothing
  <2> QED  BY <2>4, <2>6
<1> QED  BY <1>4, <1>5, <1>6, <1>7

LEMMA RejectsKeeps ==
    ASSUME StartupInv, NEW p \in Platforms, GraphInv(p), Rejects(p)
    PROVE  GraphInv(p)' /\ TurnInv(p)'
<1>1. /\ initPc'[p] = "registering" /\ frames'[p] = <<>> /\ ordered'[p] = <<>> /\ turn'[p] = 0
      /\ features'[p] = features[p]
  BY RejectsAlone DEF StartupInv
<1>2. GraphInv(p)'  BY <1>1, EmptyFits DEF GraphInv
<1>3. Len(ordered'[p]) \in Nat  BY <1>1
<1> QED  BY <1>1, <1>2, <1>3, RunsNothing

\* The position moves past a migration that is recorded.
LEMMA PositionKeeps ==
    ASSUME StartupInv, NEW p \in Platforms, GraphInv(p), TurnInv(p), Due(p),
           next' = [next EXCEPT ![p] = @ + 1],
           UNCHANGED <<features, initPc, graphVars, turn, applied>>, history \subseteq history',
           Record(Group(p).owner, Script(p)) \in history'
    PROVE  GraphInv(p)' /\ TurnInv(p)'
<1>1. next[p] \in Nat \ {0} /\ next'[p] = next[p] + 1  BY DEF StartupInv, StartType
<1>2. UNCHANGED <<features, initPc, frames, ordered, turn>> /\ initPc[p] = "apply"
  BY DEF graphVars, Due
<1>3. GraphInv(p)'  BY <1>2 DEF GraphInv
<1>4. Group(p)' = Group(p) /\ OwnersDone(p)' = OwnersDone(p)
  BY <1>2, GroupStays DEF OwnersDone
<1>5. ASSUME NEW k \in 0 .. OwnersDone(p)' PROVE AllRecorded(OwnerAt(p, k), ScriptsAt(p, k))'
  BY <1>2, <1>4, RecordedStays DEF TurnInv
<1>6. ASSUME NEW i \in 1 .. next'[p] - 1
      PROVE  Record(Group(p).owner, Group(p).scripts[i]) \in history'
  <2>1. i = next[p] \/ i \in 1 .. next[p] - 1  BY <1>1
  <2> QED  BY <1>2, <2>1 DEF TurnInv, Script
<1>7. turn'[p] \in 0 .. Len(ordered'[p])
      /\ (initPc'[p] \in {"registering", "resolve"} => turn'[p] = 0)
  BY <1>2 DEF TurnInv
<1> QED  BY <1>3, <1>4, <1>5, <1>6, <1>7 DEF TurnInv

LEMMA ReadAppliedKeeps ==
    ASSUME StartupInv, NEW p \in Platforms, GraphInv(p), TurnInv(p), ReadApplied(p)
    PROVE  GraphInv(p)' /\ TurnInv(p)'
<1>1. initPc[p] = "read" /\ UNCHANGED <<history, schema>>  BY DEF ReadApplied
<1>2. CASE /\ initPc' = [initPc EXCEPT ![p] = "apply"]
           /\ UNCHANGED <<features, graphVars, turn, next>>
  <2>1. /\ initPc'[p] = "apply" /\ next'[p] = 1
        /\ UNCHANGED <<features, frames, ordered, turn>>
    BY <1>1, <1>2 DEF StartupInv, StartType, Passed, graphVars
  <2>2. GraphInv(p)'  BY <1>1, <2>1 DEF GraphInv
  <2>3. OwnersDone(p)' = OwnersDone(p)  BY <1>1, <2>1 DEF OwnersDone
  <2>4. ASSUME NEW k \in 0 .. OwnersDone(p)'
        PROVE  AllRecorded(OwnerAt(p, k), ScriptsAt(p, k))'
    BY <1>1, <2>1, <2>3, RecordedStays DEF TurnInv
  <2>5. 1 .. next'[p] - 1 = {} /\ turn'[p] \in 0 .. Len(ordered'[p])  BY <2>1 DEF TurnInv
  <2> QED  BY <2>1, <2>2, <2>4, <2>5 DEF TurnInv
<1> QED  BY <1>2, RejectsKeeps DEF ReadApplied

LEMMA NextOwnerKeeps ==
    ASSUME StartupInv, NEW p \in Platforms, GraphInv(p), TurnInv(p), NextOwner(p)
    PROVE  GraphInv(p)' /\ TurnInv(p)'
<1>1. /\ ~Due(p) /\ UNCHANGED <<features, frames, ordered, history>>
      /\ initPc[p] = "apply" \/ (initPc[p] = "read" /\ Group(p).scripts = <<>>)
  BY DEF NextOwner, graphVars
<1>2. StartType /\ DOMAIN turn = Platforms  BY DEF StartupInv, StartType
<1>3. AllRecorded(OwnerAt(p, turn[p]), ScriptsAt(p, turn[p]))  BY <1>1, <1>2, TurnIsOver
<1>4. OwnersDone(p) = turn[p] - 1 /\ turn[p] \in Nat /\ turn[p] <= Len(ordered[p])
      /\ Len(ordered[p]) \in Nat
  <2>1. Len(ordered[p]) \in Nat  BY ListFacts DEF GraphInv, WalkFits, OrderFits
  <2> QED  BY <1>1, <2>1 DEF OwnersDone, TurnInv
<1>5. ASSUME NEW k \in 0 .. turn[p] PROVE AllRecorded(OwnerAt(p, k), ScriptsAt(p, k))'
  <2>1. k = turn[p] \/ k \in 0 .. OwnersDone(p)  BY <1>4
  <2>2. AllRecorded(OwnerAt(p, k), ScriptsAt(p, k))  BY <1>3, <2>1 DEF TurnInv
  <2> QED  BY <1>1, <2>2, RecordedStays
<1>6. CASE turn[p] = Len(ordered[p])
  <2>1. Leaves(p, "ready") /\ UNCHANGED turn  BY <1>6 DEF NextOwner
  <2>2. initPc'[p] = "ready"  BY <1>2, <2>1, LeavesAlone
  <2>3. GraphInv(p)'  BY <1>1, <2>2 DEF GraphInv
  <2>4. OwnersDone(p)' = turn[p]  BY <1>1, <1>6, <2>2 DEF OwnersDone
  <2> QED  BY <1>1, <1>4, <1>5, <2>1, <2>2, <2>3, <2>4 DEF TurnInv
<1>7. CASE turn[p] /= Len(ordered[p])
  <2>1. Leaves(p, "read") /\ turn' = [turn EXCEPT ![p] = @ + 1]  BY <1>7 DEF NextOwner
  <2>2. initPc'[p] = "read" /\ turn'[p] = turn[p] + 1  BY <1>2, <2>1, LeavesAlone
  <2>3. GraphInv(p)'  BY <1>1, <2>2 DEF GraphInv
  <2>4. OwnersDone(p)' = turn[p]  BY <1>4, <2>2 DEF OwnersDone
  <2>5. turn'[p] \in 0 .. Len(ordered'[p])  BY <1>1, <1>4, <1>7, <2>2
  <2> QED  BY <1>5, <2>2, <2>3, <2>4, <2>5 DEF TurnInv
<1> QED  BY <1>6, <1>7

LEMMA BuildStep ==
    ASSUME StartupInv, BuildInv, [StartNext]_startVars
    PROVE  BuildInv'
<1>1. CASE UNCHANGED startVars
  <2>1. history \subseteq history' /\ \A q \in Platforms : StandsStill(q)
    BY <1>1 DEF startVars, graphVars, StandsStill
  <2> QED  BY <2>1, GraphStays, RunStays DEF BuildInv
<1>2. ASSUME NEW p \in Platforms, StartStep(p) PROVE BuildInv'
  <2>1. history \subseteq history' /\ \A q \in Platforms \ {p} : StandsStill(q)
    BY <1>2, OnePlatformMoves DEF StartupInv
  <2>2. \A q \in Platforms \ {p} : GraphInv(q)' /\ TurnInv(q)'
    BY <2>1, GraphStays, RunStays DEF BuildInv
  <2>3. GraphInv(p) /\ TurnInv(p)  BY DEF BuildInv
  <2>4. SUFFICES GraphInv(p)' /\ TurnInv(p)'  BY <2>2 DEF BuildInv
  <2>5. ASSUME NEW m \in Manifests, RegisterFeature(p, m) PROVE GraphInv(p)' /\ TurnInv(p)'
    BY <2>3, <2>5, RegisterFeatureKeeps
  <2>6. CASE BeginInit(p)
    <3>1. /\ initPc[p] = "registering" /\ Complete(features[p]) /\ initPc'[p] = "resolve"
          /\ UNCHANGED <<features, frames, ordered, turn>>
      BY <2>6 DEF BeginInit, graphVars, StartupInv, StartType
    <3>2. GraphInv(p)'  BY <2>3, <3>1 DEF GraphInv
    <3>3. turn'[p] = 0 /\ Len(ordered'[p]) \in Nat  BY <2>3, <3>1 DEF GraphInv, TurnInv
    <3> QED  BY <3>1, <3>2, <3>3, RunsNothing
  <2>7. CASE VisitFeature(p) \/ FollowDependency(p) \/ LeaveFeature(p) \/ EndWalk(p)
    BY <2>3, <2>7, WalkKeeps DEF VisitFeature, FollowDependency, LeaveFeature, EndWalk
  <2>8. CASE RejectCycle(p)  BY <2>3, <2>8, RejectsKeeps DEF RejectCycle
  <2>9. CASE ReadApplied(p)  BY <2>3, <2>9, ReadAppliedKeeps
  <2>10. CASE Recognise(p)
    <3>1. Due(p) /\ UNCHANGED history  BY <2>10 DEF Recognise
    <3>2. CASE /\ Record(Group(p).owner, Script(p)) \in Recorded(p)
               /\ next' = [next EXCEPT ![p] = @ + 1]
               /\ UNCHANGED <<features, initPc, graphVars, turn, applied>>
      <4>1. Record(Group(p).owner, Script(p)) \in history'
        BY <3>1, <3>2, RecognisedIsRecorded DEF StartupInv
      <4> QED  BY <2>1, <2>3, <3>1, <3>2, <4>1, PositionKeeps
    <3> QED  BY <2>3, <2>10, <3>2, RejectsKeeps DEF Recognise
  <2>11. CASE ApplyMigration(p)
    <3>1. /\ Due(p) /\ next' = [next EXCEPT ![p] = @ + 1]
          /\ history' = history \cup {Record(Group(p).owner, Script(p))}
          /\ UNCHANGED <<features, initPc, graphVars, turn, applied>>
      BY <2>11 DEF ApplyMigration
    <3> QED  BY <2>1, <2>3, <3>1, PositionKeeps
  <2>12. CASE MigrationFails(p)  BY <2>3, <2>12, RejectsKeeps DEF MigrationFails
  <2>13. CASE NextOwner(p)  BY <2>3, <2>13, NextOwnerKeeps
  <2>14. CASE EndProcess(p)
    <3>1. features' = [features EXCEPT ![p] = <<>>] /\ Leaves(p, "registering") /\ Forgets(p)
      BY <2>14 DEF EndProcess
    <3>2. /\ features'[p] = <<>> /\ initPc'[p] = "registering"
          /\ frames'[p] = <<>> /\ ordered'[p] = <<>> /\ turn'[p] = 0
      BY <3>1, LeavesAlone, ForgetsAlone DEF StartupInv, StartType
    <3>3. GraphInv(p)'  BY <3>2, EmptyFits, NoFeaturesFit DEF GraphInv
    <3>4. Len(ordered'[p]) \in Nat  BY <3>2
    <3> QED  BY <3>2, <3>3, <3>4, RunsNothing
  <2> QED
    BY <1>2, <2>5, <2>6, <2>7, <2>8, <2>9, <2>10, <2>11, <2>12, <2>13, <2>14 DEF StartStep
<1> QED  BY <1>1, <1>2 DEF StartNext

\* A platform that is ready has had the turn of every feature of its build.
LEMMA ReadyIsDone == ASSUME BuildInv PROVE ReadyIsMigrated
<1> SUFFICES ASSUME NEW p \in Platforms, initPc[p] = "ready"
             PROVE  /\ AllRecorded("platform", CoreScripts)
                    /\ \A m \in ToSet(features[p]) : AllRecorded(m.id, m.scripts)
  BY DEF ReadyIsMigrated
<1>1. GraphInv(p) /\ TurnInv(p)  BY DEF BuildInv
<1>2. OwnersDone(p) = Len(ordered[p]) /\ Len(ordered[p]) \in Nat
  BY <1>1, ListFacts DEF OwnersDone, GraphInv, WalkFits, OrderFits
<1>3. AllRecorded("platform", CoreScripts)
  <2>1. 0 \in 0 .. OwnersDone(p)  BY <1>2
  <2> QED  BY <1>1, <2>1 DEF TurnInv, OwnerAt, ScriptsAt
<1>4. ASSUME NEW m \in ToSet(features[p]) PROVE AllRecorded(m.id, m.scripts)
  <2>1. m.id \in Installed(features[p]) /\ ManifestOf(features[p], m.id) = m
    BY <1>1, ManifestIsIts DEF GraphInv
  <2>2. PICK k \in 1 .. Len(ordered[p]) : ordered[p][k] = m.id
    BY <1>1, <2>1, ListFacts DEF GraphInv, WalkFits, OrderFits
  <2>3. k \in 0 .. OwnersDone(p) /\ k /= 0  BY <1>2
  <2>4. OwnerAt(p, k) = m.id /\ ScriptsAt(p, k) = m.scripts
    BY <2>1, <2>2, <2>3 DEF OwnerAt, ScriptsAt
  <2> QED  BY <1>1, <2>3, <2>4 DEF TurnInv
<1> QED  BY <1>3, <1>4

\* A feature's turn comes after those of the core and of all it depends on; and
\* where the resolver gives up, its path is the circle.
LEMMA OrderIsKept == ASSUME BuildInv PROVE DependenciesFirst
<1>1. ASSUME NEW p \in Platforms, initPc[p] = "apply", turn[p] > 0
      PROVE  /\ AllRecorded("platform", CoreScripts)
             /\ \A d \in DependenciesOf(features[p], ordered[p][turn[p]]) :
                   AllRecorded(d, ManifestOf(features[p], d).scripts)
  <2>1. GraphInv(p) /\ TurnInv(p)  BY DEF BuildInv
  <2>2. Len(ordered[p]) \in Nat  BY <2>1, ListFacts DEF GraphInv, WalkFits, OrderFits
  <2>3. turn[p] \in 1 .. Len(ordered[p]) /\ OwnersDone(p) = turn[p] - 1
    BY <1>1, <2>1, <2>2 DEF TurnInv, OwnersDone
  <2>4. AllRecorded("platform", CoreScripts)
    <3>1. 0 \in 0 .. OwnersDone(p)  BY <2>2, <2>3
    <3> QED  BY <2>1, <3>1 DEF TurnInv, OwnerAt, ScriptsAt
  <2>5. ASSUME NEW d \in DependenciesOf(features[p], ordered[p][turn[p]])
        PROVE  AllRecorded(d, ManifestOf(features[p], d).scripts)
    <3>1. PICK j \in 1 .. turn[p] - 1 : ordered[p][j] = d
      BY <2>1, <2>3 DEF GraphInv, WalkFits, OrderFits
    <3>2. j \in 0 .. OwnersDone(p) /\ j /= 0  BY <2>2, <2>3
    <3>3. OwnerAt(p, j) = d /\ ScriptsAt(p, j) = ManifestOf(features[p], d).scripts
      BY <3>1, <3>2 DEF OwnerAt, ScriptsAt
    <3> QED  BY <2>1, <3>2, <3>3 DEF TurnInv
  <2> QED  BY <2>4, <2>5
<1>2. ASSUME NEW p \in Platforms, Cyclic(p)
      PROVE  \E C \in (SUBSET Installed(features[p])) \ {{}} :
                \A c \in C : DependenciesOf(features[p], c) \cap C /= {}
  <2>1. WalkFits(features[p], frames[p], ordered[p]) /\ IsList(frames[p])
    BY DEF BuildInv, GraphInv, WalkFits
  <2>2. /\ frames[p] /= <<>> /\ Last(frames[p]).left /= <<>>
        /\ Head(Last(frames[p]).left) \in OnPath(p)
    BY <1>2 DEF Cyclic, Follows, Top
  <2>3. PICK k \in 1 .. Len(frames[p]) : frames[p][k].id = Head(Last(frames[p]).left)
    BY <2>1, <2>2, ListFacts DEF OnPath
  <2> QED  BY <2>1, <2>2, <2>3, PathIsACircle
<1> QED  BY <1>1, <1>2 DEF DependenciesFirst

\* For any builds, core schema and dependency graph, any number of processes over
\* one database, and wherever one fails or crashes: a platform that is ready finds
\* its build migrated, no feature is migrated before what it depends on, and only
\* a graph with a circle is refused as one.
THEOREM BuildsAlwaysMigrated == StartSpec => []BuildIsMigrated
<1>1. StartInit => StartupInv /\ BuildInv  BY StartupInitially, BuildInitially
<1>2. StartupInv /\ BuildInv /\ [StartNext]_startVars => (StartupInv /\ BuildInv)'
  BY StartupStep, BuildStep
<1>3. StartupInv /\ BuildInv => BuildIsMigrated
  BY ReadyIsDone, OrderIsKept DEF BuildIsMigrated
<1> QED  BY <1>1, <1>2, <1>3, PTL DEF StartSpec
=============================================================================
