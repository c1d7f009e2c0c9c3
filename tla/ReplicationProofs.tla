------------------------- MODULE ReplicationProofs --------------------------
(***************************************************************************)
(* Proofs about Replication: for every number of envelopes, peers, runs    *)
(* and passes, every limit and every number of faults.                     *)
(***************************************************************************)
EXTENDS Replication, SequenceTheorems, TLAPS

USE OutboxAssumption, InboxAssumption, TransportAssumption

-----------------------------------------------------------------------------
(* The types. *)

\* A run that dispatches or reports has an entry to do it with.
EntryInv == \A r \in Runs :
  run[r].pc \in {"send", "sent", "unsent"} => run[r].entry \in Envelopes

Types == TypeOK /\ EntryInv

SenderTypes ==
  /\ outbox \in [Envelopes -> OutboxRow]
  /\ task \in {"idle", "queued", "interrupted"} \cup Runs
  /\ tries \in Nat /\ faults \in 0..MaxFaults
  /\ run \in [Runs -> Run] /\ EntryInv

ReceiverTypes ==
  /\ inbox \in [Peers -> [Envelopes -> InboxRow]]
  /\ pass \in [Peers -> [Passes -> Pass]]
  /\ applied \in [Peers -> [Envelopes -> Nat]]
  /\ forgot \in [Peers -> SUBSET Envelopes]
  /\ pruned \in [Peers -> SUBSET Envelopes]

TransportTypes ==
  /\ wire \subseteq Frame
  /\ channel \in [Peers -> Seq(Envelopes)]
  /\ handling \in [Peers -> SUBSET Envelopes]
  /\ reached \in [Peers -> SUBSET Envelopes]
  /\ lost \in [Peers -> SUBSET Envelopes]

\* The types fall apart into those of the sender, the receivers and the transport.
LEMMA TypesSplit ==
  /\ Types <=> SenderTypes /\ ReceiverTypes /\ TransportTypes
  /\ Types' <=> SenderTypes' /\ ReceiverTypes' /\ TransportTypes'
BY Zenon DEF Types, TypeOK, SenderTypes, ReceiverTypes, TransportTypes

\* The updates of a run's record keep its type.
LEMMA RunRecord ==
  ASSUME NEW x \in Run
  PROVE  /\ \A pc \in RunPc : [x EXCEPT !.pc = pc] \in Run
         /\ [x EXCEPT !.acked = TRUE] \in Run /\ [x EXCEPT !.aborted = TRUE] \in Run
         /\ \A p \in Peers : [x EXCEPT !.peer = p] \in Run
         /\ \A b \in SUBSET Envelopes : [x EXCEPT !.pc = "next", !.batch = b] \in Run
         /\ \A e \in Envelopes :
              [x EXCEPT !.pc = "send", !.entry = e, !.batch = @ \ {e}, !.todo = Peers] \in Run
         /\ \A p : [x EXCEPT !.todo = @ \ {p}, !.peer = NoPeer, !.acked = FALSE] \in Run
         /\ [x EXCEPT !.pc = "unsent", !.todo = {}, !.peer = NoPeer, !.acked = FALSE] \in Run
         /\ \A d, f \in BOOLEAN : [x EXCEPT !.pc = "next", !.entry = NoEnvelope,
                                            !.dispatched = d, !.failed = f] \in Run
BY DEF Run, RunPc

\* The initial state has its type.
LEMMA InitTypes == Init => Types
<1> SUFFICES ASSUME Init PROVE Types
  OBVIOUS
<1>1. SenderTypes
  BY DEF Init, OutboxInit, SenderTypes, OutboxRow, Statuses, Run, RunPc, NoRun, EntryInv
<1>2. ReceiverTypes
  BY DEF Init, InboxInit, ReceiverTypes, InboxRow, NoRow, Pass, NoPass
<1>3. TransportTypes
  BY DEF Init, TransportTypes
<1>4. QED
  BY <1>1, <1>2, <1>3, TypesSplit

\* A fault counts up to its budget.
LEMMA FaultType == ASSUME faults \in 0..MaxFaults, Fault PROVE faults' \in 0..MaxFaults
BY DEF Fault

\* What a step does to one run keeps the type of all of them.
LEMMA RunUpdate ==
  ASSUME run \in [Runs -> Run], EntryInv, NEW r \in Runs, NEW x \in Run,
         x.pc \in {"send", "sent", "unsent"} => x.entry \in Envelopes,
         run' = [run EXCEPT ![r] = x]
  PROVE  run' \in [Runs -> Run] /\ EntryInv'
BY DEF EntryInv

\* Steps of the outbox on its own.
LEMMA OutboxStepTypes == SenderTypes /\ OutboxStep => SenderTypes'
<1> SUFFICES ASSUME SenderTypes, OutboxStep PROVE SenderTypes'
  OBVIOUS
<1> USE DEF SenderTypes
<1>1. CASE \E e \in Envelopes : Enqueue(e)
  BY <1>1 DEF Enqueue, OutboxRow, Statuses, EntryInv
<1>2. CASE EnqueueSync
  BY <1>2 DEF EnqueueSync, EntryInv
<1>3. CASE Tick
  BY <1>3 DEF Tick, EnqueueSync, outboxVars, EntryInv
<1>4. CASE CancelSync
  BY <1>4, FaultType DEF CancelSync, EntryInv
<1>5. CASE \E S \in SUBSET Envelopes : PruneOutbox(S)
  BY <1>5 DEF PruneOutbox, OutboxRow, Statuses, EntryInv
<1>6. CASE \E r \in Runs : Abort(r)
  <2>1. PICK r \in Runs : Abort(r)
    BY <1>6
  <2>2. [run[r] EXCEPT !.aborted = TRUE] \in Run
    BY DEF Run
  <2>3. run' = [run EXCEPT ![r] = [run[r] EXCEPT !.aborted = TRUE]]
    BY <2>1 DEF Abort
  <2>4. run' \in [Runs -> Run] /\ EntryInv'
    BY <2>2, <2>3, RunUpdate DEF EntryInv, Run
  <2>5. QED
    BY <2>1, <2>4, FaultType DEF Abort
<1>7. CASE \E r \in Runs : MarkSentFails(r)
  <2>1. PICK r \in Runs : MarkSentFails(r)
    BY <1>7
  <2>2. [run[r] EXCEPT !.pc = "unsent"] \in Run
    BY DEF Run, RunPc
  <2>3. run' = [run EXCEPT ![r] = [run[r] EXCEPT !.pc = "unsent"]]
    BY <2>1 DEF MarkSentFails, Go
  <2>4. run' \in [Runs -> Run] /\ EntryInv'
    BY <2>1, <2>2, <2>3, RunUpdate DEF EntryInv, Run, MarkSentFails
  <2>5. QED
    BY <2>1, <2>4, FaultType DEF MarkSentFails
<1>8. CASE \E r \in Runs : Unreported(r)
  <2>1. PICK r \in Runs : Unreported(r)
    BY <1>8
  <2>2. NoRun \in Run
    BY DEF NoRun, Run, RunPc
  <2>3. run' = [run EXCEPT ![r] = NoRun]
    BY <2>1 DEF Unreported
  <2>4. run' \in [Runs -> Run] /\ EntryInv'
    BY <2>2, <2>3, RunUpdate DEF NoRun
  <2>5. QED
    BY <2>1, <2>4, FaultType DEF Unreported
<1>9. QED
  BY <1>1, <1>2, <1>3, <1>4, <1>5, <1>6, <1>7, <1>8 DEF OutboxStep

\* Steps of a run that is leased, and of its handler.
LEMMA HandlerStepTypes ==
  ASSUME SenderTypes, NEW r \in Runs, Lease(r) \/ HandlerStep(r)
  PROVE  SenderTypes'
<1> USE DEF SenderTypes
<1>1. NoRun \in Run
  BY DEF NoRun, Run, RunPc
<1>2. CASE Lease(r)
  <2>1. [NoRun EXCEPT !.pc = "load"] \in Run
    BY DEF NoRun, Run, RunPc
  <2>2. run' = [run EXCEPT ![r] = [NoRun EXCEPT !.pc = "load"]]
    BY <1>2 DEF Lease
  <2>3. run' \in [Runs -> Run] /\ EntryInv'
    BY <2>1, <2>2, RunUpdate DEF NoRun
  <2>4. QED
    BY <1>2, <2>3 DEF Lease
<1>3. ASSUME Return(r) \/ \E permanent \in BOOLEAN : Throw(r, permanent),
             UNCHANGED outbox, faults' \in 0..MaxFaults
      PROVE  SenderTypes'
  <2>1. run' = [run EXCEPT ![r] = NoRun]
    BY <1>3 DEF Return, Throw
  <2>2. run' \in [Runs -> Run] /\ EntryInv'
    BY <1>1, <2>1, RunUpdate DEF NoRun
  <2>3. QED
    BY <1>3, <2>2 DEF Return, Throw
<1>4. CASE Load(r)
  <2>1. [run[r] EXCEPT !.pc = "next", !.batch = Oldest] \in Run
    BY DEF Run, RunPc, Oldest, Pending
  <2>2. run' = [run EXCEPT ![r] = [run[r] EXCEPT !.pc = "next", !.batch = Oldest]]
    BY <1>4 DEF Load
  <2>3. run' \in [Runs -> Run] /\ EntryInv'
    BY <2>1, <2>2, RunUpdate DEF Run
  <2>4. QED
    BY <1>4, <2>3 DEF Load
<1>5. CASE LoadFails(r)
  BY <1>3, <1>5, FaultType DEF LoadFails
<1>6. CASE Take(r)
  <2>1. PICK e \in run[r].batch :
          run' = [run EXCEPT ![r].pc = "send", ![r].entry = e,
                             ![r].batch = @ \ {e}, ![r].todo = Peers]
    BY <1>6 DEF Take
  <2>2. e \in Envelopes
    BY DEF Run
  <2> DEFINE x == [run[r] EXCEPT !.pc = "send", !.entry = e, !.batch = @ \ {e}, !.todo = Peers]
  <2>3. x \in Run
    BY <2>2, RunRecord
  <2>4. run' = [run EXCEPT ![r] = x] /\ x.entry = e
    BY <2>1 DEF Run
  <2> HIDE DEF x
  <2>5. run' \in [Runs -> Run] /\ EntryInv'
    BY <2>2, <2>3, <2>4, RunUpdate
  <2>6. QED
    BY <1>6, <2>5 DEF Take
<1>7. CASE Finish(r)
  BY <1>3, <1>7 DEF Finish
<1>8. ASSUME NEW d \in BOOLEAN, NEW f \in BOOLEAN, EndEntry(r, d, f)
      PROVE  run' \in [Runs -> Run] /\ EntryInv'
  <2> DEFINE dd == run[r].dispatched \/ d
             ff == run[r].failed \/ f
             x == [run[r] EXCEPT !.pc = "next", !.entry = NoEnvelope,
                                 !.dispatched = dd, !.failed = ff]
  <2>1. x.pc = "next" /\ run' = [run EXCEPT ![r] = x]
    BY <1>8 DEF EndEntry, Run
  <2>2. dd \in BOOLEAN /\ ff \in BOOLEAN
    OBVIOUS
  <2> HIDE DEF dd, ff
  <2>3. x \in Run
    BY <2>2, RunRecord
  <2> HIDE DEF x
  <2>4. QED
    BY <2>1, <2>3, RunUpdate
<1>9. CASE MarkSent(r)
  BY <1>8, <1>9 DEF MarkSent, OutboxRow, Statuses
<1>10. CASE MarkFailed(r)
  <2> DEFINE e == run[r].entry
             n == outbox[e].attempts + 1
             x == [status |-> IF n >= MaxSends THEN "FAILED" ELSE "PENDING", attempts |-> n]
  <2>1. e \in Envelopes /\ outbox' \in {outbox, [outbox EXCEPT ![e] = x]}
    BY <1>10 DEF MarkFailed, EntryInv
  <2>2. outbox[e] \in OutboxRow
    BY <2>1
  <2> HIDE DEF e
  <2>3. n \in Nat
    BY <2>2 DEF OutboxRow
  <2>4. x \in OutboxRow
    BY <2>3 DEF OutboxRow, Statuses
  <2> HIDE DEF x
  <2>5. outbox' \in [Envelopes -> OutboxRow]
    BY <2>1, <2>4
  <2>6. QED
    BY <1>8, <1>10, <2>5 DEF MarkFailed
<1>11. CASE MarkFailedSkipped(r)
  BY <1>3, <1>11, FaultType DEF MarkFailedSkipped
<1>12. QED
  BY <1>2, <1>4, <1>5, <1>6, <1>7, <1>9, <1>10, <1>11 DEF HandlerStep

\* Dispatching an entry.
LEMMA DispatchStepTypes ==
  ASSUME SenderTypes, TransportTypes, NEW r \in Runs, DispatchStep(r)
  PROVE  SenderTypes' /\ TransportTypes'
<1> USE DEF SenderTypes, TransportTypes
<1>1. ASSUME NEW p \in Peers, Send(r, p) PROVE SenderTypes' /\ TransportTypes'
  <2>1. [sender |-> r, envelope |-> run[r].entry, peer |-> p] \in Frame
    BY <1>1 DEF Send, EntryInv, Frame
  <2>2. [run[r] EXCEPT !.peer = p] \in Run
    BY RunRecord
  <2>3. run' = [run EXCEPT ![r] = [run[r] EXCEPT !.peer = p]]
    BY <1>1 DEF Send
  <2>4. run' \in [Runs -> Run] /\ EntryInv'
    BY <2>2, <2>3, RunUpdate DEF Run, EntryInv
  <2>5. QED
    BY <1>1, <2>1, <2>4 DEF Send
<1>2. CASE Acknowledged(r)
  <2> DEFINE x == [run[r] EXCEPT !.todo = @ \ {run[r].peer}, !.peer = NoPeer, !.acked = FALSE]
  <2>1. x \in Run
    BY RunRecord
  <2>2. x.pc = run[r].pc /\ x.entry = run[r].entry
    BY DEF Run
  <2>3. run' = [run EXCEPT ![r] = x]
    BY <1>2 DEF Acknowledged
  <2> HIDE DEF x
  <2>4. run' \in [Runs -> Run] /\ EntryInv'
    BY <2>1, <2>2, <2>3, RunUpdate DEF EntryInv
  <2>5. QED
    BY <1>2, <2>4 DEF Acknowledged, transportVars
<1>3. CASE DispatchResolves(r)
  <2>1. [run[r] EXCEPT !.pc = "sent"] \in Run
    BY RunRecord DEF RunPc
  <2>2. run' = [run EXCEPT ![r] = [run[r] EXCEPT !.pc = "sent"]]
    BY <1>3 DEF DispatchResolves, Go
  <2>3. run' \in [Runs -> Run] /\ EntryInv'
    BY <1>3, <2>1, <2>2, RunUpdate DEF EntryInv, Run, DispatchResolves
  <2>4. QED
    BY <1>3, <2>3 DEF DispatchResolves, transportVars
<1>4. CASE DispatchRejects(r)
  <2> DEFINE x == [run[r] EXCEPT !.pc = "unsent", !.todo = {}, !.peer = NoPeer, !.acked = FALSE]
  <2>1. x \in Run
    BY RunRecord
  <2>2. x.entry = run[r].entry
    BY DEF Run
  <2>3. run' = [run EXCEPT ![r] = x]
    BY <1>4 DEF DispatchRejects
  <2> HIDE DEF x
  <2>4. run' \in [Runs -> Run] /\ EntryInv'
    BY <1>4, <2>1, <2>2, <2>3, RunUpdate DEF EntryInv, DispatchRejects
  <2>5. wire' \subseteq Frame
    <3>1. \A f \in wire : f \in Frame /\ [f EXCEPT !.sender = NoSender] \in Frame
      BY DEF Frame
    <3>2. QED
      BY <1>4, <3>1 DEF DispatchRejects, Abandon
  <2>6. QED
    BY <1>4, <2>4, <2>5 DEF DispatchRejects
<1>5. QED
  BY <1>1, <1>2, <1>3, <1>4 DEF DispatchStep

\* The receiving endpoint, the webview above it, and restarts.
LEMMA ReceiveTypes ==
  ASSUME ReceiverTypes, NEW p \in Peers, NEW e \in Envelopes, Receive(p, e)
  PROVE  ReceiverTypes'
<1>1. PICK x \in InboxRow : inbox' \in {inbox, [inbox EXCEPT ![p][e] = x]}
  <2>1. PICK v \in {"VERIFIED", "REJECTED"} :
          inbox' \in {inbox, [inbox EXCEPT ![p][e] = [verification |-> v, apply |-> "PENDING"]]}
    BY Zenon DEF Receive
  <2>2. [verification |-> v, apply |-> "PENDING"] \in InboxRow
    BY DEF InboxRow
  <2>3. QED
    BY <2>1, <2>2
<1>2. inbox \in [Peers -> [Envelopes -> InboxRow]] /\ inbox[p] \in [Envelopes -> InboxRow]
  BY DEF ReceiverTypes
<1>3. [inbox[p] EXCEPT ![e] = x] \in [Envelopes -> InboxRow]
  BY <1>2
<1>4. inbox' \in [Peers -> [Envelopes -> InboxRow]]
  BY <1>1, <1>2, <1>3
<1>5. QED
  BY <1>4 DEF ReceiverTypes, Receive

\* Frames that are accepted or lost, and events that are emitted and handled.
LEMMA TransportStepTypes ==
  ASSUME Types,
         \/ \E f \in wire : Accept(f) \/ LoseFrame(f)
         \/ \E p \in Peers, e \in Envelopes : Handle(p, e) \/ HandleFails(p, e)
         \/ \E p \in Peers : Emit(p)
  PROVE  Types'
<1> SenderTypes /\ ReceiverTypes /\ TransportTypes
  BY TypesSplit
<1>1. CASE \E f \in wire : Accept(f)
  <2>1. PICK f \in wire : Accept(f)
    BY <1>1
  <2>2. f \in Frame
    BY DEF TransportTypes
  <2>3. TransportTypes'
    BY <2>1, <2>2 DEF Accept, TransportTypes, Frame
  <2>4. CASE f.sender = NoSender
    BY <2>1, <2>3, <2>4, TypesSplit DEF Accept, inboxVars, ReceiverTypes, SenderTypes, EntryInv
  <2>5. CASE f.sender # NoSender
    <3>1. f.sender \in Runs
      BY <2>2, <2>5 DEF Frame
    <3>2. [run[f.sender] EXCEPT !.acked = TRUE] \in Run
      BY <3>1, RunRecord DEF SenderTypes
    <3>3. run' = [run EXCEPT ![f.sender] = [run[f.sender] EXCEPT !.acked = TRUE]]
      BY <2>1, <2>5, <3>1 DEF Accept
    <3>4. run' \in [Runs -> Run] /\ EntryInv'
      BY <3>1, <3>2, <3>3, RunUpdate DEF SenderTypes, EntryInv, Run
    <3>5. QED
      BY <2>1, <2>3, <3>4, TypesSplit DEF Accept, inboxVars, ReceiverTypes, SenderTypes
  <2>6. QED
    BY <2>4, <2>5
<1>2. CASE \E f \in wire : LoseFrame(f)
  BY <1>2, FaultType, TypesSplit
     DEF LoseFrame, inboxVars, ReceiverTypes, SenderTypes, TransportTypes, EntryInv
<1>3. CASE \E p \in Peers, e \in Envelopes : Handle(p, e)
  <2>1. PICK p \in Peers, e \in Envelopes : Handle(p, e)
    BY <1>3
  <2>2. ReceiverTypes'
    BY <2>1, ReceiveTypes DEF Handle
  <2>3. QED
    BY <2>1, <2>2, TypesSplit DEF Handle, outboxVars, SenderTypes, TransportTypes, EntryInv
<1>4. CASE \E p \in Peers, e \in Envelopes : HandleFails(p, e)
  BY <1>4, FaultType, TypesSplit
     DEF HandleFails, inboxVars, ReceiverTypes, SenderTypes, TransportTypes, EntryInv
<1>5. CASE \E p \in Peers : Emit(p)
  <2>1. PICK p \in Peers : Emit(p)
    BY <1>5
  <2>2. Head(channel[p]) \in Envelopes /\ Tail(channel[p]) \in Seq(Envelopes)
    BY <2>1, HeadTailProperties DEF Emit, TransportTypes
  <2>3. TransportTypes'
    BY <2>1, <2>2 DEF Emit, TransportTypes
  <2>4. QED
    BY <2>1, <2>3, TypesSplit DEF Emit, outboxVars, inboxVars, SenderTypes, ReceiverTypes, EntryInv
<1>6. QED
  BY <1>1, <1>2, <1>3, <1>4, <1>5

\* What a step does to one pass, and to a row of the inbox, keeps their types.
LEMMA PassUpdate ==
  ASSUME ReceiverTypes, NEW p \in Peers, NEW k \in Passes, NEW x \in Pass,
         pass' = [pass EXCEPT ![p][k] = x]
  PROVE  pass' \in [Peers -> [Passes -> Pass]]
<1>1. pass \in [Peers -> [Passes -> Pass]] /\ [pass[p] EXCEPT ![k] = x] \in [Passes -> Pass]
  BY DEF ReceiverTypes
<1>2. QED
  BY <1>1

\* So does an update of the apply_status of one row.
LEMMA RowUpdate ==
  ASSUME ReceiverTypes, NEW p \in Peers, NEW e \in Envelopes,
         NEW a \in {"NONE", "PENDING", "APPLIED", "CONFLICT", "FAILED"},
         inbox' = [inbox EXCEPT ![p][e].apply = a]
  PROVE  inbox' \in [Peers -> [Envelopes -> InboxRow]]
<1> DEFINE x == [inbox[p][e] EXCEPT !.apply = a]
<1>1. inbox \in [Peers -> [Envelopes -> InboxRow]] /\ inbox[p][e] \in InboxRow
  BY DEF ReceiverTypes
<1>2. x \in InboxRow
  BY <1>1 DEF InboxRow
<1>3. inbox' = [inbox EXCEPT ![p] = [inbox[p] EXCEPT ![e] = x]]
  OBVIOUS
<1> HIDE DEF x
<1>4. [inbox[p] EXCEPT ![e] = x] \in [Envelopes -> InboxRow]
  BY <1>1, <1>2
<1>5. QED
  BY <1>1, <1>3, <1>4

\* Steps of a pass.
LEMMA PassOnType ==
  ASSUME ReceiverTypes, NEW p \in Peers, NEW k \in Passes, PassOn(p, k)
  PROVE  pass' \in [Peers -> [Passes -> Pass]]
<1> DEFINE rest == pass[p][k].rows \ {pass[p][k].entry}
           x == IF rest = {} THEN NoPass
                ELSE [pc |-> "apply", rows |-> rest, entry |-> NoEnvelope]
<1>1. x \in Pass
  <2>1. pass[p][k] \in Pass
    BY DEF ReceiverTypes
  <2>2. rest \in SUBSET Envelopes
    BY <2>1 DEF Pass
  <2> HIDE DEF rest
  <2>3. QED
    BY <2>2 DEF NoPass, Pass
<1>2. pass' = [pass EXCEPT ![p][k] = x]
  BY DEF PassOn
<1> HIDE DEF x
<1>3. QED
  BY <1>1, <1>2, PassUpdate

\* Each of the four steps of a pass.
LEMMA PassStepTypes ==
  ASSUME ReceiverTypes, NEW p \in Peers, NEW k \in Passes,
         PassRead(p, k) \/ PassApply(p, k) \/ PassMark(p, k) \/ PassMarkFails(p, k)
  PROVE  ReceiverTypes'
<1>1. pass[p][k] \in Pass
  BY DEF ReceiverTypes
<1>2. CASE PassRead(p, k)
  <2>1. PICK x : x = [NoPass EXCEPT !.pc = "apply", !.rows = Applicable(p)]
    OBVIOUS
  <2>2. x \in Pass
    BY <2>1 DEF NoPass, Pass, Applicable
  <2>3. pass' = [pass EXCEPT ![p][k] = x]
    BY <1>2, <2>1 DEF PassRead
  <2>4. QED
    BY <1>2, <2>2, <2>3, PassUpdate DEF PassRead, ReceiverTypes
<1>3. CASE PassApply(p, k)
  <2>1. PICK e \in Envelopes, pc \in {"mark", "conflict", "fail"} :
          /\ pass' = [pass EXCEPT ![p][k].pc = pc, ![p][k].entry = e]
          /\ applied' \in {applied, [applied EXCEPT ![p][e] = @ + 1]}
    BY <1>1, <1>3 DEF PassApply, Pass
  <2>2. PICK x : x = [pass[p][k] EXCEPT !.pc = pc, !.entry = e]
    OBVIOUS
  <2>3. x \in Pass
    BY <1>1, <2>2 DEF Pass
  <2>4. pass' = [pass EXCEPT ![p][k] = x]
    <3>1. PICK y : y = [pass EXCEPT ![p][k].pc = pc]
      OBVIOUS
    <3>2. y = [pass EXCEPT ![p] = [pass[p] EXCEPT ![k] = [pass[p][k] EXCEPT !.pc = pc]]]
      BY <3>1
    <3>3. y[p][k] = [pass[p][k] EXCEPT !.pc = pc]
      BY <3>2 DEF ReceiverTypes
    <3>4. x = [y[p][k] EXCEPT !.entry = e]
      BY <2>2, <3>3
    <3>5. pass' = [y EXCEPT ![p][k].entry = e]
      BY <2>1, <3>1
    <3>6. pass' = [y EXCEPT ![p] = [y[p] EXCEPT ![k] = x]]
      BY <3>4, <3>5
    <3>7. [y[p] EXCEPT ![k] = x] = [pass[p] EXCEPT ![k] = x]
      BY <3>2 DEF ReceiverTypes
    <3>8. QED
      BY <3>2, <3>6, <3>7 DEF ReceiverTypes
  <2>5. applied' \in [Peers -> [Envelopes -> Nat]]
    <3>1. applied[p][e] + 1 \in Nat /\ applied[p] \in [Envelopes -> Nat]
      BY DEF ReceiverTypes
    <3>2. [applied[p] EXCEPT ![e] = @ + 1] \in [Envelopes -> Nat]
      BY <3>1
    <3>3. QED
      BY <2>1, <3>2 DEF ReceiverTypes
  <2>6. QED
    BY <1>3, <2>3, <2>4, <2>5, PassUpdate DEF PassApply, ReceiverTypes
<1>4. CASE PassMark(p, k)
  <2>1. PICK a \in {"NONE", "PENDING", "APPLIED", "CONFLICT", "FAILED"} :
          inbox' = [inbox EXCEPT ![p][pass[p][k].entry].apply = a]
    BY <1>4 DEF PassMark
  <2>2. inbox' \in [Peers -> [Envelopes -> InboxRow]]
    <3>1. CASE pass[p][k].entry \in Envelopes
      BY <2>1, <3>1, RowUpdate
    <3>2. CASE pass[p][k].entry \notin Envelopes
      <4>1. inbox \in [Peers -> [Envelopes -> InboxRow]] /\ inbox[p] \in [Envelopes -> InboxRow]
        BY DEF ReceiverTypes
      <4>2. inbox' = inbox
        BY <2>1, <3>2, <4>1
      <4>3. QED
        BY <4>1, <4>2
    <3>3. QED
      BY <3>1, <3>2
  <2>3. QED
    BY <1>4, <2>2, PassOnType DEF PassMark, ReceiverTypes
<1>5. CASE PassMarkFails(p, k)
  <2>1. PICK x : x = [pass[p][k] EXCEPT !.pc = "fail"]
    OBVIOUS
  <2>2. x \in Pass /\ NoPass \in Pass
    BY <1>1, <2>1 DEF Pass, NoPass
  <2>3. \/ pass' = [pass EXCEPT ![p][k] = x] /\ forgot' = forgot
        \/ pass' = [pass EXCEPT ![p][k] = NoPass]
    BY <1>5, <2>1 DEF PassMarkFails, ReceiverTypes
  <2>4. pass' \in [Peers -> [Passes -> Pass]]
    BY <2>2, <2>3, PassUpdate
  <2>5. forgot' \in [Peers -> SUBSET Envelopes]
    <3>1. PICK F \in SUBSET Envelopes : forgot' \in {forgot, [forgot EXCEPT ![p] = @ \cup F]}
      BY <1>5 DEF PassMarkFails
    <3>2. forgot \in [Peers -> SUBSET Envelopes] /\ forgot[p] \cup F \in SUBSET Envelopes
      BY DEF ReceiverTypes
    <3>3. QED
      BY <3>1, <3>2
  <2>6. QED
    BY <1>5, <2>4, <2>5 DEF PassMarkFails, ReceiverTypes
<1>6. QED
  BY <1>2, <1>3, <1>4, <1>5

\* Pruning and restarts.
LEMMA PruneInboxTypes ==
  ASSUME ReceiverTypes, NEW p \in Peers, NEW S \in SUBSET Envelopes, PruneInbox(p, S)
  PROVE  ReceiverTypes'
<1>1. /\ inbox \in [Peers -> [Envelopes -> InboxRow]] /\ NoRow \in InboxRow
      /\ pruned \in [Peers -> SUBSET Envelopes] /\ pruned[p] \cup S \in SUBSET Envelopes
  BY DEF ReceiverTypes, InboxRow, NoRow
<1>2. [e \in Envelopes |-> IF e \in S THEN NoRow ELSE inbox[p][e]] \in [Envelopes -> InboxRow]
  BY <1>1
<1>3. inbox' = [inbox EXCEPT ![p] =
                  [e \in Envelopes |-> IF e \in S THEN NoRow ELSE inbox[p][e]]]
  BY DEF PruneInbox
<1>4. inbox' \in [Peers -> [Envelopes -> InboxRow]]
  BY <1>1, <1>2, <1>3
<1>5. pruned' \in [Peers -> SUBSET Envelopes]
  BY <1>1 DEF PruneInbox
<1>6. QED
  BY <1>4, <1>5 DEF PruneInbox, ReceiverTypes

\* A peer that restarts has no passes and keeps its table.
LEMMA InboxRestartTypes ==
  ASSUME ReceiverTypes, NEW p \in Peers, InboxRestart(p)
  PROVE  ReceiverTypes'
<1>1. PICK F \in SUBSET Envelopes : forgot' = [forgot EXCEPT ![p] = @ \cup F]
  BY DEF InboxRestart
<1>2. forgot \in [Peers -> SUBSET Envelopes] /\ forgot[p] \cup F \in SUBSET Envelopes
  BY DEF ReceiverTypes
<1>3. forgot' \in [Peers -> SUBSET Envelopes]
  BY <1>1, <1>2
<1>4. [k \in Passes |-> NoPass] \in [Passes -> Pass]
  BY DEF NoPass, Pass
<1>5. QED
  BY <1>3, <1>4 DEF InboxRestart, ReceiverTypes

\* Restarts of the sender and of a peer, and the stop of an endpoint.
LEMMA RestartTypes ==
  ASSUME Types, SenderRestart \/ \E p \in Peers : PeerRestart(p) \/ StopEndpoint(p)
  PROVE  Types'
<1> SenderTypes /\ ReceiverTypes /\ TransportTypes
  BY TypesSplit
<1>1. CASE SenderRestart
  <2>1. [r \in Runs |-> NoRun] \in [Runs -> Run]
    BY DEF NoRun, Run, RunPc
  <2>2. EntryInv'
    BY <1>1 DEF SenderRestart, Restart, EntryInv, NoRun
  <2>3. SenderTypes'
    BY <1>1, <2>1, <2>2, FaultType DEF SenderRestart, Restart, SenderTypes
  <2>4. wire' \subseteq Frame
    <3>1. \A f \in wire : [f EXCEPT !.sender = NoSender] \in Frame
      BY DEF TransportTypes, Frame
    <3>2. QED
      BY <1>1, <3>1 DEF SenderRestart
  <2>5. QED
    BY <1>1, <2>3, <2>4, TypesSplit
       DEF SenderRestart, inboxVars, ReceiverTypes, TransportTypes
<1>2. ASSUME NEW p \in Peers, PeerRestart(p) PROVE Types'
  <2>1. ReceiverTypes'
    BY <1>2, InboxRestartTypes DEF PeerRestart
  <2>2. SenderTypes'
    BY <1>2, FaultType DEF PeerRestart, SenderTypes, EntryInv
  <2>3. PICK L \in SUBSET Envelopes : lost' = [lost EXCEPT ![p] = L]
    <3>1. channel[p] \in Seq(Envelopes) /\ lost[p] \cup handling[p] \in SUBSET Envelopes
      BY DEF TransportTypes
    <3>2. {channel[p][i] : i \in 1..Len(channel[p])} \in SUBSET Envelopes
      BY <3>1, ElementOfSeq
    <3>3. QED
      BY <1>2, <3>1, <3>2 DEF PeerRestart
  <2>4. lost' \in [Peers -> SUBSET Envelopes]
    BY <2>3 DEF TransportTypes
  <2>5. <<>> \in Seq(Envelopes)
    OBVIOUS
  <2>6. TransportTypes'
    BY <1>2, <2>4, <2>5 DEF PeerRestart, TransportTypes
  <2>7. QED
    BY <2>1, <2>2, <2>6, TypesSplit
<1>3. ASSUME NEW p \in Peers, StopEndpoint(p) PROVE Types'
  <2>1. ReceiverTypes'
    BY <1>3 DEF StopEndpoint, inboxVars, ReceiverTypes
  <2>2. SenderTypes'
    BY <1>3, FaultType DEF StopEndpoint, SenderTypes, EntryInv
  <2>3. PICK unheard \in SUBSET handling[p] :
          /\ handling' = [handling EXCEPT ![p] = @ \ unheard]
          /\ lost' = [lost EXCEPT ![p] = @ \cup unheard
                                       \cup {channel[p][i] : i \in 1..Len(channel[p])}]
    BY <1>3 DEF StopEndpoint
  <2>4. channel[p] \in Seq(Envelopes) /\ handling[p] \in SUBSET Envelopes
    BY DEF TransportTypes
  <2>5. {channel[p][i] : i \in 1..Len(channel[p])} \in SUBSET Envelopes
    BY <2>4, ElementOfSeq
  <2>6. lost' \in [Peers -> SUBSET Envelopes] /\ handling' \in [Peers -> SUBSET Envelopes]
    BY <2>3, <2>4, <2>5 DEF TransportTypes
  <2>7. <<>> \in Seq(Envelopes)
    OBVIOUS
  <2>8. TransportTypes'
    BY <1>3, <2>6, <2>7 DEF StopEndpoint, TransportTypes
  <2>9. QED
    BY <2>1, <2>2, <2>8, TypesSplit
<1>4. QED
  BY <1>1, <1>2, <1>3

\* The types are inductive.
LEMMA NextTypes == Types /\ [Next]_vars => Types'
<1> SUFFICES ASSUME Types, [Next]_vars PROVE Types'
  OBVIOUS
<1> SenderTypes /\ ReceiverTypes /\ TransportTypes
  BY TypesSplit
<1>1. CASE UNCHANGED vars
  BY <1>1 DEF vars, Types, TypeOK, EntryInv
<1>2. UNCHANGED inboxVars => ReceiverTypes'
  BY DEF inboxVars, ReceiverTypes
<1>3. UNCHANGED transportVars => TransportTypes'
  BY DEF transportVars, TransportTypes
<1>4. UNCHANGED outboxVars => SenderTypes'
  BY DEF outboxVars, SenderTypes, EntryInv
<1>5. CASE OutboxStep /\ SenderOnly
  BY <1>2, <1>3, <1>5, OutboxStepTypes, TypesSplit DEF SenderOnly
<1>6. ASSUME NEW r \in Runs, RunStep(r) PROVE Types'
  <2>1. CASE DispatchStep(r)
    <3>1. UNCHANGED inboxVars
      BY <2>1 DEF DispatchStep, Send, Acknowledged, DispatchResolves, DispatchRejects
    <3>2. QED
      BY <1>2, <2>1, <3>1, DispatchStepTypes, TypesSplit
  <2>2. CASE (Lease(r) \/ HandlerStep(r)) /\ SenderOnly
    BY <1>2, <1>3, <2>2, HandlerStepTypes, TypesSplit DEF SenderOnly
  <2>3. QED
    BY <1>6, <2>1, <2>2 DEF RunStep
<1>7. ASSUME NEW p \in Peers, NEW k \in Passes, PassStep(p, k) PROVE Types'
  BY <1>3, <1>4, <1>7, PassStepTypes, TypesSplit DEF PassStep, ReceiverOnly
<1>8. ASSUME NEW p \in Peers, NEW S \in SUBSET Envelopes, PruneInbox(p, S) /\ ReceiverOnly
      PROVE  Types'
  BY <1>3, <1>4, <1>8, PruneInboxTypes, TypesSplit DEF ReceiverOnly
<1>9. ASSUME NEW p \in Peers, InboxFault(p) PROVE Types'
  <2>1. ReceiverTypes'
    BY <1>9, PassStepTypes DEF InboxFault
  <2>2. SenderTypes'
    BY <1>9, FaultType DEF InboxFault, SenderTypes, EntryInv
  <2>3. QED
    BY <1>3, <1>9, <2>1, <2>2, TypesSplit DEF InboxFault, transportVars
<1>10. QED
  BY <1>1, <1>5, <1>6, <1>7, <1>8, <1>9, TransportStepTypes, RestartTypes DEF Next

\* Every variable of replication keeps its type: in particular no frame leaves
\* a handler that has no entry, and the channels hold nothing but envelopes.
THEOREM ReplicationTypeCorrect == Spec => []TypeOK
<1>1. Types => TypeOK
  BY DEF Types
<1>2. QED
  BY <1>1, InitTypes, NextTypes, PTL DEF Spec

-----------------------------------------------------------------------------
(* The outbox. *)

\* What a step may do to the outbox table.
Authored(e) ==
  /\ outbox[e].status = "ABSENT"
  /\ outbox' = [outbox EXCEPT ![e].status = "PENDING"]
Pruned(S) ==
  /\ \A e \in S : outbox[e].status = "SENT"
  /\ outbox' = [e \in Envelopes |->
       IF e \in S THEN [outbox[e] EXCEPT !.status = "DELETED"] ELSE outbox[e]]
Sent(r) ==
  /\ run[r].pc = "sent" /\ outbox[run[r].entry].status = "PENDING"
  /\ outbox' = [outbox EXCEPT ![run[r].entry].status = "SENT"]
Counted(r) ==
  LET e == run[r].entry
      n == outbox[e].attempts + 1
  IN  /\ run[r].pc = "unsent" /\ outbox[e].status = "PENDING"
      /\ outbox' = [outbox EXCEPT ![e] =
           [status |-> IF n >= MaxSends THEN "FAILED" ELSE "PENDING", attempts |-> n]]

OutboxChange ==
  \/ UNCHANGED outbox
  \/ \E e \in Envelopes : Authored(e)
  \/ \E S \in SUBSET Envelopes : Pruned(S)
  \/ \E r \in Runs : Sent(r) \/ Counted(r)

\* Every step of the system changes the outbox table in one of those ways.
LEMMA NextOutboxChange == [Next]_vars => OutboxChange
<1> SUFFICES ASSUME [Next]_vars PROVE OutboxChange
  OBVIOUS
<1>1. CASE UNCHANGED vars
  BY <1>1 DEF vars, OutboxChange
<1>2. CASE OutboxStep
  <2>1. CASE \/ EnqueueSync \/ Tick \/ CancelSync
             \/ \E r \in Runs : Abort(r) \/ MarkSentFails(r) \/ Unreported(r)
    BY <2>1 DEF EnqueueSync, Tick, outboxVars, CancelSync, Abort, MarkSentFails, Unreported,
                OutboxChange
  <2>2. CASE \E e \in Envelopes : Enqueue(e)
    BY <2>2 DEF Enqueue, Authored, OutboxChange
  <2>3. CASE \E S \in SUBSET Envelopes : PruneOutbox(S)
    BY <2>3 DEF PruneOutbox, Pruned, OutboxChange
  <2>4. QED
    BY <1>2, <2>1, <2>2, <2>3 DEF OutboxStep
<1>3. ASSUME NEW r \in Runs, RunStep(r) PROVE OutboxChange
  <2>1. CASE DispatchStep(r)
    BY <2>1 DEF DispatchStep, Send, Acknowledged, DispatchResolves, DispatchRejects, OutboxChange
  <2>2. CASE Lease(r) \/ Load(r) \/ LoadFails(r) \/ Take(r) \/ Finish(r) \/ MarkFailedSkipped(r)
    BY <2>2 DEF Lease, Load, LoadFails, Take, Finish, MarkFailedSkipped, OutboxChange
  <2>3. CASE MarkSent(r)
    BY <2>3 DEF MarkSent, Sent, OutboxChange
  <2>4. CASE MarkFailed(r)
    BY <2>4 DEF MarkFailed, Counted, OutboxChange
  <2>5. QED
    BY <1>3, <2>1, <2>2, <2>3, <2>4 DEF RunStep, HandlerStep
<1>4. CASE \/ \E f \in wire : Accept(f) \/ LoseFrame(f)
           \/ \E p \in Peers, e \in Envelopes : Handle(p, e) \/ HandleFails(p, e)
           \/ \E p \in Peers : Emit(p) \/ PeerRestart(p) \/ StopEndpoint(p) \/ InboxFault(p)
           \/ SenderRestart
  BY <1>4 DEF Accept, LoseFrame, Handle, HandleFails, Emit, PeerRestart, StopEndpoint,
              InboxFault, SenderRestart, Restart, outboxVars, OutboxChange
<1>5. CASE \/ \E p \in Peers, k \in Passes : PassStep(p, k)
           \/ \E p \in Peers, S \in SUBSET Envelopes : PruneInbox(p, S) /\ ReceiverOnly
  BY <1>5 DEF PassStep, ReceiverOnly, outboxVars, OutboxChange
<1>6. QED
  BY <1>1, <1>2, <1>3, <1>4, <1>5 DEF Next

\* The attempts of every row stay within their limit, and a change of the
\* table keeps what they say of its status.
LEMMA AttemptsKept ==
  Types /\ GivenUpAfterAllAttempts /\ [Next]_vars => GivenUpAfterAllAttempts'
<1> SUFFICES ASSUME Types, GivenUpAfterAllAttempts, OutboxChange, NEW e \in Envelopes
             PROVE  /\ outbox'[e].attempts <= MaxSends
                    /\ outbox'[e].status = "FAILED" <=> outbox'[e].attempts = MaxSends
  BY NextOutboxChange DEF GivenUpAfterAllAttempts
<1>1. outbox \in [Envelopes -> OutboxRow] /\ outbox[e] \in OutboxRow
  BY DEF Types, TypeOK
<1>2. /\ outbox[e].attempts <= MaxSends /\ outbox[e].attempts \in Nat
      /\ outbox[e].status = "FAILED" <=> outbox[e].attempts = MaxSends
  BY <1>1 DEF GivenUpAfterAllAttempts, OutboxRow
<1>3. CASE UNCHANGED outbox
  BY <1>2, <1>3
<1>4. ASSUME NEW d \in Envelopes, Authored(d)
      PROVE  outbox'[e].attempts = outbox[e].attempts
             /\ (outbox'[e].status = "FAILED" <=> outbox[e].status = "FAILED")
  BY <1>1, <1>4 DEF Authored, OutboxRow
<1>5. ASSUME NEW S \in SUBSET Envelopes, Pruned(S)
      PROVE  outbox'[e].attempts = outbox[e].attempts
             /\ (outbox'[e].status = "FAILED" <=> outbox[e].status = "FAILED")
  BY <1>1, <1>5 DEF Pruned, OutboxRow
<1>6. ASSUME NEW r \in Runs, Sent(r)
      PROVE  outbox'[e].attempts = outbox[e].attempts
             /\ (outbox'[e].status = "FAILED" <=> outbox[e].status = "FAILED")
  BY <1>1, <1>6 DEF Sent, OutboxRow
<1>7. ASSUME NEW r \in Runs, Counted(r)
      PROVE  /\ outbox'[e].attempts <= MaxSends
             /\ outbox'[e].status = "FAILED" <=> outbox'[e].attempts = MaxSends
  <2>1. CASE run[r].entry = e
    <3> DEFINE n == outbox[e].attempts + 1
    <3>1. /\ outbox[e].status = "PENDING"
          /\ outbox'[e] = [status |-> IF n >= MaxSends THEN "FAILED" ELSE "PENDING",
                           attempts |-> n]
      BY <1>1, <1>7, <2>1 DEF Counted
    <3>2. n <= MaxSends
      BY <1>2, <3>1
    <3>3. QED
      BY <1>2, <3>1, <3>2
  <2>2. CASE run[r].entry # e
    BY <1>1, <1>2, <1>7, <2>2 DEF Counted
  <2>3. QED
    BY <2>1, <2>2
<1>8. QED
  BY <1>2, <1>3, <1>4, <1>5, <1>6, <1>7 DEF OutboxChange

\* An outbox row is FAILED if and only if markFailed counted all its attempts,
\* whatever runs overlap, dispatch to some of the peers or are aborted.
THEOREM GivenUpCorrect == Spec => []GivenUpAfterAllAttempts
<1>1. Init => GivenUpAfterAllAttempts
  BY DEF Init, OutboxInit, GivenUpAfterAllAttempts
<1>2. QED
  BY <1>1, InitTypes, NextTypes, AttemptsKept, PTL DEF Spec

-----------------------------------------------------------------------------
(* The inbox. *)

\* What a step may do to the inboxes and their passes.
PassChange(p, k) ==
  PassRead(p, k) \/ PassApply(p, k) \/ PassMark(p, k) \/ PassMarkFails(p, k)

InboxChange ==
  \/ UNCHANGED inboxVars
  \/ \E p \in Peers, e \in Envelopes : e \in handling[p] /\ Receive(p, e)
  \/ \E p \in Peers, k \in Passes : PassChange(p, k)
  \/ \E p \in Peers, S \in SUBSET Envelopes : PruneInbox(p, S)
  \/ \E p \in Peers : InboxRestart(p)

\* Every step of the system changes the inboxes in one of those ways.
LEMMA NextInboxChange == [Next]_vars => InboxChange
<1> SUFFICES ASSUME [Next]_vars PROVE InboxChange
  OBVIOUS
<1>1. CASE UNCHANGED vars
  BY <1>1 DEF vars, inboxVars, InboxChange
<1>2. CASE \/ OutboxStep /\ SenderOnly
           \/ \E r \in Runs : RunStep(r)
           \/ \E f \in wire : Accept(f) \/ LoseFrame(f)
           \/ \E p \in Peers, e \in Envelopes : HandleFails(p, e)
           \/ \E p \in Peers : Emit(p) \/ StopEndpoint(p)
           \/ SenderRestart
  BY <1>2 DEF SenderOnly, RunStep, DispatchStep, Send, Acknowledged, DispatchResolves,
              DispatchRejects, Accept, LoseFrame, HandleFails, Emit, StopEndpoint,
              SenderRestart, InboxChange
<1>3. CASE \/ \E p \in Peers, e \in Envelopes : Handle(p, e)
           \/ \E p \in Peers, k \in Passes : PassStep(p, k)
           \/ \E p \in Peers, S \in SUBSET Envelopes : PruneInbox(p, S) /\ ReceiverOnly
           \/ \E p \in Peers : PeerRestart(p) \/ InboxFault(p)
  BY <1>3 DEF Handle, PassStep, PassChange, PeerRestart, InboxFault, InboxChange
<1>4. QED
  BY <1>1, <1>2, <1>3 DEF Next

\* The effect of PassMark on the row of d, and of every step on rows it does
\* not name.
LEMMA MarkEffect ==
  ASSUME ReceiverTypes, NEW p \in Peers, NEW k \in Passes, PassMark(p, k),
         NEW q \in Peers, NEW d \in Envelopes
  PROVE  /\ inbox'[q][d].verification = inbox[q][d].verification
         /\ IF q = p /\ d = pass[p][k].entry
            THEN inbox'[q][d].apply \in Settled ELSE inbox'[q][d] = inbox[q][d]
<1>1. inbox[q][d] \in InboxRow
  BY DEF ReceiverTypes
<1>2. PICK a \in Settled : inbox' = [inbox EXCEPT ![p][pass[p][k].entry].apply = a]
  BY DEF PassMark, Settled
<1>3. CASE q = p /\ d = pass[p][k].entry
  <2>1. inbox'[q][d] = [inbox[q][d] EXCEPT !.apply = a]
    BY <1>2, <1>3 DEF ReceiverTypes
  <2>2. QED
    BY <1>1, <1>3, <2>1 DEF InboxRow
<1>4. CASE ~(q = p /\ d = pass[p][k].entry)
  BY <1>2, <1>4 DEF ReceiverTypes
<1>5. QED
  BY <1>3, <1>4

\* PassOn takes the entry it worked on out of its pass, and leaves the others.
LEMMA PassOnEffect ==
  ASSUME ReceiverTypes, NEW p \in Peers, NEW k \in Passes, PassOn(p, k),
         NEW q \in Peers, NEW j \in Passes
  PROVE  IF q = p /\ j = k
         THEN /\ pass'[q][j].rows = pass[p][k].rows \ {pass[p][k].entry}
              /\ pass'[q][j].pc \in {"off", "apply"} /\ pass'[q][j].entry = NoEnvelope
         ELSE pass'[q][j] = pass[q][j]
<1> DEFINE rest == pass[p][k].rows \ {pass[p][k].entry}
<1>1. PICK x : x = IF rest = {} THEN NoPass
                   ELSE [pc |-> "apply", rows |-> rest, entry |-> NoEnvelope]
  OBVIOUS
<1>2. x.rows = rest /\ x.pc \in {"off", "apply"} /\ x.entry = NoEnvelope
  BY <1>1 DEF NoPass
<1>3. pass' = [pass EXCEPT ![p][k] = x]
  BY <1>1 DEF PassOn
<1> HIDE DEF rest
<1>4. QED
  BY <1>2, <1>3 DEF ReceiverTypes, rest

\* applyFn has been called for row e, and returned if pc is "mark".
Called(p, k, e, pc) ==
  /\ e \in Envelopes
  /\ \A q \in Peers, j \in Passes :
       IF q = p /\ j = k
       THEN pass'[q][j] = [pc |-> pc, rows |-> pass[p][k].rows, entry |-> e]
       ELSE pass'[q][j] = pass[q][j]
  /\ \/ applied' = applied
     \/ pc = "mark" /\ applied' = [applied EXCEPT ![p][e] = @ + 1]

\* PassApply calls applyFn for one of the rows of its pass.
LEMMA ApplyEffect ==
  ASSUME ReceiverTypes, NEW p \in Peers, NEW k \in Passes, PassApply(p, k)
  PROVE  \E e \in pass[p][k].rows, pc \in {"mark", "conflict", "fail"} : Called(p, k, e, pc)
<1>1. pass[p][k] \in Pass
  BY DEF ReceiverTypes
<1>2. PICK e \in pass[p][k].rows, pc \in {"mark", "conflict", "fail"} :
        /\ pass' = [pass EXCEPT ![p][k].pc = pc, ![p][k].entry = e]
        /\ \/ applied' = applied
           \/ pc = "mark" /\ applied' = [applied EXCEPT ![p][e] = @ + 1]
  BY DEF PassApply
<1>3. e \in Envelopes
  BY <1>1 DEF Pass
<1>4. pass'[p][k] = [pc |-> pc, rows |-> pass[p][k].rows, entry |-> e]
  <2>1. pass'[p][k] = [[pass[p][k] EXCEPT !.pc = pc] EXCEPT !.entry = e]
    BY <1>2 DEF ReceiverTypes
  <2>2. QED
    BY <1>1, <2>1 DEF Pass
<1>5. ASSUME NEW q \in Peers, NEW j \in Passes, ~(q = p /\ j = k)
      PROVE  pass'[q][j] = pass[q][j]
  BY <1>2, <1>5 DEF ReceiverTypes
<1>6. \A q \in Peers, j \in Passes :
        IF q = p /\ j = k
        THEN pass'[q][j] = [pc |-> pc, rows |-> pass[p][k].rows, entry |-> e]
        ELSE pass'[q][j] = pass[q][j]
  BY <1>4, <1>5
<1>7. QED
  BY <1>2, <1>3, <1>6 DEF Called

\* PassMarkFails takes no row and no new entry into any pass.
LEMMA MarkFailsEffect ==
  ASSUME ReceiverTypes, NEW p \in Peers, NEW k \in Passes, PassMarkFails(p, k),
         NEW q \in Peers, NEW j \in Passes
  PROVE  /\ pass'[q][j].rows \subseteq pass[q][j].rows
         /\ pass'[q][j].entry \in {pass[q][j].entry, NoEnvelope}
         /\ q # p => pass'[q][j] = pass[q][j]
<1>1. pass[p][k] \in Pass
  BY DEF ReceiverTypes
<1>2. PICK x : /\ pass' = [pass EXCEPT ![p][k] = x]
               /\ x.rows \subseteq pass[p][k].rows
               /\ x.entry \in {pass[p][k].entry, NoEnvelope}
  <2>1. CASE pass[p][k].pc = "mark"
    <3>1. pass' = [pass EXCEPT ![p][k] = [pass[p][k] EXCEPT !.pc = "fail"]]
      BY <2>1 DEF PassMarkFails, ReceiverTypes
    <3>2. /\ [pass[p][k] EXCEPT !.pc = "fail"].rows = pass[p][k].rows
          /\ [pass[p][k] EXCEPT !.pc = "fail"].entry = pass[p][k].entry
      BY <1>1 DEF Pass
    <3>3. QED
      BY <3>1, <3>2
  <2>2. CASE pass[p][k].pc # "mark"
    BY <2>2 DEF PassMarkFails, NoPass
  <2>3. QED
    BY <2>1, <2>2
<1>3. CASE q = p /\ j = k
  <2>1. pass'[p][k] = x
    BY <1>2 DEF ReceiverTypes
  <2>2. QED
    BY <1>2, <1>3, <2>1
<1>4. CASE ~(q = p /\ j = k)
  <2>1. pass'[q][j] = pass[q][j]
    BY <1>2, <1>4 DEF ReceiverTypes
  <2>2. QED
    BY <1>4, <2>1
<1>5. QED
  BY <1>3, <1>4

\* Receive changes nothing but a row that is not there yet.
LEMMA ReceiveEffect ==
  ASSUME ReceiverTypes, NEW p \in Peers, NEW e \in Envelopes, Receive(p, e),
         NEW q \in Peers, NEW d \in Envelopes
  PROVE  \/ inbox'[q][d] = inbox[q][d]
         \/ q = p /\ d = e /\ inbox[q][d] = NoRow /\ inbox'[q][d].apply = "PENDING"
<1>1. PICK v : inbox' = IF inbox[p][e] = NoRow
                        THEN [inbox EXCEPT ![p][e] = [verification |-> v, apply |-> "PENDING"]]
                        ELSE inbox
  BY DEF Receive
<1>2. QED
  BY <1>1 DEF ReceiverTypes

\* After receive the envelope has a row.
LEMMA ReceiveStores ==
  ASSUME ReceiverTypes, NEW p \in Peers, NEW e \in Envelopes, Receive(p, e)
  PROVE  inbox'[p][e] # NoRow
<1>1. PICK v : inbox' = IF inbox[p][e] = NoRow
                        THEN [inbox EXCEPT ![p][e] = [verification |-> v, apply |-> "PENDING"]]
                        ELSE inbox
  BY DEF Receive
<1>2. QED
  BY <1>1 DEF ReceiverTypes, NoRow

\* Pruning drops rows that no pass holds, and says so in pruned.
LEMMA PruneEffect ==
  ASSUME ReceiverTypes, NEW p \in Peers, NEW S \in SUBSET Envelopes, PruneInbox(p, S),
         NEW q \in Peers, NEW d \in Envelopes
  PROVE  /\ pruned[q] \subseteq pruned'[q]
         /\ \/ inbox'[q][d] = inbox[q][d]
            \/ /\ d \in pruned'[q] /\ inbox'[q][d] = NoRow
               /\ \A k \in Passes : d \notin pass[q][k].rows
<1>1. CASE q = p /\ d \in S
  BY <1>1 DEF PruneInbox, ReceiverTypes
<1>2. CASE q = p /\ d \notin S
  BY <1>2 DEF PruneInbox, ReceiverTypes
<1>3. CASE q # p
  BY <1>3 DEF PruneInbox, ReceiverTypes
<1>4. QED
  BY <1>1, <1>2, <1>3

\* RejectedHasNoEffect made inductive: a pass only holds rows that verified, and
\* an envelope whose row has not verified has had no effect.
VerifiedInv ==
  \A p \in Peers, e \in Envelopes :
    /\ \A k \in Passes : e \in pass[p][k].rows => inbox[p][e].verification = "VERIFIED"
    /\ inbox[p][e].verification # "VERIFIED" /\ e \notin pruned[p] => applied[p][e] = 0

\* VerifiedInv is inductive.
LEMMA VerifiedNext == Types /\ VerifiedInv /\ [Next]_vars => VerifiedInv'
<1> SUFFICES ASSUME Types, VerifiedInv, InboxChange, NEW q \in Peers, NEW d \in Envelopes
             PROVE  /\ \A j \in Passes : d \in pass'[q][j].rows =>
                         inbox'[q][d].verification = "VERIFIED"
                    /\ inbox'[q][d].verification # "VERIFIED" /\ d \notin pruned'[q] =>
                         applied'[q][d] = 0
  BY NextInboxChange DEF VerifiedInv
<1>1. ReceiverTypes
  BY TypesSplit
<1>2. /\ \A j \in Passes : d \in pass[q][j].rows => inbox[q][d].verification = "VERIFIED"
      /\ inbox[q][d].verification # "VERIFIED" /\ d \notin pruned[q] => applied[q][d] = 0
  BY DEF VerifiedInv
<1>3. CASE UNCHANGED inboxVars
  BY <1>2, <1>3 DEF inboxVars
<1>4. ASSUME NEW p \in Peers, NEW e \in Envelopes, Receive(p, e)
      PROVE  \/ inbox'[q][d] = inbox[q][d]
             \/ inbox[q][d].verification # "VERIFIED"
  BY <1>1, <1>4, ReceiveEffect DEF NoRow
<1>5. CASE \E p \in Peers, e \in Envelopes : e \in handling[p] /\ Receive(p, e)
  BY <1>2, <1>4, <1>5 DEF Receive
<1>6. ASSUME NEW p \in Peers, NEW k \in Passes, PassRead(p, k)
      PROVE  \A j \in Passes : d \in pass'[q][j].rows =>
               d \in pass[q][j].rows \/ inbox[q][d].verification = "VERIFIED"
  BY <1>1, <1>6 DEF PassRead, Applicable, ReceiverTypes
<1>7. ASSUME NEW p \in Peers, NEW k \in Passes, PassApply(p, k)
      PROVE  /\ \A j \in Passes : pass'[q][j].rows = pass[q][j].rows
             /\ applied'[q][d] = applied[q][d] \/ inbox[q][d].verification = "VERIFIED"
  <2>1. PICK e \in pass[p][k].rows, pc \in {"mark", "conflict", "fail"} : Called(p, k, e, pc)
    BY <1>1, <1>7, ApplyEffect
  <2>2. \A j \in Passes : pass'[q][j].rows = pass[q][j].rows
    BY <2>1 DEF Called
  <2>3. CASE q = p /\ d = e
    <3>1. d \in pass[q][k].rows
      BY <2>3
    <3>2. inbox[q][d].verification = "VERIFIED"
      BY <1>2, <3>1
    <3>3. QED
      BY <2>2, <3>2
  <2>4. CASE ~(q = p /\ d = e)
    BY <1>1, <2>1, <2>4 DEF Called, ReceiverTypes
  <2>5. QED
    BY <2>2, <2>3, <2>4
<1>8. ASSUME NEW p \in Peers, NEW k \in Passes, PassMark(p, k)
      PROVE  /\ \A j \in Passes : pass'[q][j].rows \subseteq pass[q][j].rows
             /\ inbox'[q][d].verification = inbox[q][d].verification
  <2>1. PassOn(p, k)
    BY <1>8 DEF PassMark
  <2>2. QED
    BY <1>1, <1>8, <2>1, MarkEffect, PassOnEffect
<1>9. ASSUME NEW p \in Peers, NEW k \in Passes, PassMarkFails(p, k)
      PROVE  \A j \in Passes : pass'[q][j].rows \subseteq pass[q][j].rows
  BY <1>1, <1>9, MarkFailsEffect
<1>10. CASE \E p \in Peers, k \in Passes : PassChange(p, k)
  <2>1. PICK p \in Peers, k \in Passes : PassChange(p, k)
    BY <1>10
  <2>2. CASE PassRead(p, k)
    BY <1>2, <1>6, <2>2 DEF PassRead
  <2>3. CASE PassApply(p, k)
    BY <1>2, <1>7, <2>3 DEF PassApply
  <2>4. CASE PassMark(p, k)
    BY <1>2, <1>8, <2>4 DEF PassMark
  <2>5. CASE PassMarkFails(p, k)
    BY <1>2, <1>9, <2>5 DEF PassMarkFails
  <2>6. QED
    BY <2>1, <2>2, <2>3, <2>4, <2>5 DEF PassChange
<1>11. ASSUME NEW p \in Peers, NEW S \in SUBSET Envelopes, PruneInbox(p, S)
       PROVE  /\ pruned[q] \subseteq pruned'[q]
              /\ \/ inbox'[q][d] = inbox[q][d]
                 \/ d \in pruned'[q] /\ \A k \in Passes : d \notin pass[q][k].rows
  BY <1>1, <1>11, PruneEffect
<1>12. CASE \E p \in Peers, S \in SUBSET Envelopes : PruneInbox(p, S)
  BY <1>2, <1>11, <1>12 DEF PruneInbox
<1>13. ASSUME NEW p \in Peers, InboxRestart(p)
       PROVE  \A j \in Passes : pass'[q][j].rows \subseteq pass[q][j].rows
  BY <1>1, <1>13 DEF InboxRestart, ReceiverTypes, NoPass
<1>14. CASE \E p \in Peers : InboxRestart(p)
  BY <1>2, <1>13, <1>14 DEF InboxRestart
<1>15. QED
  BY <1>3, <1>5, <1>10, <1>12, <1>14 DEF InboxChange

\* An envelope that receive stored as REJECTED has never taken effect, however
\* its duplicates, the passes of applyPending, crashes and pruning interleave.
THEOREM RejectedCorrect == Spec => []RejectedHasNoEffect
<1>1. Init => VerifiedInv
  BY DEF Init, InboxInit, VerifiedInv, NoPass
<1>2. VerifiedInv => RejectedHasNoEffect
  BY DEF VerifiedInv, RejectedHasNoEffect
<1>3. QED
  BY <1>1, <1>2, InitTypes, NextTypes, VerifiedNext, PTL DEF Spec

\* Envelope e has had its effect in a pass that has not marked its row yet.
Unmarked(p, e) ==
  \E k \in Passes : pass[p][k].pc \in {"mark", "conflict", "fail"} /\ pass[p][k].entry = e

\* AppliedOnce made inductive: what is still to be applied is PENDING, and what
\* was applied is settled or is what the pass is about to mark.
OnceAt(p, e) ==
  /\ \A k \in Passes : e \in pass[p][k].rows => inbox[p][e].apply = "PENDING"
  /\ e \notin forgot[p] /\ e \notin pruned[p] /\ applied[p][e] # 0 =>
       applied[p][e] = 1 /\ (inbox[p][e].apply \in Settled \/ Unmarked(p, e))

OnceInv == \A p \in Peers, e \in Envelopes : OnceAt(p, e)

\* OnceInv is inductive as long as there is one pass at a time.
LEMMA OnceNext ==
  ASSUME \A j, k \in Passes : j = k
  PROVE  Types /\ OnceInv /\ [Next]_vars => OnceInv'
<1> SUFFICES ASSUME Types, OnceInv, InboxChange, NEW q \in Peers, NEW d \in Envelopes
             PROVE  OnceAt(q, d)'
  BY NextInboxChange DEF OnceInv
<1>1. ReceiverTypes
  BY TypesSplit
<1>2. OnceAt(q, d)
  BY DEF OnceInv
<1>3. CASE UNCHANGED inboxVars
  BY <1>2, <1>3 DEF inboxVars, OnceAt, Unmarked
<1>4. ASSUME NEW p \in Peers, NEW e \in Envelopes, Receive(p, e) PROVE OnceAt(q, d)'
  <2>1. UNCHANGED <<pass, applied, forgot, pruned>>
    BY <1>4 DEF Receive
  <2>2. CASE inbox'[q][d] = inbox[q][d]
    BY <1>2, <2>1, <2>2 DEF OnceAt, Unmarked
  <2>3. CASE inbox[q][d] = NoRow /\ inbox'[q][d].apply = "PENDING"
    BY <1>2, <2>1, <2>3 DEF OnceAt, Unmarked, NoRow, Settled
  <2>4. QED
    BY <1>1, <1>4, <2>2, <2>3, ReceiveEffect
<1>5. ASSUME NEW p \in Peers, NEW k \in Passes, PassRead(p, k) PROVE OnceAt(q, d)'
  <2>1. UNCHANGED <<inbox, applied, forgot, pruned>>
    BY <1>5 DEF PassRead
  <2>2. \A j \in Passes : d \in pass'[q][j].rows =>
          d \in pass[q][j].rows \/ inbox[q][d].apply = "PENDING"
    BY <1>1, <1>5 DEF PassRead, Applicable, ReceiverTypes
  <2>3. ASSUME NEW j \in Passes, pass[q][j].pc \in {"mark", "conflict", "fail"}
        PROVE  pass'[q][j] = pass[q][j]
    BY <1>1, <1>5, <2>3 DEF PassRead, ReceiverTypes
  <2>4. Unmarked(q, d) => Unmarked(q, d)'
    BY <2>3 DEF Unmarked
  <2>5. QED
    BY <1>2, <2>1, <2>2, <2>4 DEF OnceAt
<1>6. ASSUME NEW p \in Peers, NEW k \in Passes, PassApply(p, k) PROVE OnceAt(q, d)'
  <2>1. PICK e \in pass[p][k].rows, pc \in {"mark", "conflict", "fail"} : Called(p, k, e, pc)
    BY <1>1, <1>6, ApplyEffect
  <2>2. /\ UNCHANGED <<inbox, forgot, pruned>>
        /\ \A j \in Passes : pass'[q][j].rows = pass[q][j].rows
    BY <1>6, <2>1 DEF PassApply, Called
  <2>3. CASE q = p
    <3>1. ~Unmarked(q, d)
      BY <1>6, <2>3 DEF PassApply, Unmarked
    <3>2. CASE d = e
      <4>1. inbox[q][d].apply = "PENDING"
        BY <1>2, <2>1, <2>3, <3>2 DEF OnceAt
      <4>2. d \notin forgot[q] /\ d \notin pruned[q] => applied[q][d] = 0
        BY <1>2, <3>1, <4>1 DEF OnceAt, Settled
      <4>3. d \notin forgot[q] /\ d \notin pruned[q] => applied'[q][d] \in {0, 1}
        BY <1>1, <2>1, <2>3, <3>2, <4>2 DEF Called, ReceiverTypes
      <4>4. Unmarked(q, d)'
        BY <2>1, <2>3, <3>2 DEF Called, Unmarked
      <4>5. QED
        BY <1>2, <2>2, <4>3, <4>4 DEF OnceAt
    <3>3. CASE d # e
      <4>1. applied'[q][d] = applied[q][d]
        BY <1>1, <2>1, <2>3, <3>3 DEF Called, ReceiverTypes
      <4>2. QED
        BY <1>2, <2>2, <3>1, <4>1 DEF OnceAt
    <3>4. QED
      BY <3>2, <3>3
  <2>4. CASE q # p
    <3>1. applied'[q][d] = applied[q][d]
      BY <1>1, <2>1, <2>4 DEF Called, ReceiverTypes
    <3>2. Unmarked(q, d) => Unmarked(q, d)'
      BY <2>1, <2>4 DEF Called, Unmarked
    <3>3. QED
      BY <1>2, <2>2, <3>1, <3>2 DEF OnceAt
  <2>5. QED
    BY <2>3, <2>4
<1>7. ASSUME NEW p \in Peers, NEW k \in Passes, PassMark(p, k) PROVE OnceAt(q, d)'
  <2>1. UNCHANGED <<applied, forgot, pruned>> /\ PassOn(p, k)
    BY <1>7 DEF PassMark
  <2>2. CASE q = p /\ d = pass[p][k].entry
    <3>1. inbox'[q][d].apply \in Settled
      BY <1>1, <1>7, <2>2, MarkEffect
    <3>2. \A j \in Passes : d \notin pass'[q][j].rows
      BY <1>1, <2>1, <2>2, PassOnEffect
    <3>3. QED
      BY <1>2, <2>1, <3>1, <3>2 DEF OnceAt
  <2>3. CASE ~(q = p /\ d = pass[p][k].entry)
    <3>1. inbox'[q][d] = inbox[q][d]
      BY <1>1, <1>7, <2>3, MarkEffect
    <3>2. \A j \in Passes : pass'[q][j].rows \subseteq pass[q][j].rows
      BY <1>1, <2>1, PassOnEffect
    <3>3. Unmarked(q, d) => Unmarked(q, d)'
      BY <1>1, <2>1, <2>3, PassOnEffect DEF Unmarked
    <3>4. QED
      BY <1>2, <2>1, <3>1, <3>2, <3>3 DEF OnceAt
  <2>4. QED
    BY <2>2, <2>3
<1>8. ASSUME NEW p \in Peers, NEW k \in Passes, PassMarkFails(p, k) PROVE OnceAt(q, d)'
  <2>1. UNCHANGED <<inbox, applied, pruned>>
    BY <1>8 DEF PassMarkFails
  <2>2. pass[p][k] \in Pass /\ pass[q][k] \in Pass
    BY <1>1 DEF ReceiverTypes
  <2>3. \A j \in Passes : pass'[q][j].rows \subseteq pass[q][j].rows
    BY <1>1, <1>8, MarkFailsEffect
  <2>4. forgot[q] \subseteq forgot'[q]
    BY <1>1, <1>8 DEF PassMarkFails, ReceiverTypes
  <2>5. CASE ~Unmarked(q, d) \/ applied[q][d] = 0
    BY <1>2, <2>1, <2>3, <2>4, <2>5 DEF OnceAt
  <2>6. CASE Unmarked(q, d) /\ applied[q][d] # 0 /\ q # p
    <3>1. pass'[q][k] = pass[q][k]
      BY <1>1, <1>8, <2>6, MarkFailsEffect
    <3>2. Unmarked(q, d)'
      BY <2>6, <3>1 DEF Unmarked
    <3>3. QED
      BY <1>2, <2>1, <2>3, <2>4, <3>2 DEF OnceAt
  <2>7. CASE Unmarked(q, d) /\ applied[q][d] # 0 /\ q = p
    <3>1. pass[p][k].entry = d
      BY <2>7 DEF Unmarked
    <3>2. CASE pass[p][k].pc = "mark"
      <4>1. pass'[p][k] = [pass[p][k] EXCEPT !.pc = "fail"]
        BY <1>1, <1>8, <3>2 DEF PassMarkFails, ReceiverTypes
      <4>2. pass'[p][k].pc = "fail" /\ pass'[p][k].entry = d
        BY <2>2, <3>1, <4>1 DEF Pass
      <4>3. Unmarked(q, d)'
        BY <2>7, <4>2 DEF Unmarked
      <4>4. QED
        BY <1>2, <2>1, <2>3, <2>4, <4>3 DEF OnceAt
    <3>3. CASE pass[p][k].pc # "mark"
      <4>1. applied[p][d] > 0
        BY <1>1, <2>7 DEF ReceiverTypes
      <4>2. d \in forgot'[p]
        BY <1>1, <1>8, <3>1, <3>3, <4>1 DEF PassMarkFails, Forgets, ReceiverTypes
      <4>3. QED
        BY <1>2, <2>1, <2>3, <2>7, <4>2 DEF OnceAt
    <3>4. QED
      BY <3>2, <3>3
  <2>8. QED
    BY <2>5, <2>6, <2>7
<1>9. ASSUME NEW p \in Peers, NEW S \in SUBSET Envelopes, PruneInbox(p, S)
      PROVE  OnceAt(q, d)'
  <2>1. UNCHANGED <<pass, applied, forgot>>
    BY <1>9 DEF PruneInbox
  <2>2. QED
    BY <1>1, <1>2, <1>9, <2>1, PruneEffect DEF OnceAt, Unmarked
<1>10. ASSUME NEW p \in Peers, InboxRestart(p) PROVE OnceAt(q, d)'
  <2>1. UNCHANGED <<inbox, applied, pruned>>
    BY <1>10 DEF InboxRestart
  <2>2. forgot[q] \subseteq forgot'[q]
    BY <1>1, <1>10 DEF InboxRestart, ReceiverTypes
  <2>3. CASE q = p
    <3>1. \A j \in Passes : pass'[q][j].rows = {}
      BY <1>1, <1>10, <2>3 DEF InboxRestart, ReceiverTypes, NoPass
    <3>2. Unmarked(q, d) /\ applied[q][d] > 0 => d \in forgot'[q]
      BY <1>1, <1>10, <2>3 DEF InboxRestart, ReceiverTypes, Forgets, Unmarked
    <3>3. applied[q][d] # 0 => applied[q][d] > 0
      BY <1>1 DEF ReceiverTypes
    <3>4. QED
      BY <1>2, <2>1, <2>2, <3>1, <3>2, <3>3 DEF OnceAt
  <2>4. CASE q # p
    <3>1. pass'[q] = pass[q]
      BY <1>1, <1>10, <2>4 DEF InboxRestart, ReceiverTypes
    <3>2. QED
      BY <1>2, <2>1, <2>2, <3>1 DEF OnceAt, Unmarked
  <2>5. QED
    BY <2>3, <2>4
<1>11. QED
  BY <1>3, <1>4, <1>5, <1>6, <1>7, <1>8, <1>9, <1>10 DEF InboxChange, PassChange

\* With one call of applyPending at a time, an envelope whose effect was never
\* forgotten takes effect once, however often it is delivered.
THEOREM AppliedOnceCorrect == Spec => []AppliedOnce
<1>1. CASE \A j, k \in Passes : j = k
  <2>1. Init => OnceInv
    BY DEF Init, InboxInit, OnceInv, OnceAt, NoPass
  <2>2. Types /\ OnceInv => AppliedOnce
    <3> SUFFICES ASSUME Types, OnceInv, NEW p \in Peers, NEW e \in Envelopes,
                        e \notin forgot[p] \cup pruned[p]
                 PROVE  applied[p][e] <= 1
      BY DEF AppliedOnce
    <3>1. applied[p][e] \in {0, 1}
      BY DEF OnceInv, OnceAt
    <3>2. QED
      BY <3>1
  <2>3. Types /\ OnceInv /\ [Next]_vars => OnceInv'
    BY <1>1, OnceNext
  <2>4. QED
    BY <2>1, <2>2, <2>3, InitTypes, NextTypes, PTL DEF Spec
<1>2. CASE ~(\A j, k \in Passes : j = k)
  <2>1. AppliedOnce
    BY <1>2 DEF AppliedOnce
  <2>2. QED
    BY <2>1, PTL
<1>3. QED
  BY <1>1, <1>2

-----------------------------------------------------------------------------
(* From the endpoint to the inbox. *)

\* No step but pruning takes a row out of an inbox.
LEMMA RowKept ==
  ASSUME Types, [Next]_vars, NEW q \in Peers, NEW d \in Envelopes
  PROVE  /\ inbox[q][d] # NoRow => inbox'[q][d] # NoRow \/ d \in pruned'[q]
         /\ pruned[q] \subseteq pruned'[q]
<1>1. ReceiverTypes
  BY TypesSplit
<1>2. CASE UNCHANGED inboxVars
  BY <1>2 DEF inboxVars
<1>3. ASSUME NEW p \in Peers, NEW e \in Envelopes, Receive(p, e)
      PROVE  UNCHANGED pruned /\ (inbox[q][d] # NoRow => inbox'[q][d] = inbox[q][d])
  <2>1. UNCHANGED pruned
    BY <1>3 DEF Receive
  <2>2. QED
    BY <1>1, <1>3, <2>1, ReceiveEffect
<1>4. ASSUME NEW p \in Peers, NEW k \in Passes, PassMark(p, k)
      PROVE  UNCHANGED pruned /\ (inbox[q][d] # NoRow => inbox'[q][d] # NoRow)
  <2>1. UNCHANGED pruned
    BY <1>4 DEF PassMark
  <2>2. inbox'[q][d].apply \in Settled \/ inbox'[q][d] = inbox[q][d]
    BY <1>1, <1>4, MarkEffect
  <2>3. QED
    BY <2>1, <2>2 DEF Settled, NoRow
<1>5. ASSUME NEW p \in Peers, NEW k \in Passes, PassChange(p, k)
      PROVE  UNCHANGED pruned /\ (inbox[q][d] # NoRow => inbox'[q][d] # NoRow)
  <2>1. CASE PassRead(p, k) \/ PassApply(p, k) \/ PassMarkFails(p, k)
    BY <2>1 DEF PassRead, PassApply, PassMarkFails
  <2>2. QED
    BY <1>4, <1>5, <2>1 DEF PassChange
<1>6. ASSUME NEW p \in Peers, NEW S \in SUBSET Envelopes, PruneInbox(p, S)
      PROVE  /\ inbox[q][d] # NoRow => inbox'[q][d] # NoRow \/ d \in pruned'[q]
             /\ pruned[q] \subseteq pruned'[q]
  BY <1>1, <1>6, PruneEffect
<1>7. CASE \E p \in Peers : InboxRestart(p)
  BY <1>7 DEF InboxRestart
<1>8. QED
  BY <1>2, <1>3, <1>5, <1>6, <1>7, NextInboxChange DEF InboxChange

\* What a step may do to the way from the endpoint to the inbox.
WayChange ==
  \/ UNCHANGED <<channel, handling, reached, lost>>
  \/ \E f \in wire : Accept(f)
  \/ \E p \in Peers : Emit(p) \/ PeerRestart(p) \/ StopEndpoint(p)
  \/ \E p \in Peers, e \in Envelopes : Handle(p, e) \/ HandleFails(p, e)

\* Every step of the system is one of those.
LEMMA NextWayChange == [Next]_vars => WayChange
<1> SUFFICES ASSUME [Next]_vars PROVE WayChange
  OBVIOUS
<1>1. CASE UNCHANGED vars
  BY <1>1 DEF vars, WayChange
<1>2. CASE \/ OutboxStep /\ SenderOnly
           \/ \E r \in Runs : RunStep(r)
  BY <1>2 DEF SenderOnly, transportVars, RunStep, DispatchStep, Send, Acknowledged,
              DispatchResolves, DispatchRejects, WayChange
<1>3. CASE \/ \E p \in Peers, k \in Passes : PassStep(p, k)
           \/ \E p \in Peers, S \in SUBSET Envelopes : PruneInbox(p, S) /\ ReceiverOnly
           \/ \E p \in Peers : InboxFault(p)
  BY <1>3 DEF PassStep, ReceiverOnly, InboxFault, transportVars, WayChange
<1>4. CASE SenderRestart \/ \E f \in wire : LoseFrame(f)
  BY <1>4 DEF SenderRestart, LoseFrame, WayChange
<1>5. CASE \/ \E f \in wire : Accept(f)
           \/ \E p \in Peers : Emit(p) \/ PeerRestart(p) \/ StopEndpoint(p)
           \/ \E p \in Peers, e \in Envelopes : Handle(p, e) \/ HandleFails(p, e)
  BY <1>5 DEF WayChange
<1>6. QED
  BY <1>1, <1>2, <1>3, <1>4, <1>5 DEF Next

\* d is in the channel of q.
Queued(q, d) == \E i \in 1..Len(channel[q]) : channel[q][i] = d

\* What Append and Tail do to the elements of a sequence.
LEMMA AppendElements ==
  ASSUME NEW S, NEW s \in Seq(S), NEW x \in S, NEW d
  PROVE  (\E i \in 1..Len(Append(s, x)) : Append(s, x)[i] = d) <=>
           d = x \/ \E i \in 1..Len(s) : s[i] = d
<1>1. /\ Len(Append(s, x)) = Len(s) + 1 /\ Append(s, x)[Len(s) + 1] = x
      /\ \A i \in 1..Len(s) : Append(s, x)[i] = s[i]
      /\ Len(s) \in Nat
  OBVIOUS
<1>2. ASSUME NEW i \in 1..(Len(s) + 1) PROVE i \in 1..Len(s) \/ i = Len(s) + 1
  BY <1>1
<1>3. 1..Len(s) \subseteq 1..(Len(s) + 1) /\ Len(s) + 1 \in 1..(Len(s) + 1)
  BY <1>1
<1>4. QED
  BY <1>1, <1>2, <1>3

\* An element of a sequence is its head or in its tail.
LEMMA TailElements ==
  ASSUME NEW S, NEW s \in Seq(S), s # <<>>, NEW i \in 1..Len(s)
  PROVE  \/ s[i] = Head(s)
         \/ \E j \in 1..Len(Tail(s)) : Tail(s)[j] = s[i]
<1>1. CASE i = 1
  BY <1>1
<1>2. CASE i # 1
  <2>1. i - 1 \in 1..Len(Tail(s)) /\ Tail(s)[i - 1] = s[i]
    BY <1>2
  <2>2. QED
    BY <2>1
<1>3. QED
  BY <1>1, <1>2

\* An acknowledged envelope stays on its way or in the inbox, step by step.
LEMMA AcknowledgedNext ==
  Types /\ AcknowledgedIsKept /\ [Next]_vars => AcknowledgedIsKept'
<1> SUFFICES ASSUME Types, AcknowledgedIsKept, [Next]_vars PROVE AcknowledgedIsKept'
  OBVIOUS
<1> SUFFICES ASSUME NEW q \in Peers, NEW d \in Envelopes,
                    d \in reached'[q], d \notin lost'[q],
                    d \notin pruned'[q], inbox'[q][d] = NoRow
             PROVE  d \in handling'[q] \/ Queued(q, d)'
  <2>1. Types'
    BY NextTypes
  <2>2. reached' \in [Peers -> SUBSET Envelopes]
    BY <2>1 DEF Types, TypeOK
  <2>3. QED
    BY <2>2 DEF AcknowledgedIsKept, Queued
<1>1. TransportTypes /\ inbox[q][d] = NoRow /\ d \notin pruned[q]
  BY TypesSplit, RowKept
<1>2. ASSUME d \in reached[q], d \notin lost[q] PROVE d \in handling[q] \/ Queued(q, d)
  BY <1>1, <1>2 DEF AcknowledgedIsKept, Queued
<1>3. CASE UNCHANGED <<channel, handling, reached, lost>>
  BY <1>2, <1>3 DEF Queued
<1>4. ASSUME NEW f \in wire, Accept(f) PROVE d \in handling'[q] \/ Queued(q, d)'
  <2>1. f.peer \in Peers /\ f.envelope \in Envelopes /\ channel[f.peer] \in Seq(Envelopes)
    BY <1>1 DEF TransportTypes, Frame
  <2>2. handling' = handling /\ lost' = lost
    BY <1>4 DEF Accept
  <2>3. CASE q = f.peer
    <3>1. channel'[q] = Append(channel[q], f.envelope)
          /\ reached'[q] = reached[q] \cup {f.envelope}
      BY <1>1, <1>4, <2>3 DEF Accept, TransportTypes
    <3>2. Queued(q, d)' <=> d = f.envelope \/ Queued(q, d)
      BY <2>1, <2>3, <3>1, AppendElements DEF Queued
    <3>3. QED
      BY <1>2, <2>2, <3>1, <3>2
  <2>4. CASE q # f.peer
    <3>1. channel'[q] = channel[q] /\ reached'[q] = reached[q]
      BY <1>1, <1>4, <2>4 DEF Accept, TransportTypes
    <3>2. QED
      BY <1>2, <2>2, <3>1 DEF Queued
  <2>5. QED
    BY <2>3, <2>4
<1>5. ASSUME NEW p \in Peers, Emit(p) PROVE d \in handling'[q] \/ Queued(q, d)'
  <2>1. reached' = reached /\ lost' = lost /\ (d \in handling[q] \/ Queued(q, d))
    BY <1>2, <1>5 DEF Emit
  <2>2. CASE q = p
    <3>1. /\ channel[q] # <<>> /\ channel'[q] = Tail(channel[q])
          /\ handling'[q] = handling[q] \cup {Head(channel[q])}
      BY <1>1, <1>5, <2>2 DEF Emit, TransportTypes
    <3>2. ASSUME Queued(q, d) PROVE d = Head(channel[q]) \/ Queued(q, d)'
      <4>1. PICK i \in 1..Len(channel[q]) : channel[q][i] = d
        BY <3>2 DEF Queued
      <4>2. channel[q] \in Seq(Envelopes)
        BY <1>1 DEF TransportTypes
      <4>3. QED
        BY <3>1, <4>1, <4>2, TailElements DEF Queued
    <3>3. QED
      BY <2>1, <3>1, <3>2
  <2>3. CASE q # p
    <3>1. channel'[q] = channel[q] /\ handling'[q] = handling[q]
      BY <1>1, <1>5, <2>3 DEF Emit, TransportTypes
    <3>2. QED
      BY <2>1, <3>1 DEF Queued
  <2>4. QED
    BY <2>2, <2>3
<1>6. ASSUME NEW p \in Peers, NEW e \in Envelopes, Handle(p, e)
      PROVE  d \in handling'[q] \/ Queued(q, d)'
  <2>1. channel' = channel /\ (d \in handling[q] \/ Queued(q, d))
    BY <1>2, <1>6 DEF Handle
  <2>2. CASE q = p /\ d = e
    <3>1. inbox'[q][d] # NoRow
      BY <1>6, <2>2, TypesSplit, ReceiveStores DEF Handle
    <3>2. QED
      BY <3>1
  <2>3. CASE ~(q = p /\ d = e)
    <3>1. d \in handling[q] => d \in handling'[q]
      BY <1>1, <1>6, <2>3 DEF Handle, TransportTypes
    <3>2. QED
      BY <2>1, <3>1 DEF Queued
  <2>4. QED
    BY <2>2, <2>3
<1>7. ASSUME NEW p \in Peers, NEW e \in Envelopes, HandleFails(p, e)
      PROVE  d \in handling'[q] \/ Queued(q, d)'
  <2>1. channel' = channel /\ reached' = reached
    BY <1>7 DEF HandleFails
  <2>2. lost[q] \subseteq lost'[q] /\ ~(q = p /\ d = e)
    BY <1>1, <1>7 DEF HandleFails, TransportTypes
  <2>3. d \in handling[q] => d \in handling'[q]
    BY <1>1, <1>7, <2>2 DEF HandleFails, TransportTypes
  <2>4. QED
    BY <1>2, <2>1, <2>2, <2>3 DEF Queued
<1>8. ASSUME NEW p \in Peers, PeerRestart(p) PROVE d \in handling'[q] \/ Queued(q, d)'
  <2>1. reached' = reached /\ lost[q] \subseteq lost'[q]
    BY <1>1, <1>8 DEF PeerRestart, TransportTypes
  <2>2. CASE q = p
    <3>1. lost'[q] = lost[q] \cup handling[q]
                       \cup {channel[q][i] : i \in 1..Len(channel[q])}
      BY <1>1, <1>8, <2>2 DEF PeerRestart, TransportTypes
    <3>2. QED
      BY <1>2, <2>1, <3>1 DEF Queued
  <2>3. CASE q # p
    <3>1. channel'[q] = channel[q] /\ handling'[q] = handling[q]
      BY <1>1, <1>8, <2>3 DEF PeerRestart, TransportTypes
    <3>2. QED
      BY <1>2, <2>1, <3>1 DEF Queued
  <2>4. QED
    BY <2>2, <2>3
<1>9. ASSUME NEW p \in Peers, StopEndpoint(p) PROVE d \in handling'[q] \/ Queued(q, d)'
  <2>1. PICK unheard \in SUBSET handling[p] :
          /\ handling' = [handling EXCEPT ![p] = @ \ unheard]
          /\ lost' = [lost EXCEPT ![p] = @ \cup unheard
                                       \cup {channel[p][i] : i \in 1..Len(channel[p])}]
    BY <1>9 DEF StopEndpoint
  <2>2. reached' = reached /\ lost[q] \subseteq lost'[q]
    BY <1>1, <1>9, <2>1 DEF StopEndpoint, TransportTypes
  <2>3. CASE q = p
    <3>1. /\ lost'[q] = lost[q] \cup unheard \cup {channel[q][i] : i \in 1..Len(channel[q])}
          /\ handling'[q] = handling[q] \ unheard
      BY <1>1, <2>1, <2>3 DEF TransportTypes
    <3>2. QED
      BY <1>2, <2>2, <3>1 DEF Queued
  <2>4. CASE q # p
    <3>1. channel'[q] = channel[q] /\ handling'[q] = handling[q]
      BY <1>1, <1>9, <2>1, <2>4 DEF StopEndpoint, TransportTypes
    <3>2. QED
      BY <1>2, <2>2, <3>1 DEF Queued
  <2>5. QED
    BY <2>3, <2>4
<1>10. QED
  BY <1>3, <1>4, <1>5, <1>6, <1>7, <1>8, <1>9, NextWayChange DEF WayChange

\* An acknowledged envelope is in its peer's channel, in a handler or in the
\* inbox, unless a crash, a stop of the endpoint or a failing handler dropped it
\* or its row was pruned.
THEOREM AcknowledgedCorrect == Spec => []AcknowledgedIsKept
<1>1. Init => AcknowledgedIsKept
  BY DEF Init, AcknowledgedIsKept
<1>2. QED
  BY <1>1, InitTypes, NextTypes, AcknowledgedNext, PTL DEF Spec

-----------------------------------------------------------------------------
(***************************************************************************)
(* Replication implements Delivery: an operation is confirmed only after   *)
(* every peer's endpoint took it, its verdict is final, and nothing takes  *)
(* effect that did not arrive.                                             *)
(***************************************************************************)

(* What a peer holds is what its endpoint accepted. *)

\* d is between the endpoint of q and its inbox; d is in that inbox or in a
\* pass over it.
OnTheWay(q, d) == d \in handling[q] \/ Queued(q, d)
Stored(q, d) ==
  \/ inbox[q][d] # NoRow
  \/ \E k \in Passes : d \in pass[q][k].rows \/ pass[q][k].entry = d

ReachedInv ==
  \A q \in Peers, d \in Envelopes : OnTheWay(q, d) \/ Stored(q, d) => d \in reached[q]

\* What an endpoint accepted stays accepted, and nothing is on the way to an
\* inbox that was not accepted.
LEMMA WayStays ==
  ASSUME Types, [Next]_vars, NEW q \in Peers, NEW d \in Envelopes
  PROVE  /\ reached[q] \subseteq reached'[q]
         /\ OnTheWay(q, d)' => OnTheWay(q, d) \/ d \in reached'[q]
<1>1. TransportTypes
  BY TypesSplit
<1>2. CASE UNCHANGED <<channel, handling, reached, lost>>
  BY <1>2 DEF OnTheWay, Queued
<1>3. ASSUME NEW f \in wire, Accept(f)
      PROVE  /\ reached[q] \subseteq reached'[q]
             /\ OnTheWay(q, d)' => OnTheWay(q, d) \/ d \in reached'[q]
  <2>1. f.peer \in Peers /\ f.envelope \in Envelopes /\ channel[f.peer] \in Seq(Envelopes)
    BY <1>1 DEF TransportTypes, Frame
  <2>2. handling' = handling
    BY <1>3 DEF Accept
  <2>3. CASE q = f.peer
    <3>1. channel'[q] = Append(channel[q], f.envelope)
          /\ reached'[q] = reached[q] \cup {f.envelope}
      BY <1>1, <1>3, <2>3 DEF Accept, TransportTypes
    <3>2. Queued(q, d)' <=> d = f.envelope \/ Queued(q, d)
      BY <2>1, <2>3, <3>1, AppendElements DEF Queued
    <3>3. QED
      BY <2>2, <3>1, <3>2 DEF OnTheWay
  <2>4. CASE q # f.peer
    <3>1. channel'[q] = channel[q] /\ reached'[q] = reached[q]
      BY <1>1, <1>3, <2>4 DEF Accept, TransportTypes
    <3>2. QED
      BY <2>2, <3>1 DEF OnTheWay, Queued
  <2>5. QED
    BY <2>3, <2>4
<1>4. ASSUME NEW p \in Peers, Emit(p) PROVE OnTheWay(q, d)' => OnTheWay(q, d)
  <2>1. CASE q = p
    <3>1. /\ channel[q] # <<>> /\ channel'[q] = Tail(channel[q])
          /\ handling'[q] = handling[q] \cup {Head(channel[q])}
      BY <1>1, <1>4, <2>1 DEF Emit, TransportTypes
    <3>2. channel[q] \in Seq(Envelopes)
      BY <1>1 DEF TransportTypes
    <3>3. ASSUME NEW i \in 1..Len(Tail(channel[q])), Tail(channel[q])[i] = d
          PROVE  Queued(q, d)
      <4>1. i + 1 \in 1..Len(channel[q]) /\ channel[q][i + 1] = d
        BY <3>1, <3>2, <3>3
      <4>2. QED
        BY <4>1 DEF Queued
    <3>4. 1 \in 1..Len(channel[q]) /\ channel[q][1] = Head(channel[q])
      BY <3>1, <3>2
    <3>5. QED
      BY <3>1, <3>3, <3>4 DEF OnTheWay, Queued
  <2>2. CASE q # p
    <3>1. channel'[q] = channel[q] /\ handling'[q] = handling[q]
      BY <1>1, <1>4, <2>2 DEF Emit, TransportTypes
    <3>2. QED
      BY <3>1 DEF OnTheWay, Queued
  <2>3. QED
    BY <2>1, <2>2
<1>5. ASSUME NEW p \in Peers, PeerRestart(p) \/ StopEndpoint(p)
      PROVE  OnTheWay(q, d)' => OnTheWay(q, d)
  <2>1. channel'[q] \in {channel[q], <<>>} /\ handling'[q] \subseteq handling[q]
    BY <1>1, <1>5 DEF PeerRestart, StopEndpoint, TransportTypes
  <2>2. QED
    BY <2>1 DEF OnTheWay, Queued
<1>6. ASSUME NEW p \in Peers, NEW e \in Envelopes, Handle(p, e) \/ HandleFails(p, e)
      PROVE  OnTheWay(q, d)' => OnTheWay(q, d)
  <2>1. channel' = channel /\ handling'[q] \subseteq handling[q]
    BY <1>1, <1>6 DEF Handle, HandleFails, TransportTypes
  <2>2. QED
    BY <2>1 DEF OnTheWay, Queued
<1>7. \A p \in Peers, e \in Envelopes :
        Emit(p) \/ PeerRestart(p) \/ StopEndpoint(p) \/ Handle(p, e) \/ HandleFails(p, e)
          => reached' = reached
  BY DEF Emit, PeerRestart, StopEndpoint, Handle, HandleFails
<1>8. QED
  BY <1>2, <1>3, <1>4, <1>5, <1>6, <1>7, NextWayChange DEF WayChange

\* Nothing gets into an inbox or a pass but from a handler of the webview.
LEMMA StoreStays ==
  ASSUME Types, [Next]_vars, NEW q \in Peers, NEW d \in Envelopes, Stored(q, d)'
  PROVE  Stored(q, d) \/ d \in handling[q]
<1>1. ReceiverTypes
  BY TypesSplit
<1>2. CASE UNCHANGED inboxVars
  BY <1>2 DEF inboxVars, Stored
<1>3. ASSUME NEW p \in Peers, NEW e \in Envelopes, e \in handling[p], Receive(p, e)
      PROVE  Stored(q, d) \/ d \in handling[q]
  <2>1. pass' = pass
    BY <1>3 DEF Receive
  <2>2. QED
    BY <1>1, <1>3, <2>1, ReceiveEffect DEF Stored
<1>4. ASSUME NEW p \in Peers, NEW k \in Passes, PassRead(p, k) PROVE Stored(q, d)
  <2>1. inbox' = inbox
    BY <1>4 DEF PassRead
  <2>2. ASSUME NEW j \in Passes, d \in pass'[q][j].rows \/ pass'[q][j].entry = d
        PROVE  Stored(q, d)
    <3>1. CASE q = p /\ j = k
      <4>1. pass'[q][j].rows = Applicable(p) /\ pass'[q][j].entry = NoEnvelope
        BY <1>1, <1>4, <3>1 DEF PassRead, ReceiverTypes, NoPass
      <4>2. QED
        BY <2>2, <3>1, <4>1 DEF Applicable, Stored, NoRow
    <3>2. CASE ~(q = p /\ j = k)
      <4>1. pass'[q][j] = pass[q][j]
        BY <1>1, <1>4, <3>2 DEF PassRead, ReceiverTypes
      <4>2. QED
        BY <2>2, <4>1 DEF Stored
    <3>3. QED
      BY <3>1, <3>2
  <2>3. QED
    BY <2>1, <2>2 DEF Stored
<1>5. ASSUME NEW p \in Peers, NEW k \in Passes, PassApply(p, k) PROVE Stored(q, d)
  <2>1. PICK e \in pass[p][k].rows, pc \in {"mark", "conflict", "fail"} : Called(p, k, e, pc)
    BY <1>1, <1>5, ApplyEffect
  <2>2. inbox' = inbox
    BY <1>5 DEF PassApply
  <2>3. QED
    BY <2>1, <2>2 DEF Called, Stored
<1>6. ASSUME NEW p \in Peers, NEW k \in Passes, PassMark(p, k) PROVE Stored(q, d)
  <2>1. PassOn(p, k)
    BY <1>6 DEF PassMark
  <2>2. inbox'[q][d] # NoRow => Stored(q, d)
    <3>1. CASE q = p /\ d = pass[p][k].entry
      BY <3>1 DEF Stored
    <3>2. CASE ~(q = p /\ d = pass[p][k].entry)
      <4>1. inbox'[q][d] = inbox[q][d]
        BY <1>1, <1>6, <3>2, MarkEffect
      <4>2. QED
        BY <4>1 DEF Stored
    <3>3. QED
      BY <3>1, <3>2
  <2>3. ASSUME NEW j \in Passes
        PROVE  /\ pass'[q][j].rows \subseteq pass[q][j].rows
               /\ pass'[q][j].entry \in {pass[q][j].entry, NoEnvelope}
    BY <1>1, <2>1, PassOnEffect
  <2>4. QED
    BY <2>2, <2>3 DEF Stored
<1>7. ASSUME NEW p \in Peers, NEW k \in Passes, PassMarkFails(p, k) PROVE Stored(q, d)
  <2>1. inbox' = inbox
    BY <1>7 DEF PassMarkFails
  <2>2. ASSUME NEW j \in Passes
        PROVE  /\ pass'[q][j].rows \subseteq pass[q][j].rows
               /\ pass'[q][j].entry \in {pass[q][j].entry, NoEnvelope}
    BY <1>1, <1>7, MarkFailsEffect
  <2>3. QED
    BY <2>1, <2>2 DEF Stored
<1>8. ASSUME NEW p \in Peers, NEW S \in SUBSET Envelopes, PruneInbox(p, S)
      PROVE  Stored(q, d)
  <2>1. pass' = pass
    BY <1>8 DEF PruneInbox
  <2>2. QED
    BY <1>1, <1>8, <2>1, PruneEffect DEF Stored
<1>9. ASSUME NEW p \in Peers, InboxRestart(p) PROVE Stored(q, d)
  <2>1. inbox' = inbox
    BY <1>9 DEF InboxRestart
  <2>2. ASSUME NEW j \in Passes
        PROVE  pass'[q][j] \in {pass[q][j], NoPass}
    BY <1>1, <1>9 DEF InboxRestart, ReceiverTypes
  <2>3. QED
    BY <2>1, <2>2 DEF Stored, NoPass
<1>10. QED
  BY <1>2, <1>3, <1>4, <1>5, <1>6, <1>7, <1>8, <1>9, NextInboxChange
     DEF InboxChange, PassChange

\* What a peer holds, its endpoint accepted.
LEMMA ReachedNext == Types /\ ReachedInv /\ [Next]_vars => ReachedInv'
<1> SUFFICES ASSUME Types, ReachedInv, [Next]_vars PROVE ReachedInv'
  OBVIOUS
<1> SUFFICES ASSUME NEW q \in Peers, NEW d \in Envelopes, OnTheWay(q, d)' \/ Stored(q, d)'
             PROVE  d \in reached'[q]
  BY DEF ReachedInv
<1>1. OnTheWay(q, d) \/ Stored(q, d) => d \in reached[q]
  BY DEF ReachedInv
<1>2. CASE OnTheWay(q, d)'
  BY <1>1, <1>2, WayStays
<1>3. CASE Stored(q, d)'
  <2>1. Stored(q, d) \/ d \in handling[q]
    BY <1>3, StoreStays
  <2>2. QED
    BY <1>1, <2>1, WayStays DEF OnTheWay
<1>4. QED
  BY <1>2, <1>3

-----------------------------------------------------------------------------
(* What a run of the handler and its frames know. *)

\* A run that dispatches has an acknowledgement from every peer it no longer has
\* to send to, and a run that reports success has one from every peer.
Consistent(x) ==
  /\ \A e \in Envelopes : e \in x.batch \/ e = x.entry => outbox[e].status # "ABSENT"
  /\ x.pc # "send" => x.peer = NoPeer /\ ~x.acked
  /\ x.pc = "send" => /\ x.peer \in x.todo \cup {NoPeer}
                      /\ x.acked => x.peer # NoPeer /\ x.entry \in reached[x.peer]
                      /\ \A p \in Peers : p \in x.todo \/ x.entry \in reached[p]
  /\ x.pc = "sent" => \A p \in Peers : x.entry \in reached[p]

\* A frame that a run still waits for is the one it last sent.
Followed(f) ==
  /\ outbox[f.envelope].status # "ABSENT"
  /\ f.sender \in Runs => /\ run[f.sender].pc = "send" /\ ~run[f.sender].acked
                          /\ run[f.sender].entry = f.envelope
                          /\ run[f.sender].peer = f.peer

RunInv == (\A r \in Runs : Consistent(run[r])) /\ (\A f \in wire : Followed(f))

\* An operation that was authored stays in the table.
LEMMA StatusLasts ==
  ASSUME Types, [Next]_vars, NEW e \in Envelopes, outbox[e].status # "ABSENT"
  PROVE  outbox'[e].status # "ABSENT"
<1>1. outbox \in [Envelopes -> OutboxRow] /\ outbox[e] \in OutboxRow
  BY DEF Types, TypeOK
<1>2. ASSUME NEW d \in Envelopes, Authored(d) PROVE outbox'[e].status # "ABSENT"
  BY <1>1, <1>2 DEF Authored, OutboxRow
<1>3. ASSUME NEW S \in SUBSET Envelopes, Pruned(S) PROVE outbox'[e].status # "ABSENT"
  BY <1>1, <1>3 DEF Pruned, OutboxRow
<1>4. ASSUME NEW r \in Runs, Sent(r) PROVE outbox'[e].status # "ABSENT"
  BY <1>1, <1>4 DEF Sent, OutboxRow
<1>5. ASSUME NEW r \in Runs, Counted(r) PROVE outbox'[e].status # "ABSENT"
  BY <1>1, <1>5 DEF Counted, OutboxRow
<1>6. QED
  BY <1>2, <1>3, <1>4, <1>5, NextOutboxChange DEF OutboxChange

\* So what a run knows stays true.
LEMMA ConsistentLasts ==
  ASSUME Types, [Next]_vars, NEW x \in Run, Consistent(x)
  PROVE  Consistent(x)'
<1>1. x.peer \in Peers \cup {NoPeer} /\ x.todo \subseteq Peers
  BY DEF Run
<1>2. \A p \in Peers, e \in Envelopes : e \in reached[p] => e \in reached'[p]
  BY WayStays
<1>3. \A p \in Peers : reached[p] \subseteq Envelopes
  BY TypesSplit DEF TransportTypes
<1>4. \A e \in Envelopes : outbox[e].status # "ABSENT" => outbox'[e].status # "ABSENT"
  BY StatusLasts
<1>5. QED
  BY <1>1, <1>2, <1>3, <1>4 DEF Consistent

\* A step that changes no run and sends no frame.
LEMMA QuietStep ==
  ASSUME Types, RunInv, [Next]_vars, run' = run, wire' \subseteq wire
  PROVE  RunInv'
<1>1. ASSUME NEW r \in Runs PROVE Consistent(run[r])'
  <2>1. PICK x \in Run : x = run[r]
    BY TypesSplit DEF SenderTypes
  <2>2. Consistent(x)'
    BY <2>1, ConsistentLasts DEF RunInv
  <2>3. run'[r] = x
    BY <2>1
  <2>4. QED
    BY <2>2, <2>3 DEF Consistent
<1>2. ASSUME NEW f \in wire' PROVE Followed(f)'
  <2>1. Followed(f) /\ f.envelope \in Envelopes
    BY <1>2, TypesSplit DEF RunInv, TransportTypes, Frame
  <2>2. QED
    BY <2>1, StatusLasts DEF Followed
<1>3. QED
  BY <1>1, <1>2 DEF RunInv

\* A step of one run: what the others know stays true.
LEMMA OneRun ==
  ASSUME Types, RunInv, [Next]_vars, NEW r \in Runs, NEW y \in Run,
         run' = [run EXCEPT ![r] = y], Consistent(y)'
  PROVE  \A s \in Runs : Consistent(run[s])'
<1> TAKE s \in Runs
<1>1. CASE s = r
  <2>1. run'[s] = y
    BY <1>1, TypesSplit DEF SenderTypes
  <2>2. QED
    BY <2>1 DEF Consistent
<1>2. CASE s # r
  <2>1. PICK x \in Run : x = run[s]
    BY TypesSplit DEF SenderTypes
  <2>2. Consistent(x)'
    BY <2>1, ConsistentLasts DEF RunInv
  <2>3. run'[s] = x
    BY <1>2, <2>1, TypesSplit DEF SenderTypes
  <2>4. QED
    BY <2>2, <2>3 DEF Consistent
<1>3. QED
  BY <1>1, <1>2

\* A step of a run that has no frame to wait for.
LEMMA IdleStep ==
  ASSUME Types, RunInv, [Next]_vars, NEW r \in Runs, NEW y \in Run,
         run' = [run EXCEPT ![r] = y], wire' = wire, Consistent(y),
         run[r].pc # "send" \/ run[r].acked \/ run[r].peer = NoPeer
  PROVE  RunInv'
<1>1. \A s \in Runs : Consistent(run[s])'
  BY ConsistentLasts, OneRun
<1>2. ASSUME NEW f \in wire' PROVE Followed(f)'
  <2>1. f \in Frame /\ Followed(f)
    BY <1>2, TypesSplit DEF RunInv, TransportTypes
  <2>2. f.envelope \in Envelopes /\ f.sender # r
    BY <2>1 DEF Frame, Followed
  <2>3. outbox'[f.envelope].status # "ABSENT"
    BY <2>1, <2>2, StatusLasts DEF Followed
  <2>4. f.sender \in Runs => run'[f.sender] = run[f.sender]
    BY <2>2, TypesSplit DEF SenderTypes
  <2>5. QED
    BY <2>1, <2>3, <2>4 DEF Followed
<1>3. QED
  BY <1>1, <1>2 DEF RunInv

\* The steps of a run between and after its sends.
LEMMA HandlerKeeps ==
  ASSUME Types, RunInv, [Next]_vars, NEW r \in Runs, wire' = wire,
         \/ Lease(r) \/ HandlerStep(r) \/ MarkSentFails(r) \/ Unreported(r)
         \/ Acknowledged(r) \/ DispatchResolves(r)
  PROVE  RunInv'
<1>1. PICK x \in Run : x = run[r]
  BY TypesSplit DEF SenderTypes
<1>2. Consistent(x) /\ (x.pc # "send" => x.peer = NoPeer /\ ~x.acked)
  BY <1>1 DEF RunInv, Consistent
<1>3. /\ x.pc \in RunPc /\ x.batch \in SUBSET Envelopes
      /\ x.entry \in Envelopes \cup {NoEnvelope} /\ x.todo \in SUBSET Peers
      /\ x.peer \in Peers \cup {NoPeer} /\ x.acked \in BOOLEAN
  BY DEF Run
<1>4. ASSUME NEW y \in Run, run' = [run EXCEPT ![r] = y], Consistent(y),
             x.pc # "send" \/ x.acked \/ x.peer = NoPeer
      PROVE  RunInv'
  BY <1>1, <1>4, IdleStep
<1>5. CASE Lease(r)
  <2>1. PICK y : y = [NoRun EXCEPT !.pc = "load"]
    OBVIOUS
  <2>2. y \in Run /\ Consistent(y)
    BY <2>1 DEF NoRun, Run, RunPc, Consistent
  <2>3. run' = [run EXCEPT ![r] = y] /\ x.pc = "off"
    BY <1>1, <1>5, <2>1 DEF Lease
  <2>4. QED
    BY <1>4, <2>2, <2>3
<1>6. ASSUME run' = [run EXCEPT ![r] = NoRun], x.pc # "send" PROVE RunInv'
  <2>1. NoRun \in Run /\ Consistent(NoRun)
    BY DEF NoRun, Run, RunPc, Consistent
  <2>2. QED
    BY <1>4, <1>6, <2>1
<1>7. CASE LoadFails(r) \/ Finish(r) \/ MarkFailedSkipped(r) \/ Unreported(r)
  BY <1>1, <1>6, <1>7 DEF LoadFails, Finish, MarkFailedSkipped, Unreported, Return, Throw
<1>8. CASE Load(r)
  <2>1. PICK y : y = [x EXCEPT !.pc = "next", !.batch = Oldest]
    OBVIOUS
  <2>2. Oldest \in SUBSET Envelopes /\ \A e \in Oldest : outbox[e].status # "ABSENT"
    BY DEF Oldest, Pending
  <2>3. y \in Run
    BY <2>1, <2>2 DEF Run, RunPc
  <2>4. /\ y.pc = "next" /\ y.batch = Oldest /\ y.entry = x.entry
        /\ y.peer = x.peer /\ y.acked = x.acked
    BY <2>1 DEF Run
  <2>5. run' = [run EXCEPT ![r] = y] /\ x.pc = "load"
    BY <1>1, <1>8, <2>1 DEF Load
  <2>6. Consistent(y)
    BY <1>2, <2>2, <2>4, <2>5 DEF Consistent
  <2>7. QED
    BY <1>4, <2>3, <2>5, <2>6
<1>9. CASE Take(r)
  <2>1. PICK e \in x.batch : run' = [run EXCEPT ![r].pc = "send", ![r].entry = e,
                                                ![r].batch = @ \ {e}, ![r].todo = Peers]
    BY <1>1, <1>9 DEF Take
  <2>2. PICK y : y = [x EXCEPT !.pc = "send", !.entry = e, !.batch = @ \ {e}, !.todo = Peers]
    OBVIOUS
  <2>3. y \in Run
    BY <1>3, <2>2, RunRecord
  <2>4. /\ y.pc = "send" /\ y.batch = x.batch \ {e} /\ y.entry = e /\ y.todo = Peers
        /\ y.peer = x.peer /\ y.acked = x.acked
    BY <2>2 DEF Run
  <2>5. run' = [run EXCEPT ![r] = y]
    BY <1>1, <2>1, <2>2, TypesSplit DEF SenderTypes
  <2>6. x.pc = "next" /\ x.peer = NoPeer /\ ~x.acked
    BY <1>1, <1>2, <1>9 DEF Take
  <2>7. \A d \in Envelopes : d \in x.batch => outbox[d].status # "ABSENT"
    BY <1>2 DEF Consistent
  <2>8. Consistent(y)
    BY <2>4, <2>6, <2>7 DEF Consistent
  <2>9. QED
    BY <1>4, <2>3, <2>5, <2>6, <2>8
<1>10. ASSUME NEW d \in BOOLEAN, NEW f \in BOOLEAN, EndEntry(r, d, f), x.pc # "send"
       PROVE  RunInv'
  <2>1. PICK dd \in BOOLEAN, ff \in BOOLEAN :
          dd = (x.dispatched \/ d) /\ ff = (x.failed \/ f)
    OBVIOUS
  <2>2. PICK y : y = [x EXCEPT !.pc = "next", !.entry = NoEnvelope,
                               !.dispatched = dd, !.failed = ff]
    OBVIOUS
  <2>3. y \in Run
    BY <2>2, RunRecord
  <2>4. /\ y.pc = "next" /\ y.batch = x.batch /\ y.entry = NoEnvelope
        /\ y.peer = x.peer /\ y.acked = x.acked
    BY <2>2 DEF Run
  <2>5. run' = [run EXCEPT ![r] = y]
    BY <1>1, <1>10, <2>1, <2>2 DEF EndEntry, Run
  <2>6. Consistent(y)
    BY <1>2, <1>10, <2>4 DEF Consistent
  <2>7. QED
    BY <1>4, <1>10, <2>3, <2>5, <2>6
<1>11. CASE MarkSent(r) \/ MarkFailed(r)
  BY <1>1, <1>10, <1>11 DEF MarkSent, MarkFailed
<1>12. CASE MarkSentFails(r)
  <2>1. PICK y : y = [x EXCEPT !.pc = "unsent"]
    OBVIOUS
  <2>2. y \in Run
    BY <2>1, RunRecord DEF RunPc
  <2>3. /\ y.pc = "unsent" /\ y.batch = x.batch /\ y.entry = x.entry
        /\ y.peer = x.peer /\ y.acked = x.acked
    BY <2>1 DEF Run
  <2>4. run' = [run EXCEPT ![r] = y] /\ x.pc = "sent"
    BY <1>1, <1>12, <2>1 DEF MarkSentFails, Go
  <2>5. Consistent(y)
    BY <1>2, <2>3, <2>4 DEF Consistent
  <2>6. QED
    BY <1>4, <2>2, <2>4, <2>5
<1>13. CASE Acknowledged(r)
  <2>1. PICK y : y = [x EXCEPT !.todo = @ \ {x.peer}, !.peer = NoPeer, !.acked = FALSE]
    OBVIOUS
  <2>2. y \in Run
    BY <2>1, RunRecord
  <2>3. /\ y.pc = x.pc /\ y.batch = x.batch /\ y.entry = x.entry
        /\ y.todo = x.todo \ {x.peer} /\ y.peer = NoPeer /\ ~y.acked
    BY <2>1 DEF Run
  <2>4. run' = [run EXCEPT ![r] = y] /\ x.pc = "send" /\ x.acked
    BY <1>1, <1>13, <2>1 DEF Acknowledged
  <2>5. x.entry \in reached[x.peer] /\ \A p \in Peers : p \in x.todo \/ x.entry \in reached[p]
    BY <1>2, <2>4 DEF Consistent
  <2>6. Consistent(y)
    BY <1>2, <2>3, <2>4, <2>5 DEF Consistent
  <2>7. QED
    BY <1>4, <2>2, <2>4, <2>6
<1>14. CASE DispatchResolves(r)
  <2>1. PICK y : y = [x EXCEPT !.pc = "sent"]
    OBVIOUS
  <2>2. y \in Run
    BY <2>1, RunRecord DEF RunPc
  <2>3. /\ y.pc = "sent" /\ y.batch = x.batch /\ y.entry = x.entry
        /\ y.peer = x.peer /\ y.acked = x.acked
    BY <2>1 DEF Run
  <2>4. run' = [run EXCEPT ![r] = y] /\ x.pc = "send" /\ x.todo = {}
    BY <1>1, <1>14, <2>1 DEF DispatchResolves, Go
  <2>5. x.peer = NoPeer /\ ~x.acked
    BY <1>2, <1>3, <2>4 DEF Consistent
  <2>6. Consistent(y)
    BY <1>2, <2>3, <2>4, <2>5 DEF Consistent
  <2>7. QED
    BY <1>4, <2>2, <2>4, <2>5, <2>6
<1>15. QED
  BY <1>5, <1>7, <1>8, <1>9, <1>11, <1>12, <1>13, <1>14 DEF HandlerStep

\* A run sends: it now waits for this frame and no other.
LEMMA SendKeeps ==
  ASSUME Types, RunInv, [Next]_vars, NEW r \in Runs, NEW p \in Peers, Send(r, p)
  PROVE  RunInv'
<1>1. PICK x \in Run : x = run[r]
  BY TypesSplit DEF SenderTypes
<1>2. PICK y : y = [x EXCEPT !.peer = p]
  OBVIOUS
<1>3. y \in Run
  BY <1>2, RunRecord
<1>4. /\ y.pc = x.pc /\ y.batch = x.batch /\ y.entry = x.entry /\ y.todo = x.todo
      /\ y.peer = p /\ y.acked = x.acked
  BY <1>2 DEF Run
<1>5. /\ run' = [run EXCEPT ![r] = y] /\ outbox' = outbox
      /\ x.pc = "send" /\ x.peer = NoPeer /\ p \in x.todo
  BY <1>1, <1>2 DEF Send
<1>6. PICK g : g = [sender |-> r, envelope |-> x.entry, peer |-> p]
  OBVIOUS
<1>7. wire' = wire \cup {g}
  BY <1>1, <1>6 DEF Send
<1>8. Consistent(x)
  BY <1>1 DEF RunInv
<1>9. ~x.acked
  BY <1>5, <1>8 DEF Consistent
<1>10. Consistent(y)
  BY <1>4, <1>5, <1>8, <1>9 DEF Consistent
<1>11. \A s \in Runs : Consistent(run[s])'
  BY <1>3, <1>5, <1>10, ConsistentLasts, OneRun
<1>12. run'[r] = y
  BY <1>5, TypesSplit DEF SenderTypes
<1>13. Followed(g)'
  <2>1. x.entry \in Envelopes
    BY <1>1, <1>5, TypesSplit DEF SenderTypes, EntryInv
  <2>2. outbox'[x.entry].status # "ABSENT"
    BY <1>5, <1>8, <2>1 DEF Consistent
  <2>3. QED
    BY <1>4, <1>5, <1>6, <1>9, <1>12, <2>2 DEF Followed
<1>14. ASSUME NEW f \in wire PROVE Followed(f)'
  <2>1. f \in Frame /\ Followed(f)
    BY TypesSplit DEF RunInv, TransportTypes
  <2>2. f.peer \in Peers
    BY <2>1 DEF Frame
  <2>3. f.sender # r
    BY <1>1, <1>5, <2>1, <2>2 DEF Followed
  <2>4. f.sender \in Runs => run'[f.sender] = run[f.sender]
    BY <1>5, <2>3, TypesSplit DEF SenderTypes
  <2>5. QED
    BY <1>5, <2>1, <2>4 DEF Followed
<1>15. QED
  BY <1>7, <1>11, <1>13, <1>14 DEF RunInv

\* A run gives a dispatch up: its frame travels on with nobody waiting for it.
LEMMA RejectKeeps ==
  ASSUME Types, RunInv, [Next]_vars, NEW r \in Runs, DispatchRejects(r)
  PROVE  RunInv'
<1>1. PICK x \in Run : x = run[r]
  BY TypesSplit DEF SenderTypes
<1>2. PICK y : y = [x EXCEPT !.pc = "unsent", !.todo = {}, !.peer = NoPeer, !.acked = FALSE]
  OBVIOUS
<1>3. y \in Run
  BY <1>2, RunRecord
<1>4. /\ y.pc = "unsent" /\ y.batch = x.batch /\ y.entry = x.entry
      /\ y.peer = NoPeer /\ ~y.acked
  BY <1>2 DEF Run
<1>5. run' = [run EXCEPT ![r] = y] /\ wire' = Abandon(r, wire) /\ outbox' = outbox
  BY <1>1, <1>2 DEF DispatchRejects
<1>6. Consistent(y)
  BY <1>1, <1>4 DEF RunInv, Consistent
<1>7. \A s \in Runs : Consistent(run[s])'
  BY <1>3, <1>5, <1>6, ConsistentLasts, OneRun
<1>8. ASSUME NEW g \in wire' PROVE Followed(g)'
  <2>1. PICK f \in wire : g = IF f.sender = r THEN [f EXCEPT !.sender = NoSender] ELSE f
    BY <1>5, <1>8 DEF Abandon
  <2>2. f \in Frame /\ Followed(f)
    BY TypesSplit DEF RunInv, TransportTypes
  <2>3. CASE f.sender = r
    <3>1. g.sender = NoSender /\ g.envelope = f.envelope
      BY <2>1, <2>2, <2>3 DEF Frame
    <3>2. QED
      BY <1>5, <2>2, <3>1 DEF Followed
  <2>4. CASE f.sender # r
    <3>1. f.sender \in Runs => run'[f.sender] = run[f.sender]
      BY <1>5, <2>4, TypesSplit DEF SenderTypes
    <3>2. QED
      BY <1>5, <2>1, <2>2, <2>4, <3>1 DEF Followed
  <2>5. QED
    BY <2>3, <2>4
<1>9. QED
  BY <1>7, <1>8 DEF RunInv

\* An endpoint accepts a frame: the run that waits for it learns that its peer
\* has the entry.
LEMMA AcceptKeeps ==
  ASSUME Types, RunInv, [Next]_vars, NEW f \in wire, Accept(f)
  PROVE  RunInv'
<1>1. f \in Frame /\ Followed(f)
  BY TypesSplit DEF RunInv, TransportTypes
<1>2. /\ f.sender \in Runs \cup {NoSender} /\ f.envelope \in Envelopes /\ f.peer \in Peers
  BY <1>1 DEF Frame
<1>3. CASE f.sender = NoSender
  BY <1>3, QuietStep DEF Accept
<1>4. CASE f.sender # NoSender
  <2>1. PICK r \in Runs : r = f.sender
    BY <1>2, <1>4
  <2>2. PICK x \in Run : x = run[r]
    BY TypesSplit DEF SenderTypes
  <2>3. PICK y : y = [x EXCEPT !.acked = TRUE]
    OBVIOUS
  <2>4. y \in Run
    BY <2>3, RunRecord
  <2>5. /\ y.pc = x.pc /\ y.batch = x.batch /\ y.entry = x.entry /\ y.todo = x.todo
        /\ y.peer = x.peer
    BY <2>3 DEF Run
  <2>6. run' = [run EXCEPT ![r] = y] /\ wire' = wire \ {f} /\ outbox' = outbox
    BY <1>4, <2>1, <2>2, <2>3 DEF Accept
  <2>7. x.pc = "send" /\ x.entry = f.envelope /\ x.peer = f.peer
    BY <1>1, <2>1, <2>2 DEF Followed
  <2>8. f.envelope \in reached'[f.peer]
    BY <1>2, TypesSplit DEF Accept, TransportTypes
  <2>9. Consistent(x)'
    BY <2>2, ConsistentLasts DEF RunInv
  <2>10. NoPeer \notin Peers
    OBVIOUS
  <2>11. Consistent(y)'
    BY <1>2, <2>5, <2>7, <2>8, <2>9, <2>10 DEF Consistent
  <2>12. \A s \in Runs : Consistent(run[s])'
    BY <2>4, <2>6, <2>11, OneRun
  <2>13. ASSUME NEW g \in wire' PROVE Followed(g)'
    <3>1. g \in wire /\ g # f /\ g \in Frame /\ Followed(g)
      BY <2>6, <2>13, TypesSplit DEF RunInv, TransportTypes
    <3>2. g.sender # r
      BY <1>1, <2>1, <2>2, <2>7, <3>1 DEF Followed, Frame
    <3>3. g.sender \in Runs => run'[g.sender] = run[g.sender]
      BY <2>6, <3>2, TypesSplit DEF SenderTypes
    <3>4. QED
      BY <2>6, <3>1, <3>3 DEF Followed
  <2>14. QED
    BY <2>12, <2>13 DEF RunInv
<1>5. QED
  BY <1>3, <1>4

\* The abort signal changes nothing of what a run knows.
LEMMA AbortKeeps ==
  ASSUME Types, RunInv, [Next]_vars, NEW r \in Runs, Abort(r), wire' = wire
  PROVE  RunInv'
<1>1. PICK x \in Run : x = run[r]
  BY TypesSplit DEF SenderTypes
<1>2. PICK y : y = [x EXCEPT !.aborted = TRUE]
  OBVIOUS
<1>3. y \in Run
  BY <1>2, RunRecord
<1>4. /\ y.pc = x.pc /\ y.batch = x.batch /\ y.entry = x.entry /\ y.todo = x.todo
      /\ y.peer = x.peer /\ y.acked = x.acked
  BY <1>2 DEF Run
<1>5. run' = [run EXCEPT ![r] = y] /\ outbox' = outbox
  BY <1>1, <1>2 DEF Abort
<1>6. Consistent(y)
  BY <1>1, <1>4 DEF RunInv, Consistent
<1>7. \A s \in Runs : Consistent(run[s])'
  BY <1>3, <1>5, <1>6, ConsistentLasts, OneRun
<1>8. ASSUME NEW f \in wire PROVE Followed(f)'
  <2>1. Followed(f)
    BY DEF RunInv
  <2>2. CASE f.sender = r
    <3>1. run'[f.sender] = y
      BY <1>5, <2>2, TypesSplit DEF SenderTypes
    <3>2. QED
      BY <1>1, <1>4, <1>5, <2>1, <2>2, <3>1 DEF Followed
  <2>3. CASE f.sender # r
    <3>1. f.sender \in Runs => run'[f.sender] = run[f.sender]
      BY <1>5, <2>3, TypesSplit DEF SenderTypes
    <3>2. QED
      BY <1>5, <2>1, <3>1 DEF Followed
  <2>4. QED
    BY <2>2, <2>3
<1>9. QED
  BY <1>7, <1>8 DEF RunInv

\* A restart of the sender leaves no run, and no frame that is waited for.
LEMMA RestartKeeps ==
  ASSUME Types, RunInv, SenderRestart
  PROVE  RunInv'
<1>1. outbox' = outbox /\ run' = [r \in Runs |-> NoRun]
      /\ wire' = {[f EXCEPT !.sender = NoSender] : f \in wire}
  BY DEF SenderRestart, Restart
<1>2. \A r \in Runs : Consistent(run[r])'
  BY <1>1 DEF Consistent, NoRun
<1>3. ASSUME NEW g \in wire' PROVE Followed(g)'
  <2>1. PICK f \in wire : g = [f EXCEPT !.sender = NoSender]
    BY <1>1, <1>3
  <2>2. f \in Frame /\ Followed(f)
    BY TypesSplit DEF RunInv, TransportTypes
  <2>3. g.sender = NoSender /\ g.envelope = f.envelope
    BY <2>1, <2>2 DEF Frame
  <2>4. QED
    BY <1>1, <2>2, <2>3 DEF Followed
<1>4. QED
  BY <1>2, <1>3 DEF RunInv

\* What runs and frames know stays true, step by step.
LEMMA RunNext == Types /\ RunInv /\ [Next]_vars => RunInv'
<1> SUFFICES ASSUME Types, RunInv, [Next]_vars PROVE RunInv'
  OBVIOUS
<1>1. CASE UNCHANGED vars
  BY <1>1, QuietStep DEF vars
<1>2. CASE OutboxStep /\ SenderOnly
  <2>1. wire' = wire
    BY <1>2 DEF SenderOnly, transportVars
  <2>2. CASE \/ \E e \in Envelopes : Enqueue(e)
             \/ EnqueueSync \/ Tick \/ CancelSync
             \/ \E S \in SUBSET Envelopes : PruneOutbox(S)
    BY <2>1, <2>2, QuietStep
       DEF Enqueue, EnqueueSync, Tick, CancelSync, PruneOutbox, outboxVars
  <2>3. CASE \E r \in Runs : Abort(r) \/ MarkSentFails(r) \/ Unreported(r)
    BY <2>1, <2>3, AbortKeeps, HandlerKeeps
  <2>4. QED
    BY <1>2, <2>2, <2>3 DEF OutboxStep
<1>3. ASSUME NEW r \in Runs, RunStep(r) PROVE RunInv'
  <2>1. CASE Acknowledged(r) \/ DispatchResolves(r)
    <3>1. wire' = wire
      BY <2>1 DEF Acknowledged, DispatchResolves, transportVars
    <3>2. QED
      BY <2>1, <3>1, HandlerKeeps
  <2>2. CASE DispatchRejects(r) \/ \E p \in Peers : Send(r, p)
    BY <2>2, SendKeeps, RejectKeeps
  <2>3. CASE (Lease(r) \/ HandlerStep(r)) /\ SenderOnly
    <3>1. wire' = wire
      BY <2>3 DEF SenderOnly, transportVars
    <3>2. QED
      BY <2>3, <3>1, HandlerKeeps
  <2>4. QED
    BY <1>3, <2>1, <2>2, <2>3 DEF RunStep, DispatchStep
<1>4. CASE \/ \E f \in wire : LoseFrame(f)
           \/ \E p \in Peers, e \in Envelopes : Handle(p, e) \/ HandleFails(p, e)
           \/ \E p \in Peers : Emit(p) \/ PeerRestart(p) \/ StopEndpoint(p) \/ InboxFault(p)
  <2>1. run' = run /\ wire' \subseteq wire
    BY <1>4 DEF LoseFrame, Handle, HandleFails, Emit, PeerRestart, StopEndpoint, InboxFault,
                outboxVars, transportVars
  <2>2. QED
    BY <2>1, QuietStep
<1>5. CASE \/ \E p \in Peers, k \in Passes : PassStep(p, k)
           \/ \E p \in Peers, S \in SUBSET Envelopes : PruneInbox(p, S) /\ ReceiverOnly
  BY <1>5, QuietStep DEF PassStep, ReceiverOnly, outboxVars, transportVars
<1>6. QED
  BY <1>1, <1>2, <1>3, <1>4, <1>5, AcceptKeeps, RestartKeeps DEF Next

-----------------------------------------------------------------------------
(* The refinement. *)

\* The variables of Delivery, as Contract substitutes them.
Status == [e \in Envelopes |-> Abstract(outbox[e].status)]
Effect == [p \in Peers |-> {e \in Envelopes : applied[p][e] > 0}]

\* What each status is to Delivery.
LEMMA AbstractStatus ==
  /\ Abstract("ABSENT") = "none" /\ Abstract("PENDING") = "pending"
  /\ Abstract("SENT") = "sent" /\ Abstract("DELETED") = "sent"
  /\ Abstract("FAILED") = "failed"
BY DEF Abstract

\* A change of the outbox table is a step of Delivery, or none.
LEMMA StatusStep ==
  ASSUME Types, RunInv, OutboxChange, reached' = reached, Effect' = Effect
  PROVE  [Contract!Next]_(Contract!vars)
<1>1. outbox \in [Envelopes -> OutboxRow] /\ \A e \in Envelopes : outbox[e] \in OutboxRow
  BY TypesSplit DEF SenderTypes
<1>2. CASE Status' = Status
  BY <1>2 DEF Contract!vars, Status, Effect
<1>3. ASSUME NEW e \in Envelopes, NEW a, Status' = [Status EXCEPT ![e] = a],
             \/ Status[e] = "none" /\ a = "pending"
             \/ Status[e] = "pending" /\ a = "failed"
             \/ Status[e] = "pending" /\ a = "sent" /\ \A p \in Peers : e \in reached[p]
      PROVE  Contract!Next
  <2>1. Contract!Author(e) \/ Contract!GiveUp(e) \/ Contract!Confirm(e)
    BY <1>3 DEF Contract!Author, Contract!GiveUp, Contract!Confirm, Status, Effect
  <2>2. QED
    BY <2>1 DEF Contract!Next
<1>4. ASSUME NEW e \in Envelopes, Authored(e) PROVE Contract!Next
  <2>1. Status[e] = "none"
    BY <1>4 DEF Authored, Status, Abstract
  <2>2. ASSUME NEW d \in Envelopes
        PROVE  outbox'[d].status = IF d = e THEN "PENDING" ELSE outbox[d].status
    BY <1>1, <1>4 DEF Authored, OutboxRow
  <2>3. Status' = [Status EXCEPT ![e] = "pending"]
    <3>1. \A d \in Envelopes : Abstract(outbox'[d].status) =
            IF d = e THEN "pending" ELSE Abstract(outbox[d].status)
      BY <2>2, AbstractStatus
    <3>2. QED
      BY <3>1 DEF Status
  <2>4. QED
    BY <1>3, <2>1, <2>3
<1>5. ASSUME NEW S \in SUBSET Envelopes, Pruned(S) PROVE Status' = Status
  <2>1. ASSUME NEW d \in Envelopes
        PROVE  \/ outbox'[d].status = outbox[d].status
               \/ outbox[d].status = "SENT" /\ outbox'[d].status = "DELETED"
    BY <1>1, <1>5 DEF Pruned, OutboxRow
  <2>2. \A d \in Envelopes : Abstract(outbox'[d].status) = Abstract(outbox[d].status)
    BY <2>1, AbstractStatus
  <2>3. QED
    BY <2>2 DEF Status
<1>6. ASSUME NEW r \in Runs, Sent(r) PROVE Contract!Next
  <2>1. PICK e \in Envelopes : e = run[r].entry
    BY <1>6, TypesSplit DEF Sent, SenderTypes, EntryInv
  <2>2. Status[e] = "pending" /\ \A p \in Peers : e \in reached[p]
    BY <1>6, <2>1 DEF Sent, Status, Abstract, RunInv, Consistent
  <2>3. ASSUME NEW d \in Envelopes
        PROVE  outbox'[d].status = IF d = e THEN "SENT" ELSE outbox[d].status
    BY <1>1, <1>6, <2>1 DEF Sent, OutboxRow
  <2>4. Status' = [Status EXCEPT ![e] = "sent"]
    <3>1. \A d \in Envelopes : Abstract(outbox'[d].status) =
            IF d = e THEN "sent" ELSE Abstract(outbox[d].status)
      BY <2>3, AbstractStatus
    <3>2. QED
      BY <3>1 DEF Status
  <2>5. QED
    BY <1>3, <2>2, <2>4
<1>7. ASSUME NEW r \in Runs, Counted(r) PROVE Status' = Status \/ Contract!Next
  <2>1. PICK e \in Envelopes : e = run[r].entry
    BY <1>7, TypesSplit DEF Counted, SenderTypes, EntryInv
  <2>2. PICK s \in {"FAILED", "PENDING"} :
          outbox' = [outbox EXCEPT ![e] = [status |-> s, attempts |-> outbox[e].attempts + 1]]
    BY <1>7, <2>1 DEF Counted
  <2>3. Status[e] = "pending"
    BY <1>7, <2>1 DEF Counted, Status, Abstract
  <2>4. ASSUME NEW d \in Envelopes
        PROVE  outbox'[d].status = IF d = e THEN s ELSE outbox[d].status
    BY <1>1, <2>2
  <2>5. CASE s = "PENDING"
    <3>1. ASSUME NEW d \in Envelopes PROVE outbox'[d].status = outbox[d].status
      BY <1>7, <2>1, <2>4, <2>5 DEF Counted
    <3>2. QED
      BY <3>1 DEF Status
  <2>6. CASE s = "FAILED"
    <3>1. Status' = [Status EXCEPT ![e] = "failed"]
      <4>1. \A d \in Envelopes : Abstract(outbox'[d].status) =
              IF d = e THEN "failed" ELSE Abstract(outbox[d].status)
        BY <2>4, <2>6, AbstractStatus
      <4>2. QED
        BY <4>1 DEF Status
    <3>2. QED
      BY <1>3, <2>3, <3>1
  <2>7. QED
    BY <2>5, <2>6
<1>8. CASE UNCHANGED outbox
  BY <1>2, <1>8 DEF Status
<1>9. QED
  BY <1>2, <1>4, <1>5, <1>6, <1>7, <1>8 DEF OutboxChange

\* An acceptance is the arrival of an operation that was authored.
LEMMA AcceptStep ==
  ASSUME Types, RunInv, NEW f \in wire, Accept(f)
  PROVE  Contract!Next
<1>1. PICK p \in Peers, e \in Envelopes : p = f.peer /\ e = f.envelope
  BY TypesSplit DEF TransportTypes, Frame
<1>2. /\ reached' = [reached EXCEPT ![p] = @ \cup {e}]
      /\ Status' = Status /\ Effect' = Effect
  BY <1>1 DEF Accept, inboxVars, Status, Effect
<1>3. outbox[e].status # "ABSENT" /\ outbox[e].status \in Statuses
  BY <1>1, TypesSplit DEF RunInv, Followed, SenderTypes, OutboxRow
<1>4. Status[e] # "none"
  BY <1>3 DEF Status, Abstract, Statuses
<1>5. Contract!Reach(p, e)
  BY <1>2, <1>4 DEF Contract!Reach, Status, Effect
<1>6. QED
  BY <1>5 DEF Contract!Next

\* A successful applyFn is the effect of an operation that arrived, or another
\* effect of the same.
LEMMA ApplyStep ==
  ASSUME Types, ReachedInv, NEW p \in Peers, NEW k \in Passes, PassApply(p, k),
         outbox' = outbox, reached' = reached
  PROVE  [Contract!Next]_(Contract!vars)
<1>1. ReceiverTypes
  BY TypesSplit
<1>2. PICK e \in pass[p][k].rows, pc \in {"mark", "conflict", "fail"} : Called(p, k, e, pc)
  BY <1>1, ApplyEffect
<1>3. Status' = Status
  BY DEF Status
<1>4. CASE applied' = applied
  BY <1>3, <1>4 DEF Contract!vars, Status, Effect
<1>5. CASE applied' = [applied EXCEPT ![p][e] = @ + 1]
  <2>1. e \in Envelopes /\ e \in reached[p]
    BY <1>1, <1>2 DEF Called, ReachedInv, Stored
  <2>2. ASSUME NEW q \in Peers, NEW d \in Envelopes
        PROVE  applied'[q][d] = IF q = p /\ d = e THEN applied[q][d] + 1 ELSE applied[q][d]
    BY <1>1, <1>5, <2>1 DEF ReceiverTypes
  <2>3. ASSUME NEW q \in Peers, NEW d \in Envelopes
        PROVE  applied'[q][d] > 0 <=> applied[q][d] > 0 \/ (q = p /\ d = e)
    <3>1. applied[q] \in [Envelopes -> Nat]
      BY <1>1 DEF ReceiverTypes
    <3>2. QED
      BY <2>2, <3>1
  <2>4. ASSUME NEW q \in Peers
        PROVE  {d \in Envelopes : applied'[q][d] > 0} =
                 IF q = p THEN {d \in Envelopes : applied[q][d] > 0} \cup {e}
                 ELSE {d \in Envelopes : applied[q][d] > 0}
    BY <2>1, <2>3
  <2>5. Effect' = [Effect EXCEPT ![p] = @ \cup {e}]
    BY <2>4 DEF Effect
  <2>6. Contract!Apply(p, e)
    BY <1>3, <2>1, <2>5 DEF Contract!Apply, Status, Effect
  <2>7. QED
    BY <2>1, <2>6 DEF Contract!Next
<1>6. QED
  BY <1>2, <1>4, <1>5 DEF Called

\* Every step of replication is a step of Delivery, or none.
LEMMA NextDelivers ==
  Types /\ RunInv /\ ReachedInv /\ [Next]_vars => [Contract!Next]_(Contract!vars)
<1> SUFFICES ASSUME Types, RunInv, ReachedInv, [Next]_vars
             PROVE  [Contract!Next]_(Contract!vars)
  OBVIOUS
<1>1. OutboxChange
  BY NextOutboxChange
<1>2. ASSUME UNCHANGED <<reached, applied>> PROVE [Contract!Next]_(Contract!vars)
  BY <1>1, <1>2, StatusStep DEF Effect
<1>3. CASE UNCHANGED vars
  BY <1>2, <1>3 DEF vars
<1>4. CASE \/ OutboxStep /\ SenderOnly
           \/ \E r \in Runs : RunStep(r)
  BY <1>2, <1>4 DEF SenderOnly, inboxVars, transportVars, RunStep, DispatchStep, Send,
                    Acknowledged, DispatchResolves, DispatchRejects
<1>5. CASE \/ \E f \in wire : LoseFrame(f)
           \/ \E p \in Peers, e \in Envelopes : Handle(p, e) \/ HandleFails(p, e)
           \/ \E p \in Peers : Emit(p) \/ PeerRestart(p) \/ StopEndpoint(p) \/ InboxFault(p)
           \/ SenderRestart
  BY <1>2, <1>5 DEF LoseFrame, Handle, Receive, HandleFails, Emit, PeerRestart, StopEndpoint,
                    InboxRestart, InboxFault, PassMarkFails, SenderRestart, inboxVars, transportVars
<1>6. CASE \E p \in Peers, S \in SUBSET Envelopes : PruneInbox(p, S) /\ ReceiverOnly
  BY <1>2, <1>6 DEF PruneInbox, ReceiverOnly, transportVars
<1>7. ASSUME NEW p \in Peers, NEW k \in Passes, PassStep(p, k)
      PROVE  [Contract!Next]_(Contract!vars)
  <2>1. outbox' = outbox /\ reached' = reached
    BY <1>7 DEF PassStep, ReceiverOnly, outboxVars, transportVars
  <2>2. CASE PassRead(p, k) \/ PassMark(p, k)
    BY <1>2, <2>1, <2>2 DEF PassRead, PassMark
  <2>3. QED
    BY <1>7, <2>1, <2>2, ApplyStep DEF PassStep
<1>8. ASSUME NEW f \in wire, Accept(f) PROVE [Contract!Next]_(Contract!vars)
  BY <1>8, AcceptStep
<1>9. QED
  BY <1>3, <1>4, <1>5, <1>6, <1>7, <1>8 DEF Next

\* Replication keeps the promise of Delivery: an operation becomes SENT only
\* when every peer's endpoint has it, SENT and FAILED are final, and a peer
\* applies nothing that did not reach it.
THEOREM DeliveryImplemented == Spec => ImplementsDelivery
<1>1. Init => RunInv /\ ReachedInv /\ Contract!Init
  <2> SUFFICES ASSUME Init PROVE RunInv /\ ReachedInv /\ Contract!Init
    OBVIOUS
  <2>1. RunInv
    BY DEF Init, OutboxInit, RunInv, Consistent, NoRun
  <2>2. ReachedInv
    BY DEF Init, InboxInit, ReachedInv, OnTheWay, Queued, Stored, NoPass
  <2>3. Contract!Init
    BY DEF Init, OutboxInit, InboxInit, Contract!Init, Abstract
  <2>4. QED
    BY <2>1, <2>2, <2>3
<1>2. QED
  BY <1>1, InitTypes, NextTypes, RunNext, ReachedNext, NextDelivers, PTL
     DEF Spec, ImplementsDelivery, Contract!Spec
=============================================================================
