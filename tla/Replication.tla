---------------------------- MODULE Replication -----------------------------
(***************************************************************************)
(* Replication from one device to the peers of its sync group: Outbox and  *)
(* Inbox joined by the transport, that is IrohSyncTransport in the webview *)
(* and IrohSyncEndpoint below it.                                          *)
(*                                                                         *)
(* A frame is on the wire, then in the bounded channel of the receiving    *)
(* endpoint, which acknowledges it, then an event that the webview handles *)
(* and that ends in InboxService.receive.  Only the last is durable.       *)
(***************************************************************************)
EXTENDS Inbox, Sequences

CONSTANTS Capacity,   \* INBOUND_QUEUE_CAPACITY
          NoSender    \* a frame nobody waits for any more

ASSUME TransportAssumption == Capacity \in Nat \ {0} /\ NoSender \notin Runs

VARIABLES wire,      \* frames sent and not yet accepted
          channel,   \* channel[p]: the endpoint's inbound queue
          handling,  \* handling[p]: envelopes whose event is being handled
          reached,   \* reached[p]: history, envelopes p's endpoint accepted
          lost       \* lost[p]: history, accepted ones that p then dropped

transportVars == <<wire, channel, handling, reached, lost>>
vars == <<outbox, task, tries, run, faults, inbox, pass, applied, forgot, pruned,
          wire, channel, handling, reached, lost>>

Frame == [sender : Runs \cup {NoSender}, envelope : Envelopes, peer : Peers]

Init ==
  /\ OutboxInit /\ InboxInit
  /\ wire = {}
  /\ channel = [p \in Peers |-> <<>>]
  /\ handling = [p \in Peers |-> {}]
  /\ reached = [p \in Peers |-> {}]
  /\ lost = [p \in Peers |-> {}]

-----------------------------------------------------------------------------
(* Dispatching one entry: the host's dispatcher sends it to every peer of  *)
(* the group, and rejects when a send does.                                *)

Abandon(r, frames) ==
  {IF f.sender = r THEN [f EXCEPT !.sender = NoSender] ELSE f : f \in frames}

\* send: the frame goes out on a stream of its own.
Send(r, p) ==
  /\ run[r].pc = "send" /\ run[r].peer = NoPeer /\ p \in run[r].todo
  /\ wire' = wire \cup {[sender |-> r, envelope |-> run[r].entry, peer |-> p]}
  /\ run' = [run EXCEPT ![r].peer = p]
  /\ UNCHANGED <<outbox, task, tries, faults, inboxVars, channel, handling,
                 reached, lost>>

\* The acknowledgement arrives in time.
Acknowledged(r) ==
  /\ run[r].pc = "send" /\ run[r].acked
  /\ run' = [run EXCEPT ![r].todo = @ \ {run[r].peer}, ![r].peer = NoPeer,
                        ![r].acked = FALSE]
  /\ UNCHANGED <<outbox, task, tries, faults, inboxVars, transportVars>>

DispatchResolves(r) ==
  /\ run[r].pc = "send" /\ run[r].todo = {}
  /\ Go(r, "sent")
  /\ UNCHANGED <<outbox, task, tries, faults, inboxVars, transportVars>>

\* The peer is not connected, the stream fails, or no acknowledgement comes in
\* time, although the frame may be accepted, now or later.
DispatchRejects(r) ==
  /\ run[r].pc = "send" /\ run[r].todo # {}
  /\ run' = [run EXCEPT ![r].pc = "unsent", ![r].todo = {}, ![r].peer = NoPeer,
                        ![r].acked = FALSE]
  /\ wire' = Abandon(r, wire)
  /\ UNCHANGED <<outbox, task, tries, faults, inboxVars, channel, handling,
                 reached, lost>>

-----------------------------------------------------------------------------
(* The receiving endpoint and the webview above it. *)

\* Mutant: the handler does not wait, it drops the frame and acknowledges it.
AcceptOrDrop(f) ==
  /\ f \in wire
  /\ wire' = wire \ {f}
  /\ channel' = [channel EXCEPT ![f.peer] =
       IF Len(@) < Capacity THEN Append(@, f.envelope) ELSE @]
  /\ reached' = [reached EXCEPT ![f.peer] = @ \cup {f.envelope}]
  /\ run' = IF f.sender = NoSender THEN run
            ELSE [run EXCEPT ![f.sender].acked = TRUE]
  /\ UNCHANGED <<outbox, task, tries, faults, inboxVars, handling, lost>>

\* A stream's handler waits for room in the channel, then acknowledges.
Accept(f) ==
  /\ f \in wire /\ Len(channel[f.peer]) < Capacity
  /\ wire' = wire \ {f}
  /\ channel' = [channel EXCEPT ![f.peer] = Append(@, f.envelope)]
  /\ reached' = [reached EXCEPT ![f.peer] = @ \cup {f.envelope}]
  /\ run' = IF f.sender = NoSender THEN run
            ELSE [run EXCEPT ![f.sender].acked = TRUE]
  /\ UNCHANGED <<outbox, task, tries, faults, inboxVars, handling, lost>>

LoseFrame(f) ==
  /\ f \in wire /\ Fault
  /\ wire' = wire \ {f}
  /\ UNCHANGED <<outbox, task, tries, run, inboxVars, channel, handling, reached,
                 lost>>

\* The pump takes the next frame and emits it to the webview.
Emit(p) ==
  /\ channel[p] # <<>>
  /\ channel' = [channel EXCEPT ![p] = Tail(@)]
  /\ handling' = [handling EXCEPT ![p] = @ \cup {Head(channel[p])}]
  /\ UNCHANGED <<outboxVars, inboxVars, wire, reached, lost>>

\* Handlers of different events interleave: the channel's order ends here.
Handle(p, e) ==
  /\ e \in handling[p]
  /\ Receive(p, e)
  /\ handling' = [handling EXCEPT ![p] = @ \ {e}]
  /\ UNCHANGED <<outboxVars, wire, channel, reached, lost>>

\* No listener is attached, the envelope is refused or receive throws: the
\* transport logs the error and the envelope is gone.
HandleFails(p, e) ==
  /\ e \in handling[p] /\ Fault
  /\ handling' = [handling EXCEPT ![p] = @ \ {e}]
  /\ lost' = [lost EXCEPT ![p] = @ \cup {e}]
  /\ UNCHANGED <<outbox, task, tries, run, inboxVars, wire, channel, reached>>

-----------------------------------------------------------------------------
(* Restarts: everything but the tables is lost. *)

SenderRestart ==
  /\ Restart
  /\ wire' = {[f EXCEPT !.sender = NoSender] : f \in wire}
  /\ UNCHANGED <<inboxVars, channel, handling, reached, lost>>

PeerRestart(p) ==
  /\ Fault
  /\ InboxRestart(p)
  /\ wire' = {f \in wire : f.peer # p}
  /\ lost' = [lost EXCEPT ![p] = @ \cup handling[p]
                                   \cup {channel[p][i] : i \in 1..Len(channel[p])}]
  /\ channel' = [channel EXCEPT ![p] = <<>>]
  /\ handling' = [handling EXCEPT ![p] = {}]
  /\ UNCHANGED <<outbox, task, tries, run, reached>>

\* The webview of p disposes of its transport, which stops the endpoint: what
\* the channel holds is dropped, and so are the events no listener hears any
\* more; connections are closed.  The step stands for the next init too.
StopEndpoint(p) ==
  /\ Fault
  /\ wire' = {f \in wire : f.peer # p}
  /\ \E unheard \in SUBSET handling[p] :
       /\ handling' = [handling EXCEPT ![p] = @ \ unheard]
       /\ lost' = [lost EXCEPT ![p] = @ \cup unheard
                                        \cup {channel[p][i] : i \in 1..Len(channel[p])}]
  /\ channel' = [channel EXCEPT ![p] = <<>>]
  /\ UNCHANGED <<outbox, task, tries, run, inboxVars, reached>>

-----------------------------------------------------------------------------
SenderOnly == UNCHANGED inboxVars /\ UNCHANGED transportVars
ReceiverOnly == UNCHANGED outboxVars /\ UNCHANGED transportVars

\* Steps of the outbox that need not happen.
OutboxStep ==
  \/ \E e \in Envelopes : Enqueue(e)
  \/ EnqueueSync \/ Tick \/ CancelSync
  \/ \E S \in SUBSET Envelopes : PruneOutbox(S)
  \/ \E r \in Runs : Abort(r) \/ MarkSentFails(r) \/ Unreported(r)

HandlerStep(r) ==
  \/ Load(r) \/ LoadFails(r) \/ Take(r) \/ Finish(r)
  \/ MarkSent(r) \/ MarkFailed(r) \/ MarkFailedSkipped(r)

DispatchStep(r) ==
  \/ \E p \in Peers : Send(r, p)
  \/ Acknowledged(r) \/ DispatchResolves(r) \/ DispatchRejects(r)

RunStep(r) == DispatchStep(r) \/ ((Lease(r) \/ HandlerStep(r)) /\ SenderOnly)

PassStep(p, k) == (PassRead(p, k) \/ PassApply(p, k) \/ PassMark(p, k)) /\ ReceiverOnly

InboxFault(p) ==
  /\ Fault
  /\ \E k \in Passes : PassMarkFails(p, k)
  /\ UNCHANGED <<outbox, task, tries, run, transportVars>>

Next ==
  \/ OutboxStep /\ SenderOnly
  \/ \E r \in Runs : RunStep(r)
  \/ \E f \in wire : Accept(f) \/ LoseFrame(f)
  \/ \E p \in Peers, e \in Envelopes : Handle(p, e) \/ HandleFails(p, e)
  \/ \E p \in Peers, k \in Passes : PassStep(p, k)
  \/ \E p \in Peers, S \in SUBSET Envelopes : PruneInbox(p, S) /\ ReceiverOnly
  \/ \E p \in Peers : Emit(p) \/ PeerRestart(p) \/ StopEndpoint(p) \/ InboxFault(p)
  \/ SenderRestart

Spec == Init /\ [][Next]_vars

\* The task worker leases what is queued, awaited calls return, the endpoint and
\* the webview keep running, and the host keeps calling applyPending.  Nobody
\* need author an operation or ask for a sync, and no fault need happen.
Fairness ==
  /\ \A r \in Runs : WF_vars(RunStep(r))
  /\ \A f \in Frame : WF_vars(Accept(f))
  /\ \A p \in Peers :
       /\ WF_vars(Emit(p))
       /\ \A e \in Envelopes : WF_vars(Handle(p, e))
       /\ \A k \in Passes : WF_vars(PassStep(p, k))

\* Who asks for a sync again and again: the host, or the native scheduler.
HostSyncs == Spec /\ Fairness /\ WF_vars(EnqueueSync /\ SenderOnly)
SchedulerSyncs == Spec /\ Fairness /\ WF_vars(Tick /\ SenderOnly)

-----------------------------------------------------------------------------
(* Properties. *)

\* Every variable keeps its type.
TypeOK ==
  /\ outbox \in [Envelopes -> OutboxRow]
  /\ task \in {"idle", "queued", "interrupted"} \cup Runs
  /\ tries \in Nat /\ faults \in 0..MaxFaults
  /\ run \in [Runs -> Run]
  /\ inbox \in [Peers -> [Envelopes -> InboxRow]]
  /\ pass \in [Peers -> [Passes -> Pass]]
  /\ applied \in [Peers -> [Envelopes -> Nat]]
  /\ forgot \in [Peers -> SUBSET Envelopes]
  /\ pruned \in [Peers -> SUBSET Envelopes]
  /\ wire \subseteq Frame
  /\ channel \in [Peers -> Seq(Envelopes)]
  /\ handling \in [Peers -> SUBSET Envelopes]
  /\ reached \in [Peers -> SUBSET Envelopes]
  /\ lost \in [Peers -> SUBSET Envelopes]

\* An outbox row is given up exactly when it used up its attempts, although two
\* runs may count attempts of the same row, and an attempt that only delivered
\* to some of the peers counts like any other.
GivenUpAfterAllAttempts ==
  \A e \in Envelopes :
    /\ outbox[e].attempts <= MaxSends
    /\ outbox[e].status = "FAILED" <=> outbox[e].attempts = MaxSends

\* With one applyPending call at a time, a peer applies an envelope once,
\* however often it is delivered, unless the peer was made to forget that it
\* did: by a crash or a failing statement between applyFn and the update of the
\* row, or by pruning the row before the last duplicate arrived.
AppliedOnce ==
  (\A j, k \in Passes : j = k) =>
    \A p \in Peers, e \in Envelopes : 
      e \notin forgot[p] \cup pruned[p] => applied[p][e] <= 1

\* What a peer refused has never had an effect on it, although a duplicate of
\* it may have verified since.
RejectedHasNoEffect ==
  \A p \in Peers, e \in Envelopes :
    inbox[p][e].verification = "REJECTED" /\ e \notin pruned[p] =>
      applied[p][e] = 0

\* An envelope that a peer acknowledged is still on its way to the inbox or is
\* in it; it is gone only if the peer crashed, its endpoint was stopped or its
\* handler failed before the insert, or if the row was pruned.
AcknowledgedIsKept ==
  \A p \in Peers : \A e \in reached[p] \ (lost[p] \cup pruned[p]) :
    \/ inbox[p][e] # NoRow
    \/ e \in handling[p]
    \/ \E i \in 1..Len(channel[p]) : channel[p][i] = e

\* Nothing is sent while the sync task's row is RUNNING in nobody's hands, after
\* a restart too early to recover it or a report that failed, nor once a row
\* that does not validate is among the oldest.
Blocked == task = "interrupted" \/ Oldest \cap Unreadable # {}

\* An operation does not stay in the outbox for ever: it is sent to every peer
\* or given up, unless the outbox is blocked.
OutboxDrains ==
  \A e \in Envelopes :
    outbox[e].status = "PENDING" ~> outbox[e].status # "PENDING" \/ Blocked

\* What a peer acknowledged and did not drop is applied, refused or settled
\* otherwise in the end.
ReceivedIsSettled ==
  \A p \in Peers, e \in Envelopes :
    e \in reached[p] ~> \/ e \in lost[p] \cup pruned[p]
                        \/ inbox[p][e].verification = "REJECTED"
                        \/ inbox[p][e].apply \in Settled

\* What scheduler.rs:16-19 says of its ticks: they wake the queue on a schedule
\* as long as rows are pending.  The status it looks for is never stored.
SchedulerDrainsOutbox ==
  \A e \in Envelopes : outbox[e].status = "PENDING" ~> outbox[e].status # "PENDING"

\* Outbox, inboxes and everything between them implement Delivery.
Abstract(s) ==
  CASE s = "ABSENT" -> "none" [] s = "PENDING" -> "pending"
    [] s \in {"SENT", "DELETED"} -> "sent" [] s = "FAILED" -> "failed"

Contract == INSTANCE Delivery
  WITH status <- [e \in Envelopes |-> Abstract(outbox[e].status)],
       received <- reached,
       effect <- [p \in Peers |-> {e \in Envelopes : applied[p][e] > 0}]
ImplementsDelivery == Contract!Spec
=============================================================================
