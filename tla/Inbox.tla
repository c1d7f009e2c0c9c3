------------------------------- MODULE Inbox --------------------------------
(***************************************************************************)
(* The receiving side of replication, on every peer: the durable table     *)
(* core_sync_inbox and the operations of InboxService on it, one step per  *)
(* await.  The host's applyFn is modelled by what the code asks of it: it  *)
(* has its effect and returns, or has none and throws.                     *)
(*                                                                         *)
(* Envelope numbers are also their logical timestamps: they all come from  *)
(* one device, whose clock is monotonic.                                   *)
(***************************************************************************)
EXTENDS Outbox

CONSTANTS Passes,        \* bound: calls of applyPending at a time
          VerifyMayFail, \* whether verifying may throw for a good envelope
          MaxApplied     \* bound: effects of one envelope on one peer

ASSUME InboxAssumption ==
  /\ VerifyMayFail \in BOOLEAN /\ MaxApplied \in Nat

VARIABLES inbox,    \* inbox[p][e]: the table of peer p
          pass,     \* pass[p][k]: a call of applyPending
          applied,  \* applied[p][e]: how often e took effect on p
          forgot,   \* forgot[p]: history, applied ones a pass left PENDING
          pruned    \* pruned[p]: history, envelopes whose row was pruned

inboxVars == <<inbox, pass, applied, forgot, pruned>>

-----------------------------------------------------------------------------
InboxRow == [verification : {"NONE", "VERIFIED", "REJECTED"},
             apply : {"NONE", "PENDING", "APPLIED", "CONFLICT", "FAILED"}]
NoRow == [verification |-> "NONE", apply |-> "NONE"]

\* "mark" follows an applyFn that returned, the last two one that threw.
Pass == [pc : {"off", "apply", "mark", "conflict", "fail"},
         rows : SUBSET Envelopes, entry : Envelopes \cup {NoEnvelope}]
NoPass == [pc |-> "off", rows |-> {}, entry |-> NoEnvelope]

InboxInit ==
  /\ inbox = [p \in Peers |-> [e \in Envelopes |-> NoRow]]
  /\ pass = [p \in Peers |-> [k \in Passes |-> NoPass]]
  /\ applied = [p \in Peers |-> [e \in Envelopes |-> 0]]
  /\ forgot = [p \in Peers |-> {}]
  /\ pruned = [p \in Peers |-> {}]

Settled == {"APPLIED", "CONFLICT", "FAILED"}

-----------------------------------------------------------------------------
\* Mutant: a duplicate replaces the row.
ReceiveReplacing(p, e) ==
  /\ \E verdict \in {"VERIFIED"} \cup (IF VerifyMayFail THEN {"REJECTED"} ELSE {}) :
       inbox' = [inbox EXCEPT ![p][e] = [verification |-> verdict, apply |-> "PENDING"]]
  /\ UNCHANGED <<pass, applied, forgot, pruned>>

\* receive, from the verdict on the signature on: INSERT ... ON CONFLICT DO
\* NOTHING.  An envelope that is there already is returned, or refused, and
\* its row stays as it is.
Receive(p, e) ==
  /\ \E verdict \in {"VERIFIED"} \cup (IF VerifyMayFail THEN {"REJECTED"} ELSE {}) :
       inbox' = IF inbox[p][e] = NoRow
                THEN [inbox EXCEPT ![p][e] = [verification |-> verdict,
                                              apply |-> "PENDING"]]
                ELSE inbox
  /\ UNCHANGED <<pass, applied, forgot, pruned>>

\* Mutant: the rows are not asked for their verification_status.
ApplicableUnverified(p) == {e \in Envelopes : inbox[p][e].apply = "PENDING"}

Applicable(p) ==
  {e \in Envelopes : inbox[p][e] = [verification |-> "VERIFIED", apply |-> "PENDING"]}

\* applyPending reads the rows to apply.
PassRead(p, k) ==
  /\ pass[p][k].pc = "off" /\ Applicable(p) # {}
  /\ pass' = [pass EXCEPT ![p][k] = [NoPass EXCEPT !.pc = "apply",
                                                   !.rows = Applicable(p)]]
  /\ UNCHANGED <<inbox, applied, forgot, pruned>>

\* applyFn for the row with the least logical timestamp.
PassApply(p, k) ==
  /\ pass[p][k].pc = "apply"
  /\ \E e \in pass[p][k].rows :
       /\ \A f \in pass[p][k].rows : e <= f
       /\ \/ /\ applied[p][e] < MaxApplied
             /\ applied' = [applied EXCEPT ![p][e] = @ + 1]
             /\ pass' = [pass EXCEPT ![p][k].pc = "mark", ![p][k].entry = e]
          \/ /\ \E thrown \in {"conflict", "fail"} :
                  pass' = [pass EXCEPT ![p][k].pc = thrown, ![p][k].entry = e]
             /\ UNCHANGED applied
  /\ UNCHANGED <<inbox, forgot, pruned>>

\* The pass goes to its next row, or ends after the last.
PassOn(p, k) ==
  LET rest == pass[p][k].rows \ {pass[p][k].entry}
  IN  pass' = [pass EXCEPT ![p][k] =
                 IF rest = {} THEN NoPass
                 ELSE [pc |-> "apply", rows |-> rest, entry |-> NoEnvelope]]

\* Mutant: a row whose applyFn failed stays PENDING, to be tried again.
PassMarkRetrying(p, k) ==
  /\ pass[p][k].pc \in {"mark", "conflict", "fail"}
  /\ inbox' = [inbox EXCEPT ![p][pass[p][k].entry].apply =
                 CASE pass[p][k].pc = "mark" -> "APPLIED"
                   [] pass[p][k].pc = "conflict" -> "CONFLICT"
                   [] pass[p][k].pc = "fail" -> "PENDING"]
  /\ PassOn(p, k)
  /\ UNCHANGED <<applied, forgot, pruned>>

\* UPDATE ... SET apply_status WHERE id = ?: whatever the row's status is.
PassMark(p, k) ==
  /\ pass[p][k].pc \in {"mark", "conflict", "fail"}
  /\ inbox' = [inbox EXCEPT ![p][pass[p][k].entry].apply =
                 CASE pass[p][k].pc = "mark" -> "APPLIED"
                   [] pass[p][k].pc = "conflict" -> "CONFLICT"
                   [] pass[p][k].pc = "fail" -> "FAILED"]
  /\ PassOn(p, k)
  /\ UNCHANGED <<applied, forgot, pruned>>

\* The pass that ends here leaves no trace of e's effect in the table.
Forgets(p, k, e) == pass[p][k].entry = e /\ applied[p][e] > 0

\* The UPDATE of an applied row throws: the same catch that handles applyFn's
\* errors marks the row FAILED.  That UPDATE throwing ends the pass.
PassMarkFails(p, k) ==
  /\ \/ /\ pass[p][k].pc = "mark"
        /\ pass' = [pass EXCEPT ![p][k].pc = "fail"]
        /\ UNCHANGED forgot
     \/ /\ pass[p][k].pc \in {"conflict", "fail"}
        /\ pass' = [pass EXCEPT ![p][k] = NoPass]
        /\ forgot' = [forgot EXCEPT ![p] =
             @ \cup {e \in Envelopes : Forgets(p, k, e)}]
  /\ UNCHANGED <<inbox, applied, pruned>>

\* SyncInboxPruner: one DELETE of rows past the replay window.  No pass lasts
\* as long as that window.
PruneInbox(p, S) ==
  /\ S # {}
  /\ \A e \in S : /\ inbox[p][e].apply \in {"APPLIED", "CONFLICT"}
                  /\ \A k \in Passes : e \notin pass[p][k].rows
  /\ inbox' = [inbox EXCEPT ![p] =
                 [e \in Envelopes |-> IF e \in S THEN NoRow ELSE @[e]]]
  /\ pruned' = [pruned EXCEPT ![p] = @ \cup S]
  /\ UNCHANGED <<pass, applied, forgot>>

\* The process dies: its passes are gone, wherever they were.
InboxRestart(p) ==
  /\ pass' = [pass EXCEPT ![p] = [k \in Passes |-> NoPass]]
  /\ forgot' = [forgot EXCEPT ![p] =
       @ \cup {e \in Envelopes : \E k \in Passes : Forgets(p, k, e)}]
  /\ UNCHANGED <<inbox, applied, pruned>>
=============================================================================
