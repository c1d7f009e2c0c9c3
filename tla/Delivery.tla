------------------------------ MODULE Delivery ------------------------------
(***************************************************************************)
(* What replication promises of each operation, whatever happens to        *)
(* processes, frames and acknowledgements: it is pending until the sender  *)
(* has seen every peer take it, or has given up on it, either of which is  *)
(* final; and no peer applies what did not reach it.                       *)
(***************************************************************************)
CONSTANTS Envelopes, Peers

VARIABLES status,    \* status[e]: the operation, as its author sees it
          received,  \* received[p]: what has reached peer p
          effect     \* effect[p]: what has taken effect on peer p

vars == <<status, received, effect>>

Init ==
  /\ status = [e \in Envelopes |-> "none"]
  /\ received = [p \in Peers |-> {}]
  /\ effect = [p \in Peers |-> {}]

Author(e) ==
  /\ status[e] = "none"
  /\ status' = [status EXCEPT ![e] = "pending"]
  /\ UNCHANGED <<received, effect>>

Reach(p, e) ==
  /\ status[e] # "none"
  /\ received' = [received EXCEPT ![p] = @ \cup {e}]
  /\ UNCHANGED <<status, effect>>

Confirm(e) ==
  /\ status[e] = "pending" /\ \A p \in Peers : e \in received[p]
  /\ status' = [status EXCEPT ![e] = "sent"]
  /\ UNCHANGED <<received, effect>>

GiveUp(e) ==
  /\ status[e] = "pending"
  /\ status' = [status EXCEPT ![e] = "failed"]
  /\ UNCHANGED <<received, effect>>

Apply(p, e) ==
  /\ e \in received[p]
  /\ effect' = [effect EXCEPT ![p] = @ \cup {e}]
  /\ UNCHANGED <<status, received>>

Next ==
  \/ \E e \in Envelopes : Author(e) \/ Confirm(e) \/ GiveUp(e)
  \/ \E p \in Peers, e \in Envelopes : Reach(p, e) \/ Apply(p, e)

Spec == Init /\ [][Next]_vars
=============================================================================
