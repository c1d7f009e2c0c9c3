---------------------------- MODULE Convergence ----------------------------
(***************************************************************************)
(* Replicas of one field of a record: the application registers its policy *)
(* with ConflictRegistry, every node writes it and resolves each write it  *)
(* receives against its own copy, by ConflictEngine or by the registry.    *)
(* Writes reach the nodes in any order.                                    *)
(***************************************************************************)
EXTENDS HybridClock

CONSTANTS Nothing,     \* a node that has no copy yet, a policy that is not registered
          Strategies,  \* strategies that may be registered
          MaxWrites    \* bound on writes

\* What the strategies read of an envelope.
Envelope == [stamp : Stamp, payload : Nat]

ASSUME CopiesAssumption == Nothing \notin Envelope /\ MaxWrites \in Nat

VARIABLES registered, \* [{"entity", "field"} -> strategy or Nothing]
          absolute,   \* registerAbsoluteLwwField has named the field
          policy,     \* the strategy in use, or Nothing during registration
          writes,     \* every envelope written
          delivered,  \* [Nodes -> envelopes the node wrote or received]
          copy        \* [Nodes -> the node's envelope, or Nothing]

registryVars == <<registered, absolute, policy>>
replicaVars == <<registryVars, writes, delivered, copy>>

NoPolicies == [entity |-> Nothing, field |-> Nothing]

ReplicaInit ==
    /\ registered = NoPolicies /\ absolute = FALSE /\ policy = Nothing
    /\ writes = {}
    /\ delivered = [n \in Nodes |-> {}]
    /\ copy = [n \in Nodes |-> Nothing]

----------------------------------------------------------------------------
\* A second policy for an entity type is refused, one for a field replaces the
\* first; additive is refused for a field that is declared absolute already.
RegisterEntityPolicy(strategy) ==
    /\ policy = Nothing /\ registered.entity = Nothing
    /\ registered' = [registered EXCEPT !.entity = strategy]
    /\ UNCHANGED <<absolute, policy, writes, delivered, copy>>

RegisterFieldPolicy(strategy) ==
    /\ policy = Nothing
    /\ strategy = "additive" => ~absolute
    /\ registered' = [registered EXCEPT !.field = strategy]
    /\ UNCHANGED <<absolute, policy, writes, delivered, copy>>

RegisterAbsoluteLwwField ==
    /\ policy = Nothing
    /\ absolute' = TRUE
    /\ UNCHANGED <<registered, policy, writes, delivered, copy>>

GetPolicy ==
    IF registered.field /= Nothing THEN registered.field
    ELSE IF registered.entity /= Nothing THEN registered.entity
    ELSE "lww"

\* From here on the registrations stand, and only the policy they amount to is
\* kept apart: an absolute field counts for additive only.
UsePolicy ==
    /\ policy = Nothing
    /\ policy' = GetPolicy
    /\ registered' = NoPolicies
    /\ absolute' = (absolute /\ GetPolicy = "additive")
    /\ UNCHANGED <<writes, delivered, copy>>

----------------------------------------------------------------------------
\* (Ordered by the clock reading alone.)
BeforeByReading(v, w) ==
    \/ v.stamp.time < w.stamp.time
    \/ (v.stamp.time = w.stamp.time) /\ v.stamp.counter < w.stamp.counter

\* HybridLogicalClock.compare of two envelopes, below 0.
Older(a, b) == Before(a.stamp, b.stamp)

\* ConflictEngine.resolve.  Additive payloads are numbers; the rest of the
\* envelope is the remote one's.  Manual resolution leaves the copy as it is.
Resolve(local, remote) ==
    CASE policy \in {"lww", "crdt"} -> IF Older(local, remote) THEN remote ELSE local
      [] policy = "additive" -> [remote EXCEPT !.payload = @ + local.payload]
      [] policy = "append-only" -> remote
      [] OTHER -> local

\* ConflictRegistry.resolve, for values that travel with their timestamps.
ResolveValue(local, remote) ==
    CASE policy \in {"lww", "crdt"} -> IF Older(local, remote) THEN remote ELSE local
      [] policy = "additive" -> [remote EXCEPT !.payload = @ + local.payload]
      [] OTHER -> local

\* Both throw before they add up an absolute value.
Refused == policy = "additive" /\ absolute

\* A node's own write meets its copy as a received one does.
Take(n, w) ==
    /\ delivered' = [delivered EXCEPT ![n] = @ \cup {w}]
    /\ \E resolved \in IF copy[n] = Nothing THEN {w}
                       ELSE IF Refused THEN {copy[n]}
                       ELSE {Resolve(copy[n], w), ResolveValue(copy[n], w)} :
          copy' = [copy EXCEPT ![n] = resolved]
    /\ UNCHANGED registryVars

Write(n) ==
    /\ policy /= Nothing
    /\ Cardinality(writes) < MaxWrites
    /\ Now(n)
    /\ LET w == [stamp |-> StampOf(n, clock'[n]), payload |-> Cardinality(writes) + 1]
       IN  writes' = writes \cup {w} /\ Take(n, w)

\* Envelope ids keep a duplicate from being applied twice.
Deliver(n, w) ==
    /\ w \notin delivered[n]
    /\ Update(n, w.stamp)
    /\ Take(n, w)
    /\ UNCHANGED writes

ReplicaNext ==
    \/ /\ \/ \E s \in Strategies : RegisterEntityPolicy(s) \/ RegisterFieldPolicy(s)
          \/ RegisterAbsoluteLwwField
          \/ UsePolicy
       /\ UNCHANGED clockVars
    \/ \E n \in Nodes : Write(n)
    \/ \E n \in Nodes, w \in writes : Deliver(n, w)
    \/ \E n \in Nodes : policy /= Nothing /\ (WallMoves(n) \/ RestartNode(n)) /\ UNCHANGED replicaVars

ReplicaSpec == (ClockInit /\ ReplicaInit) /\ [][ReplicaNext]_<<clockVars, replicaVars>>

----------------------------------------------------------------------------
\* No two writes bear one stamp.  A node that restarts within the millisecond
\* of its last stamp, or with its wall clock set back, may repeat one.
StampsDistinct == \A v, w \in writes : v.stamp = w.stamp => v = w

\* Two nodes that took the same writes, in whatever orders and however their
\* clocks run, hold the same record under lww and the crdt fallback, and the
\* same sum under additive, the writes of one millisecond included.  A field
\* declared absolute is never a sum, whenever it was declared.
ReplicasConverge ==
    /\ \A m, n \in Nodes : delivered[m] = delivered[n] /\ copy[m] /= Nothing =>
          /\ policy \in {"lww", "crdt"} /\ StampsDistinct => copy[m] = copy[n]
          /\ policy = "additive" /\ ~absolute => copy[m].payload = copy[n].payload
    /\ absolute => \A n \in Nodes : copy[n] \in writes \cup {Nothing}
============================================================================
