---------------------------- MODULE HybridClock ----------------------------
(***************************************************************************)
(* HybridLogicalClock: each node stamps what it writes with the time it    *)
(* knows, a counter and its id.  Wall clocks differ, stand still and are   *)
(* set back; a node restarts with nothing but its wall clock.              *)
(***************************************************************************)
EXTENDS Naturals, FiniteSets

CONSTANTS Nodes,      \* node ids, ordered as localeCompare orders them
          MaxSafe,    \* Number.MAX_SAFE_INTEGER
          Horizon,    \* bound on wall clocks
          MaxStamps   \* bound on the stamps issued

ASSUME NodesAssumption == Nodes \subseteq Nat
ASSUME MaxSafeAssumption == MaxSafe \in Nat /\ Horizon \in 0 .. MaxSafe

VARIABLES wall,     \* [Nodes -> Nat]: Date.now() of each node
          clock,    \* [Nodes -> [time, counter]]: latestTime and counter
          stamps,   \* every stamp issued
          known     \* [Nodes -> stamps issued or received since the node started]

clockVars == <<wall, clock, stamps, known>>

Reading == [time : Nat, counter : 0 .. MaxSafe]
Stamp == [time : Nat, counter : 0 .. MaxSafe, node : Nodes]

\* HybridLogicalClock.compare(a, b) < 0.
Before(a, b) ==
    \/ a.time < b.time
    \/ a.time = b.time /\ a.counter < b.counter
    \/ a.time = b.time /\ a.counter = b.counter /\ a.node < b.node

ClockInit ==
    /\ wall \in [Nodes -> 0 .. Horizon]
    /\ clock = [n \in Nodes |-> [time |-> wall[n], counter |-> 0]]
    /\ stamps = {}
    /\ known = [n \in Nodes |-> {}]

At(time) == [time |-> time, counter |-> 0]

\* increment: a full counter carries into the time; past that it throws.
CanIncrement(r) == r.counter < MaxSafe \/ r.time < MaxSafe
Increment(r) ==
    IF r.counter < MaxSafe THEN [r EXCEPT !.counter = @ + 1] ELSE At(r.time + 1)

\* now(): the wall clock if it is ahead, the counter if it is not.
Tick(n) == IF wall[n] > clock[n].time THEN At(wall[n]) ELSE Increment(clock[n])
CanTick(n) == wall[n] > clock[n].time \/ CanIncrement(clock[n])

\* (Starting from the node's own reading alone.)
OwnReading(r, s) == [time |-> IF r.time > s.time THEN r.time ELSE s.time, counter |-> r.counter]

\* update(remote) starts from the later of the two readings.
Later(r, s) ==
    IF r.time > s.time THEN [time |-> r.time, counter |-> r.counter]
    ELSE IF s.time > r.time THEN [time |-> s.time, counter |-> s.counter]
    ELSE [time |-> r.time, counter |-> IF r.counter > s.counter THEN r.counter ELSE s.counter]

Ahead(n, s) == wall[n] > clock[n].time /\ wall[n] > s.time
Merge(n, s) == IF Ahead(n, s) THEN At(wall[n]) ELSE Increment(Later(clock[n], s))
CanMerge(n, s) == Ahead(n, s) \/ CanIncrement(Later(clock[n], s))

StampOf(n, r) == [time |-> r.time, counter |-> r.counter, node |-> n]

\* Node n issues a stamp having learned of the stamps in heard.
Issue(n, r, heard) ==
    /\ Cardinality(stamps) < MaxStamps
    /\ clock' = [clock EXCEPT ![n] = r]
    /\ stamps' = stamps \cup {StampOf(n, r)}
    /\ known' = [known EXCEPT ![n] = @ \cup heard \cup {StampOf(n, r)}]

Now(n) == CanTick(n) /\ Issue(n, Tick(n), {}) /\ UNCHANGED wall
Update(n, s) == CanMerge(n, s) /\ Issue(n, Merge(n, s), {s}) /\ UNCHANGED wall

\* A throwing update may already have raised the counter to the remote one.
UpdateThrows(n, s) ==
    /\ ~CanMerge(n, s)
    /\ clock' = [clock EXCEPT ![n] = Later(@, s)]
    /\ UNCHANGED <<wall, stamps, known>>

\* Time passes, or the wall clock is set back.
WallMoves(n) ==
    /\ wall' = [wall EXCEPT ![n] = IF @ < Horizon THEN @ + 1 ELSE 0]
    /\ UNCHANGED <<clock, stamps, known>>

\* The constructor.
RestartNode(n) ==
    /\ clock' = [clock EXCEPT ![n] = At(wall[n])]
    /\ known' = [known EXCEPT ![n] = {}]
    /\ UNCHANGED <<wall, stamps>>

ClockNext ==
    \E n \in Nodes :
        \/ Now(n)
        \/ \E s \in stamps : Update(n, s) \/ UpdateThrows(n, s)
        \/ WallMoves(n)
        \/ RestartNode(n)

ClockSpec == ClockInit /\ [][ClockNext]_clockVars

----------------------------------------------------------------------------
ClockTypeOK ==
    /\ wall \in [Nodes -> Nat]
    /\ clock \in [Nodes -> Reading]
    /\ stamps \subseteq Stamp
    /\ known \in [Nodes -> SUBSET Stamp]

\* A stamp is later than every stamp the node issued or was told of since it
\* started, whatever its wall clock did: what it writes in answer to another
\* write is ordered after it.  The carry of a full counter keeps the order.
StampsAdvance ==
    [][\A n \in Nodes :
          LET s == StampOf(n, clock'[n])
          IN  clock'[n] /= clock[n] /\ s \in known'[n]
                => \A t \in known'[n] \ {s} : Before(t, s)]_clockVars
============================================================================
