---------------------------- MODULE ClockProofs ----------------------------
(***************************************************************************)
(* HybridClock: a node's stamps advance.  The inductive invariant says     *)
(* that no stamp a node knows is past its clock; now() and update() move   *)
(* the clock strictly past what it was and past what was received.         *)
(* Convergence: a node's copy is the latest of what it took, or its sum.   *)
(***************************************************************************)
EXTENDS Convergence, FiniteSetTheorems, WellFoundedInduction, TLAPS

\* Reading or stamp a is not past reading b.
NotPast(a, b) == a.time < b.time \/ (a.time = b.time /\ a.counter <= b.counter)
Precedes(a, b) == a.time < b.time \/ (a.time = b.time /\ a.counter < b.counter)

KnownIsNotPast == \A n \in Nodes : \A t \in known[n] : NotPast(t, clock[n])
ClockInv == ClockTypeOK /\ KnownIsNotPast

LEMMA IncrementAdvances ==
    ASSUME NEW r \in Reading, CanIncrement(r)
    PROVE  Increment(r) \in Reading /\ Precedes(r, Increment(r))
BY MaxSafeAssumption DEF Reading, CanIncrement, Increment, At, Precedes

LEMMA LaterIsNotBehind ==
    ASSUME NEW r \in Reading, NEW s \in Stamp
    PROVE  /\ Later(r, s) \in Reading
           /\ NotPast(r, Later(r, s)) /\ NotPast(s, Later(r, s))
           /\ Later(r, s) = r \/ Precedes(r, Later(r, s))
BY DEF Reading, Stamp, Later, NotPast, Precedes

LEMMA Transitive ==
    ASSUME NEW a, NEW b, NEW c,
           a.time \in Nat, b.time \in Nat, c.time \in Nat,
           a.counter \in Nat, b.counter \in Nat, c.counter \in Nat,
           NotPast(a, b), Precedes(b, c)
    PROVE  Precedes(a, c)
BY DEF NotPast, Precedes

LEMMA TickAdvances ==
    ASSUME ClockTypeOK, NEW n \in Nodes, CanTick(n)
    PROVE  Tick(n) \in Reading /\ Precedes(clock[n], Tick(n))
<1>1. clock[n] \in Reading /\ wall[n] \in Nat  BY DEF ClockTypeOK
<1>2. CASE wall[n] > clock[n].time
  BY <1>1, <1>2, MaxSafeAssumption DEF Tick, At, Reading, Precedes
<1>3. CASE ~(wall[n] > clock[n].time)
  BY <1>1, <1>3, IncrementAdvances DEF Tick, CanTick
<1> QED BY <1>2, <1>3

LEMMA MergeAdvances ==
    ASSUME ClockTypeOK, NEW n \in Nodes, NEW s \in Stamp, CanMerge(n, s)
    PROVE  /\ Merge(n, s) \in Reading
           /\ Precedes(clock[n], Merge(n, s)) /\ Precedes(s, Merge(n, s))
<1>1. clock[n] \in Reading /\ wall[n] \in Nat  BY DEF ClockTypeOK
<1>2. CASE Ahead(n, s)
  BY <1>1, <1>2, MaxSafeAssumption DEF Ahead, Merge, At, Reading, Stamp, Precedes
<1>3. CASE ~Ahead(n, s)
  <2> DEFINE later == Later(clock[n], s)
  <2>1. later \in Reading /\ NotPast(clock[n], later) /\ NotPast(s, later)
    BY <1>1, LaterIsNotBehind
  <2>2. CanIncrement(later) /\ Merge(n, s) = Increment(later)
    BY <1>3 DEF CanMerge, Merge
  <2>3. Increment(later) \in Reading /\ Precedes(later, Increment(later))
    BY <2>1, <2>2, IncrementAdvances
  <2> HIDE DEF later
  <2> QED BY <1>1, <2>1, <2>2, <2>3, Transitive DEF Reading, Stamp
<1> QED BY <1>2, <1>3

\* What the property says of one step.
Advances ==
    \A n \in Nodes :
        LET s == StampOf(n, clock'[n])
        IN  clock'[n] /= clock[n] /\ s \in known'[n]
              => \A t \in known'[n] \ {s} : Before(t, s)

LEMMA IssueAdvances ==
    ASSUME ClockInv, NEW n \in Nodes, NEW r \in Reading, NEW heard \in SUBSET Stamp,
           Issue(n, r, heard), UNCHANGED wall,
           Precedes(clock[n], r), \A t \in heard : Precedes(t, r)
    PROVE  ClockInv' /\ Advances
<1> DEFINE s == StampOf(n, r)
<1>0. /\ clock' = [clock EXCEPT ![n] = r]
      /\ stamps' = stamps \cup {s}
      /\ known' = [known EXCEPT ![n] = @ \cup heard \cup {s}]
  BY DEF Issue
<1>1. s \in Stamp  BY DEF StampOf, Reading, Stamp
<1>2. /\ clock \in [Nodes -> Reading] /\ known \in [Nodes -> SUBSET Stamp]
      /\ wall \in [Nodes -> Nat] /\ stamps \subseteq Stamp
  BY DEF ClockInv, ClockTypeOK
<1>3. ClockTypeOK'  BY <1>0, <1>1, <1>2 DEF ClockTypeOK
<1>4. \A t \in known[n] \cup heard : t \in Stamp /\ Precedes(t, r)
  <2> SUFFICES ASSUME NEW t \in known[n] \cup heard PROVE t \in Stamp /\ Precedes(t, r)
    OBVIOUS
  <2>1. CASE t \in heard  BY <2>1
  <2>2. CASE t \in known[n]
    <3>1. t \in Stamp /\ NotPast(t, clock[n])  BY <2>2, <1>2 DEF ClockInv, KnownIsNotPast
    <3>2. clock[n] \in Reading  BY <1>2
    <3> QED BY <3>1, <3>2, Transitive DEF Reading, Stamp
  <2> QED BY <2>1, <2>2
<1>5. s.time = r.time /\ s.counter = r.counter  BY DEF StampOf
<1>6. \A t \in known'[n] \ {s} : Before(t, s)
  <2> SUFFICES ASSUME NEW t \in known'[n] \ {s} PROVE Before(t, s)  OBVIOUS
  <2>1. t \in known[n] \cup heard  BY <1>0, <1>2
  <2>2. Precedes(t, r)  BY <2>1, <1>4
  <2> QED BY <2>2, <1>5 DEF Precedes, Before
<1>7. \A m \in Nodes \ {n} : clock'[m] = clock[m] /\ known'[m] = known[m]  BY <1>0, <1>2
<1>8. clock'[n] = r  BY <1>0, <1>2
<1>9. \A t \in known'[n] : NotPast(t, r)
  <2> SUFFICES ASSUME NEW t \in known'[n] PROVE NotPast(t, r)  OBVIOUS
  <2>1. CASE t = s  BY <2>1, <1>5 DEF NotPast, Reading
  <2>2. CASE t /= s
    <3>1. t \in known[n] \cup heard  BY <1>0, <1>2, <2>2
    <3>2. Precedes(t, r) /\ t \in Stamp  BY <3>1, <1>4
    <3> QED BY <3>2 DEF Precedes, NotPast, Stamp, Reading
  <2> QED BY <2>1, <2>2
<1>10. KnownIsNotPast'  BY <1>7, <1>8, <1>9 DEF ClockInv, KnownIsNotPast
<1>11. Advances  BY <1>6, <1>7, <1>8 DEF Advances
<1> QED BY <1>3, <1>10, <1>11 DEF ClockInv

\* One step of each kind.
LEMMA NowAdvances ==
    ASSUME ClockInv, NEW n \in Nodes, Now(n)
    PROVE  ClockInv' /\ Advances
<1>1. Tick(n) \in Reading /\ Precedes(clock[n], Tick(n))
  BY TickAdvances DEF Now, ClockInv
<1>2. Issue(n, Tick(n), {}) /\ UNCHANGED wall  BY DEF Now
<1> QED BY <1>1, <1>2, IssueAdvances

LEMMA UpdateAdvances ==
    ASSUME ClockInv, NEW n \in Nodes, NEW s \in Stamp, Update(n, s)
    PROVE  ClockInv' /\ Advances
<1>1. /\ Merge(n, s) \in Reading
      /\ Precedes(clock[n], Merge(n, s)) /\ Precedes(s, Merge(n, s))
  BY MergeAdvances DEF Update, ClockInv
<1>2. Issue(n, Merge(n, s), {s}) /\ UNCHANGED wall  BY DEF Update
<1>3. {s} \in SUBSET Stamp /\ \A t \in {s} : Precedes(t, Merge(n, s))  BY <1>1
<1> QED BY <1>1, <1>2, <1>3, IssueAdvances

LEMMA WallAdvances ==
    ASSUME ClockInv, NEW n \in Nodes, WallMoves(n)
    PROVE  ClockInv' /\ Advances
<1>0. /\ clock \in [Nodes -> Reading] /\ known \in [Nodes -> SUBSET Stamp]
      /\ wall \in [Nodes -> Nat] /\ stamps \subseteq Stamp
  BY DEF ClockInv, ClockTypeOK
<1>1. clock' = clock /\ known' = known /\ stamps' = stamps  BY DEF WallMoves
<1>2. wall' \in [Nodes -> Nat]
  <2>1. (IF wall[n] < Horizon THEN wall[n] + 1 ELSE 0) \in Nat  BY <1>0
  <2> QED BY <2>1, <1>0 DEF WallMoves
<1>3. ClockInv'  BY <1>1, <1>2 DEF ClockInv, ClockTypeOK, KnownIsNotPast
<1>4. Advances  BY <1>1 DEF Advances
<1> QED BY <1>3, <1>4

LEMMA RestartAdvances ==
    ASSUME ClockInv, NEW n \in Nodes, RestartNode(n)
    PROVE  ClockInv' /\ Advances
<1>0. /\ clock \in [Nodes -> Reading] /\ known \in [Nodes -> SUBSET Stamp]
      /\ wall \in [Nodes -> Nat] /\ stamps \subseteq Stamp
  BY DEF ClockInv, ClockTypeOK
<1>1. /\ clock' = [clock EXCEPT ![n] = At(wall[n])]
      /\ known' = [known EXCEPT ![n] = {}] /\ wall' = wall /\ stamps' = stamps
  BY DEF RestartNode
<1>2. At(wall[n]) \in Reading  BY <1>0, MaxSafeAssumption DEF At, Reading
<1>3. known'[n] = {} /\ \A m \in Nodes \ {n} : clock'[m] = clock[m] /\ known'[m] = known[m]
  BY <1>0, <1>1
<1>4. ClockTypeOK'  BY <1>0, <1>1, <1>2 DEF ClockTypeOK
<1>5. KnownIsNotPast'  BY <1>3 DEF ClockInv, KnownIsNotPast
<1>6. Advances  BY <1>3 DEF Advances
<1> QED BY <1>4, <1>5, <1>6 DEF ClockInv

LEMMA ClockStep ==
    ASSUME ClockInv, [ClockNext]_clockVars
    PROVE  ClockInv' /\ (ClockNext => Advances)
<1>0. /\ clock \in [Nodes -> Reading] /\ known \in [Nodes -> SUBSET Stamp]
      /\ wall \in [Nodes -> Nat] /\ stamps \subseteq Stamp
  BY DEF ClockInv, ClockTypeOK
<1>1. ASSUME NEW n \in Nodes, Now(n) PROVE ClockInv' /\ Advances  BY <1>1, NowAdvances
<1>2. ASSUME NEW n \in Nodes, NEW s \in stamps, Update(n, s) PROVE ClockInv' /\ Advances
  BY <1>0, <1>2, UpdateAdvances
<1>3. ASSUME NEW n \in Nodes, NEW s \in stamps, UpdateThrows(n, s) PROVE ClockInv' /\ Advances
  <2> DEFINE later == Later(clock[n], s)
  <2>0. s \in Stamp /\ clock[n] \in Reading  BY <1>0
  <2>1. later \in Reading /\ NotPast(clock[n], later)
        /\ (later = clock[n] \/ Precedes(clock[n], later))
    BY <2>0, LaterIsNotBehind
  <2>2. /\ clock' = [clock EXCEPT ![n] = later] /\ known' = known
        /\ wall' = wall /\ stamps' = stamps
    BY <1>3 DEF UpdateThrows
  <2> HIDE DEF later
  <2>3. clock'[n] = later /\ \A m \in Nodes \ {n} : clock'[m] = clock[m]  BY <2>2, <1>0
  <2>4. ClockTypeOK'  BY <1>0, <2>1, <2>2 DEF ClockTypeOK
  <2>5. \A t \in known[n] : t \in Stamp /\ NotPast(t, clock[n])
    BY <1>0 DEF ClockInv, KnownIsNotPast
  <2>6. \A t \in known[n] : NotPast(t, later)
    BY <2>0, <2>1, <2>5 DEF NotPast, Reading, Stamp
  <2>7. KnownIsNotPast'  BY <2>2, <2>3, <2>6 DEF ClockInv, KnownIsNotPast
  <2>8. later = clock[n] \/ StampOf(n, later) \notin known[n]
    <3> SUFFICES ASSUME Precedes(clock[n], later), StampOf(n, later) \in known[n] PROVE FALSE
      BY <2>1
    <3>1. NotPast(StampOf(n, later), clock[n])  BY <2>5
    <3> QED BY <3>1, <2>0, <2>1 DEF NotPast, Precedes, StampOf, Reading
  <2>9. Advances  BY <2>2, <2>3, <2>8 DEF Advances
  <2> QED BY <2>4, <2>7, <2>9 DEF ClockInv
<1>4. ASSUME NEW n \in Nodes, WallMoves(n) PROVE ClockInv' /\ Advances  BY <1>4, WallAdvances
<1>5. ASSUME NEW n \in Nodes, RestartNode(n) PROVE ClockInv' /\ Advances
  BY <1>5, RestartAdvances
<1>6. CASE UNCHANGED clockVars
  <2>1. ClockInv'
    BY <1>6 DEF clockVars, ClockInv, ClockTypeOK, KnownIsNotPast
  <2>2. Advances  BY <1>6 DEF clockVars, Advances
  <2> QED BY <2>1, <2>2
<1> QED BY <1>1, <1>2, <1>3, <1>4, <1>5, <1>6 DEF ClockNext

LEMMA ClockInitially == ClockInit => ClockInv
<1> SUFFICES ASSUME ClockInit PROVE ClockInv  OBVIOUS
<1>1. wall \in [Nodes -> Nat] /\ \A n \in Nodes : At(wall[n]) \in Reading
  BY MaxSafeAssumption DEF ClockInit, At, Reading
<1>2. clock = [n \in Nodes |-> At(wall[n])]  BY DEF ClockInit, At
<1> QED BY <1>1, <1>2 DEF ClockInit, ClockInv, ClockTypeOK, KnownIsNotPast

\* Every wall clock, clock reading and stamp is of its type.
THEOREM ClockIsTyped == ClockSpec => []ClockTypeOK
<1>1. ClockInit => ClockInv  BY ClockInitially
<1>2. ClockInv /\ [ClockNext]_clockVars => ClockInv'  BY ClockStep
<1>3. ClockInv => ClockTypeOK  BY DEF ClockInv
<1> QED BY <1>1, <1>2, <1>3, PTL DEF ClockSpec

\* now() and update() order what a node stamps after all it has issued or been
\* told of since it started, for any number of nodes, any wall clocks and any
\* Number.MAX_SAFE_INTEGER, the carry of a full counter included.
THEOREM StampsAlwaysAdvance == ClockSpec => StampsAdvance
<1>1. ClockInit => ClockInv  BY ClockInitially
<1>2. ClockInv /\ [ClockNext]_clockVars => ClockInv'  BY ClockStep
<1>3. ClockInv /\ [ClockNext]_clockVars => [Advances]_clockVars  BY ClockStep
<1>4. ClockSpec => [][Advances]_clockVars  BY <1>1, <1>2, <1>3, PTL DEF ClockSpec
<1> QED BY <1>4 DEF Advances, StampsAdvance

-----------------------------------------------------------------------------
(***************************************************************************)
(* Convergence.  Payloads tell the writes apart, so what a node holds      *)
(* under additive is a running sum over the payloads it took.              *)
(***************************************************************************)

\* t[k] is the sum of the payloads up to k of the writes in taken.
RunningSum(t, taken) ==
    /\ t \in [0 .. MaxWrites -> Nat] /\ t[0] = 0
    /\ \A k \in 1 .. MaxWrites :
          t[k] = IF \E w \in taken : w.payload = k THEN t[k - 1] + k ELSE t[k - 1]

AddsUpTo(taken, total) == \E t : RunningSum(t, taken) /\ t[MaxWrites] = total

WritesInv ==
    /\ writes \subseteq Envelope /\ IsFiniteSet(writes)
    /\ Cardinality(writes) <= MaxWrites
    /\ \A w \in writes : w.payload \in 1 .. Cardinality(writes)
    /\ \A v, w \in writes : v.payload = w.payload => v = w

PolicyInv ==
    /\ policy = Nothing => writes = {}
    /\ policy /= Nothing /\ absolute => policy = "additive"

\* What a node holds of the writes it took.
Holds(held, taken) ==
    /\ policy \in {"lww", "crdt"} => held \in taken /\ \A w \in taken : ~Older(held, w)
    /\ policy = "additive" /\ ~absolute => AddsUpTo(taken, held.payload)
    /\ absolute => held \in taken

CopiesInv ==
    /\ delivered \in [Nodes -> SUBSET writes]
    /\ copy \in [Nodes -> Envelope \cup {Nothing}]
    /\ \A n \in Nodes : IF copy[n] = Nothing THEN delivered[n] = {} ELSE
          /\ delivered[n] /= {}
          /\ Holds(copy[n], delivered[n])

ReplicaInv == ClockInv /\ WritesInv /\ PolicyInv /\ CopiesInv

LEMMA StampNumbers ==
    ASSUME NEW s \in Stamp
    PROVE  s.time \in Nat /\ s.counter \in Nat /\ s.node \in Nat
<1>1. s.time \in Nat /\ s.counter \in 0 .. MaxSafe /\ s.node \in Nodes  BY DEF Stamp
<1>2. s.node \in Nat  BY <1>1, NodesAssumption
<1>3. s.counter \in Nat  BY <1>1, MaxSafeAssumption
<1> QED  BY <1>1, <1>2, <1>3

\* Of two stamps that differ one is before the other.
LEMMA StampsOrdered ==
    ASSUME NEW s \in Stamp, NEW t \in Stamp, ~Before(s, t), ~Before(t, s)
    PROVE  s = t
<1>1. s = [time |-> s.time, counter |-> s.counter, node |-> s.node]
      /\ t = [time |-> t.time, counter |-> t.counter, node |-> t.node]
  BY DEF Stamp
<1>2. s.time = t.time /\ s.counter = t.counter /\ s.node = t.node
  BY StampNumbers DEF Before
<1> QED  BY <1>1, <1>2

LEMMA BeforeIsTransitive ==
    ASSUME NEW r \in Stamp, NEW s \in Stamp, NEW t \in Stamp, ~Before(s, r), Before(s, t)
    PROVE  ~Before(t, r)
BY StampNumbers DEF Before

\* Of the numbers in a set one is least.
LEMMA LeastElement ==
    ASSUME NEW T, T \subseteq Nat, T /= {}
    PROVE  \E m \in T : \A k \in T : ~(k < m)
<1>1. PICK m \in T : \A k \in T : ~(<<k, m>> \in OpToRel(<, Nat))
  BY NatLessThanWellFounded, WFMin
<1>2. \A k \in T : k < m => <<k, m>> \in OpToRel(<, Nat)
  BY DEF OpToRel
<1> QED  BY <1>1, <1>2

\* Writes that are the same have one sum.
LEMMA OneTotal ==
    ASSUME NEW taken, NEW x, NEW y, AddsUpTo(taken, x), AddsUpTo(taken, y)
    PROVE  x = y
<1>1. PICK t : RunningSum(t, taken) /\ t[MaxWrites] = x  BY DEF AddsUpTo
<1>2. PICK u : RunningSum(u, taken) /\ u[MaxWrites] = y  BY DEF AddsUpTo
<1> DEFINE T == {k \in 0 .. MaxWrites : t[k] /= u[k]}
<1>3. T = {}
  <2> SUFFICES ASSUME T /= {} PROVE FALSE  OBVIOUS
  <2>0. T \subseteq Nat  BY CopiesAssumption
  <2>1. PICK k \in T : \A j \in T : ~(j < k)
    <3> HIDE DEF T
    <3> QED  BY <2>0, LeastElement
  <2>2. k \in 0 .. MaxWrites /\ t[k] /= u[k]  OBVIOUS
  <2>3. k /= 0  BY <1>1, <1>2, <2>2 DEF RunningSum
  <2>4. k \in 1 .. MaxWrites /\ k - 1 \in 0 .. MaxWrites /\ k - 1 < k
    BY <2>2, <2>3, CopiesAssumption
  <2>5. t[k - 1] = u[k - 1]  BY <2>1, <2>4
  <2> QED  BY <1>1, <1>2, <2>2, <2>4, <2>5 DEF RunningSum
<1> QED  BY <1>1, <1>2, <1>3, CopiesAssumption

LEMMA NothingAddsUp == AddsUpTo({}, 0)
<1> DEFINE t == [k \in 0 .. MaxWrites |-> 0]
<1>1. RunningSum(t, {}) /\ t[MaxWrites] = 0
  BY CopiesAssumption DEF RunningSum
<1> QED  BY <1>1 DEF AddsUpTo

\* A write that was not taken adds its payload.
LEMMA OneMoreAddsUp ==
    ASSUME NEW taken, NEW x, AddsUpTo(taken, x), NEW w, w.payload \in 1 .. MaxWrites,
           \A v \in taken : v.payload /= w.payload
    PROVE  AddsUpTo(taken \cup {w}, w.payload + x)
<1>1. PICK t : RunningSum(t, taken) /\ t[MaxWrites] = x  BY DEF AddsUpTo
<1>2. PICK p \in 1 .. MaxWrites : p = w.payload  OBVIOUS
<1> DEFINE u == [k \in 0 .. MaxWrites |-> IF k < p THEN t[k] ELSE p + t[k]]
<1>3. /\ t \in [0 .. MaxWrites -> Nat] /\ t[0] = 0
      /\ \A k \in 1 .. MaxWrites :
            t[k] = IF \E v \in taken : v.payload = k THEN t[k - 1] + k ELSE t[k - 1]
  BY <1>1 DEF RunningSum
<1>4. u \in [0 .. MaxWrites -> Nat] /\ u[0] = 0  BY <1>3, CopiesAssumption
<1>5. ASSUME NEW k \in 1 .. MaxWrites
      PROVE  u[k] = IF \E v \in taken \cup {w} : v.payload = k THEN u[k - 1] + k ELSE u[k - 1]
  <2>1. /\ k \in Nat /\ k - 1 \in 0 .. MaxWrites /\ k \in 0 .. MaxWrites
        /\ t[k] \in Nat /\ t[k - 1] \in Nat /\ p \in Nat
    BY <1>3, CopiesAssumption
  <2>2. CASE k < p
    <3>1. u[k] = t[k] /\ u[k - 1] = t[k - 1]  BY <2>1, <2>2
    <3>2. (\E v \in taken \cup {w} : v.payload = k) <=> (\E v \in taken : v.payload = k)
      BY <1>2, <2>1, <2>2
    <3> HIDE DEF u
    <3> QED  BY <1>3, <3>1, <3>2
  <2>3. CASE k = p
    <3>1. u[k] = p + t[k] /\ u[k - 1] = t[k - 1]  BY <2>1, <2>3
    <3>2. ~ \E v \in taken : v.payload = k  BY <1>2, <2>3
    <3>3. \E v \in taken \cup {w} : v.payload = k  BY <1>2, <2>3
    <3>4. t[k] = t[k - 1]  BY <1>3, <3>2
    <3> HIDE DEF u
    <3> QED  BY <2>1, <2>3, <3>1, <3>3, <3>4
  <2>4. CASE k > p
    <3>1. u[k] = p + t[k] /\ u[k - 1] = p + t[k - 1]  BY <2>1, <2>4
    <3>2. (\E v \in taken \cup {w} : v.payload = k) <=> (\E v \in taken : v.payload = k)
      BY <1>2, <2>1, <2>4
    <3>3. t[k] = IF \E v \in taken : v.payload = k THEN t[k - 1] + k ELSE t[k - 1]  BY <1>3
    <3> HIDE DEF u
    <3> QED  BY <2>1, <3>1, <3>2, <3>3
  <2> QED  BY <2>1, <2>2, <2>3, <2>4
<1>6. u[MaxWrites] = p + x  BY <1>1, CopiesAssumption
<1> HIDE DEF u
<1>7. RunningSum(u, taken \cup {w})  BY <1>4, <1>5 DEF RunningSum
<1> QED  BY <1>2, <1>6, <1>7 DEF AddsUpTo

\* Either resolution, unless it would add up an absolute value.
LEMMA ResolutionHolds ==
    ASSUME NEW held \in Envelope, NEW w \in Envelope, NEW taken, taken \subseteq Envelope,
           Holds(held, taken), PolicyInv, policy /= Nothing, ~Refused,
           w.payload \in 1 .. MaxWrites, \A v \in taken : v.payload /= w.payload,
           NEW resolved \in {Resolve(held, w), ResolveValue(held, w)}
    PROVE  resolved \in Envelope /\ Holds(resolved, taken \cup {w})
<1>0. /\ held.stamp \in Stamp /\ w.stamp \in Stamp /\ held.payload \in Nat /\ w.payload \in Nat
      /\ \A v \in taken : v.stamp \in Stamp
  BY DEF Envelope
<1>1. CASE policy \in {"lww", "crdt"}
  <2>1. resolved = IF Older(held, w) THEN w ELSE held  BY <1>1 DEF Resolve, ResolveValue
  <2>2. held \in taken /\ \A v \in taken : ~Older(held, v)  BY <1>1 DEF Holds
  <2>3. ~Before(w.stamp, w.stamp)  BY <1>0, StampNumbers DEF Before
  <2>4. \A v \in taken \cup {w} : ~Older(resolved, v)
    <3>1. CASE Older(held, w)
      <4>1. \A v \in taken : ~Before(w.stamp, v.stamp)
        BY <1>0, <2>2, <3>1, BeforeIsTransitive DEF Older
      <4> QED  BY <2>1, <2>3, <3>1, <4>1 DEF Older
    <3>2. CASE ~Older(held, w)  BY <2>1, <2>2, <3>2
    <3> QED  BY <3>1, <3>2
  <2>5. resolved \in taken \cup {w} /\ resolved \in Envelope  BY <2>1, <2>2
  <2>6. policy /= "additive" /\ ~absolute  BY <1>1 DEF PolicyInv
  <2> QED  BY <2>4, <2>5, <2>6 DEF Holds
<1>2. CASE policy = "additive"
  <2>1. resolved = [w EXCEPT !.payload = @ + held.payload]  BY <1>2 DEF Resolve, ResolveValue
  <2>2. resolved \in Envelope /\ resolved.payload = w.payload + held.payload
    BY <1>0, <2>1 DEF Envelope
  <2>3. ~absolute  BY <1>2 DEF Refused
  <2>4. AddsUpTo(taken, held.payload)  BY <1>2, <2>3 DEF Holds
  <2>5. AddsUpTo(taken \cup {w}, w.payload + held.payload)  BY <2>4, OneMoreAddsUp
  <2> QED  BY <1>2, <2>2, <2>3, <2>5 DEF Holds
<1>3. CASE policy \notin {"lww", "crdt", "additive"}
  <2>1. resolved \in {held, w}  BY <1>3 DEF Resolve, ResolveValue
  <2>2. ~absolute  BY <1>3 DEF PolicyInv
  <2> QED  BY <1>3, <2>1, <2>2 DEF Holds
<1> QED  BY <1>1, <1>2, <1>3

LEMMA FirstHolds ==
    ASSUME NEW w \in Envelope, w.payload \in 1 .. MaxWrites
    PROVE  Holds(w, {w})
<1>1. ~Older(w, w)
  <2>1. w.stamp \in Stamp  BY DEF Envelope
  <2> QED  BY <2>1, StampNumbers DEF Older, Before
<1>2. AddsUpTo({} \cup {w}, w.payload + 0)  BY NothingAddsUp, OneMoreAddsUp
<1>3. {} \cup {w} = {w} /\ w.payload + 0 = w.payload  BY DEF Envelope
<1>4. AddsUpTo({w}, w.payload)  BY <1>2, <1>3
<1> QED  BY <1>1, <1>4 DEF Holds

\* A node that takes a write holds what it should of one write more.
LEMMA TakeHolds ==
    ASSUME ReplicaInv, WritesInv', PolicyInv, policy /= Nothing, NEW n \in Nodes, NEW w \in writes',
           writes \subseteq writes', w \notin delivered[n], Take(n, w)
    PROVE  PolicyInv' /\ CopiesInv'
<1>1. /\ delivered' = [delivered EXCEPT ![n] = delivered[n] \cup {w}]
      /\ UNCHANGED registryVars
  BY DEF Take
<1>2. PICK resolved \in IF copy[n] = Nothing THEN {w}
                        ELSE IF Refused THEN {copy[n]}
                        ELSE {Resolve(copy[n], w), ResolveValue(copy[n], w)} :
         copy' = [copy EXCEPT ![n] = resolved]
  BY DEF Take
<1>3. /\ delivered \in [Nodes -> SUBSET writes] /\ copy \in [Nodes -> Envelope \cup {Nothing}]
      /\ writes \subseteq Envelope
  BY DEF ReplicaInv, CopiesInv, WritesInv
<1>4. w \in Envelope /\ w.payload \in 1 .. MaxWrites
      /\ \A v \in delivered[n] : v.payload /= w.payload
  <2>1. Cardinality(writes') \in Nat /\ Cardinality(writes') <= MaxWrites
    BY FS_CardinalityType DEF WritesInv
  <2>2. w.payload \in 1 .. Cardinality(writes') /\ w \in Envelope  BY DEF WritesInv
  <2>3. \A v \in delivered[n] : v \in writes' /\ v /= w  BY <1>3
  <2> QED  BY <2>1, <2>2, <2>3, CopiesAssumption DEF WritesInv
<1>5. resolved \in Envelope /\ Holds(resolved, delivered[n] \cup {w})
  <2>1. CASE copy[n] = Nothing
    <3>1. resolved = w /\ delivered[n] = {}  BY <1>2, <2>1 DEF ReplicaInv, CopiesInv
    <3>2. delivered[n] \cup {w} = {w}  BY <3>1
    <3> QED  BY <1>4, <3>1, <3>2, FirstHolds
  <2>2. CASE copy[n] /= Nothing /\ Refused
    <3>1. resolved = copy[n] /\ resolved \in Envelope  BY <1>2, <1>3, <2>2
    <3>2. Holds(resolved, delivered[n])  BY <2>2, <3>1 DEF ReplicaInv, CopiesInv
    <3> QED  BY <2>2, <3>1, <3>2 DEF Holds, Refused
  <2>3. CASE copy[n] /= Nothing /\ ~Refused
    <3>1. copy[n] \in Envelope /\ delivered[n] \subseteq Envelope  BY <1>3, <2>3
    <3>2. Holds(copy[n], delivered[n])  BY <2>3 DEF ReplicaInv, CopiesInv
    <3>3. resolved \in {Resolve(copy[n], w), ResolveValue(copy[n], w)}  BY <1>2, <2>3
    <3> QED  BY <1>4, <2>3, <3>1, <3>2, <3>3, ResolutionHolds
  <2> QED  BY <2>1, <2>2, <2>3
<1>6. policy' = policy /\ absolute' = absolute  BY <1>1 DEF registryVars
<1>7. PolicyInv'  BY <1>6 DEF PolicyInv
<1>8. \A m \in Nodes : IF copy'[m] = Nothing THEN delivered'[m] = {} ELSE
          /\ delivered'[m] /= {}
          /\ Holds(copy[m], delivered[m])'
  <2> SUFFICES ASSUME NEW m \in Nodes
               PROVE  IF copy'[m] = Nothing THEN delivered'[m] = {} ELSE
                      /\ delivered'[m] /= {} /\ Holds(copy[m], delivered[m])'
    OBVIOUS
  <2>1. CASE m = n
    <3>1. copy'[m] = resolved /\ delivered'[m] = delivered[n] \cup {w}  BY <1>1, <1>2, <1>3, <2>1
    <3>2. copy'[m] /= Nothing  BY <1>5, <3>1, CopiesAssumption
    <3> QED  BY <1>5, <1>6, <3>1, <3>2 DEF Holds, Older, Before
  <2>2. CASE m /= n
    <3>1. copy'[m] = copy[m] /\ delivered'[m] = delivered[m]  BY <1>1, <1>2, <1>3, <2>2
    <3> QED  BY <1>6, <3>1 DEF ReplicaInv, CopiesInv, Holds
  <2> QED  BY <2>1, <2>2
<1>9. delivered' \in [Nodes -> SUBSET writes'] /\ copy' \in [Nodes -> Envelope \cup {Nothing}]
  BY <1>1, <1>2, <1>3, <1>5
<1> QED  BY <1>7, <1>8, <1>9 DEF CopiesInv

LEMMA ReplicaInitially == ClockInit /\ ReplicaInit => ReplicaInv
<1> SUFFICES ASSUME ClockInit, ReplicaInit PROVE ReplicaInv  OBVIOUS
<1>1. WritesInv
  <2>1. IsFiniteSet({}) /\ Cardinality({}) = 0  BY FS_EmptySet
  <2> QED  BY <2>1, CopiesAssumption DEF ReplicaInit, WritesInv
<1>2. PolicyInv /\ CopiesInv  BY DEF ReplicaInit, PolicyInv, CopiesInv
<1> QED  BY <1>1, <1>2, ClockInitially DEF ReplicaInv

\* A step that writes and delivers nothing.
LEMMA ReplicasRest ==
    ASSUME ReplicaInv, ClockInv', PolicyInv', UNCHANGED <<writes, delivered, copy>>,
           writes = {} \/ UNCHANGED <<policy, absolute>>
    PROVE  ReplicaInv'
<1>1. WritesInv'  BY DEF ReplicaInv, WritesInv
<1>2. CopiesInv'
  <2>1. CASE writes = {}
    <3>1. \A n \in Nodes : delivered[n] = {} /\ copy[n] = Nothing
      BY <2>1 DEF ReplicaInv, CopiesInv
    <3> QED  BY <3>1 DEF ReplicaInv, CopiesInv
  <2>2. CASE UNCHANGED <<policy, absolute>>
    BY <2>2 DEF ReplicaInv, CopiesInv, Holds
  <2> QED  BY <2>1, <2>2
<1> QED  BY <1>1, <1>2 DEF ReplicaInv

LEMMA WriteHolds ==
    ASSUME ReplicaInv, NEW n \in Nodes, Write(n)
    PROVE  ReplicaInv'
<1>1. PICK w : /\ w = [stamp |-> StampOf(n, clock'[n]), payload |-> Cardinality(writes) + 1]
               /\ writes' = writes \cup {w} /\ Take(n, w)
  BY DEF Write
<1>2. ClockInv'  BY NowAdvances DEF Write, ReplicaInv
<1>3. Cardinality(writes) \in Nat /\ Cardinality(writes) < MaxWrites /\ policy /= Nothing
  BY FS_CardinalityType DEF ReplicaInv, WritesInv, Write
<1>4. w \in Envelope /\ w.payload = Cardinality(writes) + 1
  <2>1. clock'[n] \in Reading  BY <1>2 DEF ClockInv, ClockTypeOK
  <2>2. StampOf(n, clock'[n]) \in Stamp  BY <2>1 DEF StampOf, Reading, Stamp
  <2> QED  BY <1>1, <1>3, <2>2 DEF Envelope
<1>5. w \notin writes  BY <1>3, <1>4 DEF ReplicaInv, WritesInv
<1>6. IsFiniteSet(writes') /\ Cardinality(writes') = Cardinality(writes) + 1
  BY <1>1, <1>5, FS_AddElement DEF ReplicaInv, WritesInv
<1>7. WritesInv'
  <2>1. \A v \in writes : v.payload \in 1 .. Cardinality(writes)  BY DEF ReplicaInv, WritesInv
  <2>2. \A v \in writes : v.payload /= w.payload /\ v.payload \in 1 .. Cardinality(writes')
    BY <1>3, <1>4, <1>6, <2>1
  <2>3. w.payload \in 1 .. Cardinality(writes') /\ Cardinality(writes') <= MaxWrites
    BY <1>3, <1>4, <1>6, CopiesAssumption
  <2> QED  BY <1>1, <1>4, <1>6, <2>2, <2>3 DEF ReplicaInv, WritesInv
<1>8. w \notin delivered[n]  BY <1>5 DEF ReplicaInv, CopiesInv
<1>9. PolicyInv' /\ CopiesInv'  BY <1>1, <1>3, <1>7, <1>8, TakeHolds DEF ReplicaInv
<1> QED  BY <1>2, <1>7, <1>9 DEF ReplicaInv

LEMMA DeliverHolds ==
    ASSUME ReplicaInv, NEW n \in Nodes, NEW w \in writes, Deliver(n, w)
    PROVE  ReplicaInv'
<1>1. w \notin delivered[n] /\ Update(n, w.stamp) /\ Take(n, w) /\ writes' = writes
  BY DEF Deliver
<1>2. w.stamp \in Stamp  BY DEF ReplicaInv, WritesInv, Envelope
<1>3. ClockInv'  BY <1>1, <1>2, UpdateAdvances DEF ReplicaInv
<1>4. WritesInv'  BY <1>1 DEF ReplicaInv, WritesInv
<1>5. policy /= Nothing  BY DEF ReplicaInv, PolicyInv
<1>6. PolicyInv' /\ CopiesInv'  BY <1>1, <1>4, <1>5, TakeHolds DEF ReplicaInv
<1> QED  BY <1>3, <1>4, <1>6 DEF ReplicaInv

\* While policies are registered nothing is written.
LEMMA RegistrationHolds ==
    ASSUME ReplicaInv, UNCHANGED clockVars,
           \/ \E s \in Strategies : RegisterEntityPolicy(s) \/ RegisterFieldPolicy(s)
           \/ RegisterAbsoluteLwwField
           \/ UsePolicy
    PROVE  ReplicaInv'
<1>1. policy = Nothing /\ UNCHANGED <<writes, delivered, copy>>
  BY DEF RegisterEntityPolicy, RegisterFieldPolicy, RegisterAbsoluteLwwField, UsePolicy
<1>2. ClockInv'  BY DEF ReplicaInv, ClockInv, ClockTypeOK, KnownIsNotPast, clockVars
<1>3. writes = {}  BY <1>1 DEF ReplicaInv, PolicyInv
<1>4. PolicyInv'
  <2>1. CASE UsePolicy  BY <1>1, <1>3, <2>1 DEF UsePolicy, PolicyInv
  <2>2. CASE ~UsePolicy
    <3>1. policy' = policy
      BY <2>2 DEF RegisterEntityPolicy, RegisterFieldPolicy, RegisterAbsoluteLwwField
    <3> QED  BY <1>1, <1>3, <3>1 DEF PolicyInv
  <2> QED  BY <2>1, <2>2
<1> QED  BY <1>1, <1>2, <1>3, <1>4, ReplicasRest

LEMMA ReplicaStep == ReplicaInv /\ [ReplicaNext]_<<clockVars, replicaVars>> => ReplicaInv'
<1> SUFFICES ASSUME ReplicaInv, [ReplicaNext]_<<clockVars, replicaVars>> PROVE ReplicaInv'
  OBVIOUS
<1>1. ASSUME UNCHANGED clockVars,
             \/ \E s \in Strategies : RegisterEntityPolicy(s) \/ RegisterFieldPolicy(s)
             \/ RegisterAbsoluteLwwField
             \/ UsePolicy
      PROVE  ReplicaInv'
  BY <1>1, RegistrationHolds
<1>2. ASSUME NEW n \in Nodes, Write(n) PROVE ReplicaInv'  BY <1>2, WriteHolds
<1>3. ASSUME NEW n \in Nodes, NEW w \in writes, Deliver(n, w) PROVE ReplicaInv'
  BY <1>3, DeliverHolds
<1>4. ASSUME ClockInv', UNCHANGED replicaVars PROVE ReplicaInv'
  <2>1. UNCHANGED <<writes, delivered, copy, policy, absolute>>
    BY <1>4 DEF replicaVars, registryVars
  <2>2. PolicyInv'  BY <2>1 DEF ReplicaInv, PolicyInv
  <2> QED  BY <1>4, <2>1, <2>2, ReplicasRest
<1>5. ASSUME NEW n \in Nodes, WallMoves(n) \/ RestartNode(n), UNCHANGED replicaVars
      PROVE  ReplicaInv'
  BY <1>4, <1>5, WallAdvances, RestartAdvances DEF ReplicaInv
<1>6. CASE UNCHANGED <<clockVars, replicaVars>>
  <2>1. ClockInv'  BY <1>6 DEF ReplicaInv, ClockInv, ClockTypeOK, KnownIsNotPast, clockVars
  <2> QED  BY <1>4, <1>6, <2>1
<1> QED  BY <1>1, <1>2, <1>3, <1>5, <1>6 DEF ReplicaNext

\* For any number of replicas and writes, any orders of delivery and any clocks:
\* replicas that took the same writes hold the latest of them, or their sum, and a
\* field that is absolute is one of the values written.
THEOREM ReplicasAlwaysConverge == ReplicaSpec => []ReplicasConverge
<1>1. ASSUME ReplicaInv, NEW m \in Nodes, NEW n \in Nodes,
             delivered[m] = delivered[n], copy[m] /= Nothing
      PROVE  /\ policy \in {"lww", "crdt"} /\ StampsDistinct => copy[m] = copy[n]
             /\ policy = "additive" /\ ~absolute => copy[m].payload = copy[n].payload
  <2>1. copy[n] /= Nothing /\ Holds(copy[m], delivered[m]) /\ Holds(copy[n], delivered[m])
    BY <1>1 DEF ReplicaInv, CopiesInv
  <2>2. ASSUME policy \in {"lww", "crdt"}, StampsDistinct PROVE copy[m] = copy[n]
    <3>1. /\ copy[m] \in delivered[m] /\ copy[n] \in delivered[m]
          /\ ~Older(copy[m], copy[n]) /\ ~Older(copy[n], copy[m])
      BY <2>1, <2>2 DEF Holds
    <3>2. copy[m] \in writes /\ copy[n] \in writes  BY <1>1, <3>1 DEF ReplicaInv, CopiesInv
    <3>3. copy[m].stamp \in Stamp /\ copy[n].stamp \in Stamp
      BY <1>1, <3>2 DEF ReplicaInv, WritesInv, Envelope
    <3>4. copy[m].stamp = copy[n].stamp  BY <3>1, <3>3, StampsOrdered DEF Older
    <3> QED  BY <2>2, <3>2, <3>4 DEF StampsDistinct
  <2>3. ASSUME policy = "additive", ~absolute PROVE copy[m].payload = copy[n].payload
    BY <2>1, <2>3, OneTotal DEF Holds
  <2> QED  BY <2>2, <2>3
<1>2. ASSUME ReplicaInv, absolute, NEW n \in Nodes PROVE copy[n] \in writes \cup {Nothing}
  BY <1>2 DEF ReplicaInv, CopiesInv, Holds
<1>3. ReplicaInv => ReplicasConverge  BY <1>1, <1>2 DEF ReplicasConverge
<1> QED  BY <1>3, ReplicaInitially, ReplicaStep, PTL DEF ReplicaSpec
=============================================================================
