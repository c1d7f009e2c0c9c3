--------------------------- MODULE DatabaseProofs ---------------------------
(***************************************************************************)
(* Proofs about the database: what its connections' transactions leave,    *)
(* and what the services that use them keep of their records.              *)
(***************************************************************************)
EXTENDS Connection, Records, SequenceTheorems, WellFoundedInduction, TLAPS

-----------------------------------------------------------------------------
(* Induction on a number: of the numbers without a property one is least. *)

LEMMA LeastElement ==
    ASSUME NEW T, T \subseteq Nat, T /= {}
    PROVE  \E m \in T : \A k \in T : ~(k < m)
<1>1. PICK m \in T : \A k \in T : ~(<<k, m>> \in OpToRel(<, Nat))
  BY NatLessThanWellFounded, WFMin
<1>2. \A k \in T : k < m => <<k, m>> \in OpToRel(<, Nat)
  BY DEF OpToRel
<1> QED  BY <1>1, <1>2

-----------------------------------------------------------------------------
(***************************************************************************)
(* Connection: while a transaction of the memory connection is open, its   *)
(* active clients are the transaction and the savepoints on SQLite's       *)
(* stack, each inside the one before, and what SQLite would return to at   *)
(* each of them is what its parents have written.                          *)
(***************************************************************************)

Client == [status : {"none", "active", "resolved", "rejected"},
           parent : Clients, buffer : SUBSET Nat]

StackEntry == [client : Savepoints, rows : SUBSET Nat]

ConnectionType ==
    /\ callPc \in [TxCalls \cup PlainCalls -> {"idle", "called", "open", "resolved", "rejected"}]
    /\ queue \in Seq(TxCalls \cup PlainCalls)
    /\ clients \in [TxCalls -> [Clients -> Client]]
    /\ rows \in SUBSET Nat /\ backup \in SUBSET Nat /\ acknowledged \in SUBSET Nat
    /\ written \in Nat
    /\ stack \in Seq(StackEntry)

\* The transaction is level 0, the savepoints on the stack the levels above.
Level(i) == IF i = 0 THEN 0 ELSE stack[i].client

\* What the database held when the level was entered.
Base(i) == IF i = 0 THEN backup ELSE stack[i].rows

Nested(c) ==
    /\ \A k \in Clients : Active(c, k) <=> \E i \in 0 .. Len(stack) : Level(i) = k
    /\ \A i, j \in 0 .. Len(stack) : Level(i) = Level(j) => i = j
    /\ \A i \in 1 .. Len(stack) :
          /\ clients[c][Level(i)].parent = Level(i - 1)
          /\ Base(i) = Base(i - 1) \cup clients[c][Level(i - 1)].buffer

MemoryOpen(c) ==
    /\ queue /= <<>> /\ Head(queue) = c
    /\ backup = acknowledged
    /\ Nested(c)
    /\ rows = Base(Len(stack)) \cup clients[c][Level(Len(stack))].buffer

\* A call that is not under way has no active client and, before it begins, no
\* buffer.
Resting(c) ==
    /\ callPc[c] /= "open" => \A k \in Clients : ~Active(c, k)
    /\ callPc[c] \in {"idle", "called"} => clients[c][0].buffer = {}

ConnectionInv ==
    /\ ConnectionType
    /\ Memory => \A c \in TxCalls : Resting(c) /\ (callPc[c] = "open" => MemoryOpen(c))
    /\ BetweenTransactions \/ ~Memory => rows = acknowledged /\ stack = <<>>

LEMMA ConnectionInitially == ConnectionInit => ConnectionInv
<1> SUFFICES ASSUME ConnectionInit PROVE ConnectionInv  OBVIOUS
<1>1. NoClient \in Client  BY DEF NoClient, Client, Clients
<1>2. ConnectionType  BY <1>1 DEF ConnectionType, ConnectionInit
<1>3. \A c \in TxCalls : Resting(c)
  BY DEF ConnectionInit, Resting, Active, NoClient, Clients
<1> QED  BY <1>2, <1>3 DEF ConnectionInv, ConnectionInit

\* The call whose transaction is open on the memory connection holds the lock.
LEMMA OneOpen ==
    ASSUME ConnectionInv, Memory, NEW c, queue /= <<>>, Head(queue) = c,
           c \in TxCalls => callPc[c] /= "open"
    PROVE  BetweenTransactions
BY DEF ConnectionInv, MemoryOpen, BetweenTransactions

LEMMA OpenByActive ==
    ASSUME ConnectionInv, Memory, NEW c \in TxCalls, NEW k \in Clients, Active(c, k)
    PROVE  callPc[c] = "open"
BY DEF ConnectionInv, Resting

\* A client without open savepoints is the innermost one.
LEMMA InnermostIsTop ==
    ASSUME ConnectionInv, Memory, NEW c \in TxCalls, NEW k \in Clients,
           Active(c, k), OpenChildren(c, k) = {}
    PROVE  MemoryOpen(c) /\ k = Level(Len(stack))
<1>1. MemoryOpen(c)  BY OpenByActive DEF ConnectionInv
<1>2. stack \in Seq(StackEntry)
  BY DEF ConnectionInv, ConnectionType
<1>3. PICK i \in 0 .. Len(stack) : Level(i) = k  BY <1>1 DEF MemoryOpen, Nested
<1>4. ASSUME i < Len(stack) PROVE FALSE
  <2>1. i + 1 \in 1 .. Len(stack) /\ i + 1 \in 0 .. Len(stack) /\ i + 1 /= i
    BY <1>2, <1>4
  <2>2. Level(i + 1) \in Savepoints
    <3>1. stack[i + 1] \in StackEntry
      BY <1>2, <2>1, ElementOfSeq
    <3>2. Level(i + 1) = stack[i + 1].client  BY <2>1 DEF Level
    <3> QED  BY <3>1, <3>2 DEF StackEntry
  <2>3. Level(i + 1) /= k  BY <1>1, <1>3, <2>1 DEF MemoryOpen, Nested
  <2>4. clients[c][Level(i + 1)].parent = Level(i + 1 - 1)
    BY <1>1, <2>1 DEF MemoryOpen, Nested
  <2>5. Active(c, Level(i + 1))  BY <1>1, <2>1, <2>2 DEF MemoryOpen, Nested, Clients
  <2> QED  BY <1>3, <2>2, <2>3, <2>4, <2>5 DEF OpenChildren
<1> QED  BY <1>1, <1>2, <1>3, <1>4

\* A step that leaves the database and the clients of other calls alone.
LEMMA NestedStays ==
    ASSUME NEW d \in TxCalls, clients'[d] = clients[d],
           UNCHANGED <<stack, backup>>
    PROVE  Nested(d)' <=> Nested(d)
BY DEF Nested, Level, Base, Active

LEMMA CallIsSafe ==
    ASSUME ConnectionInv, NEW c \in TxCalls \cup PlainCalls, Call(c)
    PROVE  ConnectionInv'
<1> USE DEF Call
<1>1. ConnectionType'
  BY DEF ConnectionInv, ConnectionType
<1>2. \A d \in TxCalls : callPc'[d] = "open" <=> callPc[d] = "open"
  BY DEF ConnectionInv, ConnectionType
<1>3. Memory => \A d \in TxCalls : Resting(d)'
  BY DEF ConnectionInv, ConnectionType, Resting, Active
<1>4. ASSUME Memory', NEW d \in TxCalls, callPc'[d] = "open" PROVE MemoryOpen(d)'
  <2>1. MemoryOpen(d)  BY <1>2, <1>4 DEF ConnectionInv, Memory
  <2>2. queue' /= <<>> /\ Head(queue') = d
    BY <1>4, <2>1 DEF MemoryOpen, Memory, ConnectionInv, ConnectionType
  <2> QED  BY <2>1, <2>2, NestedStays DEF MemoryOpen, Level, Base
<1>5. BetweenTransactions' => BetweenTransactions  BY <1>2 DEF BetweenTransactions
<1> QED  BY <1>1, <1>3, <1>4, <1>5 DEF ConnectionInv, Memory

LEMMA PlainIsSafe ==
    ASSUME ConnectionInv, NEW c \in PlainCalls, Plain(c)
    PROVE  ConnectionInv'
<1> USE DEF Plain
<1>1. ConnectionType'
  <2>1. Memory => queue /= <<>>  BY DEF Locked
  <2>2. queue' \in Seq(TxCalls \cup PlainCalls)
    BY <2>1 DEF ConnectionInv, ConnectionType, Release
  <2>3. callPc' \in [TxCalls \cup PlainCalls -> {"idle", "called", "open", "resolved", "rejected"}]
    BY DEF ConnectionInv, ConnectionType
  <2>4. written' \in Nat /\ rows' \in SUBSET Nat /\ acknowledged' \in SUBSET Nat
    <3>1. written \in Nat /\ rows \in SUBSET Nat /\ acknowledged \in SUBSET Nat
      BY DEF ConnectionInv, ConnectionType
    <3>2. CASE UNCHANGED <<rows, written, acknowledged>>  BY <3>1, <3>2
    <3>3. CASE /\ written' = written + 1 /\ rows' = rows \cup {written'}
               /\ acknowledged' = acknowledged \cup {written'}
      BY <3>1, <3>3
    <3> QED  BY <3>2, <3>3
  <2>5. UNCHANGED <<clients, backup, stack>>  OBVIOUS
  <2> HIDE DEF Plain
  <2> QED  BY <2>2, <2>3, <2>4, <2>5 DEF ConnectionInv, ConnectionType
<1>2. \A d \in TxCalls : callPc'[d] = "open" <=> callPc[d] = "open"
  BY DEF ConnectionInv, ConnectionType
<1>3. Memory => \A d \in TxCalls : Resting(d)'
  BY DEF ConnectionInv, ConnectionType, Resting, Active
<1>4. BetweenTransactions \/ ~Memory
  BY OneOpen DEF Locked
<1>5. rows' = acknowledged' /\ stack' = <<>>
  BY <1>4 DEF ConnectionInv
<1> QED  BY <1>1, <1>2, <1>3, <1>4, <1>5 DEF ConnectionInv, Memory, BetweenTransactions

\* A step that changes one client of one call.
LEMMA OneClient ==
    ASSUME clients \in [TxCalls -> [Clients -> Client]], NEW c \in TxCalls, NEW k \in Clients,
           NEW new \in Client,
           clients' = [clients EXCEPT ![c] = [clients[c] EXCEPT ![k] = new]]
    PROVE  /\ clients' \in [TxCalls -> [Clients -> Client]]
           /\ \A d \in TxCalls \ {c} : clients'[d] = clients[d]
           /\ \A j \in Clients \ {k} : clients'[c][j] = clients[c][j]
           /\ clients'[c][k] = new
OBVIOUS

LEMMA BeginIsSafe ==
    ASSUME ConnectionInv, NEW c \in TxCalls, Begin(c)
    PROVE  ConnectionInv'
<1> USE DEF Begin
<1>a. clients \in [TxCalls -> [Clients -> Client]] /\ callPc[c] \notin {"open"}
  BY DEF ConnectionInv, ConnectionType
<1>b. 0 \in Clients  BY DEF Clients
<1>c. clients[c][0] \in Client  BY <1>a, <1>b
<1>d. /\ clients' \in [TxCalls -> [Clients -> Client]]
      /\ \A d \in TxCalls \ {c} : clients'[d] = clients[d]
      /\ \A k \in Clients \ {0} : clients'[c][k] = clients[c][k]
      /\ clients'[c][0].status = "active" /\ (Memory => clients'[c][0].buffer = {})
  <2> DEFINE new == [clients[c][0] EXCEPT !.status = "active"]
  <2>1. new \in Client /\ new.status = "active" /\ new.buffer = clients[c][0].buffer
    BY <1>c DEF Client
  <2>2. clients' = [clients EXCEPT ![c] = [clients[c] EXCEPT ![0] = new]]  OBVIOUS
  <2>3. Memory => clients[c][0].buffer = {}  BY DEF ConnectionInv, Resting
  <2> HIDE DEF new, Begin
  <2> QED  BY <1>a, <1>b, <2>1, <2>2, <2>3, OneClient
<1>1. ConnectionType'
  BY <1>d DEF ConnectionInv, ConnectionType
<1>2. callPc' \in [TxCalls \cup PlainCalls -> {"idle", "called", "open", "resolved", "rejected"}]
      /\ callPc'[c] = "open" /\ \A d \in TxCalls \ {c} : callPc'[d] = callPc[d]
  BY DEF ConnectionInv, ConnectionType
<1>3. Memory => \A d \in TxCalls : Resting(d)'
  BY <1>2, <1>d DEF ConnectionInv, Resting, Active
<1>4. BetweenTransactions \/ ~Memory
  BY <1>a, OneOpen DEF Locked
<1>5. rows = acknowledged /\ stack = <<>>  BY <1>4 DEF ConnectionInv
<1>6. ASSUME Memory', NEW d \in TxCalls, callPc'[d] = "open" PROVE MemoryOpen(d)'
  <2>1. d = c  BY <1>2, <1>4, <1>6 DEF BetweenTransactions, Memory
  <2>2. \A k \in Clients : Active(c, k)' <=> k = 0
    BY <1>a, <1>d, <1>6 DEF ConnectionInv, Resting, Active, Memory
  <2>3. Nested(c)'  BY <1>5, <2>2, <1>b DEF Nested, Level
  <2> QED  BY <1>5, <1>6, <1>d, <2>1, <2>3 DEF MemoryOpen, Level, Base, Locked, Memory
<1> QED  BY <1>1, <1>3, <1>5, <1>6, <1>2 DEF ConnectionInv, Memory, BetweenTransactions

LEMMA OnlyOneOpen ==
    ASSUME ConnectionInv, Memory, NEW c \in TxCalls, NEW d \in TxCalls,
           callPc[c] = "open", callPc[d] = "open"
    PROVE  d = c
BY DEF ConnectionInv, MemoryOpen

LEMMA ConnectionTypes ==
    ASSUME ConnectionInv
    PROVE  /\ ConnectionType
           /\ clients \in [TxCalls -> [Clients -> Client]]
           /\ Len(stack) \in Nat
           /\ 0 \in Clients /\ Savepoints \subseteq Clients /\ 0 \notin Savepoints
           /\ \A i \in 1 .. Len(stack) : Level(i) \in Savepoints /\ Base(i) \in SUBSET Nat
           /\ \A i \in 0 .. Len(stack) : Level(i) \in Clients
<1>1. ConnectionType  BY DEF ConnectionInv
<1>2. stack \in Seq(StackEntry)
  BY <1>1 DEF ConnectionType
<1>3. 0 \in Clients /\ Savepoints \subseteq Clients /\ 0 \notin Savepoints
  BY SavepointsAssumption DEF Clients
<1>4. ASSUME NEW i \in 1 .. Len(stack) PROVE Level(i) \in Savepoints /\ Base(i) \in SUBSET Nat
  <2>1. stack[i] \in StackEntry  BY <1>2, ElementOfSeq
  <2>2. Level(i) = stack[i].client /\ Base(i) = stack[i].rows  BY DEF Level, Base
  <2> QED  BY <2>1, <2>2 DEF StackEntry
<1>5. Len(stack) \in Nat  BY <1>2
<1>6. Level(0) = 0  BY DEF Level
<1> QED  BY <1>1, <1>3, <1>4, <1>5, <1>6 DEF ConnectionType

\* A step inside the open transaction of call c: the others are where they were.
LEMMA StepInside ==
    ASSUME ConnectionInv, NEW c \in TxCalls, Memory => callPc[c] = "open", ConnectionType',
           UNCHANGED <<connection, callPc, queue, backup, acknowledged>>,
           \A d \in TxCalls \ {c} : clients'[d] = clients[d],
           Memory =>
             /\ Nested(c)'
             /\ rows' = (Base(Len(stack)) \cup clients[c][Level(Len(stack))].buffer)',
           ~Memory => UNCHANGED <<rows, stack>>
    PROVE  ConnectionInv'
<1>1. Memory => \A d \in TxCalls : Resting(d)'
  BY DEF ConnectionInv, Resting, Active
<1>2. ASSUME Memory', NEW d \in TxCalls, callPc'[d] = "open" PROVE MemoryOpen(d)'
  <2>1. Memory /\ d = c  BY <1>2, OnlyOneOpen DEF Memory
  <2>2. MemoryOpen(c)  BY <2>1 DEF ConnectionInv
  <2> QED  BY <2>1, <2>2 DEF MemoryOpen
<1>3. Memory => ~BetweenTransactions'  BY DEF BetweenTransactions
<1> QED  BY <1>1, <1>2, <1>3 DEF ConnectionInv, Memory

LEMMA ExecuteIsSafe ==
    ASSUME ConnectionInv, NEW c \in TxCalls, NEW k \in Clients, Execute(c, k)
    PROVE  ConnectionInv'
<1> DEFINE new == [clients[c][k] EXCEPT !.buffer = @ \cup {written'}]
<1>1. /\ Innermost(c, k) /\ written' = written + 1
      /\ clients' = [clients EXCEPT ![c] = [clients[c] EXCEPT ![k] = new]]
      /\ rows' = IF Memory THEN rows \cup {written'} ELSE rows
      /\ UNCHANGED <<connection, callPc, queue, backup, stack, acknowledged>>
  BY DEF Execute
<1>2. /\ ConnectionType /\ clients \in [TxCalls -> [Clients -> Client]]
      /\ written' \in Nat /\ rows \in SUBSET Nat
  BY <1>1, ConnectionTypes DEF ConnectionType
<1>3. /\ new \in Client /\ new.status = clients[c][k].status /\ new.parent = clients[c][k].parent
      /\ new.buffer = clients[c][k].buffer \cup {written'}
  <2>1. clients[c][k] \in Client  BY <1>2
  <2> QED  BY <2>1, <1>2 DEF Client
<1> HIDE DEF new
<1>4. /\ clients' \in [TxCalls -> [Clients -> Client]]
      /\ \A d \in TxCalls \ {c} : clients'[d] = clients[d]
      /\ \A j \in Clients \ {k} : clients'[c][j] = clients[c][j]
      /\ clients'[c][k] = new
  BY <1>1, <1>2, <1>3, OneClient
<1>5. Memory => callPc[c] = "open"  BY <1>1, OpenByActive DEF Innermost
<1>6. ConnectionType'  BY <1>1, <1>2, <1>4 DEF ConnectionType
<1>7. ASSUME Memory
      PROVE  Nested(c)' /\ rows' = (Base(Len(stack)) \cup clients[c][Level(Len(stack))].buffer)'
  <2>1. MemoryOpen(c) /\ k = Level(Len(stack))
    BY <1>1, <1>7, InnermostIsTop DEF Innermost
  <2>2. \A i \in 0 .. Len(stack) : Level(i)' = Level(i) /\ Base(i)' = Base(i)
    BY <1>1 DEF Level, Base
  <2>3. \A j \in Clients : Active(c, j)' <=> Active(c, j)  BY <1>3, <1>4 DEF Active
  <2>4. \A j \in Clients : clients'[c][j].parent = clients[c][j].parent  BY <1>3, <1>4
  <2>5. \A i \in 1 .. Len(stack) : clients'[c][Level(i - 1)] = clients[c][Level(i - 1)]
    BY <1>4, <2>1, ConnectionTypes DEF MemoryOpen, Nested
  <2>6. Len(stack') = Len(stack) /\ Len(stack) \in Nat  BY <1>1, ConnectionTypes
  <2>7. Nested(c)
    BY <2>1 DEF MemoryOpen
  <2>8. \A j \in Clients : Active(c, j)' <=> \E i \in 0 .. Len(stack') : Level(i)' = j
    BY <2>2, <2>3, <2>6, <2>7 DEF Nested
  <2>9. \A i, j \in 0 .. Len(stack') : Level(i)' = Level(j)' => i = j
    BY <2>2, <2>6, <2>7 DEF Nested
  <2>10. ASSUME NEW i \in 1 .. Len(stack')
         PROVE  /\ clients'[c][Level(i)'].parent = Level(i - 1)'
                /\ Base(i)' = Base(i - 1)' \cup clients'[c][Level(i - 1)'].buffer
    <3>1. i \in 1 .. Len(stack) /\ i \in 0 .. Len(stack) /\ i - 1 \in 0 .. Len(stack)  BY <2>6
    <3>2. /\ clients[c][Level(i)].parent = Level(i - 1)
          /\ Base(i) = Base(i - 1) \cup clients[c][Level(i - 1)].buffer
      BY <3>1, <2>7 DEF Nested
    <3>3. Level(i) \in Clients  BY <3>1, ConnectionTypes
    <3>4. /\ Level(i)' = Level(i) /\ Level(i - 1)' = Level(i - 1)
          /\ Base(i)' = Base(i) /\ Base(i - 1)' = Base(i - 1)
      BY <2>2, <3>1
    <3> QED  BY <3>1, <3>2, <3>3, <3>4, <2>4, <2>5
  <2>11. Nested(c)'  BY <2>8, <2>9, <2>10 DEF Nested
  <2>12. rows' = Base(Len(stack)) \cup new.buffer
    BY <1>1, <1>3, <1>7, <2>1 DEF MemoryOpen
  <2>13. /\ Base(Len(stack))' = Base(Len(stack)) /\ Level(Len(stack))' = k
    BY <2>1, <2>2, <2>6, <1>1 DEF Level, Base
  <2> QED  BY <2>11, <2>12, <2>13, <1>4
<1> QED  BY <1>1, <1>4, <1>5, <1>6, <1>7, StepInside

LEMMA SavepointIsSafe ==
    ASSUME ConnectionInv, NEW c \in TxCalls, NEW k \in Clients, NEW j \in Savepoints,
           Savepoint(c, k, j)
    PROVE  ConnectionInv'
<1> DEFINE new == [status |-> "active", parent |-> k, buffer |-> {}]
           entry == [client |-> j, rows |-> rows]
<1>0. PICK n \in Nat : n = Len(stack)  BY ConnectionTypes
<1>1. /\ Innermost(c, k) /\ clients[c][j] = NoClient
      /\ clients' = [clients EXCEPT ![c] = [clients[c] EXCEPT ![j] = new]]
      /\ stack' = IF Memory THEN Append(stack, entry) ELSE stack
      /\ UNCHANGED <<connection, callPc, queue, rows, written, backup, acknowledged>>
  BY DEF Savepoint
<1>2. /\ ConnectionType /\ clients \in [TxCalls -> [Clients -> Client]]
      /\ j \in Clients /\ j /= 0 /\ n \in Nat
      /\ stack \in Seq(StackEntry) /\ rows \in SUBSET Nat
  BY <1>0, ConnectionTypes DEF ConnectionType
<1>3. /\ new \in Client /\ new.status = "active" /\ new.parent = k /\ new.buffer = {}
      /\ entry \in StackEntry
      /\ entry.client = j /\ entry.rows = rows
  BY <1>2 DEF Client, StackEntry
<1> HIDE DEF new, entry
<1>4. /\ clients' \in [TxCalls -> [Clients -> Client]]
      /\ \A d \in TxCalls \ {c} : clients'[d] = clients[d]
      /\ \A i \in Clients \ {j} : clients'[c][i] = clients[c][i]
      /\ clients'[c][j] = new
  BY <1>1, <1>2, <1>3, OneClient
<1>5. Memory => callPc[c] = "open"  BY <1>1, OpenByActive DEF Innermost
<1>6. ConnectionType'
  <2>1. stack' \in Seq(StackEntry)
    BY <1>1, <1>2, <1>3
  <2> QED  BY <1>1, <1>2, <1>4, <2>1 DEF ConnectionType
<1>7. ASSUME Memory
      PROVE  Nested(c)' /\ rows' = (Base(Len(stack)) \cup clients[c][Level(Len(stack))].buffer)'
  <2>1. MemoryOpen(c) /\ Nested(c) /\ k = Level(n)
    BY <1>1, <1>7, <1>0, InnermostIsTop DEF Innermost, MemoryOpen
  <2>2. Len(stack') = n + 1 /\ stack'[n + 1] = entry /\ \A i \in 1 .. n : stack'[i] = stack[i]
    BY <1>0, <1>1, <1>7, <1>2, <1>3
  <2>3. \A i \in 0 .. n : Level(i)' = Level(i) /\ Base(i)' = Base(i)
    BY <1>1, <1>2, <2>2 DEF Level, Base
  <2>4. Level(n + 1)' = j /\ Base(n + 1)' = rows
    BY <1>2, <1>3, <2>2 DEF Level, Base
  <2>5. ~Active(c, j)  BY <1>1 DEF Active, NoClient
  <2>6. \A i \in 0 .. n : Level(i) /= j /\ Level(i) \in Clients
    BY <1>0, <2>1, <2>5, <1>2, ConnectionTypes DEF Nested
  <2>7. \A i \in Clients : Active(c, i)' <=> Active(c, i) \/ i = j
    BY <1>2, <1>3, <1>4 DEF Active
  <2>8. \A m \in Clients : Active(c, m)' <=> \E i \in 0 .. Len(stack') : Level(i)' = m
    <3>1. \A m \in Clients : Active(c, m) <=> \E i \in 0 .. n : Level(i) = m
      BY <1>0, <2>1 DEF Nested
    <3>2. 0 .. Len(stack') = 0 .. n \cup {n + 1}  BY <1>2, <2>2
    <3> QED  BY <2>3, <2>4, <2>7, <3>1, <3>2
  <2>9. \A i, m \in 0 .. Len(stack') : Level(i)' = Level(m)' => i = m
    <3>1. \A i, m \in 0 .. n : Level(i) = Level(m) => i = m  BY <1>0, <2>1 DEF Nested
    <3>2. 0 .. Len(stack') = 0 .. n \cup {n + 1}  BY <1>2, <2>2
    <3> QED  BY <2>3, <2>4, <2>6, <3>1, <3>2
  <2>10. ASSUME NEW i \in 1 .. Len(stack')
         PROVE  /\ clients'[c][Level(i)'].parent = Level(i - 1)'
                /\ Base(i)' = Base(i - 1)' \cup clients'[c][Level(i - 1)'].buffer
    <3>1. CASE i = n + 1
      <4>1. Level(i)' = j /\ Base(i)' = rows /\ i - 1 = n /\ n \in 0 .. n  BY <1>2, <2>4, <3>1
      <4>2. Level(i - 1)' = k /\ Base(i - 1)' = Base(n)  BY <2>1, <2>3, <4>1
      <4>3. k /= j  BY <2>1, <2>6, <4>1
      <4>4. rows = Base(n) \cup clients[c][k].buffer  BY <1>0, <2>1 DEF MemoryOpen
      <4> QED  BY <4>1, <4>2, <4>3, <4>4, <1>3, <1>4
    <3>2. CASE i \in 1 .. n
      <4>1. i \in 0 .. n /\ i - 1 \in 0 .. n  BY <1>2, <3>2
      <4>2. /\ clients[c][Level(i)].parent = Level(i - 1)
            /\ Base(i) = Base(i - 1) \cup clients[c][Level(i - 1)].buffer
        BY <1>0, <3>2, <2>1 DEF Nested
      <4>3. clients'[c][Level(i)] = clients[c][Level(i)]
            /\ clients'[c][Level(i - 1)] = clients[c][Level(i - 1)]
        BY <1>4, <2>6, <4>1
      <4>4. /\ Level(i)' = Level(i) /\ Level(i - 1)' = Level(i - 1)
            /\ Base(i)' = Base(i) /\ Base(i - 1)' = Base(i - 1)
        BY <2>3, <4>1
      <4> QED  BY <4>2, <4>3, <4>4
    <3> QED  BY <1>2, <2>2, <3>1, <3>2
  <2>11. Nested(c)'  BY <2>8, <2>9, <2>10 DEF Nested
  <2>12. /\ Base(Len(stack))' = rows /\ Level(Len(stack))' = j
    BY <2>2, <2>4, <1>2
  <2>13. clients'[c][j].buffer = {}  BY <1>3, <1>4
  <2> QED  BY <1>1, <2>11, <2>12, <2>13
<1> QED  BY <1>1, <1>4, <1>5, <1>6, <1>7, StepInside

\* SQLite has the savepoint of the innermost client, on top of the stack.
LEMMA TopIsKnown ==
    ASSUME ConnectionInv, Memory, NEW c \in TxCalls, NEW j \in Savepoints, Closable(c, j)
    PROVE  /\ MemoryOpen(c) /\ j = Level(Len(stack)) /\ Len(stack) \in Nat \ {0}
           /\ Place(j) = Len(stack) /\ Known(j)
<1>1. /\ MemoryOpen(c) /\ j = Level(Len(stack)) /\ j /= 0 /\ Len(stack) \in Nat
  BY InnermostIsTop, ConnectionTypes DEF Closable
<1>2. Len(stack) \in Nat \ {0}  BY <1>1 DEF Level
<1>3. DOMAIN stack = 1 .. Len(stack)  BY ConnectionTypes DEF ConnectionType
<1>4. \A i \in 1 .. Len(stack) : stack[i].client = Level(i)  BY DEF Level
<1>5. \A i \in 1 .. Len(stack) : Level(i) = Level(Len(stack)) => i = Len(stack)
  BY <1>1, <1>2 DEF MemoryOpen, Nested
<1>6. \A i \in DOMAIN stack : stack[i].client = j <=> i = Len(stack)
  BY <1>1, <1>2, <1>3, <1>4, <1>5
<1>7. Len(stack) \in DOMAIN stack  BY <1>2, <1>3
<1>8. Place(j) = Len(stack)  BY <1>6, <1>7 DEF Place
<1> QED  BY <1>1, <1>2, <1>8 DEF Known

\* Closing the innermost savepoint leaves the levels below it.
LEMMA NestedBelow ==
    ASSUME ConnectionInv, Memory, NEW c \in TxCalls, NEW j \in Savepoints, Closable(c, j),
           stack' = SubSeq(stack, 1, Place(j) - 1), UNCHANGED backup,
           clients' \in [TxCalls -> [Clients -> Client]],
           clients'[c][j].status /= "active",
           \A i \in Clients \ {j} : /\ clients'[c][i].status = clients[c][i].status
                                    /\ clients'[c][i].parent = clients[c][i].parent,
           \A i \in Clients \ {j, clients[c][j].parent} : clients'[c][i] = clients[c][i]
    PROVE  /\ Nested(c)' /\ Len(stack') = Len(stack) - 1 /\ Len(stack) \in Nat \ {0}
           /\ Level(Len(stack))' = clients[c][j].parent
           /\ Base(Len(stack))' = Base(Len(stack) - 1)
           /\ clients[c][j].parent \in Clients \ {j}
           /\ clients[c][j].parent = Level(Len(stack) - 1)
           /\ Base(Len(stack)) = Base(Len(stack) - 1) \cup clients[c][clients[c][j].parent].buffer
<1>0. PICK n \in Nat : n = Len(stack)  BY ConnectionTypes
<1>p. PICK p : p = clients[c][j].parent  OBVIOUS
<1>1. /\ MemoryOpen(c) /\ Nested(c) /\ j = Level(n) /\ n \in Nat \ {0} /\ Place(j) = n
      /\ j \in Clients
  BY <1>0, TopIsKnown, ConnectionTypes DEF MemoryOpen
<1>2. stack \in Seq(StackEntry)
  BY ConnectionTypes DEF ConnectionType
<1>3. Len(stack') = n - 1 /\ \A i \in 1 .. n - 1 : stack'[i] = stack[i]
  BY <1>0, <1>1, <1>2
<1>4. \A i \in 0 .. n - 1 : Level(i)' = Level(i) /\ Base(i)' = Base(i)
  BY <1>1, <1>3 DEF Level, Base
<1>5. n \in 1 .. n /\ n \in 0 .. n /\ n - 1 \in 0 .. n /\ n - 1 \in 0 .. n - 1  BY <1>1
<1>6. p = Level(n - 1) /\ Base(n) = Base(n - 1) \cup clients[c][p].buffer
  BY <1>0, <1>p, <1>1, <1>5 DEF Nested
<1>7. \A i, m \in 0 .. n : Level(i) = Level(m) => i = m  BY <1>0, <1>1 DEF Nested
<1>8. \A i \in 0 .. n - 1 : Level(i) /= j /\ Level(i) \in Clients
  BY <1>0, <1>1, <1>5, <1>7, ConnectionTypes
<1>9. \A m \in Clients : Active(c, m)' <=> \E i \in 0 .. Len(stack') : Level(i)' = m
  <2>1. \A m \in Clients : Active(c, m) <=> \E i \in 0 .. n : Level(i) = m  BY <1>0, <1>1 DEF Nested
  <2>2. 0 .. n = 0 .. n - 1 \cup {n}  BY <1>1
  <2>3. \A m \in Clients : Active(c, m)' <=> Active(c, m) /\ m /= j  BY DEF Active
  <2> QED  BY <1>1, <1>3, <1>4, <1>8, <2>1, <2>2, <2>3
<1>10. \A i, m \in 0 .. Len(stack') : Level(i)' = Level(m)' => i = m
  BY <1>1, <1>3, <1>4, <1>7
<1>11. ASSUME NEW i \in 1 .. Len(stack')
       PROVE  /\ clients'[c][Level(i)'].parent = Level(i - 1)'
              /\ Base(i)' = Base(i - 1)' \cup clients'[c][Level(i - 1)'].buffer
  <2>1. i \in 1 .. n /\ i \in 0 .. n - 1 /\ i - 1 \in 0 .. n - 1 /\ i - 1 \in 0 .. n
    BY <1>1, <1>3
  <2>2. /\ clients[c][Level(i)].parent = Level(i - 1)
        /\ Base(i) = Base(i - 1) \cup clients[c][Level(i - 1)].buffer
    BY <1>0, <1>1, <2>1 DEF Nested
  <2>3. Level(i - 1) /= p
    BY <1>1, <1>3, <1>5, <1>6, <1>7, <2>1
  <2>4. clients'[c][Level(i - 1)] = clients[c][Level(i - 1)]
        /\ clients'[c][Level(i)].parent = clients[c][Level(i)].parent
    BY <1>p, <1>8, <2>1, <2>3
  <2> QED  BY <1>4, <2>1, <2>2, <2>4
<1>12. Nested(c)'  BY <1>9, <1>10, <1>11 DEF Nested
<1>13. Level(n - 1)' = p /\ Base(n - 1)' = Base(n - 1)  BY <1>4, <1>5, <1>6
<1>14. p \in Clients \ {j}  BY <1>5, <1>6, <1>8
<1>15. Level(Len(stack))' = Level(n - 1)' /\ Base(Len(stack))' = Base(n - 1)'
  BY <1>3
<1> QED  BY <1>0, <1>p, <1>1, <1>3, <1>6, <1>12, <1>13, <1>14, <1>15


LEMMA ReleaseSavepointIsSafe ==
    ASSUME ConnectionInv, NEW c \in TxCalls, NEW j \in Savepoints, ReleaseSavepoint(c, j)
    PROVE  ConnectionInv'
<1>p. PICK p : p = clients[c][j].parent  OBVIOUS
<1> DEFINE closed == [clients[c][j] EXCEPT !.status = "resolved"]
           Joined == [[clients[c] EXCEPT ![j] = closed]
                       EXCEPT ![p].buffer = @ \cup clients[c][j].buffer]
<1>1. /\ Closable(c, j) /\ Active(c, j)
      /\ clients' = [clients EXCEPT ![c] = Joined]
      /\ stack' = IF Memory THEN SubSeq(stack, 1, Place(j) - 1) ELSE stack
      /\ UNCHANGED <<connection, callPc, queue, rows, written, backup, acknowledged>>
  BY <1>p DEF ReleaseSavepoint, Closable
<1>2. /\ ConnectionType /\ clients \in [TxCalls -> [Clients -> Client]] /\ j \in Clients
      /\ clients[c][j] \in Client
  BY ConnectionTypes DEF Client
<1>3. p \in Clients  BY <1>p, <1>2 DEF Client
<1>4. /\ closed \in Client /\ closed.status = "resolved" /\ closed.parent = p
      /\ closed.buffer = clients[c][j].buffer
  BY <1>p, <1>2 DEF Client
<1> HIDE DEF closed
<1>5. /\ Joined \in [Clients -> Client]
      /\ \A i \in Clients \ {j, p} : Joined[i] = clients[c][i]
      /\ Joined[j].status = "resolved"
      /\ \A i \in Clients \ {j} : /\ Joined[i].status = clients[c][i].status
                                  /\ Joined[i].parent = clients[c][i].parent
      /\ p /= j => Joined[p].buffer = clients[c][p].buffer \cup clients[c][j].buffer
  <2>1. PICK f \in [Clients -> Client] : f = [clients[c] EXCEPT ![j] = closed]  BY <1>2, <1>4
  <2>2. f[j] = closed /\ \A i \in Clients \ {j} : f[i] = clients[c][i]  BY <1>2, <2>1
  <2> DEFINE joined == [f[p] EXCEPT !.buffer = @ \cup clients[c][j].buffer]
  <2>3. /\ joined \in Client /\ joined.status = f[p].status /\ joined.parent = f[p].parent
        /\ joined.buffer = f[p].buffer \cup clients[c][j].buffer
    <3>1. f[p] \in Client  BY <1>3, <2>1
    <3>2. clients[c][j].buffer \in SUBSET Nat  BY <1>2 DEF Client
    <3> QED  BY <3>1, <3>2 DEF Client
  <2>4. Joined = [f EXCEPT ![p] = joined]  BY <2>1
  <2> HIDE DEF joined, Joined
  <2>5. /\ Joined \in [Clients -> Client] /\ Joined[p] = joined
        /\ \A i \in Clients \ {p} : Joined[i] = f[i]
    BY <1>3, <2>1, <2>3, <2>4
  <2> QED  BY <1>2, <1>3, <1>4, <2>2, <2>3, <2>5
<1> HIDE DEF Joined
<1>6. /\ clients' \in [TxCalls -> [Clients -> Client]] /\ clients'[c] = Joined
      /\ \A d \in TxCalls \ {c} : clients'[d] = clients[d]
  BY <1>1, <1>2, <1>5
<1>7. Memory => callPc[c] = "open"  BY <1>1, <1>2, OpenByActive
<1>8. ConnectionType'
  <2>1. stack' \in Seq(StackEntry)
    <3>1. stack \in Seq(StackEntry)  BY <1>2 DEF ConnectionType
    <3>2. Memory => Place(j) = Len(stack) /\ Len(stack) \in Nat \ {0}  BY <1>1, TopIsKnown
    <3>3. CASE Memory  BY <1>1, <3>1, <3>2, <3>3
    <3>4. CASE ~Memory  BY <1>1, <3>1, <3>4
    <3> QED  BY <3>3, <3>4
  <2> QED  BY <1>1, <1>2, <1>6, <2>1 DEF ConnectionType
<1>9. ASSUME Memory
      PROVE  Nested(c)' /\ rows' = (Base(Len(stack)) \cup clients[c][Level(Len(stack))].buffer)'
  <2>1. /\ Nested(c)' /\ Level(Len(stack))' = p
        /\ Base(Len(stack))' = Base(Len(stack) - 1)
        /\ p \in Clients \ {j}
        /\ Base(Len(stack)) = Base(Len(stack) - 1) \cup clients[c][p].buffer
    <3>1. /\ Closable(c, j) /\ stack' = SubSeq(stack, 1, Place(j) - 1) /\ UNCHANGED backup
      BY <1>1, <1>9
    <3>2. /\ clients'[c][j].status /= "active"
          /\ \A i \in Clients \ {j} : /\ clients'[c][i].status = clients[c][i].status
                                      /\ clients'[c][i].parent = clients[c][i].parent
          /\ \A i \in Clients \ {j, clients[c][j].parent} : clients'[c][i] = clients[c][i]
      BY <1>p, <1>5, <1>6
    <3> QED  BY <1>p, <1>6, <1>9, <3>1, <3>2, NestedBelow
  <2>2. rows = Base(Len(stack)) \cup clients[c][j].buffer
    BY <1>1, <1>9, TopIsKnown DEF MemoryOpen
  <2>3. clients'[c][p].buffer = clients[c][p].buffer \cup clients[c][j].buffer
    BY <1>5, <1>6, <2>1
  <2>4. rows' = Base(Len(stack))' \cup clients'[c][p].buffer
    BY <1>1, <2>1, <2>2, <2>3
  <2> QED  BY <2>1, <2>4
<1> QED  BY <1>1, <1>6, <1>7, <1>8, <1>9, StepInside

LEMMA RollbackSavepointIsSafe ==
    ASSUME ConnectionInv, NEW c \in TxCalls, NEW j \in Savepoints, RollbackSavepoint(c, j)
    PROVE  ConnectionInv'
<1>p. PICK p : p = clients[c][j].parent  OBVIOUS
<1> DEFINE closed == [clients[c][j] EXCEPT !.status = "rejected"]
<1>1. /\ Closable(c, j) /\ Active(c, j)
      /\ clients' = [clients EXCEPT ![c] = [clients[c] EXCEPT ![j] = closed]]
      /\ IF Memory /\ Known(j)
         THEN rows' = stack[Place(j)].rows /\ stack' = SubSeq(stack, 1, Place(j) - 1)
         ELSE UNCHANGED <<rows, stack>>
      /\ UNCHANGED <<connection, callPc, queue, written, backup, acknowledged>>
  BY DEF RollbackSavepoint, Closable
<1>2. /\ ConnectionType /\ clients \in [TxCalls -> [Clients -> Client]] /\ j \in Clients
      /\ clients[c][j] \in Client
  BY ConnectionTypes DEF Client
<1>3. closed \in Client /\ closed.status = "rejected"
  BY <1>2 DEF Client
<1> HIDE DEF closed
<1>4. /\ clients' \in [TxCalls -> [Clients -> Client]]
      /\ \A d \in TxCalls \ {c} : clients'[d] = clients[d]
      /\ \A i \in Clients \ {j} : clients'[c][i] = clients[c][i]
      /\ clients'[c][j] = closed
  BY <1>1, <1>2, <1>3, OneClient
<1>5. Memory => callPc[c] = "open"  BY <1>1, <1>2, OpenByActive
<1>6. ASSUME Memory
      PROVE  /\ Nested(c)' /\ rows' = (Base(Len(stack)) \cup clients[c][Level(Len(stack))].buffer)'
             /\ rows' \in SUBSET Nat /\ stack' \in Seq(StackEntry)
  <2>1. Known(j) /\ Place(j) = Len(stack) /\ Len(stack) \in Nat \ {0}  BY <1>1, <1>6, TopIsKnown
  <2>2. rows' = Base(Len(stack)) /\ stack' = SubSeq(stack, 1, Place(j) - 1)
    BY <1>1, <1>6, <2>1 DEF Base
  <2>3. /\ Nested(c)' /\ Level(Len(stack))' = p
        /\ Base(Len(stack))' = Base(Len(stack) - 1)
        /\ p \in Clients \ {j}
        /\ Base(Len(stack)) = Base(Len(stack) - 1) \cup clients[c][p].buffer
    BY <1>p, <1>1, <1>3, <1>4, <1>6, <2>2, NestedBelow
  <2>4. rows' \in SUBSET Nat  BY <2>1, <2>2, ConnectionTypes
  <2>5. stack' \in Seq(StackEntry)
    <3>1. stack \in Seq(StackEntry)  BY <1>2 DEF ConnectionType
    <3> QED  BY <2>1, <2>2, <3>1
  <2> QED  BY <1>4, <2>2, <2>3, <2>4, <2>5
<1>7. ConnectionType'
  <2>1. ~Memory => UNCHANGED <<rows, stack>>  BY <1>1
  <2>2. rows' \in SUBSET Nat /\ stack' \in Seq(StackEntry)
    <3>1. CASE Memory  BY <1>6, <3>1
    <3>2. CASE ~Memory  BY <1>2, <2>1, <3>2 DEF ConnectionType
    <3> QED  BY <3>1, <3>2
  <2> QED  BY <1>1, <1>2, <1>4, <2>2 DEF ConnectionType
<1> QED  BY <1>1, <1>4, <1>5, <1>6, <1>7, StepInside

\* The transaction is committed or rolled back when its savepoints are closed.
LEMMA EndIsSafe ==
    ASSUME ConnectionInv, NEW c \in TxCalls, NEW result \in {"resolved", "rejected"},
           End(c, result), rows' \in SUBSET Nat, acknowledged' \in SUBSET Nat,
           Memory /\ MemoryOpen(c) /\ rows = backup \cup clients[c][0].buffer
             => rows' = acknowledged',
           ~Memory => rows' = acknowledged'
    PROVE  ConnectionInv'
<1> DEFINE new == [clients[c][0] EXCEPT !.status = result]
<1>1. /\ callPc[c] = "open" /\ Closable(c, 0) /\ callPc' = [callPc EXCEPT ![c] = result]
      /\ clients' = [clients EXCEPT ![c] = [clients[c] EXCEPT ![0] = new]]
      /\ queue' = IF Memory THEN Tail(queue) ELSE queue
      /\ stack' = <<>>
      /\ UNCHANGED <<connection, written, backup>>
  BY DEF End, Release
<1>2. /\ ConnectionType /\ clients \in [TxCalls -> [Clients -> Client]] /\ 0 \in Clients
      /\ clients[c][0] \in Client
  BY ConnectionTypes DEF Client
<1>3. new \in Client /\ new.status = result
  BY <1>2 DEF Client
<1> HIDE DEF new
<1>4. /\ clients' \in [TxCalls -> [Clients -> Client]]
      /\ \A d \in TxCalls \ {c} : clients'[d] = clients[d]
      /\ \A i \in Clients \ {0} : clients'[c][i] = clients[c][i]
      /\ clients'[c][0] = new
  BY <1>1, <1>2, <1>3, OneClient
<1>5. ASSUME Memory PROVE MemoryOpen(c) /\ Level(Len(stack)) = 0 /\ Len(stack) = 0
  <2>1. MemoryOpen(c) /\ Level(Len(stack)) = 0
    BY <1>1, <1>2, <1>5, InnermostIsTop DEF Closable
  <2>2. Len(stack) \in 0 .. Len(stack) /\ 0 \in 0 .. Len(stack) /\ Level(0) = 0
    BY ConnectionTypes DEF Level
  <2> QED  BY <2>1, <2>2 DEF MemoryOpen, Nested
<1>6. rows' = acknowledged'
  <2>1. ASSUME Memory PROVE rows = backup \cup clients[c][0].buffer
    BY <1>5, <2>1 DEF MemoryOpen, Base
  <2> QED  BY <1>5, <2>1
<1>7. /\ callPc' \in [TxCalls \cup PlainCalls -> {"idle", "called", "open", "resolved", "rejected"}]
      /\ callPc'[c] = result /\ \A d \in TxCalls \ {c} : callPc'[d] = callPc[d]
  BY <1>1, <1>2 DEF ConnectionType
<1>8. ConnectionType'
  <2>1. Memory => queue /= <<>>  BY <1>5 DEF MemoryOpen
  <2>2. queue' \in Seq(TxCalls \cup PlainCalls)
    BY <1>1, <1>2, <2>1 DEF ConnectionType
  <2> QED  BY <1>1, <1>2, <1>4, <1>7, <2>2 DEF ConnectionType
<1>9. ASSUME Memory, NEW i \in Clients PROVE ~Active(c, i)'
  <2>1. CASE i = 0  BY <1>3, <1>4, <2>1 DEF Active
  <2>2. CASE i /= 0
    <3>1. \A m \in Clients : Active(c, m) <=> \E l \in 0 .. Len(stack) : Level(l) = m
      BY <1>5, <1>9 DEF MemoryOpen, Nested
    <3>2. ~Active(c, i)  BY <1>5, <1>9, <2>2, <3>1
    <3> QED  BY <1>4, <2>2, <3>2 DEF Active
  <2> QED  BY <2>1, <2>2
<1>10. Memory => \A d \in TxCalls : Resting(d)'
  BY <1>4, <1>7, <1>9 DEF ConnectionInv, Resting, Active
<1>11. ASSUME Memory', NEW d \in TxCalls, callPc'[d] = "open" PROVE FALSE
  BY <1>1, <1>7, <1>11, OnlyOneOpen DEF Memory
<1> QED  BY <1>1, <1>6, <1>8, <1>10, <1>11 DEF ConnectionInv, Memory

LEMMA CommitIsSafe ==
    ASSUME ConnectionInv, NEW c \in TxCalls, CommitTransaction(c)
    PROVE  ConnectionInv'
<1>1. End(c, "resolved")  BY DEF CommitTransaction
<1>2. /\ rows' = IF Memory THEN rows ELSE rows \cup clients[c][0].buffer
      /\ acknowledged' = acknowledged \cup clients[c][0].buffer
  BY DEF CommitTransaction
<1>3. clients[c][0].buffer \in SUBSET Nat
  <2>1. clients[c][0] \in Client  BY ConnectionTypes
  <2> QED  BY <2>1 DEF Client
<1>4. rows \in SUBSET Nat /\ acknowledged \in SUBSET Nat  BY ConnectionTypes DEF ConnectionType
<1>5. Memory /\ MemoryOpen(c) /\ rows = backup \cup clients[c][0].buffer => rows' = acknowledged'
  BY <1>2 DEF MemoryOpen
<1>6. ~Memory => rows' = acknowledged'  BY <1>2 DEF ConnectionInv
<1>7. rows' \in SUBSET Nat /\ acknowledged' \in SUBSET Nat  BY <1>2, <1>3, <1>4
<1> QED  BY <1>1, <1>5, <1>6, <1>7, EndIsSafe

LEMMA RollbackIsSafe ==
    ASSUME ConnectionInv, NEW c \in TxCalls, RollbackTransaction(c)
    PROVE  ConnectionInv'
<1>1. End(c, "rejected")  BY DEF RollbackTransaction
<1>2. rows' = IF Memory THEN backup ELSE rows  BY DEF RollbackTransaction
<1>3. acknowledged' = acknowledged  BY DEF RollbackTransaction
<1>4. /\ rows \in SUBSET Nat /\ backup \in SUBSET Nat /\ acknowledged \in SUBSET Nat
  BY ConnectionTypes DEF ConnectionType
<1>5. Memory /\ MemoryOpen(c) /\ rows = backup \cup clients[c][0].buffer => rows' = acknowledged'
  BY <1>2, <1>3 DEF MemoryOpen
<1>6. ~Memory => rows' = acknowledged'  BY <1>2, <1>3 DEF ConnectionInv
<1> QED  BY <1>1, <1>2, <1>3, <1>4, <1>5, <1>6, EndIsSafe

LEMMA ConnectionStep == ConnectionInv /\ [ConnectionNext]_connectionVars => ConnectionInv'
<1> SUFFICES ASSUME ConnectionInv, [ConnectionNext]_connectionVars PROVE ConnectionInv'
  OBVIOUS
<1>1. ASSUME NEW c \in TxCalls \cup PlainCalls, Call(c) PROVE ConnectionInv'
  BY <1>1, CallIsSafe
<1>2. ASSUME NEW c \in PlainCalls, Plain(c) PROVE ConnectionInv'
  BY <1>2, PlainIsSafe
<1>3. ASSUME NEW c \in TxCalls, Begin(c) PROVE ConnectionInv'
  BY <1>3, BeginIsSafe
<1>4. ASSUME NEW c \in TxCalls, CommitTransaction(c) PROVE ConnectionInv'
  BY <1>4, CommitIsSafe
<1>5. ASSUME NEW c \in TxCalls, RollbackTransaction(c) PROVE ConnectionInv'
  BY <1>5, RollbackIsSafe
<1>6. ASSUME NEW c \in TxCalls, NEW k \in Clients, Execute(c, k) PROVE ConnectionInv'
  BY <1>6, ExecuteIsSafe
<1>7. ASSUME NEW c \in TxCalls, NEW k \in Clients, NEW j \in Savepoints, Savepoint(c, k, j)
      PROVE  ConnectionInv'
  BY <1>7, SavepointIsSafe
<1>8. ASSUME NEW c \in TxCalls, NEW j \in Savepoints, ReleaseSavepoint(c, j)
      PROVE  ConnectionInv'
  BY <1>8, ReleaseSavepointIsSafe
<1>9. ASSUME NEW c \in TxCalls, NEW j \in Savepoints, RollbackSavepoint(c, j)
      PROVE  ConnectionInv'
  BY <1>9, RollbackSavepointIsSafe
<1>10. CASE UNCHANGED connectionVars
  BY <1>10 DEF connectionVars, ConnectionInv, ConnectionType, Resting, MemoryOpen, Nested, Level,
               Base, Active, BetweenTransactions, Memory
<1> QED
  BY <1>1, <1>2, <1>3, <1>4, <1>5, <1>6, <1>7, <1>8, <1>9, <1>10 DEF ConnectionNext

\* Between transactions the database holds what the resolved calls wrote, for any
\* number of calls, savepoints and statements and however deeply they nest.
THEOREM RowsAlwaysAcknowledged == ConnectionSpec => []RowsAreAcknowledged
<1>1. ConnectionInv => RowsAreAcknowledged  BY DEF ConnectionInv, RowsAreAcknowledged
<1> QED  BY <1>1, ConnectionInitially, ConnectionStep, PTL DEF ConnectionSpec

-----------------------------------------------------------------------------
(***************************************************************************)
(* Connection implements AtomicStore: what is seen from outside is what    *)
(* the resolved calls wrote, inside a transaction too, and only the end of *)
(* a call changes that.                                                    *)
(***************************************************************************)

LEMMA VisibleIsAcknowledged == ASSUME ConnectionInv PROVE Visible = acknowledged
<1>1. CASE Memory /\ ~BetweenTransactions
  <2>1. PICK c \in TxCalls : callPc[c] = "open"  BY <1>1 DEF BetweenTransactions
  <2>2. backup = acknowledged  BY <1>1, <2>1 DEF ConnectionInv, MemoryOpen
  <2> QED  BY <1>1, <2>2 DEF Visible
<1>2. CASE ~(Memory /\ ~BetweenTransactions)  BY <1>2 DEF Visible, ConnectionInv
<1> QED  BY <1>1, <1>2

\* A call under way has no outcome; its end gives it one, and no other call.
LEMMA OutcomeStays ==
    ASSUME ConnectionInv, NEW c \in TxCalls \cup PlainCalls, callPc[c] \in {"idle", "called"},
           NEW pc \in {"called", "open"}, callPc' = [callPc EXCEPT ![c] = pc]
    PROVE  Outcome' = Outcome
BY DEF ConnectionInv, ConnectionType, Outcome

LEMMA OutcomeMoves ==
    ASSUME ConnectionInv, NEW c \in TxCalls \cup PlainCalls, callPc[c] \in {"called", "open"},
           NEW pc \in {"resolved", "rejected"}, callPc' = [callPc EXCEPT ![c] = pc]
    PROVE  Store!Ends(c, pc)
<1>1. \A d \in TxCalls \cup PlainCalls : callPc'[d] = IF d = c THEN pc ELSE callPc[d]
  BY DEF ConnectionInv, ConnectionType
<1>2. Outcome[c] = "pending" /\ Outcome'[c] = pc  BY <1>1 DEF Outcome
<1>3. \A d \in (TxCalls \cup PlainCalls) \ {c} : Outcome'[d] = Outcome[d]
  BY <1>1 DEF Outcome
<1> QED  BY <1>2, <1>3 DEF Store!Ends

LEMMA StoreStep ==
    ASSUME ConnectionInv, [ConnectionNext]_connectionVars,
           Visible = acknowledged, Visible' = acknowledged'
    PROVE  [Store!StoreNext]_(Store!storeVars)
<1>1. Visible = acknowledged /\ Visible' = acknowledged'  OBVIOUS
<1>2. ASSUME UNCHANGED <<acknowledged, Outcome>> PROVE [Store!StoreNext]_(Store!storeVars)
  BY <1>1, <1>2 DEF Store!storeVars
<1>3. ASSUME NEW c \in TxCalls \cup PlainCalls, Call(c)
      PROVE  [Store!StoreNext]_(Store!storeVars)
  BY <1>2, <1>3, OutcomeStays DEF Call
<1>4. ASSUME NEW c \in TxCalls \cup PlainCalls, callPc[c] \in {"called", "open"},
             callPc' = [callPc EXCEPT ![c] = "resolved"], acknowledged \subseteq acknowledged'
      PROVE  [Store!StoreNext]_(Store!storeVars)
  <2>1. Store!Resolve(c)  BY <1>1, <1>4, OutcomeMoves DEF Store!Resolve
  <2> QED  BY <2>1 DEF Store!StoreNext
<1>5. ASSUME NEW c \in TxCalls \cup PlainCalls, callPc[c] \in {"called", "open"},
             callPc' = [callPc EXCEPT ![c] = "rejected"], UNCHANGED acknowledged
      PROVE  [Store!StoreNext]_(Store!storeVars)
  <2>1. Store!Reject(c)  BY <1>1, <1>5, OutcomeMoves DEF Store!Reject
  <2> QED  BY <2>1 DEF Store!StoreNext
<1>6. ASSUME NEW c \in PlainCalls, Plain(c) PROVE [Store!StoreNext]_(Store!storeVars)
  BY <1>4, <1>5, <1>6 DEF Plain
<1>7. ASSUME NEW c \in TxCalls, Begin(c) PROVE [Store!StoreNext]_(Store!storeVars)
  BY <1>2, <1>7, OutcomeStays DEF Begin
<1>8. ASSUME NEW c \in TxCalls, CommitTransaction(c) PROVE [Store!StoreNext]_(Store!storeVars)
  BY <1>4, <1>8 DEF CommitTransaction, End
<1>9. ASSUME NEW c \in TxCalls, RollbackTransaction(c)
      PROVE  [Store!StoreNext]_(Store!storeVars)
  BY <1>5, <1>9 DEF RollbackTransaction, End
<1>10. ASSUME UNCHANGED <<callPc, acknowledged>> PROVE [Store!StoreNext]_(Store!storeVars)
  BY <1>2, <1>10 DEF Outcome
<1>11. ASSUME NEW c \in TxCalls, NEW k \in Clients, Execute(c, k)
       PROVE  [Store!StoreNext]_(Store!storeVars)
  BY <1>10, <1>11 DEF Execute
<1>12. ASSUME NEW c \in TxCalls, NEW k \in Clients, NEW j \in Savepoints, Savepoint(c, k, j)
       PROVE  [Store!StoreNext]_(Store!storeVars)
  BY <1>10, <1>12 DEF Savepoint
<1>13. ASSUME NEW c \in TxCalls, NEW j \in Savepoints,
              ReleaseSavepoint(c, j) \/ RollbackSavepoint(c, j)
       PROVE  [Store!StoreNext]_(Store!storeVars)
  BY <1>10, <1>13 DEF ReleaseSavepoint, RollbackSavepoint
<1>14. CASE UNCHANGED connectionVars  BY <1>10, <1>14 DEF connectionVars
<1> QED
  BY <1>3, <1>6, <1>7, <1>8, <1>9, <1>11, <1>12, <1>13, <1>14 DEF ConnectionNext

\* Both connections, for any number of calls, savepoints and statements: seen from
\* outside a call's writes take effect at once, when it resolves, and stay.
THEOREM ConnectionAlwaysAtomic == ConnectionSpec => ConnectionIsAtomic
<1>1. ConnectionInit => Store!StoreInit
  BY DEF ConnectionInit, Store!StoreInit, Visible, Outcome
<1>2. ConnectionInv => Visible = acknowledged  BY VisibleIsAcknowledged
<1>3. ConnectionInv /\ [ConnectionNext]_connectionVars
        /\ Visible = acknowledged /\ (Visible = acknowledged)'
        => [Store!StoreNext]_(Store!storeVars)
  BY StoreStep
<1> QED
  BY <1>1, <1>2, <1>3, ConnectionInitially, ConnectionStep, PTL
  DEF ConnectionSpec, ConnectionIsAtomic, Store!StoreSpec

-----------------------------------------------------------------------------
(***************************************************************************)
(* Records: at every place of the open transaction the database is its     *)
(* image with what the call has done so far, so that what was read at the  *)
(* start is still so when it is written; and each operation in the outbox  *)
(* makes of its note what the call made of it.                             *)
(***************************************************************************)

Row == {Absent} \cup [state : {"live", "deleted"}, value : Values, op : Nat]
Operations == [note : Notes, op : {"create", "update", "delete"}, id : Nat, value : Values]
Database == [rows : [Ids -> Row], tombstones : SUBSET [note : Notes, op : Nat],
             outbox : Seq(Operations)]
Edit == [op : {"none", "create", "update", "delete"}, id : Ids \cup {Nil},
         pc : {"idle", "read", "tombstone", "write", "sign", "enqueue", "commit", "done"},
         value : Values \cup {Nil}, existing : Row, opId : Nat]

RecordsType ==
    /\ store \in Database /\ image \in Database
    /\ edits \in [Editors -> Edit]
    /\ operations \in Nat

\* What the three invariants say of a database.
Unique(rows_) ==
    \A i \in Ids : \A j \in Rivals(i) \ {i} :
        rows_[i].state = "live" /\ rows_[j].state = "live" => rows_[i].value /= rows_[j].value

Entombed(rows_, tombstones) ==
    \A n \in Notes :
        /\ \A t \in tombstones :
              t.note = n => rows_[n].state = "deleted" /\ rows_[n].op = t.op
        /\ rows_[n].state = "deleted" =>
              [note |-> n, op |-> rows_[n].op] \in tombstones \/ rows_[n].op \in replicated

Replays(rows_, outbox) == \A n \in Notes : rows_[n] = Replayed(outbox, n)

Sound(db) ==
    Unique(db.rows) /\ Entombed(db.rows, db.tombstones) /\ Replays(db.rows, db.outbox)

Under(e) == edits[e].pc \notin {"idle", "done"}

\* What a call may write: its row is as it read it, and nobody holds its value.
Writable(edit, rows_) ==
    LET row == rows_[edit.id] IN
    /\ edit.op = "create" =>
          /\ row = Absent
          /\ \A j \in Rivals(edit.id) : rows_[j].state = "live" => rows_[j].value /= edit.value
    /\ edit.op = "update" => row.state = "live" /\ edit.existing = row
    /\ edit.op = "delete" => row.state = "live"

Tombstone(edit) ==
    IF edit.op = "delete" /\ edit.id \in Notes THEN {[note |-> edit.id, op |-> edit.opId]} ELSE {}

Entombing(edit, db) == [db EXCEPT !.tombstones = @ \cup Tombstone(edit)]
Writing(edit, db) == [Entombing(edit, db) EXCEPT !.rows[edit.id] = Written(edit, @)]

\* What the open transaction has done of its call.
Progress(edit) ==
    /\ edit.op \in {"create", "update", "delete"} /\ edit.id \in Ids /\ edit.value \in Values
    /\ edit.pc = "read" => store = image
    /\ edit.pc = "tombstone" => store = image /\ edit.op = "delete" /\ edit.id \in Notes
    /\ edit.pc = "write" => store = Entombing(edit, image)
    /\ edit.pc \in {"tombstone", "write", "sign", "enqueue"} => Writable(edit, image.rows)
    /\ edit.pc \in {"sign", "enqueue"} => store = Writing(edit, image) /\ edit.id \in Notes
    /\ edit.pc = "commit" => Sound(store)

RecordsInv ==
    /\ RecordsType
    /\ Sound(Committed)
    /\ \A e \in Editors : Under(e) => locked = e
    /\ locked /= Nil => Under(locked) /\ locked \in Editors /\ Progress(edits[locked])

\* f[k] is what the first k operations make of note n.
IsReplay(f, outbox, n, m) ==
    f = [k \in 0 .. m |->
           IF k = 0 THEN Absent
           ELSE IF outbox[k].note = n THEN Apply(f[k - 1], outbox[k]) ELSE f[k - 1]]

LEMMA ReplayExists ==
    ASSUME NEW outbox, NEW n, NEW m \in Nat
    PROVE  \E f : IsReplay(f, outbox, n, m)
<1> DEFINE T == {k \in Nat : ~ \E f : IsReplay(f, outbox, n, k)}
<1> SUFFICES ASSUME T /= {} PROVE FALSE  OBVIOUS
<1>1. PICK k \in T : \A j \in T : ~(j < k)  BY LeastElement
<1>2. CASE k = 0
  <2>1. [j \in 0 .. 0 |-> Absent] = [j \in 0 .. 0 |->
           IF j = 0 THEN Absent
           ELSE IF outbox[j].note = n THEN Apply([i \in 0 .. 0 |-> Absent][j - 1], outbox[j])
           ELSE [i \in 0 .. 0 |-> Absent][j - 1]]
     OBVIOUS
  <2> QED  BY <1>1, <1>2, <2>1 DEF IsReplay
<1>3. CASE k /= 0
  <2>1. k - 1 \in Nat /\ k - 1 < k  BY <1>3
  <2>2. PICK f : IsReplay(f, outbox, n, k - 1)  BY <1>1, <2>1
  <2> DEFINE g == [j \in 0 .. k |->
                     IF j < k THEN f[j]
                     ELSE IF outbox[k].note = n THEN Apply(f[k - 1], outbox[k]) ELSE f[k - 1]]
  <2>3. ASSUME NEW j \in 0 .. k
        PROVE  g[j] = IF j = 0 THEN Absent
                      ELSE IF outbox[j].note = n THEN Apply(g[j - 1], outbox[j]) ELSE g[j - 1]
    <3>1. CASE j = k
      <4>1. g[j - 1] = f[k - 1]  BY <3>1, <1>3, <2>1
      <4> QED  BY <3>1, <4>1, <1>3
    <3>2. CASE j < k
      <4>1. g[j] = f[j] /\ j \in 0 .. k - 1  BY <3>2
      <4>2. j /= 0 => g[j - 1] = f[j - 1]  BY <3>2
      <4>3. f[j] = IF j = 0 THEN Absent
                   ELSE IF outbox[j].note = n THEN Apply(f[j - 1], outbox[j]) ELSE f[j - 1]
        BY <2>2, <4>1 DEF IsReplay
      <4> QED  BY <4>1, <4>2, <4>3
    <3> QED  BY <3>1, <3>2
  <2>4. g = [j \in 0 .. k |-> g[j]]  OBVIOUS
  <2>5. [j \in 0 .. k |-> g[j]] = [j \in 0 .. k |-> IF j = 0 THEN Absent
                      ELSE IF outbox[j].note = n THEN Apply(g[j - 1], outbox[j]) ELSE g[j - 1]]
    BY <2>3
  <2> HIDE DEF g
  <2>6. IsReplay(g, outbox, n, k)  BY <2>4, <2>5 DEF IsReplay
  <2> QED  BY <1>1, <2>6
<1> QED  BY <1>2, <1>3

LEMMA ReplayedIs ==
    ASSUME NEW outbox, NEW n, Len(outbox) \in Nat
    PROVE  \E f : IsReplay(f, outbox, n, Len(outbox)) /\ Replayed(outbox, n) = f[Len(outbox)]
<1>1. \E f : IsReplay(f, outbox, n, Len(outbox))  BY ReplayExists
<1> DEFINE F == CHOOSE f : IsReplay(f, outbox, n, Len(outbox))
<1>2. IsReplay(F, outbox, n, Len(outbox)) BY <1>1
<1>3. Replayed(outbox, n) = F[Len(outbox)]  BY DEF Replayed, IsReplay
<1> QED  BY <1>2, <1>3

\* An outbox with one more operation.
LEMMA ReplayedNext ==
    ASSUME NEW outbox \in Seq(Operations), NEW o \in Operations, NEW n
    PROVE  Replayed(Append(outbox, o), n) =
             IF o.note = n THEN Apply(Replayed(outbox, n), o) ELSE Replayed(outbox, n)
<1>1. PICK more : more = Append(outbox, o)  OBVIOUS
<1>2. PICK m \in Nat : m = Len(outbox)  OBVIOUS
<1>3. /\ Len(more) = m + 1 /\ more[m + 1] = o
      /\ \A k \in 1 .. m : more[k] = outbox[k]
  BY <1>1, <1>2
<1>4. PICK f : IsReplay(f, outbox, n, m) /\ Replayed(outbox, n) = f[m]
  BY <1>2, ReplayedIs
<1>5. PICK g : IsReplay(g, more, n, m + 1) /\ Replayed(more, n) = g[m + 1]
  BY <1>2, <1>3, ReplayedIs
<1> DEFINE T == {k \in Nat : k <= m /\ f[k] /= g[k]}
<1>6. T = {}
  <2> SUFFICES ASSUME T /= {} PROVE FALSE  OBVIOUS
  <2>1. PICK k \in T : \A j \in T : ~(j < k)  BY LeastElement
  <2>2. k \in 0 .. m /\ k \in 0 .. m + 1  OBVIOUS
  <2>3. f[k] = IF k = 0 THEN Absent
               ELSE IF outbox[k].note = n THEN Apply(f[k - 1], outbox[k]) ELSE f[k - 1]
    BY <1>4, <2>2 DEF IsReplay
  <2>4. g[k] = IF k = 0 THEN Absent
               ELSE IF more[k].note = n THEN Apply(g[k - 1], more[k]) ELSE g[k - 1]
    BY <1>5, <2>2 DEF IsReplay
  <2>5. k /= 0 => f[k - 1] = g[k - 1] /\ more[k] = outbox[k]
    BY <1>3, <2>1
  <2> QED  BY <2>1, <2>3, <2>4, <2>5
<1>7. f[m] = g[m]  BY <1>6
<1>8. g[m + 1] = IF o.note = n THEN Apply(g[m], o) ELSE g[m]
  <2>1. m + 1 \in 0 .. m + 1 /\ m + 1 /= 0 /\ m + 1 - 1 = m  OBVIOUS
  <2> QED  BY <1>3, <1>5, <2>1 DEF IsReplay
<1> QED  BY <1>1, <1>4, <1>5, <1>7, <1>8

LEMMA ReplayedEmpty == ASSUME NEW n PROVE Replayed(<<>>, n) = Absent
<1>1. Len(<<>>) = 0  OBVIOUS
<1>2. PICK f : IsReplay(f, <<>>, n, 0) /\ Replayed(<<>>, n) = f[0]  BY <1>1, ReplayedIs
<1> QED  BY <1>2 DEF IsReplay

\* What a call that has looked writes.
Ready(edit) == /\ edit \in Edit /\ edit.op \in {"create", "update", "delete"}
               /\ edit.id \in Ids /\ edit.value \in Values

LEMMA LiveRow ==
    ASSUME NEW row \in Row, row.state = "live"
    PROVE  row \in [state : {"live", "deleted"}, value : Values, op : Nat]
BY DEF Row, Absent

LEMMA WrittenRow ==
    ASSUME NEW edit, Ready(edit), NEW rows_ \in [Ids -> Row], Writable(edit, rows_)
    PROVE  LET row == rows_[edit.id]
               new == Written(edit, row) IN
           /\ new \in Row
           /\ edit.op = "create" => new = [state |-> "live", value |-> edit.value, op |-> 0]
           /\ edit.op = "update" /\ edit.id \in Notes => new = [row EXCEPT !.value = edit.value]
           /\ edit.op = "update" /\ edit.id \notin Notes => new = row
           /\ edit.op = "update" => new.state = "live"
           /\ edit.op = "delete" => /\ new = [row EXCEPT !.state = "deleted", !.op = edit.opId]
                                    /\ new.state = "deleted" /\ new.op = edit.opId
<1> DEFINE Full == [state : {"live", "deleted"}, value : Values, op : Nat]
<1>1. PICK row \in Row : row = rows_[edit.id]  BY DEF Ready
<1>2. edit.opId \in Nat /\ edit.value \in Values /\ edit.op \in {"create", "update", "delete"}
  BY DEF Ready, Edit
<1>3. CASE edit.op = "create"
  <2>1. Written(edit, row) = [state |-> "live", value |-> edit.value, op |-> 0]
    BY <1>3 DEF Written
  <2> QED  BY <1>1, <1>2, <1>3, <2>1 DEF Row
<1>4. CASE edit.op = "update"
  <2>1. row.state = "live" /\ edit.existing = row  BY <1>1, <1>4 DEF Writable
  <2>2. row \in Full  BY <2>1, LiveRow
  <2>3. Written(edit, row) = IF edit.id \in Notes THEN [row EXCEPT !.value = edit.value] ELSE row
    BY <1>4, <2>1 DEF Written
  <2>4. [row EXCEPT !.value = edit.value] \in Full
        /\ [row EXCEPT !.value = edit.value].state = "live"
    BY <1>2, <2>1, <2>2
  <2>5. Written(edit, row) \in Full /\ Written(edit, row).state = "live"
    BY <2>1, <2>2, <2>3, <2>4
  <2> QED  BY <1>1, <1>4, <2>3, <2>5 DEF Row
<1>5. CASE edit.op = "delete"
  <2>1. row.state = "live"  BY <1>1, <1>5 DEF Writable
  <2>2. row \in Full  BY <2>1, LiveRow
  <2>3. Written(edit, row) = [row EXCEPT !.state = "deleted", !.op = edit.opId]
    BY <1>5, <2>1 DEF Written
  <2>4. /\ [row EXCEPT !.state = "deleted", !.op = edit.opId] \in Full
        /\ [row EXCEPT !.state = "deleted", !.op = edit.opId].state = "deleted"
        /\ [row EXCEPT !.state = "deleted", !.op = edit.opId].op = edit.opId
    BY <1>2, <2>2
  <2> QED  BY <1>1, <1>5, <2>3, <2>4 DEF Row
<1> QED  BY <1>2, <1>3, <1>4, <1>5

LEMMA UniqueWritten ==
    ASSUME NEW edit, Ready(edit), NEW rows_ \in [Ids -> Row], Writable(edit, rows_), Unique(rows_)
    PROVE  Unique([rows_ EXCEPT ![edit.id] = Written(edit, rows_[edit.id])])
<1>1. PICK w : w = Written(edit, rows_[edit.id])  OBVIOUS
<1>2. PICK r : r = [rows_ EXCEPT ![edit.id] = w]  OBVIOUS
<1>3. r[edit.id] = w /\ \A i \in Ids \ {edit.id} : r[i] = rows_[i]
  BY <1>2 DEF Ready
<1>4. \A i, j \in Ids : j \in Rivals(i) \ {i} =>
        i \in Rivals(j) \ {j} /\ i \notin Notes /\ Rivals(i) \subseteq Ids
  BY IdsAssumption DEF Rivals, Ids
<1>5. /\ edit.op = "create" => /\ w.state = "live" /\ w.value = edit.value
                               /\ \A j \in Rivals(edit.id) :
                                    rows_[j].state = "live" => rows_[j].value /= edit.value
      /\ edit.op = "update" /\ edit.id \notin Notes => w = rows_[edit.id]
      /\ edit.op = "delete" => w.state = "deleted"
      /\ edit.op \in {"create", "update", "delete"} /\ edit.id \in Ids
  <2>1. edit.op = "create" => w = [state |-> "live", value |-> edit.value, op |-> 0]
    BY <1>1, WrittenRow
  <2>2. edit.op = "create" => \A j \in Rivals(edit.id) :
                                rows_[j].state = "live" => rows_[j].value /= edit.value
    BY DEF Writable
  <2>3. edit.op = "update" /\ edit.id \notin Notes => w = rows_[edit.id]
    BY <1>1, WrittenRow
  <2>4. edit.op = "delete" => w.state = "deleted"
    BY <1>1, WrittenRow
  <2> QED  BY <2>1, <2>2, <2>3, <2>4 DEF Ready
<1>6. ASSUME NEW i \in Ids, NEW j \in Rivals(i) \ {i}, r[i].state = "live", r[j].state = "live"
      PROVE  r[i].value /= r[j].value
  <2>0. j \in Ids /\ i \in Rivals(j) \ {j} /\ i \notin Notes /\ j \notin Notes
    BY IdsAssumption DEF Rivals, Ids
  <2>1. rows_[i].state = "live" /\ rows_[j].state = "live" => rows_[i].value /= rows_[j].value
    BY DEF Unique
  <2>2. CASE i /= edit.id /\ j /= edit.id  BY <1>3, <1>6, <2>0, <2>1, <2>2
  <2>3. CASE i = edit.id /\ j /= edit.id
    BY <1>3, <1>5, <1>6, <2>0, <2>1, <2>3
  <2>4. CASE j = edit.id /\ i /= edit.id
    BY <1>3, <1>5, <1>6, <2>0, <2>1, <2>4
  <2> QED  BY <2>2, <2>3, <2>4
<1> QED  BY <1>1, <1>2, <1>6 DEF Unique

LEMMA EntombedWritten ==
    ASSUME NEW edit, Ready(edit), NEW rows_ \in [Ids -> Row], Writable(edit, rows_),
           NEW tombstones, Entombed(rows_, tombstones)
    PROVE  Entombed([rows_ EXCEPT ![edit.id] = Written(edit, rows_[edit.id])],
                    tombstones \cup Tombstone(edit))
<1>1. PICK w : w = Written(edit, rows_[edit.id])  OBVIOUS
<1>2. PICK r : r = [rows_ EXCEPT ![edit.id] = w]  OBVIOUS
<1>3. r[edit.id] = w /\ \A i \in Ids \ {edit.id} : r[i] = rows_[i]
  BY <1>2 DEF Ready
<1>4. PICK ts : ts = tombstones \cup Tombstone(edit)  OBVIOUS
<1>5. ASSUME NEW n \in Notes
      PROVE  /\ \A t \in ts : t.note = n => r[n].state = "deleted" /\ r[n].op = t.op
             /\ r[n].state = "deleted" =>
                   [note |-> n, op |-> r[n].op] \in ts \/ r[n].op \in replicated
  <2>0. n \in Ids  BY DEF Ids
  <2>1. /\ \A t \in tombstones : t.note = n => rows_[n].state = "deleted" /\ rows_[n].op = t.op
        /\ rows_[n].state = "deleted" =>
              [note |-> n, op |-> rows_[n].op] \in tombstones \/ rows_[n].op \in replicated
    BY DEF Entombed
  <2>2. CASE n /= edit.id
    <3>1. \A t \in ts : t.note = n => t \in tombstones  BY <1>4, <2>2 DEF Tombstone
    <3>2. tombstones \subseteq ts  BY <1>4
    <3> QED  BY <1>3, <2>0, <2>1, <2>2, <3>1, <3>2
  <2>3. CASE n = edit.id /\ edit.op = "delete"
    <3>1. rows_[n].state = "live"  BY <2>3 DEF Writable
    <3>2. w.state = "deleted" /\ w.op = edit.opId  BY <1>1, <2>3, WrittenRow
    <3>3. Tombstone(edit) = {[note |-> n, op |-> edit.opId]}  BY <2>3 DEF Tombstone
    <3>4. \A t \in ts : t.note = n => t = [note |-> n, op |-> edit.opId]
      BY <1>4, <2>1, <3>1, <3>3
    <3> QED  BY <1>3, <1>4, <2>3, <3>2, <3>3, <3>4
  <2>4. CASE n = edit.id /\ edit.op /= "delete"
    <3>1. rows_[n].state \in {"live", "absent"}
      BY <2>4 DEF Writable, Ready, Absent
    <3>2. ts = tombstones  BY <1>4, <2>4 DEF Tombstone
    <3>3. w.state = "live"
      <4>1. edit.op = "create" => w = [state |-> "live", value |-> edit.value, op |-> 0]
        BY <1>1, WrittenRow
      <4>2. edit.op = "update" => w.state = "live"  BY <1>1, WrittenRow
      <4> QED  BY <2>4, <4>1, <4>2 DEF Ready
    <3> QED  BY <1>3, <2>1, <2>4, <3>1, <3>2, <3>3
  <2> QED  BY <2>2, <2>3, <2>4
<1>6. Entombed(r, ts)  BY <1>5 DEF Entombed
<1> QED  BY <1>1, <1>2, <1>4, <1>6

\* The operation a call enqueues for a note.
OperationOf(edit) ==
    [note |-> edit.id, op |-> edit.op, id |-> edit.opId, value |-> edit.value]

LEMMA ReplaysWritten ==
    ASSUME NEW edit, Ready(edit), edit.id \in Notes,
           NEW rows_ \in [Ids -> Row], Writable(edit, rows_),
           NEW outbox \in Seq(Operations), Replays(rows_, outbox)
    PROVE  Replays([rows_ EXCEPT ![edit.id] = Written(edit, rows_[edit.id])],
                   Append(outbox, OperationOf(edit)))
<1>1. PICK w : w = Written(edit, rows_[edit.id])  OBVIOUS
<1>2. PICK r : r = [rows_ EXCEPT ![edit.id] = w]  OBVIOUS
<1>3. r[edit.id] = w /\ \A i \in Ids \ {edit.id} : r[i] = rows_[i]
  BY <1>2 DEF Ready
<1>4. PICK o : o = OperationOf(edit)  OBVIOUS
<1>5. /\ o \in Operations /\ o.note = edit.id /\ o.op = edit.op /\ o.id = edit.opId
      /\ o.value = edit.value
  BY <1>4 DEF OperationOf, Operations, Ready, Edit
<1>6. w = Apply(rows_[edit.id], o)
  <2>1. edit.op = "create" => w = [state |-> "live", value |-> edit.value, op |-> 0]
    BY <1>1, WrittenRow
  <2>2. edit.op = "update" => w = [rows_[edit.id] EXCEPT !.value = edit.value]
    BY <1>1, WrittenRow
  <2>3. edit.op = "delete" => w = [rows_[edit.id] EXCEPT !.state = "deleted", !.op = edit.opId]
    BY <1>1, WrittenRow
  <2>4. edit.op \in {"create", "update", "delete"}  BY DEF Ready
  <2> QED  BY <1>5, <2>1, <2>2, <2>3, <2>4 DEF Apply
<1>7. ASSUME NEW n \in Notes PROVE r[n] = Replayed(Append(outbox, o), n)
  <2>0. n \in Ids  BY DEF Ids
  <2>1. Replayed(Append(outbox, o), n) =
          IF o.note = n THEN Apply(Replayed(outbox, n), o) ELSE Replayed(outbox, n)
    BY <1>5, ReplayedNext
  <2>2. rows_[n] = Replayed(outbox, n)  BY DEF Replays
  <2> QED  BY <1>3, <1>5, <1>6, <2>0, <2>1, <2>2
<1> QED  BY <1>1, <1>2, <1>4, <1>7 DEF Replays

\* No note's operation is written by the others.
LEMMA ReplaysOthers ==
    ASSUME NEW edit, edit.id \in Ids \ Notes, NEW rows_ \in [Ids -> Row], NEW w,
           NEW outbox, Replays(rows_, outbox)
    PROVE  Replays([rows_ EXCEPT ![edit.id] = w], outbox)
<1>1. Notes \subseteq Ids  BY DEF Ids
<1> QED  BY <1>1 DEF Replays

LEMMA RecordsInitially == RecordsInit => RecordsInv
<1> SUFFICES ASSUME RecordsInit PROVE RecordsInv  OBVIOUS
<1>1. Absent \in Row /\ Absent.state = "absent"  BY DEF Row, Absent
<1>2. store \in Database /\ image = store
  <2>1. [i \in Ids |-> Absent] \in [Ids -> Row]  BY <1>1
  <2> QED  BY <2>1 DEF RecordsInit, Database
<1>3. NoEdit \in Edit /\ NoEdit.pc = "idle"  BY <1>1 DEF NoEdit, Edit
<1>4. RecordsType  BY <1>2, <1>3 DEF RecordsInit, RecordsType
<1>5. store.rows = [i \in Ids |-> Absent] /\ store.tombstones = {} /\ store.outbox = <<>>
  BY DEF RecordsInit
<1>6. \A n \in Notes : n \in Ids  BY DEF Ids
<1>7. Unique(store.rows)  BY <1>1, <1>5 DEF Unique
<1>8. Entombed(store.rows, store.tombstones)  BY <1>1, <1>5, <1>6 DEF Entombed
<1>9. Replays(store.rows, store.outbox)  BY <1>5, <1>6, ReplayedEmpty DEF Replays
<1>10. locked = Nil /\ \A e \in Editors : edits[e] = NoEdit  BY DEF RecordsInit
<1> QED  BY <1>3, <1>4, <1>7, <1>8, <1>9, <1>10 DEF RecordsInv, Sound, Committed, Under

\* The call whose transaction is open, and what is known of it.
LEMMA Holder ==
    ASSUME RecordsInv, NEW e \in Editors, edits[e].pc \notin {"idle", "done"}
    PROVE  /\ locked = e /\ locked /= Nil /\ Progress(edits[e]) /\ Sound(image)
           /\ edits[e] \in Edit /\ store \in Database /\ image \in Database
           /\ Ready(edits[e])
           /\ \A d \in Editors \ {e} : ~Under(d)
<1>1. locked = e  BY DEF RecordsInv, Under
<1>2. locked /= Nil  BY <1>1, EditorsAssumption
<1>3. Progress(edits[e])  BY <1>1, <1>2 DEF RecordsInv
<1>4. Committed = image  BY <1>2 DEF Committed
<1>5. edits[e] \in Edit /\ store \in Database /\ image \in Database
  BY DEF RecordsInv, RecordsType
<1> QED  BY <1>1, <1>2, <1>3, <1>4, <1>5 DEF RecordsInv, Progress, Ready

\* A step of the open transaction.
LEMMA StepWithin ==
    ASSUME RecordsInv, NEW e \in Editors, edits[e].pc \notin {"idle", "done"},
           NEW new \in Edit, edits' = [edits EXCEPT ![e] = new],
           new.pc \notin {"idle", "done"}, store' \in Database, Progress(edits[e])',
           UNCHANGED <<image, locked, operations, replicated>>
    PROVE  RecordsInv'
<1>1. locked = e /\ locked /= Nil /\ Sound(image) /\ \A d \in Editors \ {e} : ~Under(d)
  BY Holder
<1>2. edits' \in [Editors -> Edit] /\ edits'[e] = new
      /\ \A d \in Editors \ {e} : edits'[d] = edits[d]
  BY DEF RecordsInv, RecordsType
<1>3. RecordsType'  BY <1>2 DEF RecordsInv, RecordsType
<1>4. Committed' = image  BY <1>1 DEF Committed
<1>5. Sound(image)'  BY <1>1 DEF Sound, Unique, Entombed, Replays
<1>6. Sound(Committed)'  BY <1>4, <1>5
<1>7. Under(e)' /\ \A d \in Editors \ {e} : ~Under(d)'  BY <1>1, <1>2 DEF Under
<1> QED  BY <1>1, <1>3, <1>6, <1>7 DEF RecordsInv

\* A transaction that ends leaves a database that is sound.
LEMMA StepOut ==
    ASSUME RecordsInv, NEW e \in Editors, edits[e].pc \notin {"idle", "done"},
           StepTo(e, "done"), locked' = Nil, store' \in Database, Sound(store)',
           UNCHANGED <<image, operations, replicated>>
    PROVE  RecordsInv'
<1> DEFINE new == [edits[e] EXCEPT !.pc = "done"]
<1>1. \A d \in Editors \ {e} : ~Under(d)  BY Holder
<1>2. new \in Edit /\ new.pc = "done" /\ edits' = [edits EXCEPT ![e] = new]
  BY Holder DEF Edit, StepTo
<1> HIDE DEF new
<1>3. edits' \in [Editors -> Edit] /\ edits'[e] = new
      /\ \A d \in Editors \ {e} : edits'[d] = edits[d]
  BY <1>2 DEF RecordsInv, RecordsType
<1>4. RecordsType'  BY <1>3 DEF RecordsInv, RecordsType
<1>5. Sound(Committed)'  BY DEF Committed
<1>6. \A d \in Editors : ~Under(d)'  BY <1>1, <1>2, <1>3 DEF Under
<1> QED  BY <1>4, <1>5, <1>6 DEF RecordsInv

LEMMA BeginIsSound ==
    ASSUME RecordsInv, NEW e \in Editors, NEW op \in {"create", "update", "delete"},
           NEW i \in Ids, NEW v \in Values, BeginEdit(e, op, i, v)
    PROVE  RecordsInv'
<1> DEFINE new == [NoEdit EXCEPT !.op = op, !.id = i, !.value = v, !.pc = "read",
                                !.opId = operations']
<1>1. /\ locked = Nil /\ operations' = operations + 1 /\ locked' = e /\ image' = store
      /\ edits' = [edits EXCEPT ![e] = new]
      /\ UNCHANGED <<store, allowed, replicated>>
  BY DEF BeginEdit
<1>2. operations' \in Nat  BY <1>1 DEF RecordsInv, RecordsType
<1>3. Absent \in Row  BY DEF Row
<1>4. /\ new \in Edit /\ new.op = op /\ new.id = i /\ new.value = v /\ new.pc = "read"
  BY <1>2, <1>3 DEF NoEdit, Edit
<1> HIDE DEF new
<1>5. edits' \in [Editors -> Edit] /\ edits'[e] = new
      /\ \A d \in Editors \ {e} : edits'[d] = edits[d]
  BY <1>1, <1>4 DEF RecordsInv, RecordsType
<1>6. \A d \in Editors : ~Under(d)
  BY <1>1, EditorsAssumption DEF RecordsInv
<1>7. RecordsType'  BY <1>1, <1>2, <1>5 DEF RecordsInv, RecordsType
<1>8. Committed = store /\ Committed' = store  BY <1>1, EditorsAssumption DEF Committed
<1>9. Sound(Committed)'
  <2>1. Sound(store)  BY <1>8 DEF RecordsInv
  <2>2. Sound(store)'  BY <1>1, <2>1 DEF Sound, Unique, Entombed, Replays
  <2>3. store' = store  BY <1>1
  <2> QED  BY <1>8, <2>2, <2>3
<1>10. Under(e)' /\ \A d \in Editors \ {e} : ~Under(d)'
  BY <1>4, <1>5, <1>6 DEF Under
<1>11. Progress(edits[e])'  BY <1>1, <1>4, <1>5 DEF Progress
<1> QED  BY <1>1, <1>7, <1>9, <1>10, <1>11 DEF RecordsInv

\* A call has looked and may write: its tombstone first if it deletes a note.
LEMMA LookedIsSound ==
    ASSUME RecordsInv, NEW e \in Editors, edits[e].pc = "read", NEW new \in Edit,
           edits' = [edits EXCEPT ![e] = new],
           new.op = edits[e].op, new.id = edits[e].id, new.value = edits[e].value,
           UNCHANGED <<store, image, locked, Unrelated>>,
           \/ new.pc = "commit"
           \/ new.pc = "tombstone" /\ new.op = "delete" /\ new.id \in Notes
           \/ new.pc = "write" /\ (new.op = "delete" => new.id \notin Notes),
           new.pc /= "commit" => Writable(new, store.rows)
    PROVE  RecordsInv'
<1>1. /\ Progress(edits[e]) /\ Sound(image) /\ image \in Database /\ store \in Database
  BY Holder
<1>2. store = image  BY <1>1 DEF Progress
<1>3. new.pc = "write" => Tombstone(new) = {}  BY DEF Tombstone
<1>4. Entombing(new, image) = [image EXCEPT !.tombstones = image.tombstones \cup Tombstone(new)]
  BY DEF Entombing
<1>5. new.pc = "write" => Entombing(new, image) = image
  BY <1>1, <1>3, <1>4 DEF Database
<1>6. edits'[e] = new  BY DEF RecordsInv, RecordsType
<1>7. Sound(store)'  BY <1>1, <1>2 DEF Sound, Unique, Entombed, Replays, Unrelated
<1>8. Progress(new)'
  <2>1. /\ new.op \in {"create", "update", "delete"} /\ new.id \in Ids /\ new.value \in Values
    BY <1>1 DEF Progress
  <2>2. new.pc \in {"commit", "tombstone", "write"}  OBVIOUS
  <2>3. new.pc = "write" => store' = Entombing(new, image')  BY <1>2, <1>5
  <2>4. Writable(new, store.rows) => Writable(new, image'.rows)  BY <1>2
  <2>5. store' = image'  BY <1>2
  <2> QED  BY <1>7, <2>1, <2>2, <2>3, <2>4, <2>5 DEF Progress, Entombing, Tombstone
<1>9. Progress(edits[e])'  BY <1>6, <1>8 DEF Progress, Entombing, Tombstone
<1> QED  BY <1>1, <1>9, StepWithin DEF Unrelated

LEMMA NewPlace ==
    ASSUME NEW edit \in Edit, NEW pc \in {"read", "tombstone", "write", "sign", "enqueue", "commit"}
    PROVE  LET new == [edit EXCEPT !.pc = pc] IN
           /\ new \in Edit /\ new.pc = pc /\ new.op = edit.op /\ new.id = edit.id
           /\ new.value = edit.value /\ new.existing = edit.existing /\ new.opId = edit.opId
BY DEF Edit

LEMMA CreateIsSound ==
    ASSUME RecordsInv, NEW e \in Editors,
           CreateNote(e) \/ CreateWidget(e) \/ CreateOrganisation(e)
    PROVE  RecordsInv'
<1> DEFINE new == [edits[e] EXCEPT !.pc = "write"]
<1>1. /\ edits[e].pc = "read" /\ edits[e].op = "create" /\ store.rows[edits[e].id] = Absent
      /\ edits' = [edits EXCEPT ![e] = new]
      /\ UNCHANGED <<store, image, locked, Unrelated>>
      /\ edits[e].id \in Notes \/ ~Taken(edits[e].id, edits[e].value)
  BY DEF CreateNote, CreateWidget, CreateOrganisation, InsertUnique, Reads, StepTo
<1>2. edits[e] \in Edit  BY <1>1, Holder
<1>3. /\ new \in Edit /\ new.pc = "write" /\ new.op = edits[e].op /\ new.id = edits[e].id
      /\ new.value = edits[e].value
  BY <1>2, NewPlace
<1> HIDE DEF new
<1>4. ASSUME NEW j \in Rivals(new.id), store.rows[j].state = "live"
      PROVE  store.rows[j].value /= new.value
  <2>1. edits[e].id \notin Notes  BY <1>3, IdsAssumption DEF Rivals
  <2>2. Existing(j) = store.rows[j]  BY <1>4 DEF Existing
  <2>3. Existing(j) /= Absent  BY <1>4, <2>2 DEF Absent
  <2> QED  BY <1>1, <1>3, <2>1, <2>2, <2>3 DEF Taken
<1>5. Writable(new, store.rows)  BY <1>1, <1>3, <1>4 DEF Writable
<1> QED  BY <1>1, <1>3, <1>5, LookedIsSound

LEMMA UpdateIsSound ==
    ASSUME RecordsInv, NEW e \in Editors,
           UpdateNote(e) \/ UpdateWidget(e) \/ UpdateOrganisation(e)
    PROVE  RecordsInv'
<1> DEFINE new == [edits[e] EXCEPT !.pc = "write", !.existing = Existing(edits[e].id)]
<1>1. /\ edits[e].pc = "read" /\ edits[e].op = "update" /\ Existing(edits[e].id) /= Absent
      /\ edits' = [edits EXCEPT ![e] = new]
      /\ UNCHANGED <<store, image, locked, Unrelated>>
  BY DEF UpdateNote, UpdateWidget, UpdateOrganisation, UpdateExisting, Reads
<1>2. edits[e] \in Edit /\ store \in Database /\ edits[e].id \in Ids
  BY <1>1, Holder DEF Ready
<1>3. Existing(edits[e].id) = store.rows[edits[e].id] /\ store.rows[edits[e].id].state = "live"
  BY <1>1 DEF Existing
<1>4. Existing(edits[e].id) \in Row  BY <1>2, <1>3 DEF Database
<1>5. /\ new \in Edit /\ new.pc = "write" /\ new.op = edits[e].op /\ new.id = edits[e].id
      /\ new.value = edits[e].value /\ new.existing = Existing(edits[e].id)
  BY <1>2, <1>4 DEF Edit
<1> HIDE DEF new
<1>6. Writable(new, store.rows)  BY <1>1, <1>3, <1>5 DEF Writable
<1> QED  BY <1>1, <1>5, <1>6, LookedIsSound

LEMMA DeleteIsSound ==
    ASSUME RecordsInv, NEW e \in Editors, DeleteNote(e) \/ DeleteWidget(e)
    PROVE  RecordsInv'
<1>1. PICK pc \in {"commit", "tombstone", "write"} :
        /\ StepTo(e, pc)
        /\ pc = "commit" <=> Existing(edits[e].id) = Absent
        /\ pc = "tombstone" => edits[e].id \in Notes
        /\ pc = "write" => edits[e].id \in Widgets
  BY DEF DeleteNote, DeleteWidget, Reads
<1>2. /\ edits[e].pc = "read" /\ edits[e].op = "delete"
      /\ UNCHANGED <<store, image, locked, Unrelated>>
  BY DEF DeleteNote, DeleteWidget, Reads
<1> DEFINE new == [edits[e] EXCEPT !.pc = pc]
<1>3. edits[e] \in Edit  BY <1>2, Holder
<1>4. /\ new \in Edit /\ new.pc = pc /\ new.op = edits[e].op /\ new.id = edits[e].id
      /\ new.value = edits[e].value
  BY <1>3 DEF Edit
<1>. edits' = [edits EXCEPT ![e] = new]  BY <1>1 DEF StepTo
<1> HIDE DEF new
<1>5. pc = "write" => new.id \notin Notes  BY <1>1, <1>4, IdsAssumption
<1>6. new.pc /= "commit" => Writable(new, store.rows)
  BY <1>1, <1>2, <1>4 DEF Writable, Existing
<1> QED  BY <1>1, <1>2, <1>4, <1>5, <1>6, LookedIsSound

\* A step that only moves the call on.
LEMMA MovedOn ==
    ASSUME RecordsInv, NEW e \in Editors,
           NEW pc \in {"read", "tombstone", "write", "sign", "enqueue", "commit"},
           edits[e].pc \notin {"idle", "done"}, StepTo(e, pc),
           UNCHANGED <<image, locked, Unrelated>>,
           NEW new, new = [edits[e] EXCEPT !.pc = pc],
           store' \in Database, Progress(new)'
    PROVE  RecordsInv'
<1>1. edits[e] \in Edit  BY Holder
<1>2. new \in Edit /\ new.pc = pc  BY <1>1, NewPlace
<1>3. edits' = [edits EXCEPT ![e] = new]  BY DEF StepTo
<1>4. edits'[e] = new  BY <1>3 DEF RecordsInv, RecordsType
<1>5. Progress(edits[e])'  BY <1>4 DEF Progress, Writing, Entombing, Tombstone
<1> QED  BY <1>2, <1>3, <1>5, StepWithin DEF Unrelated

\* The place of a call matters to nothing it writes.
LEMMA SameCall ==
    ASSUME NEW edit \in Edit, edit.op \in {"create", "update", "delete"},
           NEW pc \in {"read", "tombstone", "write", "sign", "enqueue", "commit"},
           NEW new, new = [edit EXCEPT !.pc = pc], NEW db
    PROVE  /\ new \in Edit /\ new.pc = pc /\ new.op = edit.op /\ new.id = edit.id
           /\ new.value = edit.value
           /\ Tombstone(new) = Tombstone(edit) /\ Entombing(new, db) = Entombing(edit, db)
           /\ Writing(new, db) = Writing(edit, db)
           /\ Writable(new, db.rows) <=> Writable(edit, db.rows)
           /\ OperationOf(new) = OperationOf(edit)
<1>1. /\ new \in Edit /\ new.pc = pc /\ new.op = edit.op /\ new.id = edit.id
      /\ new.value = edit.value /\ new.existing = edit.existing /\ new.opId = edit.opId
  BY NewPlace
<1>2. ASSUME NEW row PROVE Written(new, row) = Written(edit, row)
  <2>1. CASE edit.op = "create"  BY <1>1, <2>1 DEF Written
  <2>2. CASE edit.op = "update"  BY <1>1, <2>2 DEF Written
  <2>3. CASE edit.op = "delete"  BY <1>1, <2>3 DEF Written
  <2> QED  BY <2>1, <2>2, <2>3
<1>3. Tombstone(new) = Tombstone(edit)  BY <1>1 DEF Tombstone
<1>4. Entombing(new, db) = Entombing(edit, db)  BY <1>3 DEF Entombing
<1>5. Writing(new, db) = Writing(edit, db)  BY <1>1, <1>2, <1>4 DEF Writing
<1>6. Writable(new, db.rows) <=> Writable(edit, db.rows)  BY <1>1 DEF Writable
<1>7. OperationOf(new) = OperationOf(edit)  BY <1>1 DEF OperationOf
<1> QED  BY <1>1, <1>3, <1>4, <1>5, <1>6, <1>7

\* The database a call has written to.
LEMMA DatabaseWritten ==
    ASSUME NEW edit, Ready(edit), NEW db \in Database, Writable(edit, db.rows)
    PROVE  /\ Writing(edit, db) \in Database
           /\ Writing(edit, db).rows = [db.rows EXCEPT ![edit.id] = Written(edit, db.rows[edit.id])]
           /\ Writing(edit, db).tombstones = db.tombstones \cup Tombstone(edit)
           /\ Writing(edit, db).outbox = db.outbox
           /\ Entombing(edit, db) \in Database
           /\ Entombing(edit, db).rows = db.rows
<1>1. PICK ts : ts = db.tombstones \cup Tombstone(edit)  OBVIOUS
<1>2. ts \in SUBSET [note : Notes, op : Nat]
  BY <1>1 DEF Tombstone, Ready, Edit, Database
<1>3. PICK mid : mid = [db EXCEPT !.tombstones = ts]  OBVIOUS
<1>4. /\ mid \in Database /\ mid.rows = db.rows /\ mid.tombstones = ts /\ mid.outbox = db.outbox
  BY <1>2, <1>3 DEF Database
<1>5. mid = Entombing(edit, db)  BY <1>1, <1>3 DEF Entombing
<1>6. PICK r : r = [db.rows EXCEPT ![edit.id] = Written(edit, db.rows[edit.id])]  OBVIOUS
<1>7. r \in [Ids -> Row]
  <2>1. db.rows \in [Ids -> Row]  BY DEF Database
  <2>2. Written(edit, db.rows[edit.id]) \in Row  BY <2>1, WrittenRow
  <2> QED  BY <1>6, <2>1, <2>2 DEF Ready
<1>8. Writing(edit, db) = [mid EXCEPT !.rows = r]
  BY <1>4, <1>5, <1>6 DEF Writing
<1>9. /\ [mid EXCEPT !.rows = r] \in Database /\ [mid EXCEPT !.rows = r].rows = r
      /\ [mid EXCEPT !.rows = r].tombstones = ts /\ [mid EXCEPT !.rows = r].outbox = db.outbox
  BY <1>4, <1>7 DEF Database
<1> QED  BY <1>1, <1>4, <1>5, <1>6, <1>8, <1>9

LEMMA EntombIsSound ==
    ASSUME RecordsInv, NEW e \in Editors, Entomb(e)
    PROVE  RecordsInv'
<1>1. PICK new : new = [edits[e] EXCEPT !.pc = "write"]  OBVIOUS
<1>2. /\ edits[e].pc = "tombstone" /\ StepTo(e, "write") /\ UNCHANGED <<image, locked, Unrelated>>
      /\ store' = [store EXCEPT !.tombstones =
                     store.tombstones \cup {[note |-> edits[e].id, op |-> edits[e].opId]}]
  BY DEF Entomb
<1>3. /\ Progress(edits[e]) /\ edits[e] \in Edit /\ image \in Database /\ Ready(edits[e])
  BY <1>2, Holder
<1>4. /\ store = image /\ edits[e].op = "delete" /\ edits[e].id \in Notes
      /\ Writable(edits[e], image.rows)
  BY <1>2, <1>3 DEF Progress
<1>5. Tombstone(edits[e]) = {[note |-> edits[e].id, op |-> edits[e].opId]}
  BY <1>4 DEF Tombstone
<1>6. store' = Entombing(edits[e], image)  BY <1>2, <1>4, <1>5 DEF Entombing
<1>7. store' \in Database  BY <1>3, <1>4, <1>6, DatabaseWritten
<1>8. /\ new.pc = "write" /\ new.op = edits[e].op /\ new.id = edits[e].id
      /\ new.value = edits[e].value
      /\ Entombing(new, image) = Entombing(edits[e], image)
      /\ Writable(new, image.rows)
  BY <1>1, <1>3, <1>4, SameCall DEF Ready
<1>9. Progress(new)'
  BY <1>2, <1>3, <1>6, <1>8 DEF Progress, Entombing, Tombstone
<1> QED  BY <1>1, <1>2, <1>7, <1>9, MovedOn

LEMMA WriteIsSound ==
    ASSUME RecordsInv, NEW e \in Editors, WriteRow(e)
    PROVE  RecordsInv'
<1>0. PICK pc \in {"sign", "commit"} :
        StepTo(e, pc) /\ (pc = "sign" <=> edits[e].id \in Notes)
  BY DEF WriteRow
<1>1. PICK new : new = [edits[e] EXCEPT !.pc = pc]  OBVIOUS
<1>2. /\ edits[e].pc = "write" /\ UNCHANGED <<image, locked, Unrelated>>
      /\ store' = [store EXCEPT !.rows[edits[e].id] = Written(edits[e], @)]
  BY DEF WriteRow
<1>3. /\ Progress(edits[e]) /\ edits[e] \in Edit /\ image \in Database /\ Ready(edits[e])
      /\ Sound(image)
  BY <1>2, Holder
<1>4. store = Entombing(edits[e], image) /\ Writable(edits[e], image.rows)
  BY <1>2, <1>3 DEF Progress
<1>5. store' = Writing(edits[e], image)  BY <1>2, <1>4 DEF Writing
<1>6. store' \in Database  BY <1>3, <1>4, <1>5, DatabaseWritten
<1>7. /\ new.pc = pc /\ new.op = edits[e].op /\ new.id = edits[e].id /\ new.value = edits[e].value
      /\ Writing(new, image) = Writing(edits[e], image)
      /\ Writable(new, image.rows)
  BY <1>1, <1>3, <1>4, SameCall DEF Ready
<1>8. ASSUME edits[e].id \notin Notes PROVE Sound(store)'
  <2>1. image.rows \in [Ids -> Row]  BY <1>3 DEF Database
  <2>2. /\ store'.rows = [image.rows EXCEPT ![edits[e].id] =
                                             Written(edits[e], image.rows[edits[e].id])]
        /\ store'.tombstones = image.tombstones \cup Tombstone(edits[e])
        /\ store'.outbox = image.outbox
    BY <1>3, <1>4, <1>5, DatabaseWritten
  <2>3. Unique(store'.rows)  BY <1>3, <1>4, <2>1, <2>2, UniqueWritten DEF Sound
  <2>4. Entombed(store'.rows, store'.tombstones)
    BY <1>3, <1>4, <2>1, <2>2, EntombedWritten DEF Sound
  <2>5. Replays(store'.rows, store'.outbox)
    BY <1>3, <1>8, <2>1, <2>2, ReplaysOthers DEF Sound, Ready
  <2>6. replicated' = replicated  BY <1>2 DEF Unrelated
  <2> QED  BY <2>3, <2>4, <2>5, <2>6 DEF Sound, Unique, Entombed, Replays
<1>9. Progress(new)'
  <2>1. new.pc = "sign" => new.id \in Notes /\ store' = Writing(new, image')
    BY <1>0, <1>2, <1>5, <1>7
  <2>2. Writable(new, image'.rows)  BY <1>2, <1>7
  <2>3. new.pc = "commit" => Sound(store)'  BY <1>0, <1>7, <1>8
  <2>4. new.op \in {"create", "update", "delete"} /\ new.id \in Ids /\ new.value \in Values
    BY <1>3, <1>7 DEF Ready
  <2>5. new.pc \in {"sign", "commit"}  BY <1>7
  <2> QED  BY <2>1, <2>2, <2>3, <2>4, <2>5 DEF Progress, Writing, Entombing, Tombstone
<1> QED  BY <1>0, <1>1, <1>2, <1>6, <1>9, MovedOn

LEMMA SignIsSound ==
    ASSUME RecordsInv, NEW e \in Editors, Sign(e)
    PROVE  RecordsInv'
<1>1. PICK new : new = [edits[e] EXCEPT !.pc = "enqueue"]  OBVIOUS
<1>2. /\ edits[e].pc = "sign" /\ StepTo(e, "enqueue")
      /\ UNCHANGED <<image, locked, Unrelated>> /\ store' = store
  BY DEF Sign
<1>3. /\ Progress(edits[e]) /\ edits[e] \in Edit /\ store \in Database
  BY <1>2, Holder
<1>4. /\ new.pc = "enqueue" /\ new.op = edits[e].op /\ new.id = edits[e].id
      /\ new.value = edits[e].value
      /\ Writing(new, image) = Writing(edits[e], image)
      /\ Writable(new, image.rows) <=> Writable(edits[e], image.rows)
  BY <1>1, <1>3, SameCall DEF Progress
<1>5. Progress(new)
  BY <1>2, <1>3, <1>4 DEF Progress
<1>6. Progress(new)'
  <2>1. image' = image  BY <1>2
  <2> QED  BY <1>2, <1>4, <1>5, <2>1 DEF Progress, Writing, Entombing, Tombstone
<1> QED  BY <1>1, <1>2, <1>3, <1>6, MovedOn

LEMMA EnqueueIsSound ==
    ASSUME RecordsInv, NEW e \in Editors, Enqueue(e)
    PROVE  RecordsInv'
<1>1. PICK new : new = [edits[e] EXCEPT !.pc = "commit"]  OBVIOUS
<1>2. PICK o : o = OperationOf(edits[e])  OBVIOUS
<1>3. /\ edits[e].pc = "enqueue" /\ StepTo(e, "commit") /\ UNCHANGED <<image, locked, Unrelated>>
      /\ store' = [store EXCEPT !.outbox = Append(store.outbox, o)]
  BY <1>2 DEF Enqueue, OperationOf
<1>4. /\ Progress(edits[e]) /\ edits[e] \in Edit /\ image \in Database /\ Ready(edits[e])
      /\ Sound(image)
  BY <1>3, Holder
<1>5. /\ store = Writing(edits[e], image) /\ Writable(edits[e], image.rows)
      /\ edits[e].id \in Notes
  BY <1>3, <1>4 DEF Progress
<1>6. /\ store \in Database
      /\ store.rows = [image.rows EXCEPT ![edits[e].id] =
                                           Written(edits[e], image.rows[edits[e].id])]
      /\ store.tombstones = image.tombstones \cup Tombstone(edits[e])
      /\ store.outbox = image.outbox
  BY <1>4, <1>5, DatabaseWritten
<1>7. o \in Operations  BY <1>2, <1>4, <1>5 DEF OperationOf, Operations, Ready, Edit
<1>8. /\ store' \in Database /\ store'.rows = store.rows /\ store'.tombstones = store.tombstones
      /\ store'.outbox = Append(image.outbox, o)
  <2>1. Append(store.outbox, o) \in Seq(Operations)  BY <1>6, <1>7 DEF Database
  <2> QED  BY <1>3, <1>6, <2>1 DEF Database
<1>9. image.rows \in [Ids -> Row] /\ image.outbox \in Seq(Operations)  BY <1>4 DEF Database
<1>10. Sound(store)'
  <2>1. Unique(store'.rows)  BY <1>4, <1>5, <1>6, <1>8, <1>9, UniqueWritten DEF Sound
  <2>2. Entombed(store'.rows, store'.tombstones)
    BY <1>4, <1>5, <1>6, <1>8, <1>9, EntombedWritten DEF Sound
  <2>3. Replays(store'.rows, store'.outbox)
    BY <1>2, <1>4, <1>5, <1>6, <1>8, <1>9, ReplaysWritten DEF Sound
  <2>4. replicated' = replicated  BY <1>3 DEF Unrelated
  <2> QED  BY <2>1, <2>2, <2>3, <2>4 DEF Sound, Unique, Entombed, Replays
<1>11. /\ new.pc = "commit" /\ new.op = edits[e].op /\ new.id = edits[e].id
       /\ new.value = edits[e].value
  BY <1>1, <1>4, SameCall DEF Ready
<1>12. Progress(new)'
  BY <1>4, <1>10, <1>11 DEF Progress, Ready
<1> QED  BY <1>1, <1>3, <1>8, <1>12, MovedOn

LEMMA CommitEditIsSound ==
    ASSUME RecordsInv, NEW e \in Editors, CommitEdit(e)
    PROVE  RecordsInv'
<1>1. /\ edits[e].pc = "commit" /\ locked' = Nil /\ StepTo(e, "done")
      /\ UNCHANGED <<store, image, operations, replicated>>
  BY DEF CommitEdit, Unrelated
<1>2. Sound(store) /\ store \in Database  BY <1>1, Holder DEF Progress
<1>3. Sound(store)'  BY <1>1, <1>2 DEF Sound, Unique, Entombed, Replays
<1> QED  BY <1>1, <1>2, <1>3, StepOut

LEMMA RollbackEditIsSound ==
    ASSUME RecordsInv, NEW e \in Editors, RollbackEdit(e)
    PROVE  RecordsInv'
<1>1. /\ edits[e].pc \notin {"idle", "done"} /\ locked' = Nil /\ StepTo(e, "done")
      /\ store' = image /\ UNCHANGED <<image, operations, replicated>>
  BY DEF RollbackEdit, Unrelated
<1>2. Sound(image) /\ image \in Database  BY <1>1, Holder
<1>3. Sound(store)'  BY <1>1, <1>2 DEF Sound, Unique, Entombed, Replays
<1> QED  BY <1>1, <1>2, <1>3, StepOut

\* What happens between transactions leaves a sound database sound.
LEMMA StepBetween ==
    ASSUME RecordsInv, locked = Nil, store' \in Database, Sound(store) => Sound(store)',
           UNCHANGED <<image, locked, edits, operations>>
    PROVE  RecordsInv'
<1>1. Sound(store)'  BY DEF RecordsInv, Committed
<1>2. Sound(Committed)'  BY <1>1 DEF Committed
<1> QED  BY <1>2 DEF RecordsInv, RecordsType, Under

LEMMA RecordsStep == RecordsInv /\ [RecordsNext]_recordVars => RecordsInv'
<1> SUFFICES ASSUME RecordsInv, [RecordsNext]_recordVars PROVE RecordsInv'
  OBVIOUS
<1>0. store \in Database  BY DEF RecordsInv, RecordsType
<1>1. ASSUME NEW e \in Editors, NEW op \in {"create", "update", "delete"}, NEW i \in Ids,
             NEW v \in Values, BeginEdit(e, op, i, v)
      PROVE  RecordsInv'
  BY <1>1, BeginIsSound
<1>2. ASSUME NEW e \in Editors, CreateNote(e) \/ CreateWidget(e) \/ CreateOrganisation(e)
      PROVE  RecordsInv'
  BY <1>2, CreateIsSound
<1>3. ASSUME NEW e \in Editors, UpdateNote(e) \/ UpdateWidget(e) \/ UpdateOrganisation(e)
      PROVE  RecordsInv'
  BY <1>3, UpdateIsSound
<1>4. ASSUME NEW e \in Editors, DeleteNote(e) \/ DeleteWidget(e) PROVE RecordsInv'
  BY <1>4, DeleteIsSound
<1>5. ASSUME NEW e \in Editors, Entomb(e) PROVE RecordsInv'  BY <1>5, EntombIsSound
<1>6. ASSUME NEW e \in Editors, WriteRow(e) PROVE RecordsInv'  BY <1>6, WriteIsSound
<1>7. ASSUME NEW e \in Editors, Sign(e) PROVE RecordsInv'  BY <1>7, SignIsSound
<1>8. ASSUME NEW e \in Editors, Enqueue(e) PROVE RecordsInv'  BY <1>8, EnqueueIsSound
<1>9. ASSUME NEW e \in Editors, CommitEdit(e) PROVE RecordsInv'  BY <1>9, CommitEditIsSound
<1>10. ASSUME NEW e \in Editors, RollbackEdit(e) PROVE RecordsInv'  BY <1>10, RollbackEditIsSound
<1>11. CASE MembershipChanges
  <2>1. locked = Nil /\ UNCHANGED <<store, image, locked, edits, operations, replicated>>
    BY <1>11 DEF MembershipChanges
  <2>2. Sound(store) => Sound(store)'  BY <2>1 DEF Sound, Unique, Entombed, Replays
  <2> QED  BY <1>0, <2>1, <2>2, StepBetween
<1>12. ASSUME NEW t \in store.tombstones, MarkReplicated(t) PROVE RecordsInv'
  <2>1. /\ locked = Nil /\ UNCHANGED <<store, image, locked, edits, operations>>
        /\ replicated \subseteq replicated'
    BY <1>12 DEF MarkReplicated
  <2>2. Sound(store) => Sound(store)'  BY <2>1 DEF Sound, Unique, Entombed, Replays
  <2> QED  BY <1>0, <2>1, <2>2, StepBetween
<1>13. CASE PruneTombstones
  <2>1. PICK ts : ts = {t \in store.tombstones : t.op \notin replicated}  OBVIOUS
  <2>2. /\ locked = Nil /\ UNCHANGED <<image, locked, edits, operations, replicated>>
        /\ store' = [store EXCEPT !.tombstones = ts]
    BY <1>13, <2>1 DEF PruneTombstones, Unrelated
  <2>3. ts \in SUBSET [note : Notes, op : Nat]  BY <1>0, <2>1 DEF Database
  <2>4. /\ store' \in Database /\ store'.rows = store.rows /\ store'.tombstones = ts
        /\ store'.outbox = store.outbox
    BY <1>0, <2>2, <2>3 DEF Database
  <2>5. ASSUME Entombed(store.rows, store.tombstones) PROVE Entombed(store.rows, ts)
    <3>1. ts \subseteq store.tombstones  BY <2>1
    <3>2. ASSUME NEW n, NEW op, [note |-> n, op |-> op] \in store.tombstones
          PROVE  [note |-> n, op |-> op] \in ts \/ op \in replicated
      BY <2>1, <3>2
    <3> QED  BY <2>5, <3>1, <3>2 DEF Entombed
  <2>6. Sound(store) => Sound(store)'
    BY <2>2, <2>4, <2>5 DEF Sound, Unique, Entombed, Replays
  <2> QED  BY <2>2, <2>4, <2>6, StepBetween
<1>14. CASE UNCHANGED recordVars
  <2>1. UNCHANGED <<store, image, locked, edits, operations, replicated>>
    BY <1>14 DEF recordVars
  <2> QED  BY <2>1 DEF RecordsInv, RecordsType, Sound, Committed, Unique, Entombed, Replays,
                       Under, Progress, Writable, Writing, Entombing, Tombstone
<1> QED
  BY <1>1, <1>2, <1>3, <1>4, <1>5, <1>6, <1>7, <1>8, <1>9, <1>10, <1>11, <1>12, <1>13, <1>14
  DEF RecordsNext

LEMMA RecordsSound == RecordsSpec => []Sound(Committed)
<1>1. RecordsInv => Sound(Committed)  BY DEF RecordsInv
<1> QED  BY <1>1, RecordsInitially, RecordsStep, PTL DEF RecordsSpec

\* Each call of a service looks for its value and then inserts it, with nothing but
\* the transaction to keep the others out; no two live rows share a SKU or a domain.
THEOREM ValuesAlwaysUnique == RecordsSpec => []ValuesAreUnique
<1>1. Sound(Committed) => ValuesAreUnique  BY DEF Sound, Unique, ValuesAreUnique
<1> QED  BY <1>1, RecordsSound, PTL

\* The tombstone of a note that is deleted is written in the transaction that
\* deletes it, once, and is pruned only when it has been replicated.
THEOREM DeletionsAlwaysEntombed == RecordsSpec => []DeletionsLeaveTombstones
<1>1. Sound(Committed) => DeletionsLeaveTombstones
  BY DEF Sound, Entombed, DeletionsLeaveTombstones
<1> QED  BY <1>1, RecordsSound, PTL

\* The operations of a note in the outbox, applied in order, give its row, for an
\* outbox of any length.
THEOREM OutboxAlwaysReplays == RecordsSpec => []OutboxReplaysNotes
<1>1. Sound(Committed) => OutboxReplaysNotes  BY DEF Sound, Replays, OutboxReplaysNotes
<1> QED  BY <1>1, RecordsSound, PTL
=============================================================================
