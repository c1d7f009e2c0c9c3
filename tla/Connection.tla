----------------------------- MODULE Connection -----------------------------
(***************************************************************************)
(* Transactions and savepoints of the two database connections.  The       *)
(* memory connection runs one operation at a time, in the order of the     *)
(* calls, and lets SQLite keep savepoints on a stack.  The native one      *)
(* collects a transaction's statements in a buffer for each client and     *)
(* sends them when the callback is done.                                   *)
(*                                                                         *)
(* A client is what a callback is given: number 0 by transaction(), the    *)
(* others by savepoint().  What callbacks owe the connection is a guard of  *)
(* the model: they end their savepoints before the transaction, and on the *)
(* memory connection use only their innermost client, since a RELEASE or   *)
(* ROLLBACK TO takes along everything SQLite did since the SAVEPOINT.      *)
(***************************************************************************)
EXTENDS Naturals, Sequences, FiniteSets

CONSTANTS TxCalls,     \* calls of transaction()
          PlainCalls,  \* calls of execute()
          Savepoints,  \* 1 .. n: savepoint clients of a call
          Connections, \* subset of {"memory", "native"}
          MaxStatements      \* bound on the statements that write

ASSUME SavepointsAssumption == Savepoints \subseteq Nat \ {0}

VARIABLES connection,
          callPc,    \* [TxCalls \cup PlainCalls -> where the call is]
          queue,     \* callers of acquireOperationLock in order; the head holds it
          clients,   \* [TxCalls -> [clients -> [status, parent, buffer]]]
          rows,      \* rows in the database
          written,   \* rows so far, their identities
          backup,    \* rows at BEGIN
          stack,     \* SQLite's savepoints, innermost last
          acknowledged \* rows the resolved calls stand for

connectionVars == <<connection, callPc, queue, clients, rows, written, backup, stack,
                    acknowledged>>

Clients == {0} \cup Savepoints
NoClient == [status |-> "none", parent |-> 0, buffer |-> {}]

ConnectionInit ==
    /\ connection \in Connections
    /\ callPc = [c \in TxCalls \cup PlainCalls |-> "idle"]
    /\ queue = <<>>
    /\ clients = [c \in TxCalls |-> [k \in Clients |-> NoClient]]
    /\ rows = {} /\ written = 0 /\ backup = {} /\ stack = <<>>
    /\ acknowledged = {}

Memory == connection = "memory"

\* (Going ahead with whatever is being done.)
Unlocked(c) == TRUE

Locked(c) == Memory => queue /= <<>> /\ Head(queue) = c

Release == queue' = IF Memory THEN Tail(queue) ELSE queue

Call(c) ==
    /\ callPc[c] = "idle"
    /\ callPc' = [callPc EXCEPT ![c] = "called"]
    /\ queue' = IF Memory THEN Append(queue, c) ELSE queue
    /\ UNCHANGED <<connection, clients, rows, written, backup, stack, acknowledged>>

\* An execute() outside any transaction; it may fail.
Plain(c) ==
    /\ callPc[c] = "called"
    /\ Locked(c)
    /\ Release
    /\ \/ /\ written < MaxStatements /\ written' = written + 1
          /\ rows' = rows \cup {written'}
          /\ acknowledged' = acknowledged \cup {written'}
          /\ callPc' = [callPc EXCEPT ![c] = "resolved"]
       \/ /\ callPc' = [callPc EXCEPT ![c] = "rejected"]
          /\ UNCHANGED <<rows, written, acknowledged>>
    /\ UNCHANGED <<connection, clients, backup, stack>>

Begin(c) ==
    /\ callPc[c] = "called"
    /\ Locked(c)
    /\ callPc' = [callPc EXCEPT ![c] = "open"]
    /\ clients' = [clients EXCEPT ![c][0].status = "active"]
    /\ backup' = IF Memory THEN rows ELSE backup
    /\ UNCHANGED <<connection, queue, rows, written, stack, acknowledged>>

Active(c, k) == clients[c][k].status = "active"
OpenChildren(c, k) == {j \in Savepoints \ {k} : Active(c, j) /\ clients[c][j].parent = k}
Innermost(c, k) == Active(c, k) /\ (Memory => OpenChildren(c, k) = {})
Closable(c, k) == Active(c, k) /\ OpenChildren(c, k) = {}

\* (Sending each statement to the native side when it is called.)
ExecuteAtOnce(c, k) ==
    /\ Innermost(c, k)
    /\ written < MaxStatements /\ written' = written + 1
    /\ clients' = [clients EXCEPT ![c][k].buffer = @ \cup {written'}]
    /\ rows' = rows \cup {written'}
    /\ UNCHANGED <<connection, callPc, queue, backup, stack, acknowledged>>

\* tx.execute: a closed client throws before it does anything.
Execute(c, k) ==
    /\ Innermost(c, k)
    /\ written < MaxStatements /\ written' = written + 1
    /\ clients' = [clients EXCEPT ![c][k].buffer = @ \cup {written'}]
    /\ rows' = IF Memory THEN rows \cup {written'} ELSE rows
    /\ UNCHANGED <<connection, callPc, queue, backup, stack, acknowledged>>

Savepoint(c, k, j) ==
    /\ Innermost(c, k)
    /\ clients[c][j] = NoClient /\ \A i \in Savepoints : i < j => clients[c][i] /= NoClient
    /\ clients' = [clients EXCEPT ![c][j] = [status |-> "active", parent |-> k, buffer |-> {}]]
    /\ stack' = IF Memory THEN Append(stack, [client |-> j, rows |-> rows]) ELSE stack
    /\ UNCHANGED <<connection, callPc, queue, rows, written, backup, acknowledged>>

\* Where SQLite has the savepoint; 0 when it is gone.
Place(j) == IF \E i \in DOMAIN stack : stack[i].client = j
            THEN CHOOSE i \in DOMAIN stack : stack[i].client = j ELSE 0
Known(j) == Memory => Place(j) > 0

\* The savepoint's callback is done: RELEASE takes the savepoints inside along.
ReleaseSavepoint(c, j) ==
    /\ Closable(c, j) /\ Known(j)
    /\ clients' = [clients EXCEPT ![c][j].status = "resolved",
                                  ![c][clients[c][j].parent].buffer = @ \cup clients[c][j].buffer]
    /\ stack' = IF Memory THEN SubSeq(stack, 1, Place(j) - 1) ELSE stack
    /\ UNCHANGED <<connection, callPc, queue, rows, written, backup, acknowledged>>

\* It threw, or RELEASE did; ROLLBACK TO of a savepoint that is gone is ignored.
RollbackSavepoint(c, j) ==
    /\ Closable(c, j)
    /\ clients' = [clients EXCEPT ![c][j].status = "rejected"]
    /\ IF Memory /\ Known(j)
       THEN rows' = stack[Place(j)].rows /\ stack' = SubSeq(stack, 1, Place(j) - 1)
       ELSE UNCHANGED <<rows, stack>>
    /\ UNCHANGED <<connection, callPc, queue, written, backup, acknowledged>>

End(c, result) ==
    /\ callPc[c] = "open" /\ Closable(c, 0)
    /\ callPc' = [callPc EXCEPT ![c] = result]
    /\ clients' = [clients EXCEPT ![c][0].status = result]
    /\ Release
    /\ stack' = <<>>
    /\ UNCHANGED <<connection, written, backup>>

\* The callback is done: COMMIT, or one db_transaction with the whole buffer.
CommitTransaction(c) ==
    /\ End(c, "resolved")
    /\ rows' = IF Memory THEN rows ELSE rows \cup clients[c][0].buffer
    /\ acknowledged' = acknowledged \cup clients[c][0].buffer

\* It threw, or COMMIT or db_transaction failed.
RollbackTransaction(c) ==
    /\ End(c, "rejected")
    /\ rows' = IF Memory THEN backup ELSE rows
    /\ UNCHANGED acknowledged

ConnectionNext ==
    \/ \E c \in TxCalls \cup PlainCalls : Call(c)
    \/ \E c \in PlainCalls : Plain(c)
    \/ \E c \in TxCalls :
        \/ Begin(c) \/ CommitTransaction(c) \/ RollbackTransaction(c)
        \/ \E k \in Clients : Execute(c, k)
        \/ \E k \in Clients, j \in Savepoints : Savepoint(c, k, j)
        \/ \E j \in Savepoints : ReleaseSavepoint(c, j) \/ RollbackSavepoint(c, j)

ConnectionSpec == ConnectionInit /\ [][ConnectionNext]_connectionVars

----------------------------------------------------------------------------
BetweenTransactions == \A c \in TxCalls : callPc[c] /= "open"

\* Between transactions the database holds what the resolved calls wrote and
\* nothing else: each transaction took effect as a whole or not at all, without
\* the savepoints that rejected, and undid no write of another call.
RowsAreAcknowledged == BetweenTransactions => rows = acknowledged

\* From outside, an open transaction of the memory connection has not happened; the
\* native one's is in its buffers.
Visible == IF Memory /\ ~BetweenTransactions THEN backup ELSE rows
Outcome == [c \in TxCalls \cup PlainCalls |->
               IF callPc[c] \in {"resolved", "rejected"} THEN callPc[c] ELSE "pending"]

Store == INSTANCE AtomicStore
         WITH Calls <- TxCalls \cup PlainCalls, committed <- Visible, outcome <- Outcome

\* Both connections keep what AtomicStore promises: no call's writes are seen before
\* it resolves, none of a call that rejects ever, and none is lost.
ConnectionIsAtomic == Store!StoreSpec
=============================================================================
