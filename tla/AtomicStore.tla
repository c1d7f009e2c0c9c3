----------------------------- MODULE AtomicStore -----------------------------
(***************************************************************************)
(* What a connection promises of its calls to whoever looks at the        *)
(* database from outside: it changes in the one step in which a call       *)
(* resolves; a call that rejects leaves nothing; and nothing that took     *)
(* effect is undone.                                                       *)
(***************************************************************************)
CONSTANT Calls

VARIABLES committed, \* the rows that are there for everyone
          outcome    \* outcome[c]: how call c ended, "pending" as long as it has not

storeVars == <<committed, outcome>>

StoreInit ==
    /\ committed = {}
    /\ outcome = [c \in Calls |-> "pending"]

\* A call that is pending ends, and no other does.
Ends(c, how) ==
    /\ outcome[c] = "pending" /\ outcome'[c] = how
    /\ \A d \in Calls \ {c} : outcome'[d] = outcome[d]

Resolve(c) == Ends(c, "resolved") /\ committed \subseteq committed'

Reject(c) == Ends(c, "rejected") /\ UNCHANGED committed

StoreNext == \E c \in Calls : Resolve(c) \/ Reject(c)

StoreSpec == StoreInit /\ [][StoreNext]_storeVars
=============================================================================
