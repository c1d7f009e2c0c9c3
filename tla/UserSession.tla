---------------------------- MODULE UserSession ----------------------------
(***************************************************************************)
(* UserSessionService: the session the TypeScript services trust, kept in  *)
(* memory beside the one the native side keeps.  Each operation is a call  *)
(* that suspends at every await; calls overlap.                            *)
(*                                                                         *)
(* Native authentication (credentials, lockout) is external: it succeeds   *)
(* or fails.  Accounts and devices change status at any time.              *)
(***************************************************************************)
EXTENDS Naturals

CONSTANTS Accounts, None, Calls

ASSUME NoneAssumption == None \notin Accounts \cup [id : Nat, user : Accounts]

VARIABLES native,        \* the native session store: an account or None
          session,       \* currentSession: [id, user] or None
          nextId,        \* session ids given out
          active,        \* accounts whose core_users row is ACTIVE
          deviceStatus,  \* core_devices.status of this device
          calls          \* per call: operation, where it waits, what it read

sessionVars == <<native, session, nextId, active, deviceStatus, calls>>

NoCall == [op |-> "none", pc |-> "idle", view |-> None, held |-> None]
SignInStatus == {"APPROVED", "ACTIVE"}
EndedStatus == {"SUSPENDED", "REVOKED"}

SessionInit ==
    /\ native \in Accounts \cup {None}
    /\ session = None
    /\ nextId = 0
    /\ active \in {Accounts, Accounts \ {native}}
    /\ deviceStatus = "ACTIVE"
    /\ calls = [c \in Calls |-> NoCall]

Waits(c, pc) == calls[c].pc = pc
Goto(c, pc) == calls' = [calls EXCEPT ![c].pc = pc]
Finish(c, result) == Goto(c, result)
InvalidateSession == session' = None

\* Throws after clearing the session.
Refuse(c) == InvalidateSession /\ Finish(c, "failed")
Environment == <<active, deviceStatus>>

CallAuthenticate(c, user) ==
    /\ Waits(c, "idle")
    /\ calls' = [calls EXCEPT ![c] = [NoCall EXCEPT !.op = "authenticate", !.pc = "native", !.view = user]]
    /\ UNCHANGED <<native, session, nextId, Environment>>

NativeAccepts(c) ==
    /\ Waits(c, "native")
    /\ native' = calls[c].view
    /\ Goto(c, "user")
    /\ UNCHANGED <<session, nextId, Environment>>

NativeRejects(c) ==
    /\ Waits(c, "native")
    /\ Refuse(c)
    /\ UNCHANGED <<native, nextId, Environment>>

BeginRestore(c) ==
    calls' = [calls EXCEPT ![c] = [NoCall EXCEPT !.op = "restore", !.pc = "view"]]

CallRestore(c) ==
    /\ Waits(c, "idle")
    /\ BeginRestore(c)
    /\ UNCHANGED <<native, session, nextId, Environment>>

\* getCurrentSession answers; no native session ends the platform's as well,
\* and the call returns null.
ReadNativeSession(c) ==
    /\ Waits(c, "view")
    /\ IF native = None
       THEN InvalidateSession /\ Finish(c, "done")
       ELSE /\ calls' = [calls EXCEPT ![c].pc = "user", ![c].view = native]
            /\ UNCHANGED session
    /\ UNCHANGED <<native, nextId, Environment>>

\* establishFromNativeSession: the user, the device, then the roles are read,
\* each by its own query, and the session is assigned last.
CheckUser(c) ==
    /\ Waits(c, "user")
    /\ IF calls[c].view \in active THEN Goto(c, "device") /\ UNCHANGED session ELSE Refuse(c)
    /\ UNCHANGED <<native, nextId, Environment>>

CheckDevice(c) ==
    /\ Waits(c, "device")
    /\ IF deviceStatus \in SignInStatus THEN Goto(c, "roles") /\ UNCHANGED session ELSE Refuse(c)
    /\ UNCHANGED <<native, nextId, Environment>>

Establish(c) ==
    /\ Waits(c, "roles")
    /\ session' = [id |-> nextId, user |-> calls[c].view]
    /\ nextId' = nextId + 1
    /\ Finish(c, "done")
    /\ UNCHANGED <<native, Environment>>

\* A bridge call or a query rejects: the error passes to the caller.
ReadFails(c) ==
    /\ calls[c].pc \in {"view", "user", "device", "roles", "status"}
    /\ Finish(c, "failed")
    /\ UNCHANGED <<native, session, nextId, Environment>>

CallLogout(c) ==
    /\ Waits(c, "idle")
    /\ calls' = [calls EXCEPT ![c] = [NoCall EXCEPT !.op = "logout", !.pc = "signout"]]
    /\ UNCHANGED <<native, session, nextId, Environment>>

NativeLogout(c) ==
    /\ Waits(c, "signout")
    /\ \/ native' = None /\ Goto(c, "clear")
       \/ UNCHANGED native /\ Finish(c, "failed")
    /\ UNCHANGED <<session, nextId, Environment>>

ClearSession(c) ==
    /\ Waits(c, "clear")
    /\ InvalidateSession
    /\ Finish(c, "done")
    /\ UNCHANGED <<native, nextId, Environment>>

CallValidate(c) ==
    /\ Waits(c, "idle")
    /\ session /= None
    /\ calls' = [calls EXCEPT ![c] = [NoCall EXCEPT !.op = "validate", !.pc = "status", !.held = session]]
    /\ UNCHANGED <<native, session, nextId, Environment>>

\* The device row is read; what it said is used in the next step.
ReadStatus(c) ==
    /\ Waits(c, "status")
    /\ calls' = [calls EXCEPT ![c].pc = "decide", ![c].view = deviceStatus]
    /\ UNCHANGED <<native, session, nextId, Environment>>

\* (Comparing the user only.)
SameUser(c) == session /= None /\ session.user = calls[c].held.user

Unchanged(c) == session = calls[c].held

ValidateReturns(c) ==
    /\ Waits(c, "decide")
    /\ IF ~Unchanged(c) THEN Finish(c, "failed") /\ UNCHANGED session
       ELSE IF calls[c].view \in EndedStatus THEN Refuse(c)
       ELSE Finish(c, "done") /\ UNCHANGED session
    /\ UNCHANGED <<native, nextId, Environment>>

\* IdentityAdminRepository.setDeviceStatus, and native user administration.
StatusChanges ==
    /\ \/ deviceStatus' \in {"ACTIVE", "REVOKED"} \ {deviceStatus} /\ UNCHANGED active
       \/ \E u \in active : active' = active \ {u} /\ UNCHANGED deviceStatus
    /\ UNCHANGED <<native, session, nextId, calls>>

Step(c) ==
    \/ NativeAccepts(c) \/ NativeRejects(c) \/ ReadNativeSession(c)
    \/ CheckUser(c) \/ CheckDevice(c) \/ Establish(c) \/ ReadFails(c)
    \/ NativeLogout(c) \/ ClearSession(c)
    \/ ReadStatus(c) \/ ValidateReturns(c)

SessionNext ==
    \/ \E c \in Calls :
        \/ \E u \in Accounts : CallAuthenticate(c, u)
        \/ CallRestore(c) \/ CallLogout(c) \/ CallValidate(c)
        \/ Step(c)
    \/ StatusChanges

SessionSpec == SessionInit /\ [][SessionNext]_sessionVars

----------------------------------------------------------------------------
SessionTypeOK ==
    /\ native \in Accounts \cup {None}
    /\ session \in [id : Nat, user : Accounts] \cup {None}
    /\ nextId \in Nat
    /\ active \subseteq Accounts
    /\ deviceStatus \in {"ACTIVE", "REVOKED"}

\* validateCurrentSession answers for the session that is current when it
\* answers, never for one replaced or ended while the device row was read: not
\* even by another session of the same user.
ContextIsCurrent ==
    [][\A c \in Calls :
          calls[c].op = "validate" /\ calls'[c].pc = "done" /\ calls[c].pc /= "done"
            => session' = calls[c].held /\ session' /= None]_sessionVars
============================================================================
