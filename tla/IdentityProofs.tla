--------------------------- MODULE IdentityProofs ---------------------------
(***************************************************************************)
(* Proofs about sessions, permissions and the device key: for every number *)
(* of calls, logins, users and starting processes, every limit and lockout.*)
(***************************************************************************)
EXTENDS Authorization, AppSession, NativeSession, DeviceKey, FiniteSetTheorems, TLAPS

-----------------------------------------------------------------------------
(* The session of the TypeScript services. *)

SessionValues == [id : Nat, user : Accounts] \cup {None}
SignInPlaces == {"native", "user", "device", "roles"}
Call == [op : {"none", "authenticate", "restore", "logout", "validate"},
         pc : {"idle", "view", "signout", "clear", "status", "decide", "done", "failed"}
              \cup SignInPlaces,
         view : Accounts \cup {None, "ACTIVE", "REVOKED"}, held : SessionValues]

\* Where a call can be: only a validation has the places of one, and it holds a
\* session.
PlaceInv(c) ==
    /\ calls[c].op = "validate" => /\ calls[c].pc \in {"status", "decide", "done", "failed"}
                                   /\ calls[c].held /= None
    /\ calls[c].pc \in SignInPlaces => calls[c].view \in Accounts

SessionInv ==
    /\ SessionTypeOK
    /\ calls \in [Calls -> Call]
    /\ \A c \in Calls : PlaceInv(c)

\* A step of call c that leaves the others where they are.
StepOf(c) ==
    /\ calls'[c] \in Call /\ PlaceInv(c)'
    /\ calls' = [calls EXCEPT ![c] = calls'[c]]

LEMMA SessionInitially == SessionInit => SessionInv
<1> SUFFICES ASSUME SessionInit PROVE SessionInv  OBVIOUS
<1>1. NoCall \in Call /\ NoCall.op = "none" /\ NoCall.pc = "idle"
  BY DEF NoCall, Call, SessionValues
<1>2. calls = [c \in Calls |-> NoCall]  BY DEF SessionInit
<1>3. \A c \in Calls : PlaceInv(c)
  BY <1>1, <1>2 DEF PlaceInv, SignInPlaces
<1> QED BY <1>1, <1>2, <1>3 DEF SessionInit, SessionInv, SessionTypeOK

LEMMA OthersStand ==
    ASSUME SessionInv, NEW c \in Calls, StepOf(c)
    PROVE  calls' \in [Calls -> Call] /\ \A q \in Calls : PlaceInv(q)'
<1>1. calls \in [Calls -> Call]  BY DEF SessionInv
<1>2. \A q \in Calls \ {c} : calls'[q] = calls[q]  BY <1>1 DEF StepOf
<1>3. \A q \in Calls \ {c} : PlaceInv(q)'  BY <1>2 DEF SessionInv, PlaceInv
<1> QED BY <1>1, <1>3 DEF StepOf

\* A call goes to a place that is not one of signing in, unless it comes from one.
LEMMA Moved ==
    ASSUME SessionInv, NEW c \in Calls,
           NEW pc \in {"clear", "status", "decide", "done", "failed"} \cup SignInPlaces,
           Goto(c, pc),
           pc \in SignInPlaces => calls[c].pc \in SignInPlaces,
           calls[c].op = "validate" => pc \in {"status", "decide", "done", "failed"}
    PROVE  StepOf(c) /\ calls'[c].pc = pc
<1>1. calls \in [Calls -> Call] /\ calls[c] \in Call  BY DEF SessionInv
<1>2. calls' = [calls EXCEPT ![c] = [calls[c] EXCEPT !.pc = pc]]  BY DEF Goto
<1> DEFINE new == [calls[c] EXCEPT !.pc = pc]
<1>3. /\ new \in Call /\ new.pc = pc /\ new.op = calls[c].op
      /\ new.view = calls[c].view /\ new.held = calls[c].held
  BY <1>1 DEF Call, SignInPlaces
<1> HIDE DEF new
<1>4. calls'[c] = new /\ calls' = [calls EXCEPT ![c] = new]  BY <1>1, <1>2 DEF new
<1>5. PlaceInv(c)  BY DEF SessionInv
<1> QED BY <1>3, <1>4, <1>5 DEF StepOf, PlaceInv

\* A call that begins.
LEMMA CallBegan ==
    ASSUME SessionInv, NEW c \in Calls, NEW new \in Call,
           calls' = [calls EXCEPT ![c] = new],
           new.op = "validate" => new.pc = "status" /\ new.held /= None,
           new.pc \in SignInPlaces => new.view \in Accounts
    PROVE  StepOf(c)
<1>1. calls'[c] = new  BY DEF SessionInv
<1> QED BY <1>1 DEF StepOf, PlaceInv

\* The rest of the state, after a step of a call.
LEMMA SessionKept ==
    ASSUME SessionInv, NEW c \in Calls, StepOf(c),
           native' \in Accounts \cup {None}, session' \in SessionValues, nextId' \in Nat,
           UNCHANGED <<active, deviceStatus>>
    PROVE  SessionInv'
BY OthersStand DEF SessionInv, SessionTypeOK, SessionValues

LEMMA SessionStepOf ==
    ASSUME SessionInv, NEW c \in Calls,
           Step(c) \/ CallRestore(c) \/ CallLogout(c) \/ CallValidate(c)
             \/ \E u \in Accounts : CallAuthenticate(c, u)
    PROVE  /\ StepOf(c)
           /\ native' \in Accounts \cup {None} /\ session' \in SessionValues /\ nextId' \in Nat
           /\ UNCHANGED <<active, deviceStatus>>
<1>0. /\ calls \in [Calls -> Call] /\ calls[c] \in Call /\ PlaceInv(c)
      /\ native \in Accounts \cup {None} /\ session \in SessionValues /\ nextId \in Nat
      /\ None \in SessionValues
  BY DEF SessionInv, SessionTypeOK, SessionValues
<1>1. NoCall \in Call  BY DEF NoCall, Call, SessionValues
<1>2. CASE \E u \in Accounts : CallAuthenticate(c, u)
  <2>1. PICK u \in Accounts : CallAuthenticate(c, u)  BY <1>2
  <2> DEFINE new == [NoCall EXCEPT !.op = "authenticate", !.pc = "native", !.view = u]
  <2>2. /\ new \in Call /\ new.op = "authenticate" /\ new.view = u
    BY DEF NoCall, Call, SessionValues, SignInPlaces
  <2>3. calls' = [calls EXCEPT ![c] = new]  BY <2>1 DEF CallAuthenticate
  <2> HIDE DEF new
  <2>4. StepOf(c)  BY <2>2, <2>3, CallBegan
  <2> QED BY <1>0, <2>1, <2>4 DEF CallAuthenticate, Environment
<1>3. CASE CallRestore(c)
  <2> DEFINE new == [NoCall EXCEPT !.op = "restore", !.pc = "view"]
  <2>2. /\ new \in Call /\ new.op = "restore" /\ new.pc = "view"
    BY DEF NoCall, Call, SessionValues, SignInPlaces
  <2>3. calls' = [calls EXCEPT ![c] = new]  BY <1>3 DEF CallRestore, BeginRestore
  <2> HIDE DEF new
  <2>4. StepOf(c)  BY <2>2, <2>3, CallBegan DEF SignInPlaces
  <2> QED BY <1>0, <1>3, <2>4 DEF CallRestore, Environment
<1>4. CASE CallLogout(c)
  <2> DEFINE new == [NoCall EXCEPT !.op = "logout", !.pc = "signout"]
  <2>2. /\ new \in Call /\ new.op = "logout" /\ new.pc = "signout"
    BY DEF NoCall, Call, SessionValues, SignInPlaces
  <2>3. calls' = [calls EXCEPT ![c] = new]  BY <1>4 DEF CallLogout
  <2> HIDE DEF new
  <2>4. StepOf(c)  BY <2>2, <2>3, CallBegan DEF SignInPlaces
  <2> QED BY <1>0, <1>4, <2>4 DEF CallLogout, Environment
<1>5. CASE CallValidate(c)
  <2> DEFINE new == [NoCall EXCEPT !.op = "validate", !.pc = "status", !.held = session]
  <2>2. /\ new \in Call /\ new.pc = "status" /\ new.held = session
    BY <1>0 DEF NoCall, Call, SignInPlaces
  <2>3. calls' = [calls EXCEPT ![c] = new] /\ session /= None  BY <1>5 DEF CallValidate
  <2> HIDE DEF new
  <2>4. StepOf(c)  BY <2>2, <2>3, CallBegan DEF SignInPlaces
  <2> QED BY <1>0, <1>5, <2>4 DEF CallValidate, Environment
<1>6. CASE ReadNativeSession(c) /\ native /= None
  <2> DEFINE new == [calls[c] EXCEPT !.pc = "user", !.view = native]
  <2>1. /\ new \in Call /\ new.op = calls[c].op /\ new.view = native /\ native \in Accounts
    BY <1>0, <1>6 DEF Call, SignInPlaces
  <2>2. calls' = [calls EXCEPT ![c] = new] /\ calls[c].pc = "view"
    BY <1>0, <1>6 DEF ReadNativeSession, Waits
  <2>3. calls[c].op /= "validate"  BY <1>0, <2>2 DEF PlaceInv
  <2> HIDE DEF new
  <2>4. StepOf(c)  BY <2>1, <2>2, <2>3, CallBegan
  <2> QED BY <1>0, <1>6, <2>4 DEF ReadNativeSession, Environment
<1>7. CASE ReadStatus(c)
  <2> DEFINE new == [calls[c] EXCEPT !.pc = "decide", !.view = deviceStatus]
  <2>0. deviceStatus \in {"ACTIVE", "REVOKED"}  BY DEF SessionInv, SessionTypeOK
  <2>1. /\ new \in Call /\ new.op = calls[c].op /\ new.pc = "decide"
        /\ new.held = calls[c].held
    BY <1>0, <2>0 DEF Call, SignInPlaces
  <2>2. calls' = [calls EXCEPT ![c] = new]
    BY <1>0, <1>7 DEF ReadStatus
  <2> HIDE DEF new
  <2>3. calls'[c] = new  BY <1>0, <2>2
  <2>4. StepOf(c)  BY <1>0, <2>1, <2>2, <2>3 DEF StepOf, PlaceInv, SignInPlaces
  <2> QED BY <1>0, <1>7, <2>4 DEF ReadStatus, Environment
<1>8. ASSUME NEW from \in {"native", "view", "user", "device", "roles", "signout", "clear",
                           "status", "decide"},
             NEW to \in {"user", "device", "roles", "clear", "done", "failed"},
             Waits(c, from), Goto(c, to),
             to \in SignInPlaces => from \in SignInPlaces,
             to = "clear" => from = "signout"
      PROVE  StepOf(c)
  <2>1. calls[c].op = "validate" => from \in {"status", "decide"}
    BY <1>0, <1>8 DEF PlaceInv, Waits
  <2>2. to \in {"user", "device", "roles", "clear"} => calls[c].op /= "validate"
    BY <1>8, <2>1 DEF SignInPlaces
  <2> QED BY <1>8, <2>2, Moved DEF Waits, SignInPlaces
<1>9. CASE NativeAccepts(c)
  <2>1. calls[c].view \in Accounts
    BY <1>0, <1>9 DEF NativeAccepts, Waits, PlaceInv, SignInPlaces
  <2>2. StepOf(c)  BY <1>8, <1>9 DEF NativeAccepts, SignInPlaces
  <2> QED BY <1>0, <1>9, <2>1, <2>2 DEF NativeAccepts, Environment
<1>10. CASE NativeRejects(c)
  <2>1. StepOf(c)
    BY <1>8, <1>10 DEF NativeRejects, Refuse, Finish, SignInPlaces
  <2> QED BY <1>0, <1>10, <2>1 DEF NativeRejects, Refuse, InvalidateSession, Environment
<1>11. CASE ReadNativeSession(c) /\ native = None
  <2>1. StepOf(c)  BY <1>8, <1>11 DEF ReadNativeSession, Finish, SignInPlaces
  <2> QED BY <1>0, <1>11, <2>1 DEF ReadNativeSession, InvalidateSession, Environment
<1>12. CASE CheckUser(c)
  <2>1. StepOf(c)  BY <1>8, <1>12 DEF CheckUser, Refuse, Finish, SignInPlaces
  <2> QED BY <1>0, <1>12, <2>1 DEF CheckUser, Refuse, InvalidateSession, Environment
<1>13. CASE CheckDevice(c)
  <2>1. StepOf(c)  BY <1>8, <1>13 DEF CheckDevice, Refuse, Finish, SignInPlaces
  <2> QED BY <1>0, <1>13, <2>1 DEF CheckDevice, Refuse, InvalidateSession, Environment
<1>14. CASE Establish(c)
  <2>1. StepOf(c)  BY <1>8, <1>14 DEF Establish, Finish, SignInPlaces
  <2>2. calls[c].view \in Accounts
    BY <1>0, <1>14 DEF Establish, Waits, PlaceInv, SignInPlaces
  <2>3. [id |-> nextId, user |-> calls[c].view] \in SessionValues
    BY <1>0, <2>2 DEF SessionValues
  <2> QED BY <1>0, <1>14, <2>1, <2>3 DEF Establish, Environment
<1>15. CASE ReadFails(c)
  <2>1. StepOf(c)  BY <1>8, <1>15 DEF ReadFails, Waits, Finish, SignInPlaces
  <2> QED BY <1>0, <1>15, <2>1 DEF ReadFails, Environment
<1>16. CASE NativeLogout(c)
  <2>1. StepOf(c)  BY <1>8, <1>16 DEF NativeLogout, Finish, SignInPlaces
  <2> QED BY <1>0, <1>16, <2>1 DEF NativeLogout, Environment
<1>17. CASE ClearSession(c)
  <2>1. StepOf(c)  BY <1>8, <1>17 DEF ClearSession, Finish, SignInPlaces
  <2> QED BY <1>0, <1>17, <2>1 DEF ClearSession, InvalidateSession, Environment
<1>18. CASE ValidateReturns(c)
  <2>1. StepOf(c)
    BY <1>8, <1>18 DEF ValidateReturns, Refuse, Finish, SignInPlaces
  <2> QED BY <1>0, <1>18, <2>1 DEF ValidateReturns, Refuse, InvalidateSession, Environment
<1> QED
  BY <1>2, <1>3, <1>4, <1>5, <1>6, <1>7, <1>9, <1>10, <1>11, <1>12, <1>13, <1>14, <1>15,
     <1>16, <1>17, <1>18 DEF Step

LEMMA SessionStep == SessionInv /\ [SessionNext]_sessionVars => SessionInv'
<1> SUFFICES ASSUME SessionInv, [SessionNext]_sessionVars PROVE SessionInv'  OBVIOUS
<1>1. CASE UNCHANGED sessionVars
  BY <1>1 DEF sessionVars, SessionInv, SessionTypeOK, PlaceInv
<1>2. ASSUME NEW c \in Calls,
             Step(c) \/ CallRestore(c) \/ CallLogout(c) \/ CallValidate(c)
               \/ \E u \in Accounts : CallAuthenticate(c, u)
      PROVE  SessionInv'
  BY <1>2, SessionStepOf, SessionKept
<1>3. CASE StatusChanges
  <2>1. active' \subseteq Accounts /\ deviceStatus' \in {"ACTIVE", "REVOKED"}
    BY <1>3 DEF StatusChanges, SessionInv, SessionTypeOK
  <2>2. UNCHANGED <<native, session, nextId, calls>>  BY <1>3 DEF StatusChanges
  <2> QED BY <2>1, <2>2 DEF SessionInv, SessionTypeOK, PlaceInv
<1> QED BY <1>1, <1>2, <1>3 DEF SessionNext

\* The only step by which a validation succeeds.
ValidationAnswers ==
    \A c \in Calls :
        calls[c].op = "validate" /\ calls'[c].pc = "done" /\ calls[c].pc /= "done"
          => session' = calls[c].held /\ session' /= None

LEMMA AnswersForCurrent == SessionInv /\ [SessionNext]_sessionVars => ValidationAnswers
<1> SUFFICES ASSUME SessionInv, [SessionNext]_sessionVars, NEW c \in Calls,
                    calls[c].op = "validate", calls'[c].pc = "done", calls[c].pc /= "done"
             PROVE  session' = calls[c].held /\ session' /= None
  BY DEF ValidationAnswers
<1>1. PlaceInv(c) /\ calls \in [Calls -> Call]  BY DEF SessionInv
<1>2. calls[c].pc \in {"status", "decide", "failed"}  BY <1>1 DEF PlaceInv
<1>3. PICK q \in Calls :
        Step(q) \/ CallRestore(q) \/ CallLogout(q) \/ CallValidate(q)
          \/ \E u \in Accounts : CallAuthenticate(q, u)
  BY DEF SessionNext, StatusChanges, sessionVars
<1>4. q = c
  <2>1. calls' = [calls EXCEPT ![q] = calls'[q]]  BY <1>3, SessionStepOf DEF StepOf
  <2> QED BY <1>1, <2>1
<1>5. ReadStatus(c) \/ ReadFails(c) \/ ValidateReturns(c)
  BY <1>2, <1>3, <1>4
     DEF Step, Waits, CallRestore, CallLogout, CallValidate, CallAuthenticate, NativeAccepts,
         NativeRejects, ReadNativeSession, CheckUser, CheckDevice, Establish, NativeLogout,
         ClearSession
<1>6. calls[c] \in Call  BY <1>1
<1>7. \A pc \in {"done", "failed", "decide"} : Goto(c, pc) => calls'[c].pc = pc
  BY <1>1, <1>6 DEF Goto, Call
<1>8. ~ReadFails(c)  BY <1>7 DEF ReadFails, Finish
<1>9. ~ReadStatus(c)
  BY <1>1, <1>6 DEF ReadStatus, Call
<1>10. Unchanged(c) /\ UNCHANGED session
  BY <1>5, <1>7, <1>8, <1>9 DEF ValidateReturns, Refuse, Finish
<1>11. calls[c].held /= None  BY <1>1 DEF PlaceInv
<1> QED BY <1>10, <1>11 DEF Unchanged

\* However calls of UserSessionService overlap and fail, a validation that returns
\* a context returns that of the session that is current then
\* (validateCurrentSession).
THEOREM ContextAlwaysCurrent == SessionSpec => ContextIsCurrent
<1>1. SessionInit => SessionInv  BY SessionInitially
<1>2. SessionInv /\ [SessionNext]_sessionVars => SessionInv'  BY SessionStep
<1>3. SessionInv /\ [SessionNext]_sessionVars => [ValidationAnswers]_sessionVars
  BY AnswersForCurrent
<1>4. ContextIsCurrent <=> [][ValidationAnswers]_sessionVars
  BY DEF ContextIsCurrent, ValidationAnswers
<1> QED BY <1>1, <1>2, <1>3, <1>4, PTL DEF SessionSpec

-----------------------------------------------------------------------------
(***************************************************************************)
(* The application over it: what its three layers are at each await of     *)
(* init, login and logout.                                                 *)
(***************************************************************************)

StartPlaces == {"idle", "platform", "current", "restoring", "rollback", "transport", "tray",
                "tick", "done", "failed"}

\* The start alone says whether the platform is ready and who listens.
StartInv ==
    /\ initPc \in StartPlaces
    /\ isReady <=> initPc = "done"
    /\ started <=> initPc \notin {"idle", "failed"}
    /\ listeners = IF initPc = "done" THEN {"sync-now-requested", "sync-tick"}
                   ELSE IF initPc = "tick" THEN {"sync-now-requested"} ELSE {}
    /\ initPc /= "done" => loginPc = "idle"

\* Call c restores the session of a user whom the native layer has signed in.
Restores(c, user) ==
    /\ user \in Accounts /\ native = user
    /\ calls[c].pc \in {"view", "user", "device", "roles", "done", "failed"}
    /\ calls[c].pc \in {"user", "device", "roles"} => calls[c].view = user
    /\ IF calls[c].pc = "done" THEN session /= None /\ session.user = user ELSE session = None

SignedIn(user) == session /= None /\ session.user = user /\ native = user

NoLogout == \A k \in Clicks : logoutPc[k] = "idle"

\* During the start only init acts on the session.
InitInv ==
    /\ initPc \notin {"done", "failed"} => NoLogout
    /\ initPc \in {"idle", "platform", "current", "rollback"} => ui = None /\ session = None
    /\ initPc = "restoring" => ui = None /\ Restores("init", initView)
    /\ initPc \in {"transport", "tray", "tick"} =>
          IF ui = None THEN session = None ELSE SignedIn(ui)
    /\ initPc /= "restoring" => calls["init"].pc = "idle"

\* After it a login, for which no logout is under way, or logouts.
LoginInv ==
    /\ loginPc \in {"idle", "native", "restoring", "identity", "rollback"}
    /\ loginPc /= "idle" => ui = None /\ NoLogout
    /\ loginPc \in {"native", "rollback"} => session = None
    /\ loginPc = "restoring" => Restores("login", loginUser)
    /\ loginPc = "identity" => SignedIn(loginUser)
    /\ loginPc /= "restoring" => calls["login"].pc = "idle"

\* A native logout that succeeded goes on to end the others; after a start that
\* failed there is no platform session to end.
LogoutPlaces ==
    IF initPc = "failed" THEN {"idle", "native, no platform", "finish, no platform"}
    ELSE {"idle", "native", "finish"}

LogoutInv ==
    /\ logoutPc \in [Clicks -> LogoutPlaces]
    /\ initPc = "failed" =>
          /\ session = None
          /\ ui = None \/ native = ui \/ \E k \in Clicks : logoutPc[k] = "finish, no platform"
    /\ initPc = "done" /\ loginPc = "idle" =>
          IF ui = None THEN session = None
          ELSE SignedIn(ui) \/ \E k \in Clicks : logoutPc[k] = "finish"

AppInv ==
    /\ SessionInv
    /\ StartInv
    /\ loginPc /= "idle" => loginUser \in Accounts
    /\ ~raced => InitInv /\ LoginInv /\ LogoutInv

LEMMA AppInitially == AppInit => AppInv
<1> SUFFICES ASSUME AppInit PROVE AppInv  OBVIOUS
<1>1. SessionInv  BY SessionInitially DEF AppInit
<1>2. calls["init"].pc = "idle" /\ calls["login"].pc = "idle" /\ session = None
  BY AppCallsAssumption DEF AppInit, SessionInit, NoCall
<1>3. InitInv /\ LoginInv /\ LogoutInv  BY <1>2 DEF AppInit, InitInv, LoginInv, LogoutInv, LogoutPlaces, NoLogout
<1> QED  BY <1>1, <1>3 DEF AppInit, AppInv, StartInv, StartPlaces

\* The services stay typed when no call moves, and when one begins or is cleared.
LEMMA LayersChange ==
    ASSUME SessionInv, UNCHANGED <<nextId, Environment, calls>>,
           native' \in Accounts \cup {None}, session' \in {session, None}
    PROVE  SessionInv'
BY DEF SessionInv, SessionTypeOK, PlaceInv, Environment

LEMMA CallCleared ==
    ASSUME SessionInv, UNCHANGED <<native, session, nextId, Environment>>,
           NEW c \in Calls, calls' = [calls EXCEPT ![c] = NoCall]
    PROVE  /\ SessionInv' /\ calls'[c].pc = "idle"
           /\ \A b \in Calls \ {c} : calls'[b] = calls[b]
<1>1. NoCall \in Call /\ NoCall.op = "none" /\ NoCall.pc = "idle"
  BY DEF NoCall, Call, SessionValues
<1>2. StepOf(c)  BY <1>1, CallBegan DEF SignInPlaces
<1>3. SessionInv'
  BY <1>2, SessionKept DEF SessionInv, SessionTypeOK, SessionValues, Environment
<1> QED  BY <1>1, <1>3 DEF SessionInv

LEMMA RestoreBegun ==
    ASSUME SessionInv, UNCHANGED <<session, nextId, Environment>>,
           native' \in Accounts \cup {None}, NEW c \in Calls, BeginRestore(c)
    PROVE  /\ SessionInv' /\ calls'[c].pc = "view"
           /\ \A b \in Calls \ {c} : calls'[b] = calls[b]
<1> DEFINE new == [NoCall EXCEPT !.op = "restore", !.pc = "view"]
<1>1. new \in Call /\ new.op = "restore" /\ new.pc = "view"
  BY DEF NoCall, Call, SessionValues, SignInPlaces
<1>2. calls' = [calls EXCEPT ![c] = new]  BY DEF BeginRestore
<1> HIDE DEF new
<1>3. StepOf(c)  BY <1>1, <1>2, CallBegan DEF SignInPlaces
<1>4. SessionInv'
  BY <1>3, SessionKept DEF SessionInv, SessionTypeOK, SessionValues, Environment
<1> QED  BY <1>1, <1>2, <1>4 DEF SessionInv

LEMMA Names == "init" \in Calls /\ "login" \in Calls /\ "init" /= "login"
BY AppCallsAssumption

\* A start begins; if a logout is under way, all is lost.
LEMMA InitBegins ==
    ASSUME AppInv, StartInit
    PROVE  AppInv'
<1>0. /\ SessionInv /\ StartInv /\ native \in Accounts \cup {None} /\ ui = None
      /\ initPc \in {"idle", "failed"} /\ loginPc = "idle"
  BY DEF AppInv, SessionInv, SessionTypeOK, StartInit, StartInv
<1>1. /\ UNCHANGED <<nextId, Environment, calls, native, ui, isReady, listeners>>
      /\ UNCHANGED <<loginPc, loginUser, logins, logoutPc, initView>>
      /\ started' = TRUE /\ initPc' = "platform" /\ session' = None
  BY DEF StartInit
<1>2. SessionInv'  BY <1>0, <1>1, LayersChange
<1>3. StartInv'  BY <1>0, <1>1 DEF StartInv, StartPlaces
<1>4. ASSUME ~raced' PROVE InitInv' /\ LoginInv' /\ LogoutInv'
  <2>1. ~raced /\ LogoutsUnderWay = {}  BY <1>4 DEF StartInit
  <2>2. InitInv /\ LoginInv /\ LogoutInv  BY <2>1 DEF AppInv
  <2>3. NoLogout  BY <2>1 DEF LogoutsUnderWay, NoLogout
  <2>4. logoutPc \in [Clicks -> {"idle", "native", "finish"}]
    BY <2>2, <2>3 DEF LogoutInv, LogoutPlaces, NoLogout
  <2>5. calls["init"].pc = "idle"  BY <1>0, <2>2 DEF InitInv
  <2>6. InitInv'  BY <1>0, <1>1, <2>3, <2>5 DEF InitInv, NoLogout
  <2>7. LoginInv'  BY <1>0, <1>1, <2>2, <2>3 DEF LoginInv, NoLogout
  <2>8. LogoutInv'  BY <1>1, <2>4 DEF LogoutInv, LogoutPlaces
  <2> QED  BY <2>6, <2>7, <2>8
<1> QED  BY <1>0, <1>1, <1>2, <1>3, <1>4 DEF AppInv

\* Steps of init that move no call.
LEMMA InitMoves ==
    ASSUME AppInv,
           InitFails \/ InitPlatform \/ InitCurrentFails \/ InitRollback
             \/ InitTransport \/ InitListens
    PROVE  AppInv'
<1>0. /\ SessionInv /\ StartInv /\ native \in Accounts \cup {None}
  BY DEF AppInv, SessionInv, SessionTypeOK
<1>1. /\ UNCHANGED <<nextId, Environment, calls>>
      /\ native' \in {native, None} /\ session' \in {session, None}
      /\ UNCHANGED <<loginPc, loginUser, logins, raced, logoutPc, initView>>
  BY DEF InitFails, InitPlatform, InitCurrentFails, InitRollback, InitTransport,
         InitListens, sessionVars, Login0, Environment
<1>2. SessionInv'  BY <1>0, <1>1, LayersChange
<1>3. StartInv'
  BY <1>0, <1>1 DEF InitFails, InitPlatform, InitCurrentFails, InitRollback,
       InitTransport, InitListens, StartInv, StartPlaces, Init0
<1>4. ASSUME ~raced PROVE InitInv' /\ LoginInv' /\ LogoutInv'
  <2>0. InitInv /\ LoginInv /\ LogoutInv  BY <1>4 DEF AppInv
  <2>1. initPc /= "done" /\ loginPc = "idle" /\ NoLogout /\ NoLogout'
        /\ initPc /= "restoring" /\ initPc' /= "restoring" /\ calls["init"].pc = "idle"
    BY <1>0, <1>1, <2>0 DEF StartInv, InitInv, NoLogout, InitFails, InitPlatform,
         InitCurrentFails, InitRollback, InitTransport, InitListens
  <2>2. InitInv'
    <3>2. CASE InitPlatform
      BY <1>1, <2>0, <2>1, <3>2 DEF InitPlatform, InitInv, sessionVars
    <3>3. CASE InitCurrentFails
      BY <1>1, <2>0, <2>1, <3>3 DEF InitCurrentFails, InitInv, sessionVars
    <3>4. CASE InitRollback
      BY <1>1, <2>0, <2>1, <3>4 DEF InitRollback, InitInv, SignedIn
    <3>5. CASE InitFails
      BY <1>1, <2>0, <2>1, <3>5 DEF InitFails, InitInv, SignedIn, sessionVars
    <3>6. CASE InitTransport \/ InitListens
      BY <1>1, <2>0, <2>1, <3>6 DEF InitTransport, InitListens, InitInv, SignedIn, sessionVars
    <3> QED  BY <3>2, <3>3, <3>4, <3>5, <3>6
  <2>3. LoginInv'  BY <1>1, <2>0, <2>1 DEF LoginInv
  <2>4. LogoutInv'
    <3>0. /\ initPc' = "failed" => InitFails
          /\ initPc \in {"idle", "platform", "current", "rollback", "transport", "tray", "tick"}
      BY <1>0 DEF StartPlaces, StartInv, InitFails, InitPlatform, InitCurrentFails, InitRollback,
           InitTransport, InitListens
    <3>1. initPc' = "done" => InitListens /\ initPc = "tick" /\ UNCHANGED <<ui, native, session>>
      BY <1>0 DEF InitFails, InitPlatform, InitCurrentFails, InitRollback,
           InitTransport, InitListens, sessionVars
    <3>2. \A P : logoutPc \in [Clicks -> P] /\ "idle" \in P
            => logoutPc' \in [Clicks -> {"idle", "native", "finish"}]
               /\ logoutPc' \in [Clicks -> {"idle", "native, no platform", "finish, no platform"}]
      BY <1>1, <2>1 DEF NoLogout
    <3>3. logoutPc' \in [Clicks -> LogoutPlaces']
      BY <2>0, <3>2 DEF LogoutInv, LogoutPlaces
    <3>4. InitFails => session' = None /\ UNCHANGED <<native, ui>>
                       /\ (ui = None \/ native = ui)
      BY <2>0 DEF InitFails, InitInv, SignedIn
    <3>5. CASE initPc' = "failed"  BY <3>0, <3>3, <3>4, <3>5 DEF LogoutInv
    <3>6. CASE initPc' = "done"
      BY <1>1, <2>0, <3>1, <3>3, <3>6 DEF LogoutInv, InitInv, SignedIn
    <3>7. CASE initPc' \notin {"failed", "done"}  BY <3>3, <3>7 DEF LogoutInv
    <3> QED  BY <3>5, <3>6, <3>7
  <2> QED  BY <2>2, <2>3, <2>4
<1> QED  BY <1>0, <1>1, <1>2, <1>3, <1>4 DEF AppInv

LEMMA InitReads ==
    ASSUME AppInv, InitCurrentSession
    PROVE  AppInv'
<1>0. /\ SessionInv /\ StartInv /\ native \in Accounts \cup {None}
  BY DEF AppInv, SessionInv, SessionTypeOK
<1>1. /\ UNCHANGED <<native, session, nextId, Environment, ui, isReady, started, listeners>>
      /\ UNCHANGED <<loginPc, loginUser, raced, logoutPc>> /\ initPc = "current"
  BY DEF InitCurrentSession, Init0, Login0
<1>2. CASE native = None
  <2>1. initPc' = "transport" /\ UNCHANGED <<initView, calls>>  BY <1>2 DEF InitCurrentSession
  <2>2. SessionInv'  BY <1>0, <1>1, <2>1, LayersChange
  <2>3. StartInv'  BY <1>0, <1>1, <2>1 DEF StartInv, StartPlaces
  <2>4. ASSUME ~raced PROVE InitInv' /\ LoginInv' /\ LogoutInv'
    <3>1. InitInv /\ LoginInv /\ LogoutInv  BY <2>4 DEF AppInv
    <3>2. InitInv'  BY <1>1, <2>1, <3>1 DEF InitInv, NoLogout
    <3>3. LoginInv'  BY <1>1, <2>1, <3>1 DEF LoginInv, NoLogout, Restores, SignedIn
    <3>4. LogoutInv'  BY <1>1, <2>1, <3>1 DEF LogoutInv, LogoutPlaces
    <3> QED  BY <3>2, <3>3, <3>4
  <2> QED  BY <1>1, <2>2, <2>3, <2>4 DEF AppInv
<1>3. CASE native /= None
  <2>1. initPc' = "restoring" /\ initView' = native /\ BeginRestore("init")
    BY <1>3 DEF InitCurrentSession
  <2>2. SessionInv' /\ calls'["init"].pc = "view" /\ calls'["login"] = calls["login"]
    BY <1>0, <1>1, <2>1, RestoreBegun, Names
  <2>3. StartInv'  BY <1>0, <1>1, <2>1 DEF StartInv, StartPlaces
  <2>4. ASSUME ~raced PROVE InitInv' /\ LoginInv' /\ LogoutInv'
    <3>1. InitInv /\ LoginInv /\ LogoutInv  BY <2>4 DEF AppInv
    <3>2. InitInv'  BY <1>0, <1>1, <1>3, <2>1, <2>2, <3>1 DEF InitInv, NoLogout, Restores
    <3>3. LoginInv'  BY <1>0, <1>1, <2>2, <3>1 DEF LoginInv, NoLogout, StartInv
    <3>4. LogoutInv'  BY <1>1, <2>1, <3>1 DEF LogoutInv, LogoutPlaces
    <3> QED  BY <3>2, <3>3, <3>4
  <2> QED  BY <1>1, <2>2, <2>3, <2>4 DEF AppInv
<1> QED  BY <1>2, <1>3

LEMMA InitAnswered ==
    ASSUME AppInv, InitRestored
    PROVE  AppInv'
<1>0. /\ SessionInv /\ StartInv  BY DEF AppInv
<1>1. /\ UNCHANGED <<native, session, nextId, Environment, isReady, started, listeners, initView>>
      /\ UNCHANGED <<loginPc, loginUser, raced, logoutPc>> /\ initPc = "restoring"
      /\ calls' = [calls EXCEPT !["init"] = NoCall]
      /\ \/ calls["init"].pc = "done" /\ ui' = initView /\ initPc' = "transport"
         \/ calls["init"].pc = "failed" /\ ui' = None /\ initPc' = "rollback"
  BY DEF InitRestored, Init0, Login0
<1>2. SessionInv' /\ calls'["init"].pc = "idle" /\ calls'["login"] = calls["login"]
  BY <1>0, <1>1, CallCleared, Names
<1>3. StartInv'  BY <1>0, <1>1 DEF StartInv, StartPlaces
<1>4. ASSUME ~raced PROVE InitInv' /\ LoginInv' /\ LogoutInv'
  <2>1. InitInv /\ LoginInv /\ LogoutInv  BY <1>4 DEF AppInv
  <2>2. InitInv'
    BY <1>1, <1>2, <2>1, NoneAssumption DEF InitInv, NoLogout, Restores, SignedIn
  <2>3. LoginInv'  BY <1>0, <1>1, <1>2, <2>1 DEF LoginInv, NoLogout, StartInv
  <2>4. LogoutInv'  BY <1>1, <2>1 DEF LogoutInv, LogoutPlaces
  <2> QED  BY <2>2, <2>3, <2>4
<1> QED  BY <1>1, <1>2, <1>3, <1>4 DEF AppInv

\* A step of a restore: it reads the native session it was begun for, goes on with
\* its user, and either ends with a session of that user or leaves none.
LEMMA RestoreMoves ==
    ASSUME SessionInv, NEW c \in Calls, NEW user, Restores(c, user),
           ReadNativeSession(c) \/ CheckUser(c) \/ CheckDevice(c) \/ Establish(c) \/ ReadFails(c)
    PROVE  Restores(c, user)'
<1>0. /\ calls \in [Calls -> Call] /\ calls[c] \in Call
      /\ user \in Accounts /\ native = user /\ None \notin Accounts
      /\ calls[c].pc \in {"view", "user", "device", "roles", "done", "failed"}
      /\ calls[c].pc \in {"user", "device", "roles"} => calls[c].view = user
      /\ IF calls[c].pc = "done" THEN session /= None /\ session.user = user ELSE session = None
  BY NoneAssumption DEF SessionInv, Restores
<1>1. native' = native
  BY DEF ReadNativeSession, CheckUser, CheckDevice, Establish, ReadFails
<1>2. \A pc : Goto(c, pc) => /\ calls'[c].pc = pc /\ calls'[c].view = calls[c].view
  <2> TAKE pc
  <2>1. Goto(c, pc) => calls'[c] = [calls[c] EXCEPT !.pc = pc]  BY <1>0 DEF Goto
  <2> QED  BY <1>0, <2>1 DEF Call
<1>3. CASE ReadNativeSession(c)
  <2>1. calls' = [calls EXCEPT ![c] = [calls[c] EXCEPT !.pc = "user", !.view = native]]
        /\ session' = session /\ calls[c].pc = "view"
    BY <1>0, <1>3 DEF ReadNativeSession, Waits
  <2>2. calls'[c].pc = "user" /\ calls'[c].view = native
    BY <1>0, <2>1 DEF Call
  <2> QED  BY <1>0, <1>1, <2>1, <2>2 DEF Restores
<1>4. CASE CheckUser(c)
  BY <1>0, <1>1, <1>2, <1>4 DEF CheckUser, Refuse, InvalidateSession, Finish, Waits, Restores
<1>5. CASE CheckDevice(c)
  BY <1>0, <1>1, <1>2, <1>5 DEF CheckDevice, Refuse, InvalidateSession, Finish, Waits, Restores
<1>6. CASE Establish(c)
  <2>1. session' = [id |-> nextId, user |-> user] /\ calls'[c].pc = "done"
    BY <1>0, <1>2, <1>6 DEF Establish, Finish, Waits
  <2>2. session' /= None
    <3>1. nextId \in Nat /\ session' \in [id : Nat, user : Accounts]
      BY <1>0, <2>1 DEF SessionInv, SessionTypeOK
    <3> QED  BY <3>1, NoneAssumption
  <2> QED  BY <1>0, <1>1, <2>1, <2>2 DEF Restores
<1>7. CASE ReadFails(c)
  BY <1>0, <1>1, <1>2, <1>7 DEF ReadFails, Finish, Restores
<1> QED  BY <1>3, <1>4, <1>5, <1>6, <1>7

LEMMA RestoreSteps ==
    ASSUME AppInv, NEW c \in {"init", "login"}, RestoreStep(c)
    PROVE  AppInv'
<1>0. SessionInv /\ StartInv /\ c \in Calls /\ calls \in [Calls -> Call]
  BY Names DEF AppInv, SessionInv
<1>1. ReadNativeSession(c) \/ CheckUser(c) \/ CheckDevice(c) \/ Establish(c) \/ ReadFails(c)
  BY DEF RestoreStep
<1>2. /\ UNCHANGED appVars /\ native' = native /\ calls[c].pc /= "idle"
  BY <1>1 DEF RestoreStep, ReadNativeSession, CheckUser, CheckDevice, Establish, ReadFails, Waits
<1>3. StepOf(c) /\ SessionInv'
  <2>1. Step(c)  BY <1>1 DEF Step
  <2> QED  BY <1>0, <2>1, SessionStepOf, SessionKept
<1>4. \A b \in Calls \ {c} : calls'[b] = calls[b]  BY <1>0, <1>3 DEF StepOf
<1>5. StartInv'  BY <1>0, <1>2 DEF StartInv, appVars
<1>6. ASSUME ~raced PROVE InitInv' /\ LoginInv' /\ LogoutInv'
  <2>0. InitInv /\ LoginInv /\ LogoutInv  BY <1>6 DEF AppInv
  <2>1. CASE c = "init"
    <3>1. initPc = "restoring" /\ Restores("init", initView)  BY <1>2, <2>0, <2>1 DEF InitInv
    <3>2. Restores("init", initView)'
      <4>1. Restores(c, initView)'  BY <1>0, <1>1, <1>2, <2>1, <3>1, RestoreMoves DEF appVars
      <4> QED  BY <2>1, <4>1
    <3>3. loginPc = "idle" /\ calls'["login"] = calls["login"]
      BY <1>0, <1>4, <2>1, <3>1, Names DEF StartInv
    <3>4. InitInv'  BY <1>2, <2>0, <3>1, <3>2 DEF InitInv, NoLogout, appVars
    <3>5. LoginInv'  BY <1>2, <2>0, <3>3 DEF LoginInv, appVars
    <3>6. LogoutInv'  BY <1>2, <2>0, <3>1, <3>3 DEF LogoutInv, LogoutPlaces, appVars
    <3> QED  BY <3>4, <3>5, <3>6
  <2>2. CASE c = "login"
    <3>1. loginPc = "restoring" /\ Restores("login", loginUser)  BY <1>2, <2>0, <2>2 DEF LoginInv
    <3>2. Restores("login", loginUser)'
      <4>1. Restores(c, loginUser)'  BY <1>0, <1>1, <1>2, <2>2, <3>1, RestoreMoves DEF appVars
      <4> QED  BY <2>2, <4>1
    <3>3. initPc = "done" /\ calls'["init"] = calls["init"]
      BY <1>0, <1>4, <2>2, <3>1, Names DEF StartInv
    <3>4. InitInv'  BY <1>2, <2>0, <3>3 DEF InitInv, appVars
    <3>5. LoginInv'  BY <1>2, <2>0, <3>1, <3>2 DEF LoginInv, NoLogout, appVars
    <3>6. LogoutInv'  BY <1>2, <2>0, <3>1, <3>3 DEF LogoutInv, LogoutPlaces, appVars
    <3> QED  BY <3>4, <3>5, <3>6
  <2> QED  BY <2>1, <2>2
<1> QED  BY <1>2, <1>3, <1>5, <1>6 DEF AppInv, appVars

\* What the logins and logouts leave of the start.
LEMMA StartStands ==
    ASSUME StartInv, UNCHANGED <<initPc, isReady, started, listeners>>,
           loginPc' = "idle" \/ initPc = "done"
    PROVE  StartInv'
BY DEF StartInv

LEMMA LoginBegins ==
    ASSUME AppInv, NEW user \in Accounts, SubmitLogin(user)
    PROVE  AppInv'
<1>0. SessionInv /\ StartInv /\ initPc = "done"  BY DEF AppInv, StartInv, SubmitLogin
<1>1. /\ UNCHANGED <<native, session, nextId, Environment, calls>>
      /\ UNCHANGED <<ui, isReady, started, listeners, initPc, initView, logoutPc>>
      /\ loginPc = "idle" /\ loginPc' = "native" /\ loginUser' = user /\ ui = None
      /\ raced' = (raced \/ LogoutsUnderWay /= {})
  BY DEF SubmitLogin, sessionVars, Init0, Environment
<1>2. SessionInv'  BY <1>0, <1>1 DEF SessionInv, SessionTypeOK, PlaceInv, Environment
<1>3. StartInv'  BY <1>0, <1>1, StartStands
<1>4. ASSUME ~raced' PROVE InitInv' /\ LoginInv' /\ LogoutInv'
  <2>0. InitInv /\ LoginInv /\ LogoutInv /\ NoLogout
    <3>1. ~raced /\ LogoutsUnderWay = {}  BY <1>1, <1>4
    <3>2. NoLogout  BY <3>1 DEF LogoutsUnderWay, NoLogout
    <3> QED  BY <3>1, <3>2 DEF AppInv
  <2>1. InitInv'  BY <1>0, <1>1, <2>0 DEF InitInv
  <2>2. LoginInv'  BY <1>0, <1>1, <2>0 DEF LoginInv, LogoutInv, LogoutPlaces, NoLogout
  <2>3. LogoutInv'  BY <1>1, <2>0 DEF LogoutInv, LogoutPlaces
  <2> QED  BY <2>1, <2>2, <2>3
<1> QED  BY <1>1, <1>2, <1>3, <1>4 DEF AppInv

\* A login's own steps, none of which starts or ends a logout.
LEMMA LoginMoves ==
    ASSUME AppInv, LoginNative \/ LoginRestored \/ LoginRollback \/ LoginDone
    PROVE  AppInv'
<1>0. /\ SessionInv /\ StartInv /\ initPc = "done" /\ loginPc /= "idle"
      /\ native \in Accounts \cup {None}
  BY DEF AppInv, StartInv, SessionInv, SessionTypeOK,
         LoginNative, LoginRestored, LoginRollback, LoginDone
<1>1. /\ UNCHANGED <<session, nextId, Environment>>
      /\ UNCHANGED <<isReady, started, listeners, initPc, initView, logoutPc, loginUser, raced>>
  BY DEF LoginNative, LoginRestored, LoginRollback, LoginDone, sessionVars, Init0, Environment
<1>2. StartInv'  BY <1>0, <1>1, StartStands
<1>3. CASE LoginNative /\ loginPc' = "restoring"
  <2>1. native' = loginUser /\ BeginRestore("login") /\ loginPc = "native" /\ ui' = ui
    BY <1>3 DEF LoginNative
  <2>2. /\ SessionInv' /\ calls'["login"].pc = "view"
        /\ calls'["init"] = calls["init"]
    <3>1. loginUser \in Accounts  BY <1>0 DEF AppInv
    <3> QED  BY <1>0, <1>1, <2>1, <3>1, RestoreBegun, Names
  <2>3. ASSUME ~raced PROVE InitInv' /\ LoginInv' /\ LogoutInv'
    <3>0. InitInv /\ LoginInv /\ LogoutInv /\ loginUser \in Accounts
      BY <1>0, <2>3 DEF AppInv
    <3>1. InitInv'  BY <1>0, <1>1, <2>2, <3>0 DEF InitInv
    <3>2. LoginInv'
      BY <1>0, <1>1, <1>3, <2>1, <2>2, <3>0 DEF LoginInv, NoLogout, Restores
    <3>3. LogoutInv'  BY <1>0, <1>1, <1>3, <3>0 DEF LogoutInv, LogoutPlaces
    <3> QED  BY <3>1, <3>2, <3>3
  <2> QED  BY <1>0, <1>1, <1>2, <2>2, <2>3 DEF AppInv
<1>4. CASE LoginNative /\ loginPc' /= "restoring"
  <2>1. loginPc' = "idle" /\ UNCHANGED <<native, calls, ui>> /\ loginPc = "native"
    BY <1>4 DEF LoginNative
  <2>2. SessionInv'  BY <1>0, <1>1, <2>1, LayersChange
  <2>3. ASSUME ~raced PROVE InitInv' /\ LoginInv' /\ LogoutInv'
    <3>0. InitInv /\ LoginInv /\ LogoutInv  BY <2>3 DEF AppInv
    <3>1. InitInv'  BY <1>0, <1>1, <2>1, <3>0 DEF InitInv
    <3>2. LoginInv'  BY <2>1, <3>0 DEF LoginInv
    <3>3. LogoutInv'  BY <1>1, <2>1, <3>0 DEF LogoutInv, LogoutPlaces, LoginInv
    <3> QED  BY <3>1, <3>2, <3>3
  <2> QED  BY <1>1, <1>2, <2>1, <2>2, <2>3 DEF AppInv
<1>5. CASE LoginRestored
  <2>1. /\ loginPc = "restoring" /\ UNCHANGED <<native, ui>>
        /\ calls' = [calls EXCEPT !["login"] = NoCall]
        /\ \/ calls["login"].pc = "done" /\ loginPc' = "identity"
           \/ calls["login"].pc = "failed" /\ loginPc' = "rollback"
    BY <1>5 DEF LoginRestored
  <2>2. SessionInv' /\ calls'["login"].pc = "idle" /\ calls'["init"] = calls["init"]
    BY <1>0, <1>1, <2>1, CallCleared, Names
  <2>3. ASSUME ~raced PROVE InitInv' /\ LoginInv' /\ LogoutInv'
    <3>0. InitInv /\ LoginInv /\ LogoutInv  BY <2>3 DEF AppInv
    <3>1. InitInv'  BY <1>0, <1>1, <2>2, <3>0 DEF InitInv
    <3>2. LoginInv'
      BY <1>1, <2>1, <2>2, <3>0 DEF LoginInv, NoLogout, Restores, SignedIn
    <3>3. LogoutInv'  BY <1>1, <2>1, <3>0 DEF LogoutInv, LogoutPlaces
    <3> QED  BY <3>1, <3>2, <3>3
  <2> QED  BY <1>0, <1>1, <1>2, <2>2, <2>3 DEF AppInv
<1>6. CASE LoginRollback
  <2>1. /\ loginPc = "rollback" /\ loginPc' = "idle" /\ native' \in {None, native}
        /\ UNCHANGED <<calls, ui>>
    BY <1>6 DEF LoginRollback
  <2>2. SessionInv'  BY <1>0, <1>1, <2>1, LayersChange
  <2>3. ASSUME ~raced PROVE InitInv' /\ LoginInv' /\ LogoutInv'
    <3>0. InitInv /\ LoginInv /\ LogoutInv  BY <2>3 DEF AppInv
    <3>1. InitInv'  BY <1>0, <1>1, <2>1, <3>0 DEF InitInv
    <3>2. LoginInv'  BY <2>1, <3>0 DEF LoginInv
    <3>3. LogoutInv'  BY <1>1, <2>1, <3>0 DEF LogoutInv, LogoutPlaces, LoginInv
    <3> QED  BY <3>1, <3>2, <3>3
  <2> QED  BY <1>1, <1>2, <2>1, <2>2, <2>3 DEF AppInv
<1>7. CASE LoginDone
  <2>1. /\ loginPc = "identity" /\ loginPc' = "idle" /\ ui' = loginUser
        /\ UNCHANGED <<native, calls>>
    BY <1>7 DEF LoginDone, sessionVars
  <2>2. SessionInv'  BY <1>0, <1>1, <2>1, LayersChange
  <2>3. ASSUME ~raced PROVE InitInv' /\ LoginInv' /\ LogoutInv'
    <3>0. InitInv /\ LoginInv /\ LogoutInv /\ loginUser \in Accounts
      BY <1>0, <2>3 DEF AppInv
    <3>1. InitInv'  BY <1>0, <1>1, <2>1, <3>0 DEF InitInv
    <3>2. LoginInv'  BY <2>1, <3>0 DEF LoginInv
    <3>3. LogoutInv'
      BY <1>1, <2>1, <3>0, NoneAssumption DEF LogoutInv, LogoutPlaces, LoginInv, SignedIn
    <3> QED  BY <3>1, <3>2, <3>3
  <2> QED  BY <1>1, <1>2, <2>1, <2>2, <2>3 DEF AppInv
<1> QED  BY <1>3, <1>4, <1>5, <1>6, <1>7

\* Logouts, of which none is under way beside a login; after a start that was
\* over, and after one that failed.
LEMMA LogoutReady ==
    ASSUME InitInv, LoginInv, LogoutInv, initPc = "done", isReady, NEW k \in Clicks,
           ClickLogout(k) \/ LogoutNative(k) \/ LogoutFinish(k)
    PROVE  InitInv' /\ LoginInv' /\ LogoutInv'
<1>0. UNCHANGED <<calls, initPc, initView, loginPc, loginUser>>
  BY DEF ClickLogout, LogoutNative, LogoutFinish, sessionVars, Init0, Login0
<1>1. InitInv /\ LoginInv /\ LogoutInv  OBVIOUS
<1>2. logoutPc \in [Clicks -> {"idle", "native", "finish"}] /\ initPc = "done"
  BY DEF LogoutInv, LogoutPlaces
<1>3. loginPc = "idle"
  BY <1>1 DEF LoginInv, NoLogout, ClickLogout, LogoutNative, LogoutFinish
<1>4. InitInv'  BY <1>0, <1>1, <1>2 DEF InitInv
<1>5. LoginInv'  BY <1>0, <1>1, <1>3 DEF LoginInv
<1>6. IF ui = None THEN session = None
      ELSE SignedIn(ui) \/ \E j \in Clicks : logoutPc[j] = "finish"
  BY <1>1, <1>2, <1>3 DEF LogoutInv, LogoutPlaces
<1>7. CASE ClickLogout(k)
  <2>1. logoutPc' = [logoutPc EXCEPT ![k] = "native"] /\ logoutPc[k] = "idle"
        /\ UNCHANGED <<ui, native, session>>
    BY <1>2, <1>7 DEF ClickLogout, sessionVars
  <2>2. \A j \in Clicks : logoutPc[j] = "finish" => logoutPc'[j] = "finish"  BY <1>2, <2>1
  <2> QED  BY <1>0, <1>2, <1>4, <1>5, <1>6, <2>1, <2>2 DEF LogoutInv, LogoutPlaces, SignedIn
<1>8. CASE /\ LogoutNative(k) /\ logoutPc[k] = "native"
           /\ logoutPc' /= [logoutPc EXCEPT ![k] = "idle"]
  <2>1. /\ native' = None /\ UNCHANGED <<ui, session>>
        /\ logoutPc' = [logoutPc EXCEPT ![k] = "finish"]
    BY <1>8 DEF LogoutNative
  <2>2. logoutPc'[k] = "finish" /\ logoutPc' \in [Clicks -> {"idle", "native", "finish"}]
    BY <1>2, <2>1
  <2> QED  BY <1>0, <1>4, <1>5, <1>6, <2>1, <2>2 DEF LogoutInv, LogoutPlaces
<1>9. CASE /\ LogoutNative(k) /\ logoutPc[k] = "native"
           /\ logoutPc' = [logoutPc EXCEPT ![k] = "idle"]
  <2>1. UNCHANGED <<ui, session, native>>
    <3>1. logoutPc'[k] = "idle"  BY <1>2, <1>9
    <3>2. logoutPc' /= [logoutPc EXCEPT ![k] = "finish"]  BY <1>2, <3>1
    <3> QED  BY <1>9, <3>2 DEF LogoutNative
  <2>2. \A j \in Clicks : logoutPc[j] = "finish" => logoutPc'[j] = "finish"  BY <1>2, <1>9
  <2>3. logoutPc' \in [Clicks -> {"idle", "native", "finish"}]  BY <1>2, <1>9
  <2> QED  BY <1>0, <1>4, <1>5, <1>6, <2>1, <2>2, <2>3 DEF LogoutInv, LogoutPlaces, SignedIn
<1>10. CASE LogoutFinish(k)
  <2>1. /\ logoutPc[k] = "finish" /\ logoutPc' = [logoutPc EXCEPT ![k] = "idle"]
        /\ ui' = None /\ session' = None
    BY <1>2, <1>10 DEF LogoutFinish, InvalidateSession
  <2> QED  BY <1>0, <1>2, <1>4, <1>5, <2>1 DEF LogoutInv, LogoutPlaces
<1>11. LogoutNative(k) => logoutPc[k] = "native"  BY <1>2 DEF LogoutNative
<1> QED  BY <1>7, <1>8, <1>9, <1>10, <1>11

LEMMA LogoutUnready ==
    ASSUME InitInv, LoginInv, LogoutInv, initPc = "failed", ~isReady, NEW k \in Clicks,
           ClickLogout(k) \/ LogoutNative(k) \/ LogoutFinish(k)
    PROVE  InitInv' /\ LoginInv' /\ LogoutInv'
<1> DEFINE Places == {"idle", "native, no platform", "finish, no platform"}
<1>0. UNCHANGED <<calls, initPc, initView, loginPc, loginUser>>
  BY DEF ClickLogout, LogoutNative, LogoutFinish, sessionVars, Init0, Login0
<1>1. logoutPc \in [Clicks -> Places] /\ session = None  BY DEF LogoutInv, LogoutPlaces
<1>2. ui = None \/ native = ui \/ \E j \in Clicks : logoutPc[j] = "finish, no platform"
  BY DEF LogoutInv
<1>3. loginPc = "idle"
  BY DEF LoginInv, NoLogout, ClickLogout, LogoutNative, LogoutFinish
<1>4. InitInv'  BY <1>0 DEF InitInv
<1>5. LoginInv'  BY <1>0, <1>3 DEF LoginInv
<1>6. session' = None
  BY <1>1 DEF ClickLogout, LogoutNative, LogoutFinish, InvalidateSession, sessionVars
<1>7. CASE ClickLogout(k)
  <2>1. logoutPc' = [logoutPc EXCEPT ![k] = "native, no platform"] /\ logoutPc[k] = "idle"
        /\ UNCHANGED <<ui, native>>
    BY <1>7 DEF ClickLogout, sessionVars
  <2>2. \A j \in Clicks : logoutPc[j] = "finish, no platform" => logoutPc'[j] = logoutPc[j]
    BY <1>1, <2>1
  <2>3. logoutPc' \in [Clicks -> Places]  BY <1>1, <2>1
  <2> QED  BY <1>0, <1>2, <1>4, <1>5, <1>6, <2>1, <2>2, <2>3 DEF LogoutInv, LogoutPlaces
<1>8. CASE LogoutNative(k)
  <2>1. logoutPc[k] = "native, no platform" /\ UNCHANGED ui  BY <1>1, <1>8 DEF LogoutNative
  <2>2. \/ native' = None /\ logoutPc' = [logoutPc EXCEPT ![k] = "finish, no platform"]
        \/ native' = native /\ logoutPc' = [logoutPc EXCEPT ![k] = "idle"]
    BY <1>1, <1>8, <2>1 DEF LogoutNative
  <2>3. CASE native' = None /\ logoutPc' = [logoutPc EXCEPT ![k] = "finish, no platform"]
    <3>1. logoutPc' \in [Clicks -> Places] /\ logoutPc'[k] = "finish, no platform"
      BY <1>1, <2>3
    <3> QED  BY <1>0, <1>4, <1>5, <1>6, <3>1 DEF LogoutInv, LogoutPlaces
  <2>4. CASE native' = native /\ logoutPc' = [logoutPc EXCEPT ![k] = "idle"]
    <3>1. \A j \in Clicks : logoutPc[j] = "finish, no platform" => logoutPc'[j] = logoutPc[j]
      BY <1>1, <2>1, <2>4
    <3>2. logoutPc' \in [Clicks -> Places]  BY <1>1, <2>4
    <3> QED
      BY <1>0, <1>2, <1>4, <1>5, <1>6, <2>1, <2>4, <3>1, <3>2 DEF LogoutInv, LogoutPlaces
  <2> QED  BY <2>2, <2>3, <2>4
<1>9. CASE LogoutFinish(k)
  <2>1. ui' = None /\ logoutPc' = [logoutPc EXCEPT ![k] = "idle"]  BY <1>9 DEF LogoutFinish
  <2>2. logoutPc' \in [Clicks -> Places]  BY <1>1, <2>1
  <2> QED  BY <1>0, <1>4, <1>5, <1>6, <2>1, <2>2 DEF LogoutInv, LogoutPlaces
<1> QED  BY <1>7, <1>8, <1>9

LEMMA LogoutMoves ==
    ASSUME AppInv, NEW k \in Clicks, ClickLogout(k) \/ LogoutNative(k) \/ LogoutFinish(k)
    PROVE  AppInv'
<1>0. SessionInv /\ StartInv  BY DEF AppInv
<1>1. /\ UNCHANGED <<nextId, Environment, calls>>
      /\ UNCHANGED <<isReady, started, listeners, initPc, initView, loginPc, loginUser>>
      /\ native' \in {native, None} /\ session' \in {session, None}
  BY DEF ClickLogout, LogoutNative, LogoutFinish, sessionVars, Init0, Login0, Environment,
         InvalidateSession
<1>2. SessionInv'
  <2>1. native \in Accounts \cup {None}  BY <1>0 DEF SessionInv, SessionTypeOK
  <2> QED  BY <1>0, <1>1, <2>1, LayersChange
<1>3. StartInv'  BY <1>0, <1>1 DEF StartInv
<1>4. ASSUME ~raced' PROVE InitInv' /\ LoginInv' /\ LogoutInv'
  <2>1. InitInv /\ LoginInv /\ LogoutInv
    <3>1. ~raced  BY <1>4 DEF ClickLogout, LogoutNative, LogoutFinish, Login0
    <3> QED  BY <3>1 DEF AppInv
  <2>2. ClickLogout(k) => ~Starting  BY <1>4 DEF ClickLogout
  <2>3. ~ClickLogout(k) => logoutPc[k] /= "idle"  BY DEF LogoutNative, LogoutFinish
  <2>4. initPc /= "idle"
    BY <2>1, <2>3 DEF ClickLogout, InitInv, NoLogout
  <2>5. initPc \in {"done", "failed"}
    BY <2>1, <2>2, <2>3, <2>4 DEF InitInv, NoLogout, Starting
  <2> QED  BY <1>0, <2>1, <2>5, LogoutReady, LogoutUnready DEF StartInv
<1> QED  BY <1>1, <1>2, <1>3, <1>4 DEF AppInv

LEMMA AppStep == AppInv /\ [AppNext]_<<sessionVars, appVars>> => AppInv'
<1> SUFFICES ASSUME AppInv, [AppNext]_<<sessionVars, appVars>> PROVE AppInv'  OBVIOUS
<1>1. ASSUME SessionInv', UNCHANGED appVars, UNCHANGED <<native, session, calls>>
      PROVE  AppInv'
  BY <1>1 DEF AppInv, appVars, StartInv, InitInv, LoginInv, LogoutInv, LogoutPlaces, NoLogout, Restores,
       SignedIn
<1>2. CASE UNCHANGED <<sessionVars, appVars>>
  <2>1. SessionInv'  BY <1>2, SessionStep DEF AppInv, sessionVars
  <2> QED  BY <1>1, <1>2, <2>1 DEF sessionVars
<1>3. CASE StatusChanges /\ UNCHANGED appVars
  <2>1. SessionInv'  BY <1>3, SessionStep DEF AppInv, SessionNext
  <2> QED  BY <1>1, <1>3, <2>1 DEF StatusChanges
<1>4. CASE \/ StartInit \/ InitFails \/ InitPlatform \/ InitCurrentFails \/ InitRollback
           \/ InitTransport \/ InitListens
  BY <1>4, InitBegins, InitMoves
<1>5. CASE InitCurrentSession \/ InitRestored  BY <1>5, InitReads, InitAnswered
<1>6. CASE \E u \in Accounts : SubmitLogin(u)  BY <1>6, LoginBegins
<1>7. CASE LoginNative \/ LoginRestored \/ LoginRollback \/ LoginDone  BY <1>7, LoginMoves
<1>8. CASE \E k \in Clicks : ClickLogout(k) \/ LogoutNative(k) \/ LogoutFinish(k)
  BY <1>8, LogoutMoves
<1>9. CASE \E c \in {"init", "login"} : RestoreStep(c)  BY <1>9, RestoreSteps
<1> QED  BY <1>2, <1>3, <1>4, <1>5, <1>6, <1>7, <1>8, <1>9 DEF AppNext

\* However init, logins and logouts of the demo application fail and overlap, short
\* of the orders the pages do not prevent: once they have settled, React state,
\* platform session and native session name one user or none, but for the platform
\* session after a start that failed (PlatformProvider's init takes the platform
\* down and leaves the signed-in user on the page).
THEOREM LayersAlwaysAgree == AppSpec => []LayersAgree
<1>1. AppInv => LayersAgree
  <2> SUFFICES ASSUME AppInv PROVE LayersAgree  OBVIOUS
  <2>1. /\ isReady => listeners = {"sync-now-requested", "sync-tick"}
        /\ ~started => listeners = {}
    BY DEF AppInv, StartInv
  <2>2. ASSUME Settled, ~raced
        PROVE  /\ ui = None \/ initPc = "failed" => session = None
               /\ ui /= None => native = ui
               /\ ui /= None /\ initPc = "done" => session /= None /\ session.user = ui
    <3>1. InitInv /\ LogoutInv /\ initPc \in {"failed", "done"} /\ loginPc = "idle"
      BY <2>2 DEF AppInv, Settled
    <3>2. NoLogout  BY <2>2 DEF Settled, LogoutsUnderWay, NoLogout
    <3> QED  BY <3>1, <3>2 DEF InitInv, LogoutInv, LogoutPlaces, NoLogout, SignedIn
  <2> QED  BY <2>1, <2>2 DEF LayersAgree
<1> QED  BY <1>1, AppInitially, AppStep, PTL DEF AppSpec

USE NativeSessionAssumption

-----------------------------------------------------------------------------
(* The native session. *)

Idle == [pc : {"idle"}]
Untried == [pc : {"verify", "failed"}, user : Principals]
Tried == [pc : {"commit", "done", "failed"}, user : Principals, spaced : BOOLEAN]

NativeTypeOK ==
    /\ generation \in 0 .. MaxGeneration /\ epoch \in Nat
    /\ current \in 0 .. generation /\ lastLogout \in 0 .. generation
    /\ credentials \in [Principals -> [failures : Nat, lockedUntil : Nat]]
    /\ authCalls \in [Generations -> Idle \cup Untried \cup Tried]
    /\ failedAt \in [Principals -> Seq(Nat)]

\* A call took a generation that no logout took, a password that passed was tried
\* in time, and a login that succeeded is in force or was replaced by a later one.
CallInv(g) ==
    /\ ~CallAt(g, "idle") => g <= generation /\ g /= lastLogout
    /\ authCalls[g] \in Tried /\ ~CallAt(g, "failed") => authCalls[g].spaced
    /\ CallAt(g, "done") => /\ g = generation => current = g
                            /\ current /= 0 => g <= current

\* The counter counts the failures, and the lock runs from the last of them.
LockInv(u) ==
    /\ credentials[u].failures = Len(failedAt[u])
    /\ Len(failedAt[u]) >= MaxFailures =>
          credentials[u].lockedUntil = failedAt[u][Len(failedAt[u])] + Lockout
    /\ \A i \in MaxFailures + 1 .. Len(failedAt[u]) :
          failedAt[u][i - 1] + Lockout <= failedAt[u][i]

NativeInv ==
    /\ NativeTypeOK
    /\ current /= 0 => current > lastLogout /\ CallAt(current, "done")
    /\ \A g \in Generations : CallInv(g)
    /\ \A u \in Principals : LockInv(u)

LEMMA NativeImplies == NativeInv => SessionsAreEarned
<1> SUFFICES ASSUME NativeInv PROVE SessionsAreEarned  OBVIOUS
<1>1. current /= 0 => authCalls[current].spaced
  <2> SUFFICES ASSUME current /= 0 PROVE authCalls[current].spaced  OBVIOUS
  <2>1. current \in Generations /\ CallAt(current, "done") /\ CallInv(current)
    BY DEF NativeInv, NativeTypeOK, Generations
  <2>2. authCalls[current] \in Tried
    BY <2>1 DEF NativeInv, NativeTypeOK, CallAt, Idle, Untried
  <2> QED BY <2>1, <2>2 DEF CallInv, CallAt
<1> QED BY <1>1 DEF NativeInv, CallInv, LockInv, SessionsAreEarned

LEMMA NativeInitially == NativeInit => NativeInv
<1> SUFFICES ASSUME NativeInit PROVE NativeInv  OBVIOUS
<1>1. \A u \in Principals : credentials[u].failures = 0 /\ failedAt[u] = <<>>
  BY DEF NativeInit, NoFailures
<1>2. NativeTypeOK
  <2>1. NoFailures \in [failures : Nat, lockedUntil : Nat]  BY DEF NoFailures
  <2>2. [pc |-> "idle"] \in Idle  BY DEF Idle
  <2> QED BY <2>1, <2>2 DEF NativeInit, NativeTypeOK
<1>3. \A g \in Generations : CallInv(g)
  <2>1. [pc |-> "idle"] \notin Tried  BY DEF Tried
  <2>2. \A g \in Generations : authCalls[g] = [pc |-> "idle"]  BY DEF NativeInit
  <2> QED BY <2>1, <2>2 DEF CallInv, CallAt
<1>4. \A u \in Principals : LockInv(u)
  BY <1>1 DEF LockInv
<1> QED BY <1>2, <1>3, <1>4 DEF NativeInv, NativeInit

\* A call at verify ends as failed.
LEMMA CallFails ==
    ASSUME NativeTypeOK, NEW g \in Generations, CallTo(g, "failed"),
           CallAt(g, "verify") \/ CallAt(g, "commit")
    PROVE  /\ authCalls' \in [Generations -> Idle \cup Untried \cup Tried]
           /\ authCalls'[g].pc = "failed"
           /\ \A q \in Generations \ {g} : authCalls'[q] = authCalls[q]
<1>1. /\ authCalls' = [authCalls EXCEPT ![g] = [authCalls[g] EXCEPT !.pc = "failed"]]
      /\ authCalls \in [Generations -> Idle \cup Untried \cup Tried]
  BY DEF NativeTypeOK, CallTo
<1>2. authCalls[g] \in Untried \/ authCalls[g] \in Tried
  BY DEF NativeTypeOK, CallAt, Idle
<1>3. /\ [authCalls[g] EXCEPT !.pc = "failed"] \in Untried \cup Tried
      /\ [authCalls[g] EXCEPT !.pc = "failed"].pc = "failed"
  <2>1. CASE authCalls[g] \in Untried  BY <2>1 DEF Untried
  <2>2. CASE authCalls[g] \in Tried  BY <2>2 DEF Tried
  <2> QED BY <1>2, <2>1, <2>2
<1> QED BY <1>1, <1>3

LEMMA VerifyNamesUser ==
    ASSUME NativeTypeOK, NEW g \in Generations, CallAt(g, "verify")
    PROVE  authCalls[g].user \in Principals
<1>1. authCalls[g] \in Idle \cup Untried \cup Tried  BY DEF NativeTypeOK
<1> QED BY <1>1 DEF CallAt, Idle, Untried, Tried

\* The calls, after a step of one of them that fails.
LEMMA CallsAfterFailure ==
    ASSUME NativeInv, NEW g \in Generations, CallTo(g, "failed"),
           CallAt(g, "verify") \/ CallAt(g, "commit"),
           UNCHANGED <<current, generation, lastLogout>>
    PROVE  /\ authCalls' \in [Generations -> Idle \cup Untried \cup Tried]
           /\ current' /= 0 => current' > lastLogout' /\ CallAt(current, "done")'
           /\ \A q \in Generations : CallInv(q)'
<1>1. /\ authCalls' \in [Generations -> Idle \cup Untried \cup Tried]
      /\ authCalls'[g].pc = "failed"
      /\ \A q \in Generations \ {g} : authCalls'[q] = authCalls[q]
  BY CallFails DEF NativeInv
<1>2. current' /= 0 => current' > lastLogout' /\ CallAt(current, "done")'
  <2>1. current /= 0 => current \in Generations \ {g}
    BY DEF NativeInv, NativeTypeOK, CallAt, Generations
  <2> QED BY <1>1, <2>1 DEF NativeInv, CallAt
<1>3. ASSUME NEW q \in Generations PROVE CallInv(q)'
  <2>1. CASE q = g
    <3>1. g <= generation /\ g /= lastLogout  BY DEF NativeInv, CallInv, CallAt
    <3> QED BY <1>1, <2>1, <3>1 DEF CallInv, CallAt
  <2>2. CASE q /= g
    <3>1. CallInv(q) /\ authCalls'[q] = authCalls[q]  BY <1>1, <2>2 DEF NativeInv
    <3> QED BY <3>1 DEF CallInv, CallAt
  <2> QED BY <2>1, <2>2
<1> QED BY <1>1, <1>2, <1>3

LEMMA Began ==
    ASSUME NativeInv, NEW u \in Principals, Authenticate(u)
    PROVE  NativeInv'
<1> DEFINE g == generation + 1
           call == [pc |-> "verify", user |-> u]
<1>0. NativeTypeOK  BY DEF NativeInv
<1>1. /\ generation' = g /\ g \in Generations /\ generation < g
      /\ authCalls' = [authCalls EXCEPT ![g] = call]
      /\ UNCHANGED <<current, credentials, epoch, lastLogout, failedAt>>
  BY <1>0 DEF Authenticate, NextGeneration, NativeTypeOK, Generations
<1>2. call \in Untried /\ call.pc = "verify" /\ call \notin Tried
  BY DEF Untried, Tried
<1> HIDE DEF g, call
<1>3. /\ authCalls'[g] = call
      /\ \A q \in Generations \ {g} : authCalls'[q] = authCalls[q]
      /\ authCalls' \in [Generations -> Idle \cup Untried \cup Tried]
  BY <1>0, <1>1, <1>2 DEF NativeTypeOK
<1>4. NativeTypeOK'
  <2>1. generation' \in 0 .. MaxGeneration /\ generation < generation'
    BY <1>1 DEF Generations
  <2> QED BY <1>0, <1>1, <1>3, <2>1 DEF NativeTypeOK
<1>5. current /= 0 => current \in Generations \ {g}
  BY <1>0, <1>1 DEF NativeTypeOK, Generations
<1>6. current' /= 0 => current' > lastLogout' /\ CallAt(current, "done")'
  BY <1>1, <1>3, <1>5 DEF NativeInv, CallAt
<1>7. ASSUME NEW q \in Generations PROVE CallInv(q)'
  <2>1. CASE q = g
    <3>1. g /= lastLogout  BY <1>0, <1>1 DEF NativeTypeOK
    <3>2. g <= g  BY <1>1 DEF Generations
    <3> QED BY <1>1, <1>2, <1>3, <2>1, <3>1, <3>2 DEF CallInv, CallAt
  <2>2. CASE q /= g
    <3>1. CallInv(q) /\ authCalls'[q] = authCalls[q]  BY <1>3, <2>2 DEF NativeInv
    <3>2. q <= generation => q <= g  BY <1>0, <1>1 DEF NativeTypeOK, Generations
    <3> QED BY <1>1, <2>2, <3>1, <3>2 DEF CallInv, CallAt
  <2> QED BY <2>1, <2>2
<1>8. \A v \in Principals : LockInv(v)'  BY <1>1 DEF NativeInv, LockInv
<1> QED BY <1>4, <1>6, <1>7, <1>8 DEF NativeInv

LEMMA Refused ==
    ASSUME NativeInv, NEW g \in Generations, AuthenticationRefused(g)
    PROVE  NativeInv'
<1>1. /\ CallTo(g, "failed") /\ CallAt(g, "verify")
      /\ UNCHANGED <<current, generation, credentials, epoch, lastLogout, failedAt>>
  BY DEF AuthenticationRefused
<1>2. /\ authCalls' \in [Generations -> Idle \cup Untried \cup Tried]
      /\ current' /= 0 => current' > lastLogout' /\ CallAt(current, "done")'
      /\ \A q \in Generations : CallInv(q)'
  BY <1>1, CallsAfterFailure
<1>3. NativeTypeOK'  BY <1>1, <1>2 DEF NativeInv, NativeTypeOK
<1>4. \A v \in Principals : LockInv(v)'  BY <1>1 DEF NativeInv, LockInv
<1> QED BY <1>2, <1>3, <1>4 DEF NativeInv

\* A failure is counted, and past the limit it comes after the lock of the last.
LEMMA FailureCounted ==
    ASSUME NativeInv, NEW g \in Generations, PasswordFails(g)
    PROVE  NativeInv'
<1> DEFINE u == authCalls[g].user
           failures == credentials[u].failures + 1
           counted == [failures |-> failures, lockedUntil |-> NextLock(failures)]
           times == Append(failedAt[u], epoch)
<1>0. NativeTypeOK  BY DEF NativeInv
<1>1. /\ CallTo(g, "failed") /\ CallAt(g, "verify") /\ credentials[u].lockedUntil <= epoch
      /\ credentials' = [credentials EXCEPT ![u] = counted]
      /\ failedAt' = [failedAt EXCEPT ![u] = times]
      /\ UNCHANGED <<current, generation, epoch, lastLogout>>
      /\ u \in Principals
  <2>1. CallAt(g, "verify") /\ ~LockedOut(u)  BY DEF PasswordFails
  <2>2. u \in Principals  BY <1>0, <2>1, VerifyNamesUser
  <2>3. credentials[u].lockedUntil \in Nat /\ epoch \in Nat  BY <1>0, <2>2 DEF NativeTypeOK
  <2>4. credentials[u].lockedUntil <= epoch  BY <2>1, <2>3 DEF LockedOut
  <2> QED BY <2>1, <2>2, <2>4 DEF PasswordFails
<1>2. /\ authCalls' \in [Generations -> Idle \cup Untried \cup Tried]
      /\ current' /= 0 => current' > lastLogout' /\ CallAt(current, "done")'
      /\ \A q \in Generations : CallInv(q)'
  BY <1>1, CallsAfterFailure
<1>3. /\ failedAt[u] \in Seq(Nat) /\ epoch \in Nat /\ LockInv(u)
      /\ failures \in Nat /\ failures = Len(failedAt[u]) + 1
  <2>1. LockInv(u) /\ u \in Principals  BY <1>1 DEF NativeInv
  <2>2. failedAt[u] \in Seq(Nat) /\ epoch \in Nat  BY <1>0, <2>1 DEF NativeTypeOK
  <2>3. credentials[u].failures = Len(failedAt[u])  BY <2>1 DEF LockInv
  <2> QED BY <2>1, <2>2, <2>3
<1>4. /\ counted \in [failures : Nat, lockedUntil : Nat] /\ counted.failures = failures
      /\ failures >= MaxFailures => counted.lockedUntil = epoch + Lockout
  BY <1>3 DEF NextLock
<1>5. /\ times \in Seq(Nat) /\ Len(times) = failures /\ times[failures] = epoch
      /\ \A i \in 1 .. Len(failedAt[u]) : times[i] = failedAt[u][i]
  BY <1>3
<1> HIDE DEF u, failures, counted, times
<1>6. NativeTypeOK'
  BY <1>0, <1>1, <1>2, <1>4, <1>5 DEF NativeTypeOK
<1>7. ASSUME NEW v \in Principals PROVE LockInv(v)'
  <2>1. CASE v = u
    <3>1. credentials'[u] = counted /\ failedAt'[u] = times
      BY <1>0, <1>1 DEF NativeTypeOK
    <3>2. ASSUME NEW i \in MaxFailures + 1 .. failures
          PROVE  times[i - 1] + Lockout <= times[i]
      <4>0. i \in Int /\ i - 1 \in 1 .. Len(failedAt[u])  BY <1>3
      <4>1. times[i - 1] = failedAt[u][i - 1]  BY <1>5, <4>0
      <4>2. CASE i = failures
        <5>1. i - 1 = Len(failedAt[u]) /\ Len(failedAt[u]) >= MaxFailures
          BY <1>3, <4>2
        <5>2. failedAt[u][i - 1] + Lockout <= epoch
          BY <1>1, <1>3, <5>1 DEF LockInv
        <5> QED BY <1>5, <4>1, <4>2, <5>2
      <4>3. CASE i /= failures
        <5>1. i \in MaxFailures + 1 .. Len(failedAt[u])  BY <1>3, <4>3
        <5>2. times[i] = failedAt[u][i]  BY <1>5, <5>1
        <5> QED BY <1>3, <4>1, <5>1, <5>2 DEF LockInv
      <4> QED BY <4>2, <4>3
    <3> QED BY <1>4, <1>5, <2>1, <3>1, <3>2 DEF LockInv
  <2>2. CASE v /= u
    <3>1. LockInv(v) /\ credentials'[v] = credentials[v] /\ failedAt'[v] = failedAt[v]
      BY <1>0, <1>1, <2>2 DEF NativeInv, NativeTypeOK
    <3> QED BY <3>1 DEF LockInv
  <2> QED BY <2>1, <2>2
<1> QED BY <1>2, <1>6, <1>7 DEF NativeInv

\* Forgetting the failures of a user.
LEMMA FailuresForgotten ==
    ASSUME NativeInv, NEW u \in Principals, ForgetFailures(u)
    PROVE  /\ credentials' \in [Principals -> [failures : Nat, lockedUntil : Nat]]
           /\ failedAt' \in [Principals -> Seq(Nat)]
           /\ \A v \in Principals : LockInv(v)'
<1>0. NativeTypeOK  BY DEF NativeInv
<1>1. NoFailures \in [failures : Nat, lockedUntil : Nat] /\ NoFailures.failures = 0
  BY DEF NoFailures
<1>2. /\ credentials' = [credentials EXCEPT ![u] = NoFailures]
      /\ failedAt' = [failedAt EXCEPT ![u] = <<>>]
  BY DEF ForgetFailures
<1>3. /\ credentials' \in [Principals -> [failures : Nat, lockedUntil : Nat]]
      /\ failedAt' \in [Principals -> Seq(Nat)]
  BY <1>0, <1>1, <1>2 DEF NativeTypeOK
<1>4. ASSUME NEW v \in Principals PROVE LockInv(v)'
  <2>1. CASE v = u
    <3>1. credentials'[u].failures = 0 /\ failedAt'[u] = <<>>
      BY <1>0, <1>1, <1>2 DEF NativeTypeOK
    <3> QED BY <2>1, <3>1 DEF LockInv
  <2>2. CASE v /= u
    <3>1. LockInv(v) /\ credentials'[v] = credentials[v] /\ failedAt'[v] = failedAt[v]
      BY <1>0, <1>2, <2>2 DEF NativeInv, NativeTypeOK
    <3> QED BY <3>1 DEF LockInv
  <2> QED BY <2>1, <2>2
<1> QED BY <1>3, <1>4

LEMMA PassedInTime ==
    ASSUME NativeInv, NEW g \in Generations, PasswordPasses(g)
    PROVE  NativeInv'
<1> DEFINE u == authCalls[g].user
           call == [pc |-> "commit", user |-> u, spaced |-> Spaced(u)]
<1>0. NativeTypeOK  BY DEF NativeInv
<1>1. /\ CallAt(g, "verify") /\ ~LockedOut(u) /\ ForgetFailures(u)
      /\ authCalls' = [authCalls EXCEPT ![g] = call]
      /\ UNCHANGED <<current, generation, epoch, lastLogout>>
  BY DEF PasswordPasses
<1>2. u \in Principals  BY <1>0, <1>1, VerifyNamesUser
<1>3. Spaced(u)
  <2>1. LockInv(u) /\ failedAt[u] \in Seq(Nat) /\ epoch \in Nat
        /\ credentials[u].lockedUntil \in Nat
    BY <1>0, <1>2 DEF NativeInv, NativeTypeOK
  <2>2. credentials[u].lockedUntil <= epoch  BY <1>1, <2>1 DEF LockedOut
  <2> QED BY <2>1, <2>2 DEF LockInv, Spaced, Last
<1>4. call \in Tried /\ call.pc = "commit" /\ call.spaced
  BY <1>2, <1>3 DEF Tried, Spaced
<1>5. /\ credentials' \in [Principals -> [failures : Nat, lockedUntil : Nat]]
      /\ failedAt' \in [Principals -> Seq(Nat)]
      /\ \A v \in Principals : LockInv(v)'
  BY <1>1, <1>2, FailuresForgotten
<1> HIDE DEF u, call
<1>6. /\ authCalls'[g] = call
      /\ \A q \in Generations \ {g} : authCalls'[q] = authCalls[q]
      /\ authCalls' \in [Generations -> Idle \cup Untried \cup Tried]
  BY <1>0, <1>1, <1>4 DEF NativeTypeOK
<1>7. NativeTypeOK'  BY <1>0, <1>1, <1>5, <1>6 DEF NativeTypeOK
<1>8. current' /= 0 => current' > lastLogout' /\ CallAt(current, "done")'
  <2>1. current /= 0 => current \in Generations \ {g}
    BY <1>1 DEF NativeInv, NativeTypeOK, CallAt, Generations
  <2> QED BY <1>1, <1>6, <2>1 DEF NativeInv, CallAt
<1>9. ASSUME NEW q \in Generations PROVE CallInv(q)'
  <2>1. CASE q = g
    <3>1. g <= generation /\ g /= lastLogout  BY <1>1 DEF NativeInv, CallInv, CallAt
    <3> QED BY <1>1, <1>4, <1>6, <2>1, <3>1 DEF CallInv, CallAt
  <2>2. CASE q /= g
    <3>1. CallInv(q) /\ authCalls'[q] = authCalls[q]  BY <1>6, <2>2 DEF NativeInv
    <3> QED BY <1>1, <3>1 DEF CallInv, CallAt
  <2> QED BY <2>1, <2>2
<1> QED BY <1>5, <1>7, <1>8, <1>9 DEF NativeInv

\* The latest generation becomes current; an older one does not.
LEMMA Committed ==
    ASSUME NativeInv, NEW g \in Generations, CommitAuthentication(g)
    PROVE  NativeInv'
<1>0. NativeTypeOK  BY DEF NativeInv
<1>1. CallAt(g, "commit") /\ UNCHANGED <<generation, credentials, epoch, lastLogout, failedAt>>
  BY DEF CommitAuthentication
<1>2. \A v \in Principals : LockInv(v)'  BY <1>1 DEF NativeInv, LockInv
<1>3. CASE g /= generation
  <2>1. CallTo(g, "failed") /\ UNCHANGED current  BY <1>3 DEF CommitAuthentication
  <2>2. /\ authCalls' \in [Generations -> Idle \cup Untried \cup Tried]
        /\ current' /= 0 => current' > lastLogout' /\ CallAt(current, "done")'
        /\ \A q \in Generations : CallInv(q)'
    BY <1>1, <2>1, CallsAfterFailure
  <2>3. NativeTypeOK'  BY <1>0, <1>1, <2>1, <2>2 DEF NativeTypeOK
  <2> QED BY <1>2, <2>2, <2>3 DEF NativeInv
<1>4. CASE g = generation
  <2> DEFINE call == [authCalls[g] EXCEPT !.pc = "done"]
  <2>1. /\ current' = g /\ authCalls' = [authCalls EXCEPT ![g] = call]
        /\ authCalls \in [Generations -> Idle \cup Untried \cup Tried]
    BY <1>0, <1>4 DEF CommitAuthentication, CallTo, NativeTypeOK
  <2>2. authCalls[g] \in Tried
    BY <1>1, <2>1 DEF CallAt, Idle, Untried
  <2>3. /\ authCalls[g].spaced /\ g <= generation /\ g /= lastLogout
    BY <1>1, <2>2 DEF NativeInv, CallInv, CallAt
  <2>4. call \in Tried /\ call.pc = "done" /\ call.spaced
    BY <2>2, <2>3 DEF Tried
  <2> HIDE DEF call
  <2>5. /\ authCalls'[g] = call
        /\ \A q \in Generations \ {g} : authCalls'[q] = authCalls[q]
        /\ authCalls' \in [Generations -> Idle \cup Untried \cup Tried]
    BY <2>1, <2>4
  <2>6. g \in 1 .. MaxGeneration /\ g > lastLogout
    BY <1>0, <1>4, <2>3 DEF NativeTypeOK, Generations
  <2>7. NativeTypeOK'
    BY <1>0, <1>1, <1>4, <2>1, <2>5, <2>6 DEF NativeTypeOK
  <2>8. current' > lastLogout' /\ CallAt(current, "done")'
    BY <1>1, <2>1, <2>4, <2>5, <2>6 DEF CallAt
  <2>9. ASSUME NEW q \in Generations PROVE CallInv(q)'
    <3>1. CASE q = g
      <4>1. g <= g  BY <2>6
      <4> QED BY <1>1, <1>4, <2>1, <2>3, <2>4, <2>5, <3>1, <4>1 DEF CallInv, CallAt
    <3>2. CASE q /= g
      <4>1. CallInv(q) /\ authCalls'[q] = authCalls[q]  BY <2>5, <3>2 DEF NativeInv
      <4> QED BY <1>1, <1>4, <2>1, <3>2, <4>1 DEF CallInv, CallAt
    <3> QED BY <3>1, <3>2
  <2> QED BY <1>2, <2>7, <2>8, <2>9 DEF NativeInv
<1> QED BY <1>3, <1>4

LEMMA LoggedOut ==
    ASSUME NativeInv, ClearNativeSession
    PROVE  NativeInv'
<1>0. NativeTypeOK  BY DEF NativeInv
<1>1. /\ generation < MaxGeneration /\ generation' = generation + 1
      /\ lastLogout' = generation' /\ current' = 0
      /\ UNCHANGED <<credentials, authCalls, epoch, failedAt>>
  BY DEF ClearNativeSession, NextGeneration
<1>2. NativeTypeOK'  BY <1>0, <1>1 DEF NativeTypeOK
<1>3. ASSUME NEW q \in Generations PROVE CallInv(q)'
  <2>1. CallInv(q) /\ generation \in Nat /\ q \in Nat
    BY <1>0 DEF NativeInv, NativeTypeOK, Generations
  <2>2. q <= generation => q <= generation + 1 /\ q /= generation + 1  BY <2>1
  <2>3. CallAt(q, "done") => ~CallAt(q, "idle")  BY DEF CallAt
  <2> QED BY <1>1, <2>1, <2>2, <2>3 DEF CallInv, CallAt
<1>4. \A v \in Principals : LockInv(v)'  BY <1>1 DEF NativeInv, LockInv
<1> QED BY <1>1, <1>2, <1>3, <1>4 DEF NativeInv

LEMMA PasswordSet ==
    ASSUME NativeInv, NEW u \in Principals, SetPasswordVerifier(u)
    PROVE  NativeInv'
<1>1. ForgetFailures(u) /\ UNCHANGED <<current, generation, authCalls, epoch, lastLogout>>
  BY DEF SetPasswordVerifier
<1>2. /\ credentials' \in [Principals -> [failures : Nat, lockedUntil : Nat]]
      /\ failedAt' \in [Principals -> Seq(Nat)]
      /\ \A v \in Principals : LockInv(v)'
  BY <1>1, FailuresForgotten
<1>3. NativeTypeOK'  BY <1>1, <1>2 DEF NativeInv, NativeTypeOK
<1> QED BY <1>1, <1>2, <1>3 DEF NativeInv, CallInv, CallAt

LEMMA ClockMoved ==
    ASSUME NativeInv, EpochMoves
    PROVE  NativeInv'
<1>1. /\ epoch' \in Nat
      /\ UNCHANGED <<current, generation, credentials, authCalls, lastLogout, failedAt>>
  BY DEF EpochMoves, NativeInv, NativeTypeOK
<1> QED BY <1>1 DEF NativeInv, NativeTypeOK, CallInv, CallAt, LockInv

LEMMA NativeStep == NativeInv /\ [NativeNext]_nativeVars => NativeInv'
<1> SUFFICES ASSUME NativeInv, [NativeNext]_nativeVars PROVE NativeInv'  OBVIOUS
<1>1. CASE UNCHANGED nativeVars
  BY <1>1 DEF nativeVars, NativeInv, NativeTypeOK, CallInv, CallAt, LockInv
<1>2. ASSUME NEW u \in Principals, Authenticate(u) \/ SetPasswordVerifier(u)
      PROVE  NativeInv'
  BY <1>2, Began, PasswordSet
<1>3. ASSUME NEW g \in Generations,
             \/ AuthenticationRefused(g) \/ PasswordFails(g)
             \/ PasswordPasses(g) \/ CommitAuthentication(g)
      PROVE  NativeInv'
  BY <1>3, Refused, FailureCounted, PassedInTime, Committed
<1>4. CASE ClearNativeSession \/ EpochMoves
  BY <1>4, LoggedOut, ClockMoved
<1> QED BY <1>1, <1>2, <1>3, <1>4 DEF NativeNext

\* However logins, logouts, password changes and the wall clock interleave, the
\* session in force comes from the newest login that succeeded since the last
\* logout, and past the limit no password is tried before the lockout is over
\* (NativeSessionStore, DurableDatabase::authenticate_user).
THEOREM SessionIsEarned == NativeSpec => []SessionsAreEarned
<1>1. NativeInit => NativeInv  BY NativeInitially
<1>2. NativeInv /\ [NativeNext]_nativeVars => NativeInv'  BY NativeStep
<1>3. NativeInv => SessionsAreEarned  BY NativeImplies
<1> QED BY <1>1, <1>2, <1>3, PTL DEF NativeSpec

-----------------------------------------------------------------------------
(* The device key. *)

Starter == [pc : {"down", "read", "reread", "publish", "write", "sync", "bind", "ready",
                  "failed"},
            seed : Nat, since : Nat]

KeyTypeOK ==
    /\ keyFile \in [seed : Nat, whole : BOOLEAN]
    /\ starters \in [Starters -> Starter]
    /\ seeds \in Nat /\ replaced \in Nat
    /\ \A r \in deviceRows : r \in [key : Nat, local : BOOLEAN]

\* A key has one row, and one row is local.
RowsInv ==
    /\ \A r \in deviceRows, q \in deviceRows : r.key = q.key => r = q
    /\ \A r \in deviceRows, q \in deviceRows : r.local /\ q.local => r = q

\* What a process that is past the file relies on: the file is its own while it
\* writes it, bears its seed afterwards, and so does the local row in the end.
StarterInv(p) ==
    /\ starters[p].since <= replaced
    /\ StarterAt(p, "publish") \/ StarterAt(p, "write") => starters[p].seed > 0
    /\ StarterAt(p, "write") \/ StarterAt(p, "sync") => publication /= "link"
    /\ ~retracted =>
         /\ StarterAt(p, "write") => keyFile = KeyFile(starters[p].seed, FALSE)
         /\ starters[p].pc \in {"sync", "bind"} => keyFile = KeyFile(starters[p].seed, TRUE)
         /\ StarterAt(p, "ready") /\ starters[p].since = replaced =>
              /\ keyFile = KeyFile(starters[p].seed, TRUE)
              /\ \E r \in deviceRows : r.local /\ r.key = starters[p].seed

OneWriter ==
    \A p \in Starters, q \in Starters :
        StarterAt(p, "write") /\ StarterAt(q, "write") => p = q

KeyInv ==
    /\ KeyTypeOK /\ RowsInv
    /\ publication = "link" => ~retracted
    /\ ~retracted => OneWriter
    /\ \A p \in Starters : StarterInv(p)

\* A step of one process that leaves the other processes where they are.
LEMMA StarterMoves ==
    ASSUME KeyTypeOK, NEW p \in Starters, NEW pc, StarterTo(p, pc)
    PROVE  /\ starters'[p].pc = pc /\ starters'[p].seed = starters[p].seed
           /\ starters'[p].since = starters[p].since
           /\ \A q \in Starters \ {p} : starters'[q] = starters[q]
           /\ pc \in {"write", "sync", "bind", "ready", "failed", "reread"}
                 => starters' \in [Starters -> Starter]
<1>1. starters[p] \in Starter  BY DEF KeyTypeOK
<1>2. /\ starters' = [starters EXCEPT ![p] = [starters[p] EXCEPT !.pc = pc]]
      /\ starters \in [Starters -> Starter]
  BY DEF StarterTo, KeyTypeOK
<1>3. /\ [starters[p] EXCEPT !.pc = pc].pc = pc
      /\ [starters[p] EXCEPT !.pc = pc].seed = starters[p].seed
      /\ [starters[p] EXCEPT !.pc = pc].since = starters[p].since
  BY <1>1 DEF Starter
<1>4. pc \in {"write", "sync", "bind", "ready", "failed", "reread"}
        => [starters[p] EXCEPT !.pc = pc] \in Starter
  BY <1>1 DEF Starter
<1> QED BY <1>2, <1>3, <1>4

\* The same, with the seed.
LEMMA StarterSeeded ==
    ASSUME KeyTypeOK, NEW p \in Starters, NEW pc \in {"bind", "publish"}, NEW seed \in Nat,
           starters' = [starters EXCEPT ![p].pc = pc, ![p].seed = seed]
    PROVE  /\ starters'[p].pc = pc /\ starters'[p].seed = seed
           /\ starters'[p].since = starters[p].since
           /\ \A q \in Starters \ {p} : starters'[q] = starters[q]
           /\ starters' \in [Starters -> Starter]
<1> DEFINE new == [starters[p] EXCEPT !.pc = pc, !.seed = seed]
<1>1. starters[p] \in Starter /\ starters \in [Starters -> Starter]  BY DEF KeyTypeOK
<1>2. starters' = [starters EXCEPT ![p] = new]  BY <1>1
<1>3. new.pc = pc /\ new.seed = seed /\ new.since = starters[p].since /\ new \in Starter
  BY <1>1 DEF Starter
<1> HIDE DEF new
<1> QED BY <1>1, <1>2, <1>3

\* A step after which no process is at a place it was not at before, over the
\* same stores.
LEMMA KeyKept ==
    ASSUME KeyInv, starters' \in [Starters -> Starter], UNCHANGED <<keyFile, deviceRows>>,
           publication' = publication, retracted' = retracted, replaced' = replaced,
           seeds' \in Nat,
           \A q \in Starters :
               \/ starters'[q] = starters[q]
               \/ /\ starters'[q].pc \in {"down", "read", "reread", "failed"}
                  /\ starters'[q].since <= replaced
    PROVE  KeyInv'
<1>1. KeyTypeOK' /\ RowsInv' /\ (publication' = "link" => ~retracted')
  BY DEF KeyInv, KeyTypeOK, RowsInv
<1>2. ~retracted' => OneWriter'
  BY DEF KeyInv, OneWriter, StarterAt
<1>3. ASSUME NEW q \in Starters PROVE StarterInv(q)'
  <2>1. CASE starters'[q] = starters[q]  BY <2>1 DEF KeyInv, StarterInv, StarterAt
  <2>2. CASE /\ starters'[q].pc \in {"down", "read", "reread", "failed"}
             /\ starters'[q].since <= replaced
    BY <2>2 DEF StarterInv, StarterAt
  <2> QED BY <2>1, <2>2
<1> QED BY <1>1, <1>2, <1>3 DEF KeyInv

\* The file that p has just made: no process relied on the absent or unfinished
\* file that it replaces.
LEMMA FileMade ==
    ASSUME KeyInv, NEW p \in Starters,
           UNCHANGED <<deviceRows, publication, retracted, replaced, seeds>>,
           starters' \in [Starters -> Starter], keyFile' \in [seed : Nat, whole : BOOLEAN],
           \A q \in Starters \ {p} : starters'[q] = starters[q],
           starters'[p].since = starters[p].since, starters'[p].seed = starters[p].seed,
           starters'[p].seed > 0,
           \/ keyFile = NoFile
           \/ StarterAt(p, "write") /\ starters'[p].pc /= "write",
           \/ starters'[p].pc = "write" /\ keyFile' = KeyFile(starters[p].seed, FALSE)
              /\ publication /= "link"
           \/ starters'[p].pc = "bind" /\ keyFile' = KeyFile(starters[p].seed, TRUE)
           \/ starters'[p].pc = "sync" /\ keyFile' = KeyFile(starters[p].seed, TRUE)
              /\ publication /= "link"
    PROVE  KeyInv'
<1>0. ~retracted =>
        /\ keyFile.whole = FALSE
        /\ \A q \in Starters \ {p} : ~StarterAt(q, "write")
  <2>1. CASE keyFile = NoFile
    <3>1. keyFile.whole = FALSE /\ keyFile.seed = 0  BY <2>1 DEF NoFile
    <3>2. ASSUME ~retracted, NEW q \in Starters, StarterAt(q, "write") PROVE FALSE
      <4>1. /\ keyFile = KeyFile(starters[q].seed, FALSE)
            /\ starters[q].seed > 0
        BY <3>2 DEF KeyInv, StarterInv, StarterAt
      <4>0. starters[q].seed \in Nat  BY DEF KeyInv, KeyTypeOK, Starter
      <4>2. keyFile.seed = starters[q].seed  BY <4>1 DEF KeyFile
      <4>3. 0 > 0  BY <3>1, <4>1, <4>2
      <4> QED BY <4>3
    <3> QED BY <3>1, <3>2
  <2>2. CASE StarterAt(p, "write")
    BY <2>2 DEF KeyInv, StarterInv, OneWriter, KeyFile
  <2> QED BY <2>1, <2>2
<1>1. KeyTypeOK' /\ RowsInv' /\ (publication' = "link" => ~retracted')
  BY DEF KeyInv, KeyTypeOK, RowsInv
<1>2. ~retracted' => OneWriter'
  BY <1>0 DEF OneWriter, StarterAt
<1>3. StarterInv(p)'
  BY DEF KeyInv, StarterInv, StarterAt
<1>4. ASSUME NEW q \in Starters \ {p} PROVE StarterInv(q)'
  <2>1. StarterInv(q) /\ starters'[q] = starters[q]  BY DEF KeyInv
  <2>2. ~retracted => ~(keyFile = KeyFile(starters[q].seed, TRUE))
    BY <1>0 DEF KeyFile
  <2> QED BY <1>0, <2>1, <2>2 DEF StarterInv, StarterAt
<1> QED BY <1>1, <1>2, <1>3, <1>4 DEF KeyInv

\* Binding: the row of the seed becomes the only local one.
LEMMA Bound ==
    ASSUME KeyInv, NEW p \in Starters, BindDevice(p)
    PROVE  KeyInv'
<1> DEFINE seed == starters[p].seed
           mine == [key |-> seed, local |-> TRUE]
           kept == IF RowsOfKey(seed) /= {}
                   THEN {[r EXCEPT !.local = FALSE] : r \in deviceRows \ RowsOfKey(seed)}
                   ELSE deviceRows \ LocalRows
<1>0. KeyTypeOK /\ RowsInv /\ seed \in Nat
  BY DEF KeyInv, KeyTypeOK, Starter
<1>1. /\ deviceRows' = kept \cup {mine} /\ StarterAt(p, "bind") /\ StarterTo(p, "ready")
      /\ UNCHANGED <<keyFile, publication, seeds, replaced, retracted>>
  BY DEF BindDevice, keyHistory
<1>2. /\ starters'[p].pc = "ready" /\ starters'[p].seed = seed
      /\ starters'[p].since = starters[p].since
      /\ \A q \in Starters \ {p} : starters'[q] = starters[q]
      /\ starters' \in [Starters -> Starter]
  BY <1>0, <1>1, StarterMoves
<1>3. \A r \in deviceRows : r \in [key : Nat, local : BOOLEAN]  BY <1>0 DEF KeyTypeOK
<1>4. /\ \A r \in kept : r \in [key : Nat, local : BOOLEAN] /\ ~r.local /\ r.key /= seed
      /\ \A r \in kept, q \in kept : r.key = q.key => r = q
  <2>1. CASE RowsOfKey(seed) /= {}
    <3>1. kept = {[r EXCEPT !.local = FALSE] : r \in deviceRows \ RowsOfKey(seed)}  BY <2>1
    <3>2. \A r \in deviceRows \ RowsOfKey(seed) :
             /\ [r EXCEPT !.local = FALSE] \in [key : Nat, local : BOOLEAN]
             /\ [r EXCEPT !.local = FALSE].local = FALSE
             /\ [r EXCEPT !.local = FALSE].key = r.key /\ r.key /= seed
      BY <1>3 DEF RowsOfKey
    <3> HIDE DEF kept
    <3> QED BY <1>0, <3>1, <3>2 DEF RowsInv
  <2>2. CASE RowsOfKey(seed) = {}
    <3>1. kept = deviceRows \ LocalRows  BY <2>2
    <3> HIDE DEF kept
    <3> QED BY <1>0, <1>3, <2>2, <3>1 DEF RowsInv, LocalRows, RowsOfKey
  <2> QED BY <2>1, <2>2
<1>5. mine \in [key : Nat, local : BOOLEAN] /\ mine.local /\ mine.key = seed  BY <1>0
<1> HIDE DEF kept, mine
<1>6. KeyTypeOK' /\ RowsInv' /\ mine \in deviceRows'
  BY <1>0, <1>1, <1>2, <1>4, <1>5 DEF KeyTypeOK, RowsInv
<1>7. ~retracted' => OneWriter'
  BY <1>1, <1>2 DEF KeyInv, OneWriter, StarterAt
<1>8. ASSUME NEW q \in Starters PROVE StarterInv(q)'
  <2>1. StarterInv(p) /\ StarterInv(q)  BY DEF KeyInv
  <2>2. CASE q = p
    BY <1>1, <1>2, <1>5, <1>6, <2>1, <2>2 DEF StarterInv, StarterAt
  <2>3. CASE q /= p
    <3>1. ASSUME ~retracted, keyFile = KeyFile(starters[q].seed, TRUE)
          PROVE  seed = starters[q].seed
      <4>1. keyFile = KeyFile(seed, TRUE)  BY <1>1, <2>1, <3>1 DEF StarterInv, StarterAt
      <4>2. keyFile.seed = seed  BY <4>1 DEF KeyFile
      <4>3. keyFile.seed = starters[q].seed  BY <3>1 DEF KeyFile
      <4> QED BY <4>2, <4>3
    <3> QED BY <1>1, <1>2, <1>5, <1>6, <2>1, <2>3, <3>1 DEF StarterInv, StarterAt
  <2> QED BY <2>2, <2>3
<1> QED BY <1>1, <1>6, <1>7, <1>8 DEF KeyInv

\* A failing creator removes its file: no other process relied on an unfinished
\* one, and a finished one that is removed is recorded.
LEMMA Removed ==
    ASSUME KeyInv, NEW p \in Starters, WriteSeedFails(p)
    PROVE  KeyInv'
<1>0. KeyTypeOK /\ StarterInv(p)  BY DEF KeyInv
<1>1. /\ StarterAt(p, "write") \/ StarterAt(p, "sync")
      /\ StarterTo(p, "failed") /\ keyFile' = NoFile
      /\ retracted' = (retracted \/ keyFile.whole)
      /\ UNCHANGED <<deviceRows, publication, seeds, replaced>>
  BY DEF WriteSeedFails
<1>2. /\ starters'[p].pc = "failed" /\ starters'[p].seed = starters[p].seed
      /\ starters'[p].since = starters[p].since
      /\ \A q \in Starters \ {p} : starters'[q] = starters[q]
      /\ starters' \in [Starters -> Starter]
  BY <1>0, <1>1, StarterMoves
<1>3. KeyTypeOK'
  BY <1>0, <1>1, <1>2 DEF KeyTypeOK, NoFile
<1>4. RowsInv' /\ publication' /= "link"
  BY <1>0, <1>1 DEF KeyInv, RowsInv, StarterInv
<1>5. ~retracted' => ~retracted /\ ~keyFile.whole /\ StarterAt(p, "write")
  <2>1. ~retracted /\ StarterAt(p, "sync") => keyFile = KeyFile(starters[p].seed, TRUE)
    BY <1>0 DEF StarterInv, StarterAt
  <2>2. keyFile = KeyFile(starters[p].seed, TRUE) => keyFile.whole  BY DEF KeyFile
  <2> QED BY <1>1, <2>1, <2>2
<1>6. ~retracted' => OneWriter'
  BY <1>2, <1>5 DEF KeyInv, OneWriter, StarterAt
<1>7. ASSUME NEW q \in Starters PROVE StarterInv(q)'
  <2>1. CASE q = p  BY <1>0, <1>1, <1>2, <2>1 DEF StarterInv, StarterAt
  <2>2. CASE q /= p
    <3>1. StarterInv(q) /\ starters'[q] = starters[q]  BY <1>2, <2>2 DEF KeyInv
    <3>2. ~retracted' => ~StarterAt(q, "write")
      BY <1>5, <2>2 DEF KeyInv, OneWriter
    <3>3. ~retracted' => keyFile /= KeyFile(starters[q].seed, TRUE)
      BY <1>5 DEF KeyFile
    <3> QED BY <1>1, <1>5, <3>1, <3>2, <3>3 DEF StarterInv, StarterAt
  <2> QED BY <2>1, <2>2
<1> QED BY <1>3, <1>4, <1>6, <1>7 DEF KeyInv

LEMMA Replaced ==
    ASSUME KeyInv, NEW file \in [seed : Nat, whole : BOOLEAN], FileReplaced(file)
    PROVE  KeyInv'
<1>1. /\ \A q \in Starters : starters[q].pc \in {"down", "ready", "failed"}
      /\ keyFile' = file /\ replaced' = replaced + 1
      /\ UNCHANGED <<deviceRows, starters, publication, seeds, retracted>>
  BY DEF FileReplaced
<1>2. KeyTypeOK' /\ RowsInv' /\ (publication' = "link" => ~retracted') /\ OneWriter'
  BY <1>1 DEF KeyInv, KeyTypeOK, RowsInv, OneWriter, StarterAt
<1>3. ASSUME NEW q \in Starters PROVE StarterInv(q)'
  <2>1. starters[q].since \in Nat /\ replaced \in Nat /\ starters[q].since <= replaced
    BY DEF KeyInv, KeyTypeOK, Starter, StarterInv
  <2>2. starters[q].since <= replaced + 1 /\ starters[q].since /= replaced + 1  BY <2>1
  <2> QED BY <1>1, <2>2 DEF StarterInv, StarterAt
<1> QED BY <1>2, <1>3 DEF KeyInv

LEMMA PeerRegistered ==
    ASSUME KeyInv, NEW key \in Nat, RegisterPeerDevice(key)
    PROVE  KeyInv'
<1> DEFINE new == [key |-> key, local |-> FALSE]
<1>1. /\ RowsOfKey(key) = {} /\ deviceRows' = deviceRows \cup {new}
      /\ UNCHANGED <<keyFile, starters, publication, seeds, replaced, retracted>>
  BY DEF RegisterPeerDevice, keyHistory
<1>2. new \in [key : Nat, local : BOOLEAN] /\ ~new.local /\ new.key = key  OBVIOUS
<1> HIDE DEF new
<1>3. \A r \in deviceRows : r.key /= key  BY <1>1 DEF RowsOfKey
<1>4. KeyTypeOK' /\ RowsInv' /\ (publication' = "link" => ~retracted')
  BY <1>1, <1>2, <1>3 DEF KeyInv, KeyTypeOK, RowsInv
<1>5. ~retracted' => OneWriter'  BY <1>1 DEF KeyInv, OneWriter, StarterAt
<1>6. ASSUME NEW q \in Starters PROVE StarterInv(q)'
  BY <1>1 DEF KeyInv, StarterInv, StarterAt
<1> QED BY <1>4, <1>5, <1>6 DEF KeyInv

LEMMA KeyInitially == KeyInit => KeyInv
<1> SUFFICES ASSUME KeyInit PROVE KeyInv  OBVIOUS
<1>1. \A p \in Starters : starters[p] = NotStarted  BY DEF KeyInit
<1>0. NotStarted.pc = "down" /\ NotStarted.since = 0  BY DEF NotStarted
<1>2. KeyTypeOK  BY DEF KeyInit, KeyTypeOK, NoFile, NotStarted, Starter
<1>3. RowsInv  BY DEF KeyInit, RowsInv
<1>4. \A p \in Starters : StarterInv(p)
  <2>1. replaced = 0 /\ 0 <= 0  BY DEF KeyInit
  <2> QED BY <1>0, <1>1, <2>1 DEF StarterInv, StarterAt
<1>5. OneWriter  BY <1>1 DEF OneWriter, StarterAt, NotStarted
<1> QED BY <1>2, <1>3, <1>4, <1>5 DEF KeyInv, KeyInit

LEMMA SeedTaken ==
    ASSUME KeyInv, NEW p \in Starters, ReadSeed(p) \/ GenerateSeed(p)
    PROVE  KeyInv'
<1>0. KeyTypeOK /\ StarterInv(p) /\ seeds \in Nat  BY DEF KeyInv, KeyTypeOK
<1>1. /\ UNCHANGED <<keyFile, deviceRows, publication, replaced, retracted>>
      /\ seeds' \in Nat
  BY <1>0 DEF ReadSeed, GenerateSeed, keyStores, keyHistory
<1>2. PICK pc \in {"bind", "publish"}, seed \in Nat :
        /\ starters' = [starters EXCEPT ![p].pc = pc, ![p].seed = seed]
        /\ pc = "bind" => keyFile.whole /\ seed = keyFile.seed
        /\ pc = "publish" => seed > 0
  <2>1. CASE ReadSeed(p)
    <3>1. keyFile.seed \in Nat  BY <1>0 DEF KeyTypeOK
    <3> QED BY <2>1, <3>1 DEF ReadSeed
  <2>2. CASE GenerateSeed(p)
    <3>1. seeds' \in Nat /\ seeds' > 0  BY <1>0, <2>2 DEF GenerateSeed
    <3> QED BY <2>2, <3>1 DEF GenerateSeed
  <2> QED BY <2>1, <2>2
<1>3. /\ starters'[p].pc = pc /\ starters'[p].seed = seed
      /\ starters'[p].since = starters[p].since
      /\ \A q \in Starters \ {p} : starters'[q] = starters[q]
      /\ starters' \in [Starters -> Starter]
  BY <1>0, <1>2, StarterSeeded
<1>4. KeyTypeOK' /\ RowsInv' /\ (publication' = "link" => ~retracted')
  BY <1>1, <1>3 DEF KeyInv, KeyTypeOK, RowsInv
<1>5. ~retracted' => OneWriter'
  BY <1>1, <1>3 DEF KeyInv, OneWriter, StarterAt
<1>6. pc = "bind" => keyFile = KeyFile(seed, TRUE)
  BY <1>0, <1>2 DEF KeyTypeOK, KeyFile
<1>7. ASSUME NEW q \in Starters PROVE StarterInv(q)'
  <2>1. CASE q = p
    BY <1>0, <1>1, <1>2, <1>3, <1>6, <2>1 DEF StarterInv, StarterAt
  <2>2. CASE q /= p
    <3>1. StarterInv(q) /\ starters'[q] = starters[q]  BY <1>3, <2>2 DEF KeyInv
    <3> QED BY <1>1, <3>1 DEF StarterInv, StarterAt
  <2> QED BY <2>1, <2>2
<1> QED BY <1>4, <1>5, <1>7 DEF KeyInv

\* One lemma for the steps of a process that leave both stores alone and claim
\* nothing more about them.
LEMMA StarterStops ==
    ASSUME KeyInv, NEW p \in Starters,
           \/ StartProcess(p) \/ StartFails(p) \/ ProcessEnds(p)
           \/ PublishLink(p) /\ keyFile /= NoFile
           \/ CreateExclusive(p) /\ keyFile /= NoFile
    PROVE  KeyInv'
<1>0. KeyTypeOK /\ StarterInv(p) /\ replaced \in Nat /\ seeds \in Nat
  BY DEF KeyInv, KeyTypeOK
<1>1. UNCHANGED <<keyFile, deviceRows, publication, replaced, retracted, seeds>>
  BY DEF StartProcess, StartFails, ProcessEnds, PublishLink, CreateExclusive,
         keyStores, keyHistory
<1>2. /\ starters' \in [Starters -> Starter]
      /\ \A q \in Starters \ {p} : starters'[q] = starters[q]
      /\ starters'[p].pc \in {"down", "read", "reread", "failed"}
      /\ starters'[p].since <= replaced
  <2>1. CASE StartProcess(p) \/ ProcessEnds(p)
    <3>1. PICK new \in Starter :
             /\ new.pc \in {"down", "read"} /\ new.since <= replaced
             /\ starters' = [starters EXCEPT ![p] = new]
      <4>1. [pc |-> "read", seed |-> 0, since |-> replaced] \in Starter
        BY <1>0 DEF Starter
      <4>2. NotStarted \in Starter /\ NotStarted.pc = "down" /\ NotStarted.since <= replaced
        BY <1>0 DEF Starter, NotStarted
      <4> QED BY <1>0, <2>1, <4>1, <4>2 DEF StartProcess, ProcessEnds
    <3> QED BY <1>0, <3>1 DEF KeyTypeOK
  <2>2. CASE ~(StartProcess(p) \/ ProcessEnds(p))
    <3>1. PICK pc \in {"failed", "reread"} : StarterTo(p, pc)
      BY <2>2 DEF StartFails, PublishLink, CreateExclusive
    <3> QED BY <1>0, <3>1, StarterMoves DEF StarterInv
  <2> QED BY <2>1, <2>2
<1> QED BY <1>0, <1>1, <1>2, KeyKept

LEMMA SeedPublished ==
    ASSUME KeyInv, NEW p \in Starters,
           \/ PublishLink(p) /\ keyFile = NoFile
           \/ CreateExclusive(p) /\ keyFile = NoFile
           \/ WriteSeed(p)
    PROVE  KeyInv'
<1>0. KeyTypeOK /\ StarterInv(p) /\ starters[p].seed \in Nat
  BY DEF KeyInv, KeyTypeOK, Starter
<1>1. UNCHANGED <<deviceRows, publication, replaced, retracted, seeds>>
  BY DEF PublishLink, CreateExclusive, WriteSeed, keyHistory
<1>2. starters[p].seed > 0
  BY <1>0 DEF PublishLink, CreateExclusive, WriteSeed, StarterInv
<1>3. KeyFile(starters[p].seed, TRUE) \in [seed : Nat, whole : BOOLEAN]
      /\ KeyFile(starters[p].seed, FALSE) \in [seed : Nat, whole : BOOLEAN]
  BY <1>0 DEF KeyFile
<1>4. CASE PublishLink(p) /\ keyFile = NoFile
  <2>1. StarterTo(p, "bind") /\ keyFile' = KeyFile(starters[p].seed, TRUE)
    BY <1>4 DEF PublishLink
  <2>2. /\ starters'[p].pc = "bind" /\ starters'[p].seed = starters[p].seed
        /\ starters'[p].since = starters[p].since
        /\ \A q \in Starters \ {p} : starters'[q] = starters[q]
        /\ starters' \in [Starters -> Starter]
    BY <1>0, <2>1, StarterMoves
  <2> QED BY <1>1, <1>2, <1>3, <1>4, <2>1, <2>2, FileMade
<1>5. CASE CreateExclusive(p) /\ keyFile = NoFile
  <2>1. /\ StarterTo(p, "write") /\ keyFile' = KeyFile(starters[p].seed, FALSE)
        /\ publication /= "link"
    BY <1>5 DEF CreateExclusive
  <2>2. /\ starters'[p].pc = "write" /\ starters'[p].seed = starters[p].seed
        /\ starters'[p].since = starters[p].since
        /\ \A q \in Starters \ {p} : starters'[q] = starters[q]
        /\ starters' \in [Starters -> Starter]
    BY <1>0, <2>1, StarterMoves
  <2> QED BY <1>1, <1>2, <1>3, <1>5, <2>1, <2>2, FileMade
<1>6. CASE WriteSeed(p)
  <2>1. /\ StarterTo(p, "sync") /\ keyFile' = KeyFile(starters[p].seed, TRUE)
        /\ StarterAt(p, "write") /\ publication /= "link"
    BY <1>0, <1>6 DEF WriteSeed, StarterInv
  <2>2. /\ starters'[p].pc = "sync" /\ starters'[p].seed = starters[p].seed
        /\ starters'[p].since = starters[p].since
        /\ \A q \in Starters \ {p} : starters'[q] = starters[q]
        /\ starters' \in [Starters -> Starter]
    BY <1>0, <2>1, StarterMoves
  <2> QED BY <1>1, <1>2, <1>3, <2>1, <2>2, FileMade
<1> QED BY <1>4, <1>5, <1>6

LEMMA SeedSynced ==
    ASSUME KeyInv, NEW p \in Starters, SyncSeed(p)
    PROVE  KeyInv'
<1>0. KeyTypeOK /\ StarterInv(p)  BY DEF KeyInv
<1>1. /\ UNCHANGED <<keyFile, deviceRows, publication, replaced, retracted, seeds>>
      /\ StarterAt(p, "sync") /\ StarterTo(p, "bind")
  BY DEF SyncSeed, keyStores, keyHistory
<1>2. /\ starters'[p].pc = "bind" /\ starters'[p].seed = starters[p].seed
      /\ starters'[p].since = starters[p].since
      /\ \A q \in Starters \ {p} : starters'[q] = starters[q]
      /\ starters' \in [Starters -> Starter]
  BY <1>0, <1>1, StarterMoves
<1>3. KeyTypeOK' /\ RowsInv' /\ (publication' = "link" => ~retracted')
  BY <1>1, <1>2 DEF KeyInv, KeyTypeOK, RowsInv
<1>4. ~retracted' => OneWriter'
  BY <1>1, <1>2 DEF KeyInv, OneWriter, StarterAt
<1>5. ASSUME NEW q \in Starters PROVE StarterInv(q)'
  <2>1. CASE q = p  BY <1>0, <1>1, <1>2, <2>1 DEF StarterInv, StarterAt
  <2>2. CASE q /= p
    <3>1. StarterInv(q) /\ starters'[q] = starters[q]  BY <1>2, <2>2 DEF KeyInv
    <3> QED BY <1>1, <3>1 DEF StarterInv, StarterAt
  <2> QED BY <2>1, <2>2
<1> QED BY <1>3, <1>4, <1>5 DEF KeyInv

LEMMA KeyStep == KeyInv /\ [KeyNext]_keyVars => KeyInv'
<1> SUFFICES ASSUME KeyInv, [KeyNext]_keyVars PROVE KeyInv'  OBVIOUS
<1>1. CASE UNCHANGED keyVars
  BY <1>1 DEF keyVars, keyStores, keyHistory, KeyInv, KeyTypeOK, RowsInv, OneWriter,
              StarterInv, StarterAt
<1>2. ASSUME NEW p \in Starters,
             \/ StartProcess(p) \/ StartFails(p) \/ ProcessEnds(p)
             \/ PublishLink(p) \/ CreateExclusive(p) \/ WriteSeed(p)
      PROVE  KeyInv'
  BY <1>2, StarterStops, SeedPublished
<1>3. ASSUME NEW p \in Starters, ReadSeed(p) \/ GenerateSeed(p) PROVE KeyInv'
  BY <1>3, SeedTaken
<1>4. ASSUME NEW p \in Starters, SyncSeed(p) PROVE KeyInv'
  BY <1>4, SeedSynced
<1>5. ASSUME NEW p \in Starters, WriteSeedFails(p) PROVE KeyInv'
  BY <1>5, Removed
<1>6. ASSUME NEW p \in Starters, BindDevice(p) PROVE KeyInv'
  BY <1>6, Bound
<1>7. ASSUME NEW k \in 1 .. seeds, RegisterPeerDevice(k) PROVE KeyInv'
  BY <1>7, PeerRegistered DEF KeyInv, KeyTypeOK
<1>8. ASSUME NEW k \in 1 .. seeds, FileReplaced(KeyFile(k, TRUE)) PROVE KeyInv'
  <2>1. KeyFile(k, TRUE) \in [seed : Nat, whole : BOOLEAN]
    BY DEF KeyInv, KeyTypeOK, KeyFile
  <2> QED BY <1>8, <2>1, Replaced
<1>9. CASE FileReplaced(NoFile)
  <2>1. NoFile \in [seed : Nat, whole : BOOLEAN]  BY DEF NoFile
  <2> QED BY <1>9, <2>1, Replaced
<1> QED BY <1>1, <1>2, <1>3, <1>4, <1>5, <1>6, <1>7, <1>8, <1>9 DEF KeyNext

LEMMA KeyImplies == KeyInv => OneDeviceIdentity
<1> SUFFICES ASSUME KeyInv PROVE OneDeviceIdentity  OBVIOUS
<1>1. \A r \in LocalRows, q \in LocalRows : r = q  BY DEF KeyInv, RowsInv, LocalRows
<1>2. Cardinality(LocalRows) <= 1
  <2>1. CASE LocalRows = {}  BY <2>1, FS_EmptySet
  <2>2. CASE LocalRows /= {}
    <3>1. PICK r \in LocalRows : TRUE  BY <2>2
    <3>2. LocalRows = {r}  BY <1>1, <3>1
    <3>3. Cardinality({r}) = 1  BY FS_Singleton
    <3> QED BY <3>2, <3>3
  <2> QED BY <2>1, <2>2
<1>3. ASSUME ~retracted, NEW p \in Starters, StarterAt(p, "ready"),
             starters[p].since = replaced
      PROVE  /\ keyFile = KeyFile(starters[p].seed, TRUE)
             /\ {r.key : r \in LocalRows} = {starters[p].seed}
  <2>1. /\ keyFile = KeyFile(starters[p].seed, TRUE)
        /\ \E r \in LocalRows : r.key = starters[p].seed
    BY <1>3 DEF KeyInv, StarterInv, LocalRows
  <2> QED BY <1>1, <2>1
<1>4. \A r \in deviceRows, q \in deviceRows : r.key = q.key => r = q
  BY DEF KeyInv, RowsInv
<1> QED BY <1>2, <1>3, <1>4 DEF KeyInv, OneDeviceIdentity

\* However processes overlap while they start over one key file, and wherever they
\* fail or are killed, those that are ready sign with the key that is in the file,
\* and the one local row bears it (load_or_create_device_key_provider).
THEOREM KeyIsShared == KeySpec => []OneDeviceIdentity
<1>1. KeyInit => KeyInv  BY KeyInitially
<1>2. KeyInv /\ [KeyNext]_keyVars => KeyInv'  BY KeyStep
<1>3. KeyInv => OneDeviceIdentity  BY KeyImplies
<1> QED BY <1>1, <1>2, <1>3, PTL DEF KeySpec

-----------------------------------------------------------------------------
(* Authorization: what a trusted context may do. *)

\* The grants are read from the tables whatever roles the context carries, so
\* whoever has one has a role now.
LEMMA TrustedReadsTables ==
    ASSUME NEW user, NEW org, NEW permission, NEW scope,
           RequireTrusted(user, org, permission, scope)
    PROVE  RequireForSubject(user, org, permission, scope)
<1>1. PICK g \in GetEffectivePermissions(user, org) :
         g.permission \in {permission, AnyPermission} /\ Matches(g.constraints, scope)
  BY DEF RequireTrusted, Can
<1>2. g.role \in FindRoleIds(user, org)
  BY DEF GetEffectivePermissions, FindEffectivePermissions
<1> QED  BY <1>1, <1>2 DEF RequireForSubject, Can

\* A context that carries roles captured at sign-in can do nothing its user could
\* not do by asking now, whoever was given or lost a role in between.
THEOREM TrustedIsCurrent == AuthSpec => []TrustedNeverExceeds
<1>1. TrustedNeverExceeds  BY TrustedReadsTables DEF TrustedNeverExceeds
<1> QED  BY <1>1, PTL
=============================================================================
