----------------------------- MODULE AppSession -----------------------------
(***************************************************************************)
(* The demo application's session: PlatformProvider's init, authenticate   *)
(* and logout callbacks over the platform's session service and the native *)
(* store.  Three layers say who is signed in: native, session (the service *)
(* the callbacks call) and ui, the React state the pages render.           *)
(*                                                                         *)
(* The pages limit what a user can start: the login form shows when ui is  *)
(* empty and submits once at a time when the platform is ready; the logout *)
(* button shows when ui is set and is not disabled by a first click.       *)
(***************************************************************************)
EXTENDS UserSession, FiniteSets

CONSTANTS Clicks,     \* logout clicks that may be under way at a time
          MaxLogins   \* bound: login forms submitted

ASSUME MaxLoginsAssumption == MaxLogins \in Nat
ASSUME AppCallsAssumption == {"init", "login"} \subseteq Calls

VARIABLES ui,          \* nativeSession
          isReady, started, listeners,
          initPc, initView,
          loginPc, loginUser, logins,
          logoutPc,
          raced        \* a logout was clicked while a start went on, or was under
                       \* way when a login was submitted or a start began

appVars == <<ui, isReady, started, listeners, initPc, initView,
             loginPc, loginUser, logins, logoutPc, raced>>

LogoutsUnderWay == {k \in Clicks : logoutPc[k] /= "idle"}

AppInit ==
    /\ SessionInit
    /\ ui = None /\ isReady = FALSE /\ started = FALSE /\ listeners = {}
    /\ initPc = "idle" /\ initView = None
    /\ loginPc = "idle" /\ loginUser = None /\ logins = 0
    /\ logoutPc = [k \in Clicks |-> "idle"]
    /\ raced = FALSE

Init0 == <<isReady, started, listeners>>
Login0 == <<loginPc, loginUser, logins, raced>>
Starting == initPc \notin {"idle", "failed", "done"}

\* On mount, and from the retry button of the login page: a new Platform, with
\* no session of its own yet.
StartInit ==
    /\ ~started /\ ui = None
    /\ started' = TRUE /\ initPc' = "platform"
    /\ session' = None
    /\ raced' = (raced \/ LogoutsUnderWay /= {})
    /\ UNCHANGED <<native, nextId, Environment, calls, ui, isReady, listeners, initView,
                   loginPc, loginUser, logins, logoutPc>>

\* The catch block takes everything down again, the platform and with it its
\* session too, but not the signed-in user of the page.
InitFails ==
    /\ initPc \in {"platform", "tray", "tick"}
    /\ listeners' = {} /\ isReady' = FALSE /\ started' = FALSE /\ initPc' = "failed"
    /\ session' = None
    /\ UNCHANGED <<native, nextId, Environment, calls, ui, initView, Login0, logoutPc>>

InitPlatform ==
    /\ initPc = "platform" /\ initPc' = "current"
    /\ UNCHANGED <<sessionVars, ui, Init0, initView, Login0, logoutPc>>

InitCurrentSession ==
    /\ initPc = "current"
    /\ IF native = None
       THEN initPc' = "transport" /\ UNCHANGED <<initView, calls>>
       ELSE /\ initPc' = "restoring" /\ initView' = native
            /\ BeginRestore("init")
    /\ UNCHANGED <<native, session, nextId, Environment, ui, Init0, Login0, logoutPc>>

InitCurrentFails ==
    /\ initPc = "current"
    /\ initPc' = "rollback" /\ ui' = None
    /\ UNCHANGED <<sessionVars, Init0, initView, Login0, logoutPc>>

\* A restore that answered null is taken for one that succeeded.
InitRestored ==
    /\ initPc = "restoring"
    /\ \/ calls["init"].pc = "done" /\ ui' = initView /\ initPc' = "transport"
       \/ calls["init"].pc = "failed" /\ ui' = None /\ initPc' = "rollback"
    /\ calls' = [calls EXCEPT !["init"] = NoCall]
    /\ UNCHANGED <<native, session, nextId, Environment, Init0, initView, Login0, logoutPc>>

\* The native logout may fail; its error is dropped.
InitRollback ==
    /\ initPc = "rollback" /\ initPc' = "transport"
    /\ native' \in {None, native}
    /\ UNCHANGED <<session, nextId, Environment, calls, ui, Init0, initView, Login0, logoutPc>>

\* Transport, device identity, sync and background_start: none of them fatal.
InitTransport ==
    /\ initPc = "transport" /\ initPc' = "tray"
    /\ UNCHANGED <<sessionVars, ui, Init0, initView, Login0, logoutPc>>

InitListens ==
    /\ \/ /\ initPc = "tray" /\ initPc' = "tick"
          /\ listeners' = listeners \cup {"sync-now-requested"} /\ UNCHANGED isReady
       \/ /\ initPc = "tick" /\ initPc' = "done"
          /\ listeners' = listeners \cup {"sync-tick"} /\ isReady' = TRUE
    /\ UNCHANGED <<sessionVars, ui, started, initView, Login0, logoutPc>>

SubmitLogin(user) ==
    /\ ui = None /\ isReady /\ loginPc = "idle" /\ logins < MaxLogins
    /\ loginPc' = "native" /\ loginUser' = user /\ logins' = logins + 1
    /\ raced' = (raced \/ LogoutsUnderWay /= {})
    /\ UNCHANGED <<sessionVars, ui, Init0, initPc, initView, logoutPc>>

LoginNative ==
    /\ loginPc = "native"
    /\ \/ /\ native' = loginUser /\ loginPc' = "restoring"
          /\ BeginRestore("login")
       \/ loginPc' = "idle" /\ UNCHANGED <<native, calls>>
    /\ UNCHANGED <<session, nextId, Environment, ui, Init0, initPc, initView,
                   loginUser, logins, raced, logoutPc>>

\* (Signing in although the platform refused the session.)
LoginRestoredAnyway ==
    /\ loginPc = "restoring"
    /\ calls["login"].pc \in {"done", "failed"} /\ loginPc' = "identity"
    /\ calls' = [calls EXCEPT !["login"] = NoCall]
    /\ UNCHANGED <<native, session, nextId, Environment, ui, Init0, initPc, initView,
                   loginUser, logins, raced, logoutPc>>

LoginRestored ==
    /\ loginPc = "restoring"
    /\ \/ calls["login"].pc = "done" /\ loginPc' = "identity"
       \/ calls["login"].pc = "failed" /\ loginPc' = "rollback"
    /\ calls' = [calls EXCEPT !["login"] = NoCall]
    /\ UNCHANGED <<native, session, nextId, Environment, ui, Init0, initPc, initView,
                   loginUser, logins, raced, logoutPc>>

LoginRollback ==
    /\ loginPc = "rollback" /\ loginPc' = "idle"
    /\ native' \in {None, native}
    /\ UNCHANGED <<session, nextId, Environment, calls, ui, Init0, initPc, initView,
                   loginUser, logins, raced, logoutPc>>

\* Sync is configured for the device, or left as it was if that fails.
LoginDone ==
    /\ loginPc = "identity" /\ loginPc' = "idle"
    /\ ui' = loginUser
    /\ UNCHANGED <<sessionVars, Init0, initPc, initView, loginUser, logins, raced, logoutPc>>

\* The callback holds the platform its render saw: none before the start is over,
\* none after one that failed.
ClickLogout(k) ==
    /\ ui /= None /\ logoutPc[k] = "idle"
    /\ logoutPc' = [logoutPc EXCEPT ![k] = IF isReady THEN "native" ELSE "native, no platform"]
    /\ raced' = (raced \/ Starting)
    /\ UNCHANGED <<sessionVars, ui, Init0, initPc, initView, loginPc, loginUser, logins>>

LogoutNative(k) ==
    /\ logoutPc[k] \in {"native", "native, no platform"}
    /\ \/ /\ native' = None
          /\ logoutPc' = [logoutPc EXCEPT ![k] = IF @ = "native" THEN "finish"
                                                 ELSE "finish, no platform"]
       \/ UNCHANGED native /\ logoutPc' = [logoutPc EXCEPT ![k] = "idle"]
    /\ UNCHANGED <<session, nextId, Environment, calls, ui, Init0, initPc, initView, Login0>>

LogoutFinish(k) ==
    /\ logoutPc[k] \in {"finish", "finish, no platform"}
    /\ logoutPc' = [logoutPc EXCEPT ![k] = "idle"]
    /\ ui' = None
    /\ IF logoutPc[k] = "finish" THEN InvalidateSession ELSE UNCHANGED session
    /\ UNCHANGED <<native, nextId, Environment, calls, Init0, initPc, initView, Login0>>

RestoreStep(c) ==
    /\ ReadNativeSession(c) \/ CheckUser(c) \/ CheckDevice(c) \/ Establish(c) \/ ReadFails(c)
    /\ UNCHANGED appVars

AppNext ==
    \/ StartInit \/ InitFails \/ InitPlatform \/ InitCurrentSession \/ InitCurrentFails
    \/ InitRestored \/ InitRollback \/ InitTransport \/ InitListens
    \/ \E u \in Accounts : SubmitLogin(u)
    \/ LoginNative \/ LoginRestored \/ LoginRollback \/ LoginDone
    \/ \E k \in Clicks : ClickLogout(k) \/ LogoutNative(k) \/ LogoutFinish(k)
    \/ \E c \in {"init", "login"} : RestoreStep(c)
    \/ StatusChanges /\ UNCHANGED appVars

AppSpec == AppInit /\ [][AppNext]_<<sessionVars, appVars>>

----------------------------------------------------------------------------
Settled ==
    /\ initPc \in {"failed", "done"} /\ loginPc = "idle" /\ LogoutsUnderWay = {}

\* Once everything the user started has settled, whichever step of init, login
\* or logout failed, the three layers agree.  A signed-out page stands on no
\* platform session.  A signed-in page stands on a native session and, if the
\* start succeeded, on a platform session of the same user; a start that failed
\* after it had restored a session leaves the page signed in without a platform
\* session, and the user can only sign out.  All this short of the orders that
\* raced names, which the pages do not prevent.  At all times a ready platform
\* hears the scheduler, and a start that failed leaves no listener for the next
\* one to double.
LayersAgree ==
    /\ Settled /\ ~raced =>
          /\ ui = None \/ initPc = "failed" => session = None
          /\ ui /= None => native = ui
          /\ ui /= None /\ initPc = "done" => session /= None /\ session.user = ui
    /\ isReady => listeners = {"sync-now-requested", "sync-tick"}
    /\ ~started => listeners = {}
============================================================================
