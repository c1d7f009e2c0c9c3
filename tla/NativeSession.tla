---------------------------- MODULE NativeSession ----------------------------
(***************************************************************************)
(* NativeSessionStore and DurableDatabase::authenticate_user.  Commands    *)
(* run on threads of their own.  A login takes a generation, verifies the  *)
(* password in a transaction under the connection's lock, and its          *)
(* principal becomes current if no login or logout began since.            *)
(***************************************************************************)
EXTENDS Naturals, Sequences, SequencesExt

CONSTANTS Principals,   \* users with a row in core_users
          MaxFailures,  \* failures that lock an account
          Lockout,      \* seconds a lock lasts
          LastEpoch,    \* bound on the wall clock
          MaxGeneration \* bound on logins and logouts together

ASSUME NativeSessionAssumption ==
    MaxFailures \in Nat \ {0} /\ Lockout \in Nat /\ LastEpoch \in Nat /\ MaxGeneration \in Nat

VARIABLES current,     \* NativeSessionStore.current: the login it came from, or 0
          generation,
          credentials, \* per user failed_authentication_attempts and locked_until
          authCalls,   \* calls of authenticate, by the generation they took
          epoch,       \* current_epoch_seconds()
          lastLogout,  \* history: the generation of the last logout
          failedAt     \* history: when passwords failed, since one last passed

nativeVars == <<current, generation, credentials, authCalls, epoch, lastLogout, failedAt>>

Generations == 1 .. MaxGeneration
NoFailures == [failures |-> 0, lockedUntil |-> 0]  \* NULL is a time gone by

NativeInit ==
    /\ current = 0 /\ generation = 0 /\ lastLogout = 0 /\ epoch = 0
    /\ credentials = [u \in Principals |-> NoFailures]
    /\ authCalls = [g \in Generations |-> [pc |-> "idle"]]
    /\ failedAt = [u \in Principals |-> <<>>]

NextGeneration == generation < MaxGeneration /\ generation' = generation + 1

Authenticate(user) ==
    /\ NextGeneration
    /\ authCalls' = [authCalls EXCEPT ![generation'] = [pc |-> "verify", user |-> user]]
    /\ UNCHANGED <<current, credentials, epoch, lastLogout, failedAt>>

CallAt(g, pc) == authCalls[g].pc = pc
CallTo(g, pc) == authCalls' = [authCalls EXCEPT ![g].pc = pc]

LockedOut(user) == credentials[user].lockedUntil > epoch

\* The account is locked; the user is not active, the device not approved or
\* another user's; or a statement fails.  The attempt is not counted.
AuthenticationRefused(g) ==
    /\ CallAt(g, "verify") /\ CallTo(g, "failed")
    /\ UNCHANGED <<current, generation, credentials, epoch, lastLogout, failedAt>>

\* (Locking at the limit only.)
NextLockAtLimit(failures) == IF failures = MaxFailures THEN epoch + Lockout ELSE 0

\* From the limit on every failure locks again: an expired lock resets nothing.
NextLock(failures) == IF failures >= MaxFailures THEN epoch + Lockout ELSE 0

PasswordFails(g) ==
    /\ CallAt(g, "verify") /\ ~LockedOut(authCalls[g].user) /\ CallTo(g, "failed")
    /\ LET user == authCalls[g].user
           failures == credentials[user].failures + 1
       IN  /\ credentials' = [credentials EXCEPT ![user] =
                                 [failures |-> failures, lockedUntil |-> NextLock(failures)]]
           /\ failedAt' = [failedAt EXCEPT ![user] = Append(@, epoch)]
    /\ UNCHANGED <<current, generation, epoch, lastLogout>>

ForgetFailures(user) ==
    /\ credentials' = [credentials EXCEPT ![user] = NoFailures]
    /\ failedAt' = [failedAt EXCEPT ![user] = <<>>]

\* History: a password passes after a lock is over only.
Spaced(user) == Len(failedAt[user]) >= MaxFailures => Last(failedAt[user]) + Lockout <= epoch

PasswordPasses(g) ==
    LET user == authCalls[g].user
    IN  /\ CallAt(g, "verify") /\ ~LockedOut(user) /\ ForgetFailures(user)
        /\ authCalls' = [authCalls EXCEPT ![g] =
                            [pc |-> "commit", user |-> user, spaced |-> Spaced(user)]]
        /\ UNCHANGED <<current, generation, epoch, lastLogout>>

\* (Without the comparison of generations.)
CommitUnchecked(g) ==
    /\ CallAt(g, "commit") /\ current' = g /\ CallTo(g, "done")
    /\ UNCHANGED <<generation, credentials, epoch, lastLogout, failedAt>>

\* commit_authentication, under the lock of the store.
CommitAuthentication(g) ==
    /\ CallAt(g, "commit")
    /\ IF g = generation
       THEN current' = g /\ CallTo(g, "done")
       ELSE UNCHANGED current /\ CallTo(g, "failed")
    /\ UNCHANGED <<generation, credentials, epoch, lastLogout, failedAt>>

ClearNativeSession ==
    /\ NextGeneration
    /\ lastLogout' = generation' /\ current' = 0
    /\ UNCHANGED <<credentials, authCalls, epoch, failedAt>>

\* An administrator sets a password: the account is unlocked.
SetPasswordVerifier(user) ==
    /\ ForgetFailures(user)
    /\ UNCHANGED <<current, generation, authCalls, epoch, lastLogout>>

\* Seconds pass, or the wall clock is set back.
EpochMoves ==
    /\ epoch' = IF epoch < LastEpoch THEN epoch + 1 ELSE 0
    /\ UNCHANGED <<current, generation, credentials, authCalls, lastLogout, failedAt>>

NativeNext ==
    \/ \E u \in Principals : Authenticate(u) \/ SetPasswordVerifier(u)
    \/ \E g \in Generations : \/ AuthenticationRefused(g) \/ PasswordFails(g)
                              \/ PasswordPasses(g) \/ CommitAuthentication(g)
    \/ ClearNativeSession \/ EpochMoves

NativeSpec == NativeInit /\ [][NativeNext]_nativeVars

----------------------------------------------------------------------------
\* The session in force was earned: its login began after the last logout, a
\* login that answered success is in force until a later transition begins and
\* is never displaced by one that began before it, and however many logins run
\* at once, past the limit of failures no password, right or wrong, is tried
\* before the lockout since the last failure is over.
SessionsAreEarned ==
    /\ current /= 0 => current > lastLogout /\ authCalls[current].spaced
    /\ \A g \in Generations : CallAt(g, "done") =>
          /\ g = generation => current = g
          /\ current /= 0 => g <= current
    /\ \A u \in Principals : \A i \in MaxFailures + 1 .. Len(failedAt[u]) :
          failedAt[u][i - 1] + Lockout <= failedAt[u][i]
=============================================================================
