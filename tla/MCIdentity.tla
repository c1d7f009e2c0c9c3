----------------------------- MODULE MCIdentity -----------------------------
(***************************************************************************)
(* Instances of the identity modules for TLC.  They share no state, so a   *)
(* behaviour picks one of them, its focus, and the others stand still.     *)
(***************************************************************************)
EXTENDS Authorization, Membership, Handshake, AppSession, NativeSession, DeviceKey, TLC

CONSTANTS alice, bob, none, star, anything, broken, anywhere,
          d1, d2, k1, k2, g1, g2, r1, r2, r3, o1, o2, c1, c2, m1, m2, m3, m4,
          admin, clerk, guest, Focus

VARIABLE focus

\* Roles and grants of two organisations; one constraint does not parse.
MCRoleOrg == [r \in {admin, clerk, guest} |-> IF r = guest THEN o2 ELSE o1]
MCGrants == {[role |-> admin, permission |-> star, constraints |-> anything],
             [role |-> clerk, permission |-> "users.create", constraints |-> anything],
             [role |-> clerk, permission |-> "roles.manage", constraints |-> broken],
             [role |-> guest, permission |-> "users.create", constraints |-> anything],
             [role |-> guest, permission |-> "roles.manage", constraints |-> anything]}

MCCallers == {[user |-> alice, org |-> o1,
               permissions |-> {"sync.manage", "devices.approve", "devices.revoke"}],
              [user |-> bob, org |-> o1, permissions |-> {}],
              [user |-> bob, org |-> o2, permissions |-> {"sync.manage", "devices.revoke"}]}
MCGroupOrg == [g \in Groups |-> o1]

\* m1 and m2 repeat a nonce; m4 is signed but not for this application.
MCNonceOf == m1 :> 1 @@ m2 :> 1 @@ m3 :> 2 @@ m4 :> 2
MCSentAt == m1 :> 0 @@ m2 :> 1 @@ m3 :> 1 @@ m4 :> 0

\* Devices and requests differ only in name.
Symmetric == Permutations({d1, d2}) \cup Permutations({r1, r2, r3})

\* The initial states of the modules out of focus are fixed: only the focus chooses.
Init == /\ focus \in Focus
        /\ AuthInit /\ MemberInit /\ HandshakeInit /\ AppInit /\ NativeInit /\ KeyInit
        /\ focus /= "authorization" => users = {alice}
        /\ focus \notin {"session", "app"} => native = none /\ active = Accounts
        /\ focus /= "key" => publication = "link"

Next ==
    \/ /\ focus = "authorization" /\ AuthNext
       /\ UNCHANGED <<focus, memberVars, shakeVars, sessionVars, appVars, nativeVars, keyVars>>
    \/ /\ focus = "membership" /\ MemberNext
       /\ UNCHANGED <<focus, authVars, shakeVars, sessionVars, appVars, nativeVars, keyVars>>
    \/ /\ focus = "handshake" /\ HandshakeNext
       /\ UNCHANGED <<focus, authVars, memberVars, sessionVars, appVars, nativeVars, keyVars>>
    \/ /\ focus = "session" /\ SessionNext
       /\ UNCHANGED <<focus, authVars, memberVars, shakeVars, appVars, nativeVars, keyVars>>
    \/ /\ focus = "app" /\ AppNext
       /\ UNCHANGED <<focus, authVars, memberVars, shakeVars, nativeVars, keyVars>>
    \/ /\ focus = "native" /\ NativeNext
       /\ UNCHANGED <<focus, authVars, memberVars, shakeVars, sessionVars, appVars, keyVars>>
    \/ /\ focus = "key" /\ KeyNext
       /\ UNCHANGED <<focus, authVars, memberVars, shakeVars, sessionVars, appVars, nativeVars>>

Spec == Init
        /\ [][Next]_<<focus, authVars, memberVars, shakeVars, sessionVars, appVars, nativeVars, keyVars>>
=============================================================================
