--------------------------- MODULE Authorization ---------------------------
(***************************************************************************)
(* Roles, their permissions, and the decision of AuthorizationEngine.can   *)
(* for the two kinds of caller: a plain operation context, whose roles are *)
(* read when it asks, and a trusted one, which carries the roles its       *)
(* session had when it was established.                                    *)
(*                                                                         *)
(* userRoles is core_user_roles.  Roles and their permissions are seeded   *)
(* and constant; the services here only assign roles to users.             *)
(***************************************************************************)
EXTENDS Naturals, FiniteSets

CONSTANTS Users, Orgs, Roles,
          RoleOrg,       \* [Roles -> Orgs]: core_roles.organisation_id
          Permissions,
          Grants,        \* rows of core_role_permissions: role, permission, constraints
          AnyPermission, \* the permission named "*"
          Unconstrained, \* scope_constraints_json is NULL
          Malformed,     \* scope_constraints_json does not parse to an object
          NoScope        \* the caller names no resource scope

ASSUME RoleOrgAssumption == RoleOrg \in [Roles -> Orgs]
ASSUME GrantsAssumption ==
    \A g \in Grants : g.role \in Roles /\ g.permission \in Permissions \cup {AnyPermission}
ASSUME ScopeAssumption == Unconstrained /= Malformed

VARIABLES users,      \* ids of the rows of core_users
          userRoles,  \* set of [user, role, org]
          captured    \* roles a trusted context of each user carries

authVars == <<users, userRoles, captured>>

\* core_user_roles joined with the role of the same organisation.
FindRoleIds(user, org) ==
    {r \in Roles : RoleOrg[r] = org /\ [user |-> user, role |-> r, org |-> org] \in userRoles}

\* (Of the roles an earlier session captured as well.)
FindPermissionsEverHeld(user, org) ==
    {g \in Grants : g.role \in FindRoleIds(user, org) \cup captured[user][org]}

FindEffectivePermissions(user, org) == {g \in Grants : g.role \in FindRoleIds(user, org)}

\* A constraint that cannot be read grants nothing.
GetEffectivePermissions(user, org) ==
    {g \in FindEffectivePermissions(user, org) : g.constraints /= Malformed}

ConstrainedKeys(constraints) == IF constraints = Unconstrained THEN {} ELSE DOMAIN constraints

\* Every key the grant constrains must be requested with the same value.
Matches(constraints, scope) ==
    \A k \in ConstrainedKeys(constraints) :
        scope /= NoScope /\ k \in DOMAIN scope /\ scope[k] = constraints[k]

Can(subject, permission, scope) ==
    /\ subject.roles /= {}
    /\ \E g \in GetEffectivePermissions(subject.user, subject.org) :
        /\ g.permission \in {permission, AnyPermission}
        /\ Matches(g.constraints, scope)

\* requireForSubject reads the roles when it is asked.
RequireForSubject(user, org, permission, scope) ==
    Can([user |-> user, org |-> org, roles |-> FindRoleIds(user, org)], permission, scope)

\* requireTrusted takes them from the context.
RequireTrusted(user, org, permission, scope) ==
    Can([user |-> user, org |-> org, roles |-> captured[user][org]], permission, scope)

AuthInit ==
    /\ \E u \in Users :
        /\ users = {u}
        /\ userRoles = {[user |-> u, role |-> r, org |-> RoleOrg[r]] : r \in Roles}
    /\ captured = [u \in Users |-> [o \in Orgs |-> {}]]

\* IdentityAdminService.createUser by creator for its own organisation; a role
\* needs a second permission and must belong to the organisation.
CreateUser(creator, org, user, roles) ==
    /\ user \notin users
    /\ RequireForSubject(creator, org, "users.create", NoScope)
    /\ Cardinality(roles) <= 1
    /\ roles /= {} => RequireForSubject(creator, org, "roles.manage", NoScope)
    /\ \A r \in roles : RoleOrg[r] = org
    /\ users' = users \cup {user}
    /\ userRoles' = userRoles \cup {[user |-> user, role |-> r, org |-> org] : r \in roles}
    /\ UNCHANGED captured

\* UserSessionService.establishFromNativeSession copies the role ids; it reads
\* core_user_roles alone.
CaptureRoles(user, org) ==
    /\ captured' = [captured EXCEPT ![user][org] =
                       {a.role : a \in {b \in userRoles : b.user = user /\ b.org = org}}]
    /\ UNCHANGED <<users, userRoles>>

\* Roles are withdrawn by administration that is not part of this code.
WithdrawRole(a) ==
    /\ a \in userRoles
    /\ userRoles' = userRoles \ {a}
    /\ UNCHANGED <<users, captured>>

AuthNext ==
    \/ \E c, u \in Users, o \in Orgs, rs \in SUBSET Roles : CreateUser(c, o, u, rs)
    \/ \E u \in Users, o \in Orgs : CaptureRoles(u, o)
    \/ \E a \in userRoles : WithdrawRole(a)

AuthSpec == AuthInit /\ [][AuthNext]_authVars

----------------------------------------------------------------------------
AuthTypeOK ==
    /\ users \subseteq Users
    /\ userRoles \subseteq [user : Users, role : Roles, org : Orgs]
    /\ captured \in [Users -> [Orgs -> SUBSET Roles]]

\* The roles a trusted context carries may be out of date, its permissions are
\* not: whatever it may do, a caller whose roles are read now may do as well.
TrustedNeverExceeds ==
    \A u \in Users, o \in Orgs, p \in Permissions :
        RequireTrusted(u, o, p, NoScope) => RequireForSubject(u, o, p, NoScope)
============================================================================
