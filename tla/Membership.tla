----------------------------- MODULE Membership -----------------------------
(***************************************************************************)
(* Admission of devices to sync groups: pairing requests, the decisions of *)
(* administrators, revocation, and the two ways the code asks whether a    *)
(* device is in.  Every operation runs in one database transaction and is  *)
(* one action; callers come in any order.                                  *)
(*                                                                         *)
(* members is core_sync_group_members in insertion order: its only index   *)
(* is the primary key, so SELECT ... LIMIT 1 finds the oldest row.         *)
(***************************************************************************)
EXTENDS Naturals, Sequences, FiniteSets

CONSTANTS Devices, Keys, People, Groups, Requests,
          Nobody,        \* a user_id that is NULL
          Callers,       \* operation contexts: user, org, the permissions they hold
          Organisations,
          GroupOrg       \* [Groups -> Organisations]

ASSUME GroupOrgAssumption == GroupOrg \in [Groups -> Organisations]
ASSUME CallersAssumption ==
    \A c \in Callers : c.user \in People \cup {Nobody} /\ c.org \in Organisations

VARIABLES devices,     \* core_devices: status, public key, bound user
          requests,    \* core_membership_requests
          decisions,   \* core_membership_decisions, per request
          members,     \* core_sync_group_members
          revocations, \* core_revocations, with the members there were
          groupStatus, \* core_sync_groups.status; "none" before it is created
          audit        \* core_audit_events: the kinds of event in it

memberVars == <<devices, requests, decisions, members, revocations, groupStatus, audit>>

InForce == {"APPROVED", "ACTIVE"}
DeviceStatus == {"UNREGISTERED", "PENDING_APPROVAL", "APPROVED", "ACTIVE", "SUSPENDED", "REVOKED"}
NoDevice == [status |-> "none"]
NoRequest == [status |-> "none"]

Emit(event) == audit' = audit \cup {event}

RequirePermission(ctx, permission) == ctx.user /= Nobody /\ permission \in ctx.permissions

\* findGroup; a missing group is refused, as is one of another organisation.
RequireGroupOrganisation(group, ctx) == groupStatus[group] /= "none" /\ GroupOrg[group] = ctx.org

Rows(device, group) ==
    {i \in DOMAIN members : members[i].device = device /\ members[i].group = group}

OldestRow(device, group) ==
    CHOOSE i \in Rows(device, group) : \A j \in Rows(device, group) : i <= j

FindMembershipStatus(device, group) ==
    IF Rows(device, group) = {} THEN "none" ELSE members[OldestRow(device, group)].status

MemberInit ==
    /\ devices = [d \in Devices |-> NoDevice]
    /\ requests = [r \in Requests |-> NoRequest]
    /\ decisions = [r \in Requests |-> <<>>]
    /\ members = <<>>
    /\ revocations = {}
    /\ groupStatus = [g \in Groups |-> "none"]
    /\ audit = {}

CreateGroup(ctx, group) ==
    /\ groupStatus[group] = "none"
    /\ GroupOrg[group] = ctx.org
    /\ RequirePermission(ctx, "sync.manage")
    /\ groupStatus' = [groupStatus EXCEPT ![group] = "ACTIVE"]
    /\ UNCHANGED <<devices, requests, decisions, members, revocations, audit>>

\* registerDevice with the id of a paired device: a known device keeps its row
\* and must show the same key and no other user.
RegisterDevice(device, key, user) ==
    IF devices[device] = NoDevice
    THEN devices' = [devices EXCEPT ![device] =
                        [status |-> "UNREGISTERED", key |-> key, user |-> user]]
    ELSE /\ devices[device].key = key
         /\ user = Nobody \/ devices[device].user \in {Nobody, user}
         /\ UNCHANGED devices

RequestMembership(request, device, group, user) ==
    /\ requests[request] = NoRequest
    /\ requests' = [requests EXCEPT ![request] =
                       [device |-> device, group |-> group, user |-> user, status |-> "PENDING"]]

\* After a valid handshake from the device.
RequestPairing(ctx, request, device, key, group) ==
    /\ groupStatus[group] = "ACTIVE"
    /\ GroupOrg[group] = ctx.org
    /\ RegisterDevice(device, key, ctx.user)
    /\ RequestMembership(request, device, group, ctx.user)
    /\ Emit("MEMBERSHIP_REQUESTED")
    /\ UNCHANGED <<decisions, members, revocations, groupStatus>>

\* What approveMembership requires of a request, and what it writes.
Approvable(ctx, request) ==
    /\ RequirePermission(ctx, "sync.manage")
    /\ requests[request] /= NoRequest
    /\ RequireGroupOrganisation(requests[request].group, ctx)
    /\ requests[request].status = "PENDING"

InsertMember(request) ==
    LET req == requests[request]
    IN  members' = Append(members, [device |-> req.device, group |-> req.group,
                                    user |-> req.user, status |-> "APPROVED"])

ApproveMembership(ctx, request) ==
    /\ Approvable(ctx, request)
    /\ decisions' = [decisions EXCEPT ![request] = Append(@, "APPROVED")]
    /\ requests' = [requests EXCEPT ![request].status = "APPROVED"]
    /\ InsertMember(request)
    /\ UNCHANGED <<revocations, groupStatus>>

SetDeviceStatus(device, status) ==
    /\ devices[device] /= NoDevice
    /\ devices' = [devices EXCEPT ![device].status = status]

\* The device's own status is not looked at.
ApprovePairing(ctx, request) ==
    /\ ApproveMembership(ctx, request)
    /\ SetDeviceStatus(requests[request].device, "APPROVED")
    /\ Emit("MEMBERSHIP_APPROVED")

\* IdentityAdminService.approveDevice.
ApproveDevice(ctx, device, request) ==
    /\ RequirePermission(ctx, "devices.approve")
    /\ devices[device].status \in {"PENDING_APPROVAL", "APPROVED", "ACTIVE"}
    /\ ApproveMembership(ctx, request)
    /\ requests[request].device = device
    /\ SetDeviceStatus(device, "APPROVED")
    /\ Emit("DEVICE_APPROVED")

\* (Deleting the rows; or the oldest row alone.)
RevokeMemberByDelete(device, group) ==
    members' = SelectSeq(members, LAMBDA m : ~(m.device = device /\ m.group = group))

RevokeMemberOldest(device, group) ==
    members' = [i \in DOMAIN members |->
                   IF members[i].device = device /\ members[i].group = group
                        /\ \A j \in 1 .. i - 1 : members[j].device /= device \/ members[j].group /= group
                   THEN [members[i] EXCEPT !.status = "REVOKED"] ELSE members[i]]

\* Every row of the device in the group, whatever its status.
RevokeMember(device, group) ==
    members' = [i \in DOMAIN members |->
                   IF members[i].device = device /\ members[i].group = group
                   THEN [members[i] EXCEPT !.status = "REVOKED"] ELSE members[i]]

RevokeMembership(ctx, device, group) ==
    /\ RequirePermission(ctx, "sync.manage")
    /\ RequireGroupOrganisation(group, ctx)
    /\ FindMembershipStatus(device, group) \in InForce
    /\ RevokeMember(device, group)
    /\ revocations' = revocations \cup
                        {[device |-> device, group |-> group, upto |-> Len(members)]}
    /\ UNCHANGED <<requests, decisions, groupStatus>>

\* IdentityAdminService.revokeDevice: one group's membership, and the device.
RevokeDevice(ctx, device, group) ==
    /\ RequirePermission(ctx, "devices.revoke")
    /\ RevokeMembership(ctx, device, group)
    /\ SetDeviceStatus(device, "REVOKED")
    /\ Emit("DEVICE_REVOKED")

\* (Without setting the request's status.)
RejectMembershipSilently(ctx, request) ==
    /\ Approvable(ctx, request)
    /\ decisions' = [decisions EXCEPT ![request] = Append(@, "REJECTED")]
    /\ UNCHANGED <<devices, requests, members, revocations, groupStatus, audit>>

RejectMembership(ctx, request) ==
    /\ Approvable(ctx, request)
    /\ decisions' = [decisions EXCEPT ![request] = Append(@, "REJECTED")]
    /\ requests' = [requests EXCEPT ![request].status = "REJECTED"]
    /\ UNCHANGED <<devices, members, revocations, groupStatus, audit>>

\* Whatever the device's present status is.
UpdateDeviceStatus(device, status) ==
    /\ SetDeviceStatus(device, status)
    /\ UNCHANGED <<requests, decisions, members, revocations, groupStatus, audit>>

Decide(ctx, request) ==
    \/ ApprovePairing(ctx, request)
    \/ \E d \in Devices : ApproveDevice(ctx, d, request)
    \/ ApproveMembership(ctx, request) /\ UNCHANGED <<devices, audit>>
    \/ RejectMembership(ctx, request)

Withdraw(ctx, device, group) ==
    \/ RevokeDevice(ctx, device, group)
    \/ RevokeMembership(ctx, device, group) /\ UNCHANGED <<devices, audit>>

MemberNext ==
    \/ \E c \in Callers, r \in Requests : Decide(c, r)
    \/ \E c \in Callers, d \in Devices, g \in Groups : Withdraw(c, d, g)
    \/ \E c \in Callers, r \in Requests, d \in Devices, k \in Keys, g \in Groups :
          RequestPairing(c, r, d, k, g)
    \/ \E c \in Callers, g \in Groups : CreateGroup(c, g)
    \/ \E d \in Devices, s \in DeviceStatus : UpdateDeviceStatus(d, s)

MemberSpec == MemberInit /\ [][MemberNext]_memberVars

----------------------------------------------------------------------------
(* The two admission questions the rest of the program asks.               *)

\* (Whatever the device's own status.)
CanSyncAsMember(device, group) == FindMembershipStatus(device, group) \in InForce

CanSync(device, group) ==
    /\ devices[device].status \in InForce
    /\ FindMembershipStatus(device, group) \in InForce

\* findMembershipEligibility: any row in force whose user is NULL or the caller.
Eligible(device, group, user) ==
    \E i \in DOMAIN members :
        /\ members[i].device = device /\ members[i].group = group
        /\ members[i].status \in InForce
        /\ members[i].user = Nobody \/ members[i].user = user

\* Asked by ctx's user on the device, for a write to the group.
RequireActiveMembership(ctx, device, group) ==
    /\ RequireGroupOrganisation(group, ctx)
    /\ groupStatus[group] = "ACTIVE"
    /\ devices[device].status \in InForce
    /\ Eligible(device, group, ctx.user)
----------------------------------------------------------------------------
Approved(device, group) ==
    {r \in Requests : requests[r] /= NoRequest /\ requests[r].status = "APPROVED"
                        /\ requests[r].device = device /\ requests[r].group = group}

MemberTypeOK ==
    /\ devices \in [Devices -> {NoDevice} \cup
                       [status : DeviceStatus, key : Keys, user : People \cup {Nobody}]]
    /\ requests \in [Requests -> {NoRequest} \cup
                        [device : Devices, group : Groups, user : People \cup {Nobody},
                         status : {"PENDING", "APPROVED", "REJECTED"}]]
    /\ decisions \in [Requests -> Seq({"APPROVED", "REJECTED"})]
    /\ members \in Seq([device : Devices, group : Groups, user : People \cup {Nobody},
                         status : {"APPROVED", "REVOKED"}])
    /\ revocations \subseteq [device : Devices, group : Groups, upto : Nat]
    /\ groupStatus \in [Groups -> {"none", "ACTIVE"}]

\* A request is decided once, by one administrator, whichever of the four
\* operations came first, and its status is that decision.
DecidedOnce ==
    \A r \in Requests :
        decisions[r] = IF requests[r].status \in {"none", "PENDING"}
                       THEN <<>> ELSE <<requests[r].status>>

\* There is one membership row for each approved request and no other, so no
\* row is in force that nobody decided on.
MembersAreDecided ==
    \A d \in Devices, g \in Groups : Cardinality(Rows(d, g)) = Cardinality(Approved(d, g))

\* A revocation takes the device out of the group as it then stood: no row that
\* existed is in force again, however many rows there were.
RevocationIsFinal ==
    \A rev \in revocations : \A i \in 1 .. rev.upto :
        /\ i <= Len(members)
        /\ (members[i].device = rev.device /\ members[i].group = rev.group)
              => members[i].status = "REVOKED"

\* The users a membership row is for: one user, or all if its user_id is NULL.
UsersOf(i) == IF members[i].user = Nobody THEN People \cup {Nobody} ELSE {members[i].user}

\* The two admission questions read different rows.  When canSync tells the
\* transport that a device may sync with a group, every user whom the row it
\* read is for may write to the group from that device, in a context of the
\* group's organisation.
SyncImpliesWrite ==
    \A d \in Devices, g \in Groups : CanSync(d, g) =>
        \A u \in UsersOf(OldestRow(d, g)) :
            RequireActiveMembership([user |-> u, org |-> GroupOrg[g]], d, g)

\* The comment on approveMembership: "Insert or update member record".  A device
\* has one membership record in a group.
MemberIsUpdated == \A d \in Devices, g \in Groups : Cardinality(Rows(d, g)) <= 1
============================================================================
