-------------------------- MODULE MembershipProofs --------------------------
(***************************************************************************)
(* Membership: decisions are made once, revocations last, every row goes   *)
(* back to an approval and canSync implies the authority to write.         *)
(* MemberInv holds the types of the tables and the history; RosterInv      *)
(* counts rows against approvals.                                          *)
(***************************************************************************)
EXTENDS Membership, FiniteSetTheorems, WellFoundedInduction, TLAPS

Device == [status : DeviceStatus, key : Keys, user : People \cup {Nobody}]
Request == [device : Devices, group : Groups, user : People \cup {Nobody},
            status : {"PENDING", "APPROVED", "REJECTED"}]
Row == [device : Devices, group : Groups, user : People \cup {Nobody},
        status : {"APPROVED", "REVOKED"}]

DevicesOK == devices \in [Devices -> {NoDevice} \cup Device]
RequestsOK == requests \in [Requests -> {NoRequest} \cup Request]
DecisionsOK == decisions = [r \in Requests |-> decisions[r]]
MembersOK == members \in Seq(Row)
RevocationsOK == revocations \subseteq [device : Devices, group : Groups, upto : Nat]

MemberInv ==
    /\ DevicesOK /\ RequestsOK /\ DecisionsOK /\ MembersOK /\ RevocationsOK
    /\ DecidedOnce /\ RevocationIsFinal

\* Of the numbers in a set one is least.
LEMMA LeastElement ==
    ASSUME NEW T, T \subseteq Nat, T /= {}
    PROVE  \E m \in T : \A k \in T : ~(k < m)
<1>1. PICK m \in T : \A k \in T : ~(<<k, m>> \in OpToRel(<, Nat))
  BY NatLessThanWellFounded, WFMin
<1>2. \A k \in T : k < m => <<k, m>> \in OpToRel(<, Nat)
  BY DEF OpToRel
<1> QED  BY <1>1, <1>2

LEMMA DevicesSet ==
    ASSUME DevicesOK, NEW d \in Devices, NEW status \in DeviceStatus, SetDeviceStatus(d, status)
    PROVE  DevicesOK'
<1>1. /\ devices[d] \in Device
      /\ devices' = [devices EXCEPT ![d] = [devices[d] EXCEPT !.status = status]]
  BY DEF DevicesOK, SetDeviceStatus
<1>2. [devices[d] EXCEPT !.status = status] \in Device
  BY <1>1 DEF Device
<1> QED BY <1>1, <1>2 DEF DevicesOK

LEMMA DeviceRegistered ==
    ASSUME DevicesOK, NEW d \in Devices, NEW key \in Keys, NEW user \in People \cup {Nobody},
           RegisterDevice(d, key, user)
    PROVE  DevicesOK'
<1> DEFINE new == [status |-> "UNREGISTERED", key |-> key, user |-> user]
<1>1. new \in Device  BY DEF Device, DeviceStatus
<1>2. \/ devices' = [devices EXCEPT ![d] = new] /\ devices[d] = NoDevice
      \/ devices' = devices
  BY DEF RegisterDevice
<1> HIDE DEF new
<1> QED BY <1>1, <1>2 DEF DevicesOK

\* A request that is in the table is a Request.
LEMMA Known ==
    ASSUME RequestsOK, NEW r \in Requests, requests[r] /= NoRequest
    PROVE  /\ requests[r] \in Request /\ requests[r].status \in {"PENDING", "APPROVED", "REJECTED"}
           /\ requests[r].device \in Devices
BY DEF RequestsOK, Request

\* The decision of a pending request is its only one.
LEMMA Deciding ==
    ASSUME RequestsOK, DecisionsOK, DecidedOnce, NEW r \in Requests,
           NEW outcome \in {"APPROVED", "REJECTED"},
           requests[r] /= NoRequest, requests[r].status = "PENDING",
           decisions' = [decisions EXCEPT ![r] = Append(@, outcome)],
           requests' = [requests EXCEPT ![r].status = outcome]
    PROVE  /\ RequestsOK' /\ DecisionsOK' /\ DecidedOnce'
           /\ requests'[r].status = outcome
<1>1. requests[r] \in Request  BY Known
<1>2. /\ [requests[r] EXCEPT !.status = outcome] \in Request
      /\ [requests[r] EXCEPT !.status = outcome].status = outcome
  BY <1>1 DEF Request
<1>3. /\ requests'[r] = [requests[r] EXCEPT !.status = outcome]
      /\ \A x \in Requests \ {r} : requests'[x] = requests[x]
      /\ RequestsOK'
  BY <1>2 DEF RequestsOK
<1>4. decisions[r] = <<>>  BY DEF DecidedOnce
<1>5. /\ decisions'[r] = Append(decisions[r], outcome)
      /\ \A x \in Requests \ {r} : decisions'[x] = decisions[x]
      /\ DecisionsOK'
  BY DEF DecisionsOK
<1>6. decisions'[r] = <<outcome>>  BY <1>4, <1>5
<1>7. DecidedOnce'
  <2> SUFFICES ASSUME NEW x \in Requests
               PROVE  decisions'[x] = IF requests'[x].status \in {"none", "PENDING"}
                                      THEN <<>> ELSE <<requests'[x].status>>
    BY DEF DecidedOnce
  <2>1. CASE x = r  BY <1>2, <1>3, <1>6, <2>1
  <2>2. CASE x /= r  BY <1>3, <1>5, <2>2 DEF DecidedOnce
  <2> QED BY <2>1, <2>2
<1> QED BY <1>2, <1>3, <1>5, <1>7

LEMMA ApproveKeeps ==
    ASSUME MemberInv, NEW ctx, NEW r \in Requests, ApproveMembership(ctx, r), DevicesOK'
    PROVE  MemberInv'
<1>0. /\ RequestsOK /\ DecisionsOK /\ MembersOK /\ RevocationsOK /\ DecidedOnce /\ RevocationIsFinal
  BY DEF MemberInv
<1>1. /\ requests[r] /= NoRequest /\ requests[r].status = "PENDING"
      /\ decisions' = [decisions EXCEPT ![r] = Append(@, "APPROVED")]
      /\ requests' = [requests EXCEPT ![r].status = "APPROVED"]
      /\ InsertMember(r) /\ revocations' = revocations
  BY DEF ApproveMembership, Approvable
<1>2. RequestsOK' /\ DecisionsOK' /\ DecidedOnce'  BY <1>0, <1>1, Deciding
<1> DEFINE new == [device |-> requests[r].device, group |-> requests[r].group,
                   user |-> requests[r].user, status |-> "APPROVED"]
<1>3. new \in Row  BY <1>0, <1>1, Known DEF Request, Row
<1>4. members' = Append(members, new)  BY <1>1 DEF InsertMember
<1> HIDE DEF new
<1>5. /\ MembersOK' /\ Len(members') = Len(members) + 1 /\ Len(members) \in Nat
      /\ \A i \in 1 .. Len(members) : members'[i] = members[i]
  BY <1>0, <1>3, <1>4 DEF MembersOK
<1>6. RevocationIsFinal'
  <2> SUFFICES ASSUME NEW rev \in revocations, NEW i \in 1 .. rev.upto
               PROVE  /\ i <= Len(members')
                      /\ (members'[i].device = rev.device /\ members'[i].group = rev.group)
                            => members'[i].status = "REVOKED"
    BY <1>1 DEF RevocationIsFinal
  <2>1. rev.upto \in Nat  BY <1>0 DEF RevocationsOK
  <2>2. i <= Len(members) /\ i \in Nat /\ i >= 1
    BY <1>0, <2>1 DEF RevocationIsFinal
  <2>3. i \in 1 .. Len(members) /\ i <= Len(members')  BY <1>5, <2>2
  <2>4. members'[i] = members[i]  BY <1>5, <2>3
  <2> QED BY <1>0, <2>3, <2>4 DEF RevocationIsFinal
<1> QED BY <1>0, <1>1, <1>2, <1>5, <1>6 DEF MemberInv, RevocationsOK

LEMMA RejectKeeps ==
    ASSUME MemberInv, NEW ctx, NEW r \in Requests, RejectMembership(ctx, r)
    PROVE  MemberInv'
<1>1. /\ requests[r] /= NoRequest /\ requests[r].status = "PENDING"
      /\ decisions' = [decisions EXCEPT ![r] = Append(@, "REJECTED")]
      /\ requests' = [requests EXCEPT ![r].status = "REJECTED"]
      /\ UNCHANGED <<devices, members, revocations>>
  BY DEF RejectMembership, Approvable
<1>2. RequestsOK' /\ DecisionsOK' /\ DecidedOnce'  BY <1>1, Deciding DEF MemberInv
<1> QED BY <1>1, <1>2 DEF MemberInv, DevicesOK, MembersOK, RevocationsOK, RevocationIsFinal

LEMMA RevokeKeeps ==
    ASSUME MemberInv, NEW ctx, NEW d \in Devices, NEW g \in Groups,
           RevokeMembership(ctx, d, g), DevicesOK'
    PROVE  MemberInv'
<1>0. /\ RequestsOK /\ DecisionsOK /\ MembersOK /\ RevocationsOK /\ DecidedOnce /\ RevocationIsFinal
  BY DEF MemberInv
<1> DEFINE rev0 == [device |-> d, group |-> g, upto |-> Len(members)]
           Ended(i) == IF members[i].device = d /\ members[i].group = g
                       THEN [members[i] EXCEPT !.status = "REVOKED"] ELSE members[i]
<1>1. /\ members' = [i \in DOMAIN members |-> Ended(i)]
      /\ revocations' = revocations \cup {rev0} /\ UNCHANGED <<requests, decisions>>
  BY DEF RevokeMembership, RevokeMember
<1>2. DOMAIN members = 1 .. Len(members) /\ Len(members) \in Nat
      /\ \A i \in 1 .. Len(members) : members[i] \in Row
  BY <1>0 DEF MembersOK
<1>3. ASSUME NEW i \in 1 .. Len(members)
      PROVE  /\ Ended(i) \in Row /\ Ended(i).device = members[i].device
             /\ Ended(i).group = members[i].group
             /\ members[i].status = "REVOKED" => Ended(i).status = "REVOKED"
             /\ members[i].device = d /\ members[i].group = g => Ended(i).status = "REVOKED"
  <2>1. members[i] \in Row  BY <1>2
  <2> QED BY <2>1 DEF Row
<1> HIDE DEF Ended
<1>4. /\ MembersOK' /\ Len(members') = Len(members)
      /\ \A i \in 1 .. Len(members) : members'[i] = Ended(i)
  <2>1. members' = [i \in 1 .. Len(members) |-> Ended(i)]  BY <1>1, <1>2
  <2>2. members' \in [1 .. Len(members) -> Row]  BY <1>3, <2>1
  <2> QED BY <1>2, <2>1, <2>2 DEF MembersOK
<1>5. rev0 \in [device : Devices, group : Groups, upto : Nat] /\ rev0.upto = Len(members)
      /\ rev0.device = d /\ rev0.group = g
  BY <1>2
<1> HIDE DEF rev0
<1>6. RevocationIsFinal'
  <2> SUFFICES ASSUME NEW rev \in revocations', NEW i \in 1 .. rev.upto
               PROVE  /\ i <= Len(members')
                      /\ (members'[i].device = rev.device /\ members'[i].group = rev.group)
                            => members'[i].status = "REVOKED"
    BY DEF RevocationIsFinal
  <2>1. CASE rev \in revocations
    <3>1. rev.upto \in Nat  BY <1>0, <2>1 DEF RevocationsOK
    <3>2. /\ i <= Len(members) /\ i \in Nat /\ i >= 1
          /\ (members[i].device = rev.device /\ members[i].group = rev.group)
                => members[i].status = "REVOKED"
      BY <1>0, <2>1, <3>1 DEF RevocationIsFinal
    <3>3. i \in 1 .. Len(members)  BY <1>2, <3>2
    <3> QED BY <1>3, <1>4, <3>2, <3>3
  <2>2. CASE rev = rev0
    <3>1. i \in 1 .. Len(members) /\ i <= Len(members)  BY <1>2, <1>5, <2>2
    <3> QED BY <1>3, <1>4, <1>5, <2>2, <3>1
  <2> QED BY <1>1, <2>1, <2>2
<1> QED BY <1>0, <1>1, <1>4, <1>5, <1>6
        DEF MemberInv, RequestsOK, DecisionsOK, RevocationsOK, DecidedOnce

LEMMA PairingKeeps ==
    ASSUME MemberInv, NEW c \in Callers, NEW r \in Requests, NEW d \in Devices, NEW k \in Keys,
           NEW g \in Groups, RequestPairing(c, r, d, k, g)
    PROVE  MemberInv'
<1>0. /\ DevicesOK /\ RequestsOK /\ DecisionsOK /\ MembersOK /\ RevocationsOK
      /\ DecidedOnce /\ RevocationIsFinal
  BY DEF MemberInv
<1>1. c.user \in People \cup {Nobody}  BY CallersAssumption
<1> DEFINE new == [device |-> d, group |-> g, user |-> c.user, status |-> "PENDING"]
<1>2. /\ RegisterDevice(d, k, c.user) /\ requests[r] = NoRequest
      /\ requests' = [requests EXCEPT ![r] = new]
      /\ UNCHANGED <<decisions, members, revocations>>
  BY DEF RequestPairing, RequestMembership
<1>3. DevicesOK'  BY <1>0, <1>1, <1>2, DeviceRegistered
<1>4. new \in Request /\ new.status = "PENDING"  BY <1>1 DEF Request
<1> HIDE DEF new
<1>5. /\ RequestsOK' /\ requests'[r] = new
      /\ \A x \in Requests \ {r} : requests'[x] = requests[x]
  BY <1>0, <1>2, <1>4 DEF RequestsOK
<1>6. decisions[r] = <<>>
  <2>1. requests[r].status = "none"  BY <1>2 DEF NoRequest
  <2>2. decisions[r] = IF requests[r].status \in {"none", "PENDING"}
                       THEN <<>> ELSE <<requests[r].status>>
    BY <1>0 DEF DecidedOnce
  <2> QED BY <2>1, <2>2
<1>7. DecidedOnce'
  <2> SUFFICES ASSUME NEW x \in Requests
               PROVE  decisions'[x] = IF requests'[x].status \in {"none", "PENDING"}
                                      THEN <<>> ELSE <<requests'[x].status>>
    BY DEF DecidedOnce
  <2>1. CASE x = r  BY <1>2, <1>4, <1>5, <1>6, <2>1
  <2>2. CASE x /= r  BY <1>0, <1>2, <1>5, <2>2 DEF DecidedOnce
  <2> QED BY <2>1, <2>2
<1> QED BY <1>0, <1>2, <1>3, <1>5, <1>7
        DEF MemberInv, DecisionsOK, MembersOK, RevocationsOK, RevocationIsFinal

\* A step that touches neither requests nor members.
LEMMA OtherKeeps ==
    ASSUME MemberInv, DevicesOK', UNCHANGED <<requests, decisions, members, revocations>>
    PROVE  MemberInv'
BY DEF MemberInv, RequestsOK, DecisionsOK, MembersOK, RevocationsOK, DecidedOnce, RevocationIsFinal

LEMMA MemberStep ==
    ASSUME MemberInv, [MemberNext]_memberVars
    PROVE  MemberInv'
<1>0. DevicesOK /\ RequestsOK  BY DEF MemberInv
<1>1. ASSUME NEW c \in Callers, NEW r \in Requests, Decide(c, r) PROVE MemberInv'
  <2>1. CASE ApprovePairing(c, r)
    <3>1. ApproveMembership(c, r) /\ SetDeviceStatus(requests[r].device, "APPROVED")
          /\ requests[r] /= NoRequest
      BY <2>1 DEF ApprovePairing, ApproveMembership, Approvable
    <3>2. DevicesOK'  BY <1>0, <3>1, Known, DevicesSet DEF DeviceStatus
    <3> QED BY <3>1, <3>2, ApproveKeeps
  <2>2. CASE \E d \in Devices : ApproveDevice(c, d, r)
    <3>1. PICK d \in Devices : ApproveMembership(c, r) /\ SetDeviceStatus(d, "APPROVED")
      BY <2>2 DEF ApproveDevice
    <3>2. DevicesOK'  BY <1>0, <3>1, DevicesSet DEF DeviceStatus
    <3> QED BY <3>1, <3>2, ApproveKeeps
  <2>3. CASE ApproveMembership(c, r) /\ UNCHANGED <<devices, audit>>
    <3>1. DevicesOK'  BY <1>0, <2>3 DEF DevicesOK
    <3> QED BY <2>3, <3>1, ApproveKeeps
  <2>4. CASE RejectMembership(c, r)  BY <2>4, RejectKeeps
  <2> QED BY <1>1, <2>1, <2>2, <2>3, <2>4 DEF Decide
<1>2. ASSUME NEW c \in Callers, NEW d \in Devices, NEW g \in Groups, Withdraw(c, d, g)
      PROVE  MemberInv'
  <2>1. CASE RevokeDevice(c, d, g)
    <3>1. RevokeMembership(c, d, g) /\ SetDeviceStatus(d, "REVOKED")  BY <2>1 DEF RevokeDevice
    <3>2. DevicesOK'  BY <1>0, <3>1, DevicesSet DEF DeviceStatus
    <3> QED BY <3>1, <3>2, RevokeKeeps
  <2>2. CASE RevokeMembership(c, d, g) /\ UNCHANGED <<devices, audit>>
    <3>1. DevicesOK'  BY <1>0, <2>2 DEF DevicesOK
    <3> QED BY <2>2, <3>1, RevokeKeeps
  <2> QED BY <1>2, <2>1, <2>2 DEF Withdraw
<1>3. ASSUME NEW c \in Callers, NEW r \in Requests, NEW d \in Devices, NEW k \in Keys,
             NEW g \in Groups, RequestPairing(c, r, d, k, g)
      PROVE  MemberInv'
  BY <1>3, PairingKeeps
<1>4. ASSUME NEW c \in Callers, NEW g \in Groups, CreateGroup(c, g) PROVE MemberInv'
  <2>1. UNCHANGED <<devices, requests, decisions, members, revocations>>  BY <1>4 DEF CreateGroup
  <2> QED BY <1>0, <2>1, OtherKeeps DEF DevicesOK
<1>5. ASSUME NEW d \in Devices, NEW s \in DeviceStatus, UpdateDeviceStatus(d, s)
      PROVE  MemberInv'
  <2>1. SetDeviceStatus(d, s) /\ UNCHANGED <<requests, decisions, members, revocations>>
    BY <1>5 DEF UpdateDeviceStatus
  <2>2. DevicesOK'  BY <1>0, <1>5, <2>1, DevicesSet
  <2> QED BY <2>1, <2>2, OtherKeeps
<1>6. CASE UNCHANGED memberVars
  BY <1>0, <1>6, OtherKeeps DEF memberVars, DevicesOK
<1> QED BY <1>1, <1>2, <1>3, <1>4, <1>5, <1>6 DEF MemberNext

LEMMA MemberInduction == MemberSpec => []MemberInv
<1>1. MemberInit => MemberInv
  <2> SUFFICES ASSUME MemberInit PROVE MemberInv  OBVIOUS
  <2>1. /\ DevicesOK /\ RequestsOK /\ DecisionsOK /\ MembersOK /\ RevocationsOK
    BY DEF MemberInit, DevicesOK, RequestsOK, DecisionsOK, MembersOK, RevocationsOK
  <2>2. DecidedOnce  BY DEF MemberInit, DecidedOnce, NoRequest
  <2>3. RevocationIsFinal  BY DEF MemberInit, RevocationIsFinal
  <2> QED BY <2>1, <2>2, <2>3 DEF MemberInv
<1>2. MemberInv /\ [MemberNext]_memberVars => MemberInv'  BY MemberStep
<1> QED BY <1>1, <1>2, PTL DEF MemberSpec

\* For any devices, callers and requests: whichever of the four deciding
\* operations comes first decides a request, and nothing decides it again.
THEOREM DecidedOnceAlways == MemberSpec => []DecidedOnce
BY MemberInduction, PTL DEF MemberInv

\* No row that a revocation found is ever in force again, whatever is approved
\* later and however many rows the device has.
THEOREM RevocationAlwaysFinal == MemberSpec => []RevocationIsFinal
BY MemberInduction, PTL DEF MemberInv

-----------------------------------------------------------------------------
(***************************************************************************)
(* The roster: for each device and group as many rows as approved          *)
(* requests, and rows only of groups that exist.                           *)
(***************************************************************************)

GroupsOK ==
    /\ groupStatus \in [Groups -> {"none", "ACTIVE"}]
    /\ \A i \in DOMAIN members : groupStatus[members[i].group] = "ACTIVE"

RosterInv ==
    /\ GroupsOK
    /\ \A d \in Devices, g \in Groups :
          /\ IsFiniteSet(Approved(d, g))
          /\ Cardinality(Rows(d, g)) = Cardinality(Approved(d, g))

LEMMA RowsFinite ==
    ASSUME MembersOK, NEW d, NEW g
    PROVE  IsFiniteSet(Rows(d, g)) /\ Rows(d, g) \subseteq 1 .. Len(members) /\ Len(members) \in Nat
<1>1. DOMAIN members = 1 .. Len(members) /\ Len(members) \in Nat  BY DEF MembersOK
<1>2. Rows(d, g) \subseteq 1 .. Len(members)  BY <1>1 DEF Rows
<1>3. IsFiniteSet(1 .. Len(members))
  <2>1. 1 \in Int /\ Len(members) \in Int  BY <1>1
  <2> QED  BY <2>1, FS_Interval
<1> QED  BY <1>1, <1>2, <1>3, FS_Subset

\* A step after which each request and row is as approved as before.
LEMMA RosterStays ==
    ASSUME RosterInv, GroupsOK',
           \A d \in Devices, g \in Groups : /\ Approved(d, g)' = Approved(d, g)
                                            /\ Rows(d, g)' = Rows(d, g)
    PROVE  RosterInv'
BY DEF RosterInv

LEMMA ApproveAdds ==
    ASSUME MemberInv, RosterInv, NEW ctx, NEW r \in Requests, ApproveMembership(ctx, r)
    PROVE  RosterInv'
<1>0. RequestsOK /\ MembersOK  BY DEF MemberInv
<1> DEFINE new == [device |-> requests[r].device, group |-> requests[r].group,
                   user |-> requests[r].user, status |-> "APPROVED"]
<1>1. /\ requests[r] /= NoRequest /\ requests[r].status = "PENDING"
      /\ requests' = [requests EXCEPT ![r].status = "APPROVED"]
      /\ members' = Append(members, new)
      /\ groupStatus' = groupStatus /\ groupStatus[requests[r].group] /= "none"
  BY DEF ApproveMembership, Approvable, RequireGroupOrganisation, InsertMember
<1>2. requests[r] \in Request  BY <1>0, <1>1, Known
<1>3. /\ new \in Row /\ new.device = requests[r].device /\ new.group = requests[r].group
      /\ new.group \in Groups
  BY <1>2 DEF Request, Row
<1> HIDE DEF new
<1>4. PICK n \in Nat : n = Len(members)  BY <1>0, RowsFinite
<1>5. /\ DOMAIN members = 1 .. n /\ DOMAIN members' = 1 .. n + 1
      /\ members'[n + 1] = new /\ \A i \in 1 .. n : members'[i] = members[i]
  BY <1>0, <1>1, <1>3, <1>4 DEF MembersOK
<1>6. GroupsOK'
  <2>1. groupStatus[new.group] = "ACTIVE"  BY <1>1, <1>3 DEF RosterInv, GroupsOK
  <2> QED  BY <1>1, <1>4, <1>5, <2>1 DEF RosterInv, GroupsOK
<1>7. /\ requests'[r] /= NoRequest /\ requests'[r].status = "APPROVED"
      /\ requests'[r].device = new.device /\ requests'[r].group = new.group
      /\ \A x \in Requests \ {r} : requests'[x] = requests[x]
  <2>1. requests'[r] = [requests[r] EXCEPT !.status = "APPROVED"]
        /\ \A x \in Requests \ {r} : requests'[x] = requests[x]
    BY <1>0, <1>1 DEF RequestsOK
  <2>2. /\ [requests[r] EXCEPT !.status = "APPROVED"].status = "APPROVED"
        /\ [requests[r] EXCEPT !.status = "APPROVED"].device = requests[r].device
        /\ [requests[r] EXCEPT !.status = "APPROVED"].group = requests[r].group
    BY <1>2 DEF Request
  <2>3. NoRequest.status = "none"  BY DEF NoRequest
  <2> QED  BY <1>3, <2>1, <2>2, <2>3
<1>8. ASSUME NEW d \in Devices, NEW g \in Groups
      PROVE  /\ IsFiniteSet(Approved(d, g)')
             /\ Cardinality(Rows(d, g)') = Cardinality(Approved(d, g)')
  <2>1. /\ IsFiniteSet(Approved(d, g)) /\ IsFiniteSet(Rows(d, g))
        /\ Cardinality(Rows(d, g)) = Cardinality(Approved(d, g))
    BY <1>0, RowsFinite DEF RosterInv
  <2>2. CASE new.device = d /\ new.group = g
    <3>1. Rows(d, g)' = Rows(d, g) \cup {n + 1}  BY <1>4, <1>5, <2>2 DEF Rows
    <3>2. n + 1 \notin Rows(d, g)  BY <1>4, <1>5 DEF Rows
    <3>3. Approved(d, g)' = Approved(d, g) \cup {r}  BY <1>7, <2>2 DEF Approved
    <3>4. r \notin Approved(d, g)  BY <1>1 DEF Approved
    <3>5. Cardinality(Rows(d, g) \cup {n + 1}) = Cardinality(Rows(d, g)) + 1
      BY <2>1, <3>2, FS_AddElement
    <3>6. /\ IsFiniteSet(Approved(d, g) \cup {r})
          /\ Cardinality(Approved(d, g) \cup {r}) = Cardinality(Approved(d, g)) + 1
      BY <2>1, <3>4, FS_AddElement
    <3> QED  BY <2>1, <3>1, <3>3, <3>5, <3>6
  <2>3. CASE ~(new.device = d /\ new.group = g)
    <3>1. Rows(d, g)' = Rows(d, g)  BY <1>4, <1>5, <2>3 DEF Rows
    <3>2. Approved(d, g)' = Approved(d, g)  BY <1>1, <1>3, <1>7, <2>3 DEF Approved
    <3> QED  BY <2>1, <3>1, <3>2
  <2> QED  BY <2>2, <2>3
<1> QED  BY <1>6, <1>8 DEF RosterInv

LEMMA RejectAddsNone ==
    ASSUME MemberInv, RosterInv, NEW ctx, NEW r \in Requests, RejectMembership(ctx, r)
    PROVE  RosterInv'
<1>0. RequestsOK  BY DEF MemberInv
<1>1. /\ requests[r] /= NoRequest /\ requests[r].status = "PENDING"
      /\ requests' = [requests EXCEPT ![r].status = "REJECTED"]
      /\ UNCHANGED <<members, groupStatus>>
  BY DEF RejectMembership, Approvable
<1>2. requests[r] \in Request  BY <1>0, <1>1, Known
<1>3. requests'[r].status = "REJECTED" /\ \A x \in Requests \ {r} : requests'[x] = requests[x]
  <2>1. requests'[r] = [requests[r] EXCEPT !.status = "REJECTED"]
        /\ \A x \in Requests \ {r} : requests'[x] = requests[x]
    BY <1>0, <1>1 DEF RequestsOK
  <2>2. [requests[r] EXCEPT !.status = "REJECTED"].status = "REJECTED"  BY <1>2 DEF Request
  <2> QED  BY <2>1, <2>2
<1>4. \A d \in Devices, g \in Groups : Approved(d, g)' = Approved(d, g) /\ Rows(d, g)' = Rows(d, g)
  BY <1>1, <1>3 DEF Approved, Rows
<1> QED  BY <1>1, <1>4, RosterStays DEF RosterInv, GroupsOK

LEMMA RevokeKeepsRows ==
    ASSUME MemberInv, RosterInv, NEW ctx, NEW d \in Devices, NEW g \in Groups,
           RevokeMembership(ctx, d, g)
    PROVE  RosterInv'
<1>1. /\ members' = [i \in DOMAIN members |->
                       IF members[i].device = d /\ members[i].group = g
                       THEN [members[i] EXCEPT !.status = "REVOKED"] ELSE members[i]]
      /\ UNCHANGED <<requests, groupStatus>>
  BY DEF RevokeMembership, RevokeMember
<1>2. \A i \in DOMAIN members : members[i] \in Row  BY DEF MemberInv, MembersOK
<1>3. ASSUME NEW i \in DOMAIN members
      PROVE  members'[i].device = members[i].device /\ members'[i].group = members[i].group
  <2>1. members[i] \in Row  BY <1>2
  <2>2. /\ [members[i] EXCEPT !.status = "REVOKED"].device = members[i].device
        /\ [members[i] EXCEPT !.status = "REVOKED"].group = members[i].group
    BY <2>1 DEF Row
  <2> QED  BY <1>1, <2>2
<1>4. DOMAIN members' = DOMAIN members  BY <1>1
<1>5. \A x \in Devices, y \in Groups : Approved(x, y)' = Approved(x, y) /\ Rows(x, y)' = Rows(x, y)
  BY <1>1, <1>3, <1>4 DEF Approved, Rows
<1>6. GroupsOK'  BY <1>1, <1>3, <1>4 DEF RosterInv, GroupsOK
<1> QED  BY <1>5, <1>6, RosterStays

LEMMA RequestAddsNone ==
    ASSUME RosterInv, MemberInv, NEW c, NEW r \in Requests, NEW d, NEW k, NEW g,
           RequestPairing(c, r, d, k, g)
    PROVE  RosterInv'
<1> DEFINE new == [device |-> d, group |-> g, user |-> c.user, status |-> "PENDING"]
<1>1. /\ requests[r] = NoRequest /\ requests' = [requests EXCEPT ![r] = new]
      /\ UNCHANGED <<members, groupStatus>>
  BY DEF RequestPairing, RequestMembership
<1>2. new.status = "PENDING"  OBVIOUS
<1> HIDE DEF new
<1>3. requests'[r] = new /\ \A x \in Requests \ {r} : requests'[x] = requests[x]
  BY <1>1 DEF MemberInv, RequestsOK
<1>4. \A x \in Devices, y \in Groups : Approved(x, y)' = Approved(x, y) /\ Rows(x, y)' = Rows(x, y)
  BY <1>1, <1>2, <1>3 DEF Approved, Rows
<1> QED  BY <1>1, <1>4, RosterStays DEF RosterInv, GroupsOK

LEMMA RosterStep ==
    ASSUME MemberInv, RosterInv, [MemberNext]_memberVars
    PROVE  RosterInv'
<1>1. ASSUME NEW c \in Callers, NEW r \in Requests, Decide(c, r) PROVE RosterInv'
  <2>1. ApproveMembership(c, r) \/ RejectMembership(c, r)
    BY <1>1 DEF Decide, ApprovePairing, ApproveDevice
  <2> QED  BY <2>1, ApproveAdds, RejectAddsNone
<1>2. ASSUME NEW c \in Callers, NEW d \in Devices, NEW g \in Groups, Withdraw(c, d, g)
      PROVE  RosterInv'
  <2>1. RevokeMembership(c, d, g)  BY <1>2 DEF Withdraw, RevokeDevice
  <2> QED  BY <2>1, RevokeKeepsRows
<1>3. ASSUME NEW c \in Callers, NEW r \in Requests, NEW d \in Devices, NEW k \in Keys,
             NEW g \in Groups, RequestPairing(c, r, d, k, g)
      PROVE  RosterInv'
  BY <1>3, RequestAddsNone
<1>4. ASSUME NEW c \in Callers, NEW g \in Groups, CreateGroup(c, g) PROVE RosterInv'
  <2>1. groupStatus' = [groupStatus EXCEPT ![g] = "ACTIVE"] /\ UNCHANGED <<requests, members>>
    BY <1>4 DEF CreateGroup
  <2>2. \A x \in Devices, y \in Groups :
           Approved(x, y)' = Approved(x, y) /\ Rows(x, y)' = Rows(x, y)
    BY <2>1 DEF Approved, Rows
  <2>3. GroupsOK'
    <3>1. \A i \in DOMAIN members : members[i] \in Row  BY DEF MemberInv, MembersOK
    <3>2. \A i \in DOMAIN members : members[i].group \in Groups  BY <3>1 DEF Row
    <3> QED  BY <2>1, <3>2 DEF RosterInv, GroupsOK
  <2> QED  BY <2>2, <2>3, RosterStays
<1>5. ASSUME UNCHANGED <<requests, members, groupStatus>> PROVE RosterInv'
  BY <1>5, RosterStays DEF RosterInv, GroupsOK, Approved, Rows
<1>6. ASSUME NEW d \in Devices, NEW s \in DeviceStatus, UpdateDeviceStatus(d, s)
      PROVE  RosterInv'
  BY <1>5, <1>6 DEF UpdateDeviceStatus
<1>7. CASE UNCHANGED memberVars  BY <1>5, <1>7 DEF memberVars
<1> QED  BY <1>1, <1>2, <1>3, <1>4, <1>6, <1>7 DEF MemberNext

LEMMA RosterInduction == MemberSpec => [](MemberInv /\ RosterInv)
<1>1. MemberInit => RosterInv
  <2> SUFFICES ASSUME MemberInit PROVE RosterInv  OBVIOUS
  <2>1. GroupsOK  BY DEF MemberInit, GroupsOK
  <2>2. \A d \in Devices, g \in Groups : Approved(d, g) = {} /\ Rows(d, g) = {}
    BY DEF MemberInit, Approved, Rows
  <2> QED  BY <2>1, <2>2, FS_EmptySet DEF RosterInv
<1>2. MemberInv /\ RosterInv /\ [MemberNext]_memberVars => RosterInv'  BY RosterStep
<1> QED  BY <1>1, <1>2, MemberInduction, PTL DEF MemberSpec

\* Every row goes back to a request that was approved and every approval to a row,
\* in any number of approvals, rejections and revocations.
THEOREM MembersAlwaysDecided == MemberSpec => []MembersAreDecided
<1>1. RosterInv => MembersAreDecided  BY DEF RosterInv, MembersAreDecided
<1> QED  BY <1>1, RosterInduction, PTL

\* canSync reads the oldest row, requireActiveMembership any row in force, the
\* group and its organisation: whenever the first passes, the second does for
\* every user whom the row is for and every context of the group's organisation.
THEOREM SyncAlwaysImpliesWrite == MemberSpec => []SyncImpliesWrite
<1>1. ASSUME MemberInv, RosterInv, NEW d \in Devices, NEW g \in Groups, CanSync(d, g),
             NEW u \in UsersOf(OldestRow(d, g))
      PROVE  RequireActiveMembership([user |-> u, org |-> GroupOrg[g]], d, g)
  <2>1. FindMembershipStatus(d, g) \in InForce /\ "none" \notin InForce
    BY <1>1 DEF CanSync, InForce
  <2>2. Rows(d, g) /= {} /\ members[OldestRow(d, g)].status \in InForce
    BY <2>1 DEF FindMembershipStatus
  <2>3. Rows(d, g) \subseteq Nat  BY <1>1, RowsFinite DEF MemberInv
  <2>4. \E i \in Rows(d, g) : \A j \in Rows(d, g) : i <= j
    <3>1. PICK i \in Rows(d, g) : \A j \in Rows(d, g) : ~(j < i)  BY <2>2, <2>3, LeastElement
    <3> QED  BY <2>3, <3>1
  <2>5. PICK oldest : oldest = OldestRow(d, g)  OBVIOUS
  <2>6. oldest \in Rows(d, g)  BY <2>4, <2>5 DEF OldestRow
  <2>7. oldest \in DOMAIN members /\ members[oldest].device = d /\ members[oldest].group = g
    BY <2>6 DEF Rows
  <2>8. members[oldest].user = Nobody \/ members[oldest].user = u
    BY <1>1, <2>5 DEF UsersOf
  <2>9. Eligible(d, g, u)  BY <2>2, <2>5, <2>7, <2>8 DEF Eligible
  <2>10. groupStatus[g] = "ACTIVE"  BY <1>1, <2>7 DEF RosterInv, GroupsOK
  <2>11. devices[d].status \in InForce  BY <1>1 DEF CanSync
  <2> QED  BY <2>9, <2>10, <2>11 DEF RequireActiveMembership, RequireGroupOrganisation
<1>2. MemberInv /\ RosterInv => SyncImpliesWrite  BY <1>1 DEF SyncImpliesWrite
<1> QED  BY <1>2, RosterInduction, PTL
=============================================================================
