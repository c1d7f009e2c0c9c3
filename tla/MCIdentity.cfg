SPECIFICATION Spec
CONSTANTS
Focus = {"authorization", "membership", "handshake", "session", "app", "native", "key"}
alice = alice  bob = bob  none = none  star = star  anything = anything  broken = broken  anywhere = anywhere
d1 = d1  d2 = d2  k1 = k1  k2 = k2  g1 = g1  g2 = g2  r1 = r1  r2 = r2  r3 = r3  o1 = o1  o2 = o2
c1 = c1  c2 = c2  m1 = m1  m2 = m2  m3 = m3  m4 = m4
admin = admin  clerk = clerk  guest = guest
Users = {alice, bob}
Orgs = {o1, o2}
Roles = {admin, clerk, guest}
RoleOrg <- MCRoleOrg
Permissions = {"users.create", "roles.manage"}
Grants <- MCGrants
AnyPermission = star
Unconstrained = anything
Malformed = broken
NoScope = anywhere
Devices = {d1, d2}
Keys = {k1}
People = {alice, bob}
Groups = {g1}
Requests = {r1, r2, r3}
Nobody = none
Callers <- MCCallers
Organisations = {o1, o2}
GroupOrg <- MCGroupOrg
Messages = {m1, m2, m3, m4}
Attempts = {1, 2, 3}
NonceOf <- MCNonceOf
SentAt <- MCSentAt
Compatible = {m1, m2, m3}
WellFormed = {m1, m2, m3}
Signed = {m1, m3, m4}
MaxSkew = 1
Horizon = 2
Accounts = {alice, bob}
None = none
Calls = {"init", "login", c1}
Clicks = {1, 2}
MaxLogins = 2
Principals = {alice, bob}
MaxFailures = 2
Lockout = 2
LastEpoch = 2
MaxGeneration = 4
Starters = {1, 2, 3}
Publications = {"link", "exclusive"}
MaxSeeds = 2
SYMMETRY Symmetric
INVARIANTS TrustedNeverExceeds
  DecidedOnce MembersAreDecided RevocationIsFinal SyncImpliesWrite
  OnlySignedNoncesBurn LayersAgree
  SessionsAreEarned OneDeviceIdentity
PROPERTIES ContextIsCurrent
CHECK_DEADLOCK FALSE
