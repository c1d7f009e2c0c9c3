\* Two peers, so that a dispatch may reach only one of them, and two runs.
CONSTANTS
  p1 = p1  p2 = p2  r1 = r1  r2 = r2
  NoEnvelope = NoEnvelope  NoPeer = NoPeer  NoSender = NoSender
  Envelopes = {1}  Unreadable = {}
  Peers = {p1, p2}  Runs = {r1, r2}  Passes = {1}
  MaxSends = 1  BatchLimit = 2  MaxTries = 2
  QuickRestart = TRUE  VerifyMayFail = TRUE
  MaxFaults = 1  MaxApplied = 2  Capacity = 1
SPECIFICATION Spec
SYMMETRY Symmetric
INVARIANTS GivenUpAfterAllAttempts AppliedOnce RejectedHasNoEffect
PROPERTIES ImplementsDelivery
