\* Fair scheduling, but only the native scheduler asks for a sync.
CONSTANTS
  p1 = p1  p2 = p2  r1 = r1  r2 = r2
  NoEnvelope = NoEnvelope  NoPeer = NoPeer  NoSender = NoSender
  Envelopes = {1}  Unreadable = {}
  Peers = {p1}  Runs = {r1}  Passes = {1}
  MaxSends = 2  BatchLimit = 2  MaxTries = 1
  QuickRestart = FALSE  VerifyMayFail = TRUE
  MaxFaults = 0  MaxApplied = 2  Capacity = 1
SPECIFICATION SchedulerSyncs
PROPERTIES SchedulerDrainsOutbox
