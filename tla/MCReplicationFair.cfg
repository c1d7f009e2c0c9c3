\* Fair scheduling, a host that keeps asking for a sync, batches of one, an
\* unreadable row, and a process that may come back at once.
CONSTANTS
  p1 = p1  p2 = p2  r1 = r1  r2 = r2
  NoEnvelope = NoEnvelope  NoPeer = NoPeer  NoSender = NoSender
  Envelopes = {1, 2, 3}  Unreadable = {3}
  Peers = {p1}  Runs = {r1}  Passes = {1}
  MaxSends = 1  BatchLimit = 1  MaxTries = 1
  QuickRestart = TRUE  VerifyMayFail = FALSE
  MaxFaults = 1  MaxApplied = 1  Capacity = 1
SPECIFICATION HostSyncs
INVARIANTS AcknowledgedIsKept
PROPERTIES OutboxDrains ReceivedIsSettled
