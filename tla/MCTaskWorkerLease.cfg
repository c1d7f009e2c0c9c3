\* A crash, and a restart before the lease is old enough to be recovered.
SPECIFICATION FairSpec
CONSTANTS
  p1 = p1
  p2 = p2
  t1 = t1
  t2 = t2
  t3 = t3
  k1 = k1
  Procs = {p1}
  Tasks = {t1}
  Keys = {k1}
  NoKey = NoKey
  KeyOf <- NoKeys
  Corrupt = {}
  Handled = {t1}
  MaxAttempts <- OneAttempt
  InitialDelay = 1
  Multiplier = 2
  MaxDelay = 1
  Jitter = 0
  JitterScale = 4
  ScheduleDelays <- OnTime
  HangTimeout = 1
  LateBound = 0
  MaxBoots = 2
  NoTask = NoTask
  Concurrency = 1
  Chains = {1}
  Stoppable = {}
  DbErrors = FALSE
  NoChain = NoChain
PROPERTY LeaseReclaimed
