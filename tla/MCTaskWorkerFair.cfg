\* One worker, stopped and started again, on three rows: one retries, one is
\* corrupt, one has no handler.
SPECIFICATION FairSpec
CONSTANTS
  p1 = p1
  p2 = p2
  t1 = t1
  t2 = t2
  t3 = t3
  k1 = k1
  Procs = {p1}
  Tasks = {t1, t2, t3}
  Keys = {k1}
  NoKey = NoKey
  KeyOf <- NoKeys
  Corrupt = {t2}
  Handled = {t1, t2}
  MaxAttempts <- TwoAttempts
  InitialDelay = 1
  Multiplier = 2
  MaxDelay = 1
  Jitter = 0
  JitterScale = 4
  ScheduleDelays <- OnTime
  HangTimeout = 1
  LateBound = 0
  MaxBoots = 1
  NoTask = NoTask
  Concurrency = 1
  Chains = {1}
  Stoppable = {p1}
  DbErrors = TRUE
  NoChain = NoChain
INVARIANTS
  ConcurrencyRespected
  StopWaitsForAll
PROPERTIES
  DueTaskIsLeased
  StopTerminates
