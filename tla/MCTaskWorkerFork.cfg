\* start() called again while a poll of the stopped worker is still claiming.
SPECIFICATION Spec
CONSTANTS
  p1 = p1
  p2 = p2
  t1 = t1
  t2 = t2
  t3 = t3
  k1 = k1
  Procs = {p1}
  Tasks = {t1, t2}
  Keys = {k1}
  NoKey = NoKey
  KeyOf <- NoKeys
  Corrupt = {}
  Handled = {t1, t2}
  MaxAttempts <- OneAttempt
  InitialDelay = 1
  Multiplier = 2
  MaxDelay = 1
  Jitter = 0
  JitterScale = 4
  ScheduleDelays <- OnTime
  HangTimeout = 1
  LateBound = 0
  MaxBoots = 1
  NoTask = NoTask
  Concurrency = 1
  Chains = {1, 2}
  Stoppable = {p1}
  DbErrors = FALSE
  NoChain = NoChain
INVARIANT ConcurrencyNeverExceeded
