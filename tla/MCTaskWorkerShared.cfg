\* Two processes race on two rows of one key; either may crash and restart, and
\* its worker's statements may fail.
SPECIFICATION Spec
CONSTANTS
  p1 = p1
  p2 = p2
  t1 = t1
  t2 = t2
  t3 = t3
  k1 = k1
  Procs = {p1, p2}
  Tasks = {t1, t2}
  Keys = {k1}
  NoKey = NoKey
  KeyOf <- SameKey
  Corrupt = {}
  Handled = {t1, t2}
  MaxAttempts <- FirstRetries
  InitialDelay = 1
  Multiplier = 2
  MaxDelay = 1
  Jitter = 0
  JitterScale = 4
  ScheduleDelays <- OnTime
  HangTimeout = 1
  LateBound = 0
  MaxBoots = 2
  NoTask = NoTask
  Concurrency = 1
  Chains = {1}
  Stoppable = {}
  DbErrors = TRUE
  NoChain = NoChain
SYMMETRY Symmetric
INVARIANTS
  OneActivePerKey
  LeaseExclusive
  EndsForAReason
PROPERTY ImplementsLifecycle
