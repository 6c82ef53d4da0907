SPECIFICATION MCFairSpec
CONSTANTS
  Threads = {t1, t2}
  NoThread = NoThread
  Kinds = {{}, {"timed"}, {"recursive"}, {"timed", "recursive"}}
  MaxDepth = 2
  NsPerMs = 2
  MsPerSec = 3
  Resolution = 2
  DWord = 6
  PollMs = 2
  MaxNow = 2
  Delays = {0, 5, 9, 12}
CHECK_DEADLOCK FALSE
INVARIANTS
  HeldByOne
  LockMatchesGrants
  WaitsEndNearLimit
PROPERTIES
  LockGranted
  TimedLockEnds
  NotEarly
