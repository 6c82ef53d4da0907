SPECIFICATION CndTimeSpec
CONSTANTS
  Waiters = {w1}
  Callers = {c1, c2}
  Nobody = Nobody
  Timed = TRUE
  MaxSignals = 3
  MaxBroadcasts = 3
  MaxCount = 3
  NsPerMs = 2
  MsPerSec = 3
  Resolution = 2
  DWord = 5
  PollMs = 1
  MaxNow = 3
  Limits = {0, 2, 5, 11}
CHECK_DEADLOCK FALSE
INVARIANTS
  NoLostWakeup
  TimedWaitNearLimit
