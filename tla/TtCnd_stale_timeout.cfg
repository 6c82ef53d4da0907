SPECIFICATION CndSpec
CONSTANTS
  Waiters = {w1}
  Callers = {c1}
  Nobody = Nobody
  Timed = TRUE
  MaxSignals = 0
  MaxBroadcasts = 1
  MaxCount = 3
CHECK_DEADLOCK FALSE
INVARIANTS
  NoStaleWake
