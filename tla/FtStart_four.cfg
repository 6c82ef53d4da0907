SPECIFICATION FairStartSpec
CONSTANTS
  Threads = {t1, t2, t3, t4}
  NoLock = NoLock
  Unlocked = Unlocked
  MayFail = {"cleanupThread", "cleanupCondition"}
CHECK_DEADLOCK TRUE
INVARIANTS
  LockReady
  InitBeforeUse
PROPERTIES
  AbstractSpec
  CallsReturn
