SPECIFICATION Spec
CONSTANTS
  Senders = {s1, s2}
  n1 = n1
  n2 = n2
  n3 = n3
  f1 = f1
  f2 = f2
  Names = {n1}
  MaxAddr = 8
  Addr <- OneAddr
  Masked <- BitAnd
  Fns = {f1}
  ErrFns = {}
  NULL = NULL
  Junk = Junk
  DirtyBuckets = {}
  InitialBuckets = {1}
  CountMod = 64
  CleanupBatch = 2
  SpuriousWakeups = TRUE
  MaxHandlers = 1
  MaxObjHandlers = 0
  MaxCaches = 3
CHECK_DEADLOCK FALSE
INVARIANTS
  CurrentCacheLive
