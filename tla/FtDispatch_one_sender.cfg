SPECIFICATION FairSpec
CONSTANTS
  Senders = {s1}
  n1 = n1
  n2 = n2
  n3 = n3
  f1 = f1
  f2 = f2
  Names <- ThreeNames
  MaxAddr = 128
  Addr <- AlignedAddr
  Masked <- BitAnd
  Fns = {f1, f2}
  ErrFns = {f2}
  NULL = NULL
  Junk = Junk
  DirtyBuckets = {0}
  InitialBuckets = {2, 50}
  CountMod = 64
  CleanupBatch = 2
  SpuriousWakeups = TRUE
  MaxHandlers = 2
  MaxObjHandlers = 1
  MaxCaches = 2
CHECK_DEADLOCK FALSE
INVARIANTS
  SendRunsFirstHandler
  CacheCoherent
  CacheNeverReplaced
  AccessorsLagEntries
PROPERTIES
  LookupEnds
