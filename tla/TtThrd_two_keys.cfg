SPECIFICATION FairThrdSpec
CONSTANTS
  Threads = {t1, t2}
  Main = t1
  Results = {res}
  Keys = {k1, k2}
  Values = {v}
  NULL = NULL
  DANGLING = DANGLING
  Iterations = 2
  MaxCreates = 1
  MaxEnds = 1
CHECK_DEADLOCK FALSE
INVARIANTS
  GetReturnsLastSet
  InfoHasOwner
  EndsClean
PROPERTIES
  JoinReturns
