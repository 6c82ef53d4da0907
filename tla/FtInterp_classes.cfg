SPECIFICATION Spec
CONSTANTS
  Classes = {c1, c2, c3, c4}
  ClsNames = {Nil, Uint, Float}
  PoolCap = 2
\* The model ends where the behaviour becomes undefined.
CHECK_DEADLOCK FALSE
INVARIANTS
  RegistryExact
  PoolsReached
  SafeUntilError
