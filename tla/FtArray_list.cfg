SPECIFICATION EnvSpec
CONSTANTS
  a1 = a1
  a2 = a2
  b = b
  c = c
  Values = {a1, a2, b, c}
  NameOf <- MCNameOf
  NULL = NULL
  Zero = Zero
  InitialCaps = {0, 1, 2, 3}
  ResizeCaps = {0, 1, 2, 3, 5}
  MaxCap = 4
CHECK_DEADLOCK FALSE
INVARIANTS
  SlackZeroed
  StaysInBlock
  FindReturnsBound
PROPERTIES
  AbstractSpec
