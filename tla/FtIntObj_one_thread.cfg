\* As many objects as one word has bits.  The model stops where the behaviour
\* is undefined.
SPECIFICATION FairIntSpec
CONSTANTS
  Handles = {h1, h2, h3}
  NoSlot = NoSlot
  WordBits = 3
  InitialCap = 4
  MaxSlots = 3
  Threads = {t1}
  MaxRefs = 3
  MaxHandlers = 1
  IntMod = 2
CHECK_DEADLOCK FALSE
INVARIANTS
  WordLookupsInRange
  PointersValid
  CountsReferences
  IntegersKeepValue
PROPERTIES
  NewObjectHasNoHandlers
  AbstractSpec
  NothingLeaks
