SPECIFICATION PoolSpec
CONSTANTS
  Handles = {h1, h2, h3, h4}
  NoSlot = NoSlot
  WordBits = 2
  InitialCap = 4
  MaxSlots = 8
PROPERTIES
  SearchTakesSetBit
