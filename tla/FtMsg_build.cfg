SPECIFICATION FairSpec
CONSTANTS
  Strs <- MCStrs
  Val <- MCVal
  Text <- MCText
  TableCap = 2
  MaxNames = 3
  Args = {a, b}
  InitialArgs = 1
  StaticArgs = 3
  MaxArgs = 4
CHECK_DEADLOCK FALSE
INVARIANTS
  OneIndexPerText
  AddressesCompareTexts
  PlacedInBlock
PROPERTIES
  BuiltOrTooLong
