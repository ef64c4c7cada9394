CONSTANT CellBits <- MCCellBits
SPECIFICATION Spec
INVARIANTS
  TernaryCopyTakesEither
CHECK_DEADLOCK FALSE
