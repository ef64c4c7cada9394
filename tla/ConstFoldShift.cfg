CONSTANT CellBits <- MCCellBits
SPECIFICATION Spec
INVARIANTS
  ShiftFoldMatchesSpec
CHECK_DEADLOCK FALSE
