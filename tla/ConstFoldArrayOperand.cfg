CONSTANT CellBits <- MCCellBits
SPECIFICATION Spec
INVARIANTS
  ArrayOperandsRejected
CHECK_DEADLOCK FALSE
