CONSTANT CellBits <- MCCellBits
SPECIFICATION Spec
INVARIANTS
  ConstNeverWritten
CHECK_DEADLOCK FALSE
