CONSTANT CellBits <- MCCellBits
SPECIFICATION Spec
INVARIANTS
  TypeOK
  FoldMatchesSpec
  FlattenKeepsShortCircuit
  ArrayCopyFits
  ArgumentShapeFits
  SizeofMatchesSpec
CHECK_DEADLOCK FALSE
