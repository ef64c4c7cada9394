CONSTANTS
  f1 = f1
  f2 = f2
  f3 = f3
  Funcs <- MCFuncs
  MaxBody <- MCMaxBody
SYMMETRY MCSymmetry
SPECIFICATION Spec
INVARIANTS
  TypeOK
  ImplRunsOnce
  ArraySizeKnownAtCall
  No411WithoutCycle
CHECK_DEADLOCK FALSE
