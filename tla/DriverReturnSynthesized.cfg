CONSTANTS
  s1 = s1
  s2 = s2
  Syms <- MCSyms
  NumStatic <- MCNumStatic
SPECIFICATION Spec
INVARIANT
  EveryBodyEndsInReturn
CHECK_DEADLOCK FALSE
