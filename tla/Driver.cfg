CONSTANTS
  s1 = s1
  s2 = s2
  Syms <- MCSyms
  NumStatic <- MCNumStatic
SPECIFICATION Spec
INVARIANTS
  TypeOK
  EntryPointFound
  UnusedReported
CHECK_DEADLOCK FALSE
