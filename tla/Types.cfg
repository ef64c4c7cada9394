CONSTANTS
  u1 = u1
  u2 = u2
  UserNames <- MCUserNames
  Upper <- MCUpper
  MaxPasses <- MCMaxPasses
  MaxDefs <- MCMaxDefs
SPECIFICATION Spec
INVARIANTS TypeOK Interned NoStaleKind DeclaredButNotDefinedExact
PROPERTY RegistrySpec
CHECK_DEADLOCK FALSE
