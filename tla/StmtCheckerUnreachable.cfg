CONSTANTS
  MaxDepth <- MCMaxDepth
  MaxBlockLen <- MCMaxBlockLen
  MaxCases <- MCMaxCases
  MaxCompound <- MCMaxCompoundDeep
  AllowErrors = FALSE
SPECIFICATION Spec
INVARIANT UnreachableWarningSound
CONSTRAINT NoHeapAllocation
CHECK_DEADLOCK FALSE
