CONSTANTS
  MaxDepth <- MCMaxDepth
  MaxBlockLen <- MCMaxBlockLen
  MaxCases <- MCMaxCases
  MaxCompound <- MCMaxCompound
  AllowErrors = FALSE
SPECIFICATION Spec
INVARIANTS TypeOK AlwaysReturnsSound HeapOwnership
CHECK_DEADLOCK FALSE
