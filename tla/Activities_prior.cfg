SPECIFICATION Spec
CONSTANTS
  Value <- MCValue
  ByParameter = ByParameter
  Pattern <- MCPattern
  Parameter <- MCParameter
  Priority <- MCPriority
  Logic <- MCPrior
  InitList <- MCPriorInitList
  None = None
  MaxRes = 5
  MaxOps = 3
CHECK_DEADLOCK FALSE
INVARIANT RunsWithOwnParameter
