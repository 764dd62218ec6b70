SPECIFICATION Spec
CONSTANTS
  Value <- MCValue
  ByParameter = ByParameter
  Pattern <- MCPattern
  Parameter <- MCParameter
  Priority <- MCPriority
  Logic <- MCLogic
  InitList <- MCInitList
  None = None
  MaxRes = 5
  MaxOps = 3
CHECK_DEADLOCK FALSE
INVARIANTS TypeOK OperationsKeepResources RefsAgree NumbersAgree
PROPERTIES NoIdleRule RulesFailOnUse
