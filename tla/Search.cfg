SPECIFICATION FairSpec
CONSTANTS
  N = 6
  MaxNodes = 6
  MaxRules = 6
  None = None
  State <- MCState
  Problem <- MCProblem
CHECK_DEADLOCK FALSE
INVARIANTS ArcsAreRules UniqueStates PathCostsAdd SolutionReachesGoal SolutionCostIsSum
INVARIANTS FoundIsCheapest FailsOnlyWithoutSolution OpenIsInOrder
PROPERTY SearchEnds
