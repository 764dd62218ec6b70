SPECIFICATION FairSpec
CONSTANTS
  N = 6
  MaxNodes = 8
  MaxRules = 6
  None = None
  State <- MCState
  Problem <- LateProblems
CHECK_DEADLOCK FALSE
PROPERTIES SearchEnds
