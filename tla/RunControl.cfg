SPECIFICATION FairSpec
CONSTANTS
  ctrl = ctrl
  key = key
  area = area
  Speed <- MCSpeed
  Count <- MCCount
  Longest = 100
  Duration <- MCDuration
  Key <- MCKey
  Modifier <- MCModifier
  Repeats = 2
  HotKey <- MCHotKey
  Area <- MCArea
  SetBack = {}
  UIntMax = 1000
  MaxWait = 4
  MaxElapsed = 9
  MaxLag = 9
CHECK_DEADLOCK FALSE
INVARIANTS TypeOK
PROPERTIES AtOnceAfterChange NeverEarly GoesOn
