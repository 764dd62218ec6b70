SPECIFICATION FairSpec
CONSTANTS
  o1 = o1
  o2 = o2
  Op <- MCOp
  Time <- MCTime
  StartTime = 1
  MaxPlanned = 4
CHECK_DEADLOCK FALSE
INVARIANTS ListsAgreeWithKeys NextTimeIsAnEvent
PROPERTIES ImplementsAgenda BatchRunsFirst EveryEventHappens
