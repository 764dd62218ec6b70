SPECIFICATION Spec
CONSTANTS
  t1 = t1
  t2 = t2
  t3 = t3
  r1 = r1
  r2 = r2
  q1 = q1
  None = None
  Transact <- MCTransact
  Resource <- MCResource
  Queue <- MCQueue
  Program <- MCService
  Entry <- MCEntries
  Breakdowns = TRUE
CHECK_DEADLOCK FALSE
SYMMETRY TransactSymmetry
INVARIANTS ListsAgree OnePlace NoStuckSeize QueueLength
PROPERTY ServedInOrder
