SPECIFICATION FairSpec
CONSTANTS
  t1 = t1
  t2 = t2
  t3 = t3
  r1 = r1
  r2 = r2
  q1 = q1
  None = None
  Transact <- MCTransact
  Resource <- MCResource
  Queue <- MCQueue
  Program <- MCService
  Entry <- MCEntry
  Breakdowns = FALSE
CHECK_DEADLOCK FALSE
INVARIANTS OneOwner
PROPERTY EveryTransactLeaves
