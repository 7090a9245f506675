CONSTANTS
  hi = hi
  mid = mid
  lo = lo
  idle = idle
  e1 = e1
  e2 = e2
  Null = Null
  Idle = idle
  Task <- TwoTasks
  InitPrio <- TwoPrios
  OSTCBList <- TwoTaskList
  OS_LOWEST_PRIO = 3
  Event <- OneSem
  InitFreeList <- NoEvents
  InitCnt <- NoTokens
  TaskCalls <- IsrPrioCalls
  IsrCalls <- PrioOnly
  MaxDly = 1
  MaxNest = 1
  MaxLock = 0
  TheSem = e1
  MaxCnt = 2
SPECIFICATION Spec
INVARIANTS
  HighestRuns
