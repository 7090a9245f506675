CONSTANTS
  hi = hi
  mid = mid
  lo = lo
  idle = idle
  e1 = e1
  e2 = e2
  Null = Null
  Idle = idle
  Task <- ThreeTasks
  InitPrio <- ThreePrios
  OSTCBList <- ThreeTaskList
  OS_LOWEST_PRIO = 3
  Event <- TwoEvents
  InitFreeList <- NoEvents
  InitCnt <- NoTokensTwice
  TaskCalls <- LifeCalls
  IsrCalls <- NoIsrCalls
  MaxDly = 1
  MaxNest = 1
  MaxLock = 0
  TheSem = e1
  MaxCnt = 1
SPECIFICATION FairSpec
INVARIANTS
  FreeListSound
PROPERTIES
  TimedPendEnds
  TopReturns
