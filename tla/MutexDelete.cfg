CONSTANTS
  hi = hi
  mid = mid
  lo = lo
  idle = idle
  m1 = m1
  m2 = m2
  TheMutex = m1
  Null = Null
  OS_TCB_RESERVED = OS_TCB_RESERVED
  OS_PRIO_MUTEX_CEIL_DIS = OS_PRIO_MUTEX_CEIL_DIS
  OS_MUTEX_AVAILABLE = OS_MUTEX_AVAILABLE
  Idle = idle
  Task <- ThreeTasks
  InitPrio <- ThreePrios
  OSTCBList <- ThreeTaskList
  OS_LOWEST_PRIO = 4
  Event <- TwoEvents
  InitFreeList <- OneFree
  InitPCP <- CeilingsZero
  NewPCP <- NewCeilings
  TaskCalls <- LockDeleteCalls
  IsrCalls <- ResumeDly
  MaxDly = 2
  MaxNest = 2
  MaxLock = 1
  OwnersDelay = FALSE
SPECIFICATION Spec
INVARIANTS
  HighestRuns
  NoPrioLost
