CONSTANTS
  hi = hi
  mid = mid
  lo = lo
  idle = idle
  m1 = m1
  m2 = m2
  TheMutex = m1
  Null = Null
  OS_TCB_RESERVED = OS_TCB_RESERVED
  OS_PRIO_MUTEX_CEIL_DIS = OS_PRIO_MUTEX_CEIL_DIS
  OS_MUTEX_AVAILABLE = OS_MUTEX_AVAILABLE
  Idle = idle
  Task <- ThreeTasks
  InitPrio <- ThreePrios
  OSTCBList <- ThreeTaskList
  OS_LOWEST_PRIO = 4
  Event <- OneMutex
  InitFreeList <- NoEvents
  InitPCP <- CeilingZero
  NewPCP <- NoCeilings
  TaskCalls <- InversionCalls
  IsrCalls <- NoCalls
  MaxDly = 2
  MaxNest = 1
  MaxLock = 0
  OwnersDelay = FALSE
SPECIFICATION FairSpec
PROPERTIES
  TopGetsMutex
