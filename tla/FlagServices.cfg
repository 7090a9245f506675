CONSTANTS
  hi = hi
  mid = mid
  lo = lo
  idle = idle
  g1 = g1
  g2 = g2
  a = a
  b = b
  Null = Null
  OS_TCB_RESERVED = OS_TCB_RESERVED
  Idle = idle
  Task <- Tasks
  InitPrio <- Prios
  OSTCBList <- TaskList
  OS_LOWEST_PRIO = 3
  Event <- NoGroups
  InitFreeList <- NoEvents
  WholeTasks = TRUE
  OSFlagTbl <- OneGroup
  CreatedGrps <- Created1
  Flag <- TwoFlags
  Need <- Needs
  Posts <- SetOrClear
  DelOpts <- NoPend
  TaskCalls <- FlagCalls
  IsrCalls <- IsrPosts
  MaxDly = 1
  MaxNest = 1
  MaxLock = 0
SPECIFICATION Spec
INVARIANTS
  FlagListSound
  NoSatisfiedWaiter
PROPERTY IsEventFlags
