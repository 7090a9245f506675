CONSTANTS
  hi = hi
  lo = lo
  idle = idle
  que = que
  mbox = mbox
  qb1 = qb1
  qb2 = qb2
  msg = msg
  Null = Null
  Idle = idle
  Task <- Tasks
  InitPrio <- Prios
  OSTCBList <- TaskList
  OS_LOWEST_PRIO = 3
  Event <- QueueAndMailbox
  InitFreeList <- NoEvents
  Msg <- Message1
  OSQs <- OneBlock
  QOfEvent <- OneQ
  QSizes = {1}
  InitSize = 1
  PendArrays <- BothArrays
  TaskCalls <- ServiceCalls
  IsrCalls <- IsrPosts
  MaxDly = 1
  MaxNest = 1
  MaxLock = 0
SPECIFICATION Spec
INVARIANTS
  OnAwaitedLists
  ReadyIffDone
PROPERTIES
  IsQChannel
  IsMboxChannel
