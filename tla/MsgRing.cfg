CONSTANTS
  hi = hi
  lo = lo
  idle = idle
  que = que
  mbox = mbox
  qb1 = qb1
  qb2 = qb2
  msg = msg
  Null = Null
  Idle = idle
  Task <- Tasks
  InitPrio <- Prios
  OSTCBList <- TaskList
  OS_LOWEST_PRIO = 3
  Event <- QueueAndMailbox
  InitFreeList <- NoEvents
  Msg <- Message1
  OSQs <- OneBlock
  QOfEvent <- OneQ
  QSizes = {0, 2}
  InitSize = 2
  PendArrays <- BothArrays
  TaskCalls <- RingCalls
  IsrCalls <- NoIsrCalls
  MaxDly = 1
  MaxNest = 0
  MaxLock = 1
SPECIFICATION Spec
INVARIANTS
  QBlocksPartitioned
  RingSound
PROPERTY IsQChannel
