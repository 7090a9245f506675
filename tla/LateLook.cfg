SPECIFICATION Spec
CONSTANTS
  high = high
  low = low
  tskIDLE = tskIDLE
  m1 = m1
  m2 = m2
  NoItem = NoItem
  Tasks <- TaskSet
  IdleTask = tskIDLE
  uxPriority <- PriorityOf
  portMAX_DELAY = 3
  InitialTick = 3
  MaxTicks = 6
  DelayTicks <- Nothing
  Delayers <- Nothing
  Controls <- NoControls
  IsrResumed <- Nothing
  Items <- Messages
  Lengths <- Mailboxes
  Calls <- WaitingCalls
  IsrCalls <- Nothing
  ResetLengths <- Nothing
PROPERTIES
  IsBoundedQueue
