SPECIFICATION Spec
CONSTANTS
  high = high
  low = low
  tskIDLE = tskIDLE
  m1 = m1
  m2 = m2
  NoItem = NoItem
  Tasks <- TaskSet
  IdleTask = tskIDLE
  uxPriority <- PriorityOf
  portMAX_DELAY = 3
  InitialTick = 2
  MaxTicks = 2
  DelayTicks <- OneTick
  Delayers <- HighDelays
  Controls <- LowControls
  IsrResumed <- HighResumed
  Items <- Messages
  Lengths <- LengthsUsed
  Calls <- ServiceCalls
  IsrCalls <- HandlerCalls
  ResetLengths <- Mailboxes
INVARIANTS
  ListsSound
  HighestRuns
  NobodyStranded
PROPERTIES
  IsBoundedQueue
