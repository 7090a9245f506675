CONSTANTS
  t1 = t1
  t2 = t2
  t3 = t3
  Null = Null
  OSTmrTbl <- ThreeTimers
  OS_TMR_CFG_WHEEL_SIZE = 2
  TimeRange = 5
  MaxSignals = 1
  Setting <- Settings
  CallbacksSpareNext = TRUE
  MaxCallbacks = 1
SPECIFICATION FairSpec
INVARIANTS
  WheelSound
  PoolSound
  VisitedIsRunning
PROPERTIES
  IsTimerService
  OneShotEnds
