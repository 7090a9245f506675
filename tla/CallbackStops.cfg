CONSTANTS
  t1 = t1
  t2 = t2
  t3 = t3
  Null = Null
  OSTmrTbl <- TwoTimers
  OS_TMR_CFG_WHEEL_SIZE = 2
  TimeRange = 5
  MaxSignals = 1
  Setting <- OneShot1
  CallbacksSpareNext = FALSE
  MaxCallbacks = 1
SPECIFICATION Spec
INVARIANTS
  VisitedIsRunning
