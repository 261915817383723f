CONSTANTS
  One = 4
  BaseRate = 2
  Second = 2
  Peaks = TRUE
  MaxDelay = 1
  MaxAge = 6
  Limit <- MCLimit
SPECIFICATION LiveSpec
INVARIANT TypeOK
PROPERTIES RefusalNeedsDrift OneSleepIsEnough EveryCallPasses
