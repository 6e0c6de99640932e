CONSTANTS
  nfragment = 2
  TIMEOUT = 1
  TIMEOUT_ABORT = 0
  MaxClock = 2
  MaxRuns = 1
  MaxTriggers = 2
  MaxLost = 1
  RequiredSets <- AllOrNone
  EnabledValues <- AnyEnabled
  PauseAllowed = TRUE
  QuickStart = FALSE
  AutoRestart = FALSE
  BmFails = FALSE
SPECIFICATION FairSpec
PROPERTIES
  StopClosesUnlessBad
  TransitionsServed
  CompleteIsBuilt
