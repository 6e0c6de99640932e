CONSTANTS
  nfragment = 2
  TIMEOUT = 1
  TIMEOUT_ABORT = 0
  MaxClock = 1
  MaxRuns = 1
  MaxTriggers = 2
  MaxLost = 0
  RequiredSets <- AllRequired
  EnabledValues <- AlwaysEnabled
  PauseAllowed = FALSE
  QuickStart = FALSE
  AutoRestart = FALSE
  BmFails = FALSE
SPECIFICATION Spec
PROPERTY CloseLosesNothing
