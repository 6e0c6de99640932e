CONSTANTS
  nfragment = 2
  TIMEOUT = 1
  TIMEOUT_ABORT = 0
  MaxClock = 2
  MaxRuns = 2
  MaxTriggers = 2
  MaxLost = 1
  RequiredSets <- AllRequired
  EnabledValues <- AlwaysEnabled
  PauseAllowed = FALSE
  QuickStart = TRUE
  AutoRestart = TRUE
  BmFails = TRUE
SPECIFICATION Spec
INVARIANTS
  TypeOK
  PollsBooked
  MergedWhole
  MergedInOrder
  HeldOfThisRun
  SpawnsOnce
PROPERTIES
  CloseAfterScanLosesNothing
  ImplementsMerger
