CONSTANTS
  MAX_NUM_SLAVE_FE = 3
  Sync <- Simulators
  SimStartSeq = 501
  Sources <- AllSources
  MaxRuns = 2
  MaxTriggers = 2
  QuietStop = TRUE
SPECIFICATION FairSpec
INVARIANTS
  TypeOK
  SerialsAgree
PROPERTIES
  BusyOnlyByOverlap
  FillsInRun
  ReadyAgain
  StopServed
  ImplementsBarrier
CHECK_DEADLOCK FALSE
