CONSTANTS
  MAX_NUM_SLAVE_FE = 2
  Sync <- Simulators
  SimStartSeq = 501
  Sources <- FakeOnly
  MaxRuns = 1
  MaxTriggers = 2
  QuietStop = TRUE
SPECIFICATION Spec
PROPERTY OnlyIdleGetEof
CHECK_DEADLOCK FALSE
