CONSTANTS
  RingSize = 2
  MaxFills = 2
  MaxRuns = 2
  Sizes <- OneSize
  SizesOf <- AllOneSize
  GpuIbufSize = 2
  WaveformSize = 1
  ShortMod = 65536
  PrescaleRaw = 1
  PrescaleOffsetRaw = 0
  FlushHist = 1
  FlushOffsetHist = 0
  TriggersInRun = FALSE
  DrainedStop = FALSE
SPECIFICATION Spec
INVARIANTS
  TypeOK
  RingExclusion
  OutputExclusion
  DeliveredWhole
  NothingOverwritten
  HistogramOfFills
PROPERTY ForgottenByStartOnly
