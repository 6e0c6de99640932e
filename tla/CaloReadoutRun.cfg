CONSTANTS
  RingSize = 2
  MaxFills = 3
  MaxRuns = 2
  Sizes <- AnySize
  SizesOf <- Shrinking
  GpuIbufSize = 2
  WaveformSize = 2
  ShortMod = 2
  PrescaleRaw = 2
  PrescaleOffsetRaw = 0
  FlushHist = 2
  FlushOffsetHist = 0
  TriggersInRun = TRUE
  DrainedStop = TRUE
SPECIFICATION FairSpec
INVARIANTS
  StagesAgree
  DeliveredInOrder
  HistogramOfFills
  RawOfFill
PROPERTIES
  EventuallyDelivered
  ImplementsPipeline
