CONSTANTS
  RingSize = 2
  MaxFills = 2
  MaxRuns = 2
  Sizes <- OneSize
  SizesOf <- AllOneSize
  GpuIbufSize = 2
  WaveformSize = 2
  ShortMod = 65536
  PrescaleRaw = 1
  PrescaleOffsetRaw = 0
  FlushHist = 1
  FlushOffsetHist = 0
  TriggersInRun = TRUE
  DrainedStop = FALSE
SPECIFICATION Spec
INVARIANT DataAvailable
