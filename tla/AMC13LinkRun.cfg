CONSTANTS
  nAMC = 2
  nCHAN = 2
  calo_segments = 3
  waveform_length = 1
  BlockWords = 6
  amc_block_size = 6
  header_size = 8
  BlockHeaders = 2
  n_muons_mean = 1
  RiderHeaders <- AnySetting
  Repeats <- AnySetting
  Stops = {1, 4}
  MaxFills = 2
  MaxRuns = 2
  MayBreak = TRUE
SPECIFICATION FairSpec
INVARIANTS
  TypeOK
  WaveformsFound
  SentWhole
PROPERTIES
  HeadersOfFill
  EofBringsFill
CHECK_DEADLOCK FALSE
