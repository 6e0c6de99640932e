CONSTANTS
  nAMC = 2
  nCHAN = 2
  calo_segments = 3
  waveform_length = 1
  BlockWords = 6
  amc_block_size = 6
  header_size = 8
  BlockHeaders = 2
  n_muons_mean = 1
  RiderHeaders <- RiderOnly
  Repeats <- FreshOnly
  Stops = {1}
  MaxFills = 3
  MaxRuns = 1
  MayBreak = FALSE
SPECIFICATION Spec
INVARIANT TruthOfFill
CHECK_DEADLOCK FALSE
