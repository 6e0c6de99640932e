SPECIFICATION Spec
CONSTANTS
  DEV_N_samples = 9
  N_DETECTORS = 2
  DEV_N_presamples = 1
  DEV_N_postsamples = 1
  DEV_decimation = 2
  n_threads_per_block = 4
  LANES = 4
  WORD = 4
  nsamples = 1
  trigger_period = 4
  gpu_data_proc_size_max = 70
  Options = {0, 1, 2, 3}
  PedestalOptions = {0, 1}
  DEV_global_pedestal = 0
  DEV_threshold = 60
  DEV_threshold_sign = TRUE
  Fills <- PulsesAnywhere
INVARIANTS
  TypeOK
  HitsHaveNeighbours
  WindowsExact
  OutputReads
CHECK_DEADLOCK FALSE
