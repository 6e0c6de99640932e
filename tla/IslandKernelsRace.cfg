SPECIFICATION Spec
CONSTANTS
  DEV_N_samples = 8
  N_DETECTORS = 1
  DEV_N_presamples = 3
  DEV_N_postsamples = 1
  DEV_decimation = 1
  n_threads_per_block = 8
  LANES = 2
  WORD = 65536
  nsamples = 2
  trigger_period = 8
  gpu_data_proc_size_max = 1000
  Options = {1}
  PedestalOptions = {0}
  DEV_global_pedestal = 0
  DEV_threshold = 50
  DEV_threshold_sign = TRUE
  Fills <- PulsesApart
INVARIANT
  WindowsWhole
CHECK_DEADLOCK FALSE
