SPECIFICATION MCSpec
CONSTANTS
  Benches = {"chaine", "confinement", "invariance"}
  Hybrid = TRUE
  Qwen = TRUE
  MinCalm = 1
  MaxPrime = 2
  Drift = 2
  Datagrams = 1
  MaxFaults = 1
INVARIANTS ProbesTrue InspectionComplete MeasuresTrue
PROPERTY HostsProgress
CHECK_DEADLOCK FALSE
