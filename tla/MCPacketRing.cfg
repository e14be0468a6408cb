SPECIFICATION RingSpec
CONSTANTS
  Benches = {"chaine"}
  Hybrid = TRUE
  Qwen = TRUE
  MinCalm = 1
  MaxPrime = 1
  Drift = 1
  Datagrams = 1
  MaxFaults = 0
PROPERTY AvailableDrained
CHECK_DEADLOCK FALSE
