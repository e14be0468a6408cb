SPECIFICATION MCSpec
CONSTANTS
  Observed <- MCObserved
  Disks <- MCDisks
  Events <- MCEvents
  Contexts <- SweepContexts
  FallbackProbe = "confirm"
  MaxMounts = 3
  MaxEvals = 1
  MaxProofs = 1
INVARIANTS CertificationEarned HostileRefused Unsoftened ReplayReproduces AgentSound
CHECK_DEADLOCK FALSE
