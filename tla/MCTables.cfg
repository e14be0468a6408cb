SPECIFICATION MCSpec
CONSTANTS
  Goroutines = {"g1", "g2"}
  Sources = {"s1", "s2"}
  Slots = {"slot"}
  SlotOf <- MCSlotOf
  MaxBurst = 1
  RefillPerSec = 1
  SourceMaxBurst = 2
  SourceRefillPerSec = 2
  Second = 1
  Word = 16
  T0 = 3
  TEnd = 7
  MaxDecisions = 4
  MaxConcurrent = 2
PROPERTIES BucketsHold CallersAnswered
CHECK_DEADLOCK FALSE
