SPECIFICATION MCSpec
CONSTANTS
  Size = 2
  Events <- MCAll
  Entries = 1
  Window = 2
  CountMax = 2
  MaxBatch = 4
  MaxInject = 5
INVARIANTS PollSound NoSlotRace
PROPERTIES ImplementsFifo
CHECK_DEADLOCK FALSE
