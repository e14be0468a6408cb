SPECIFICATION MCSpec
CONSTANTS
  Packets <- MCPackets
  HeaderBytes <- MCHeader
  Counts <- MCCounts
  MaxName = 5
  MaxJumps = 2
  MaxRR = 1
  MaxRData = 1
  QFix = 1
  RRFix = 1
  TwoLevel <- MCTwoLevel
  Links = {1, 101, 113, 276, 228, 99}
  Records <- MCRecords
  MaxRecords = 1
INVARIANTS TrackersTrue StreamTrue
PROPERTIES WireExact
CHECK_DEADLOCK FALSE
