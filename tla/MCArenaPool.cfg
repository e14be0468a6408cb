SPECIFICATION FairSpec
CONSTANTS
  Writers = {w1, w2}
  Readers = {r1}
  Capacity = 1
  InlineWords = 1
  PageWords = 3
  Word = {"n", "a", "b"}
  Nul = "n"
  Payloads <- MCPayloads
  Crc <- MCCrc
  CrcValues = {0, 1}
  Foreign <- MCForeign
  MaxStores = 3
  MaxSeq = 6
INVARIANTS
  ReadExact
  PageExclusive
  LossNeedsLap
PROPERTIES
  StoreCompletes
CHECK_DEADLOCK FALSE
