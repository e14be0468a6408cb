SPECIFICATION RelinkSpec
CONSTANTS
  Promoters = {"p1", "p2"}
  Case <- Incidents
  Holdouts <- References
  Calls <- Validations
  Base <- FirstBook
  Capacity = 2
  BlockRecords = 2
  MaxEntries = 4
  MaxEnqueued = 3
  MaxCrashes = 1
  Forgers = {"f1"}
  Deltas = {"d1"}
  Readers = {"r1"}
  Centroids = {"c1", "c2"}
  Radii = {8, 12}
  Key = "k"
  Strict = FALSE
  HostileViews = {"h"}
  BenignViews = {"b"}
  Blocks <- Blocking
  MaxSaves = 2
  MaxLosses = 1
  MaxDamage = 1
  Keys = {"p1t1", "p1t2", "p2t1"}
  capaciteTableProcessus = 2
  Datagrams <- Sent
  Flows <- Resolved
  Top = 3
  MaxOps = 5
  ParentDomains = {"d1", "d2", "d3"}
  Home <- HomeOf
  Stride <- StrideOf
  MaxTrackedDomains = 2
  Probes = 2
  Window = 4
  Inactivity = 3
  Subs = {"a", "b"}
  Bits <- BitsOf
  Times = {0, 1, 2, 3, 4, 6}
  MaxQueries = 6
INVARIANT RelinkWhole
CHECK_DEADLOCK FALSE
