SPECIFICATION MCSpec
CONSTANTS
  Questions <- MCQuestions
  Zones <- MCZones
  Sources = {"s1", "s2"}
  Bucket <- MCBucket
  Rate = 1
  Burst = 1
  HourLen = 2
  QueueMax = 2
  Attempts = 2
  SyncEvery = 2
  RunIDs = {"r"}
  Clients = {"c1", "c2"}
  Interval = 2
  Duration = 3
  Stalls = 2
  MaxPackets = 3
  MaxClock = 3
  MaxFaults = 2
  MaxRivals = 1
  MaxCrashes = 1
  Addresses = {"a"}
  Foreign = {}
  LiveRuns = {"r"}
  Handlers = {"h"}
  Limit = 3
  Left <- MCLeft
  MaxDatagrams = 2
  MaxRequests = 3
  MaxLiveFaults = 1
INVARIANTS LabAccounted ResponsesSound CampaignAlone EvidenceExact
PROPERTY ServicesSettle
CHECK_DEADLOCK FALSE
