SPECIFICATION MCSpec
CONSTANTS
  Callers = {"c1", "c2"}
  Packets <- MCPackets
  Tables <- MCTables
  QueueCap = 1
  AuditCap = 1
  MaxCalls = 2
  Names <- MCNames
  Shared <- MCShared
  Default <- MCDefault
  Sources <- MCSources
  ClassOf <- MCClassOf
  KindOf <- MCKindOf
  Lists <- MCLists
  Syncers = {"s1", "s2"}
  MaxChanges = 3
INVARIANT TableSound
PROPERTIES PipelineSound TableKept PipelineSettles
