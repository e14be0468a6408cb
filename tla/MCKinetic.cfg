SPECIFICATION MCSpec
CONSTANTS
  Mesures <- MCAll
  Voies = 2
  TailleAnneau = 3
  MinAmorcage = 2
  SeuilScore = 3500
  SeuilHausse = 35
  SeuilEgress = 50
  SeuilPas = 3
  Figer = TRUE
  Planchers <- MCPlanchers
  MaxEpisodes = 6
  Clients = {c1}
  Directs = {d1}
  Configs = {f1}
  QClosers = {q1, q2}
  AClosers = {a1, a2}
  Capacite = 1
  MaxSoumis = 2
INVARIANTS ProfileSound QueueSound VetoPhysical VetoStable
PROPERTIES ClosersReturn
CHECK_DEADLOCK FALSE
