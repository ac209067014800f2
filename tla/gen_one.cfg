SPECIFICATION Spec
CONSTANTS
  a = a
  b = b
  PoolIds = {a, b}
  StrangerIds = {}
  Configs <- OneThread
  BatchSize = 3
  MaxQueries = 3
  MaxFrames = 2
SYMMETRY Symmetry
INVARIANTS
  TypeOK
  IdsConserved
  UniqueIds
  PoolBound
  SettledOnce
  ReportsExact
  ReportAddsUp
  LateSendsBounded
  DrainLeavesExpired
CHECK_DEADLOCK FALSE
