SPECIFICATION FairSpec
CONSTANTS
  a = a
  PoolIds = {a}
  StrangerIds = {}
  Configs <- LiveConfigs
  BatchSize = 1
  MaxQueries = 2
  MaxFrames = 1
PROPERTIES
  StopsOnNotice
  QueriesSettle
  PoolRefills
  ImplementsLifecycle
CHECK_DEADLOCK FALSE
