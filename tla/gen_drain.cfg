SPECIFICATION FairSpec
CONSTANTS
  a = a
  x = x
  PoolIds = {a}
  StrangerIds = {x}
  Configs <- DrainConfigs
  BatchSize = 1
  MaxQueries = 1
  MaxFrames = 1
PROPERTIES
  DrainReadsReplies
CHECK_DEADLOCK FALSE
