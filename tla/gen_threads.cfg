SPECIFICATION Spec
CONSTANTS
  a = a
  b = b
  x = x
  PoolIds = {a, b}
  StrangerIds = {x}
  Configs <- Threads
  BatchSize = 1
  MaxQueries = 2
  MaxFrames = 1
SYMMETRY Symmetry
INVARIANTS
  IdsConserved
  UniqueIds
  TotalsNeverOvershoot
  LateSendsBounded
PROPERTY
  ImplementsLedger
CHECK_DEADLOCK FALSE
