SPECIFICATION Spec
CONSTANTS
  Gens = {g1, g2}
  Qps = 2
  Workers = {1, 2}
  MaxSeconds = 2
  MaxSends = 3
  Replies <- MCReplies
SYMMETRY Symmetry
INVARIANTS
  TypeOK
  BatchFigures
  TotalsExact
  AvgWithin
  RateHeld
CHECK_DEADLOCK FALSE
