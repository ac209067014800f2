SPECIFICATION Spec
CONSTANTS
  N = 2
  QpsChoices <- Rates
  Protocols = {"udp"}
  MaxReports = 2
INVARIANTS
  LimiterBuilt
CHECK_DEADLOCK FALSE
