SPECIFICATION FairSpec
CONSTANTS
  N = 2
  QpsChoices <- Rates
  Protocols = {"udp", "doh"}
  MaxReports = 0
PROPERTIES
  SignalReachesAll
CHECK_DEADLOCK FALSE
