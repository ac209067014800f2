SPECIFICATION FairSpec
CONSTANTS
  N = 2
  QpsChoices <- Rates
  Protocols = {"udp", "doh"}
  MaxReports = 1
INVARIANTS
  TypeOK
  ReportsConserved
  NoEarlyExit
  SummaryComplete
PROPERTIES
  ShutdownCompletes
  CrashEndsRun
  ImplementsLifecycle
CHECK_DEADLOCK FALSE
