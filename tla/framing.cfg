SPECIFICATION FairSpec
CONSTANTS
  Base = 2
  Queries <- SmallQueries
  Answers <- SmallAnswers
  MaxQueries = 2
  MaxAnswers = 2
INVARIANTS
  TypeOK
  DecodesWhatWasSent
  CleanEndIsWhole
  PeerReadsMessages
PROPERTIES
  WholeFramesDelivered
CHECK_DEADLOCK FALSE
