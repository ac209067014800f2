SPECIFICATION FairSpec
CONSTANTS
  Capacity = 1
  MaxSends = 4
INVARIANTS
  TypeOK
  EachMessageOnce
  EndMeansAllSettled
PROPERTIES
  RelayEndsAfterSender
  NoTaskLeftWaiting
CHECK_DEADLOCK FALSE
