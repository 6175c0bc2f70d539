SPECIFICATION FairSpec
CONSTANTS
  MaxSessions = 2
  MaxWords = 2
  MaxFaults = 1
INVARIANTS
  TypeOK
  SpokenInOrder
  LeaseIsSound
  LeaseEndsWithGeneration
PROPERTIES
  ReturnsClean
  StreamsEnd
CHECK_DEADLOCK FALSE
