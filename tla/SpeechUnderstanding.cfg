SPECIFICATION FairSpec
CONSTANTS
  MaxChunks = 3
  MaxFaults = 2
INVARIANTS
  PendingIsCounted
  AsrLeaseIsSound
PROPERTIES
  ShutdownEnds
CHECK_DEADLOCK FALSE
