SPECIFICATION FairSpec
CONSTANTS
  Invalids = 3
  MaxCrashes = 3
INVARIANTS
  OriginalKept
  RecordsAreTrue
  AuditSucceeds
PROPERTIES
  AlignedOnce
  RerunsComplete
CHECK_DEADLOCK FALSE
