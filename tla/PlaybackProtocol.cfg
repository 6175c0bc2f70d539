SPECIFICATION FairSpec
CONSTANTS
  MaxGenerations = 2
  Words = 2
  Window = 2
  ClockInterval = 3
  MaxOverlaps = 1
INVARIANTS
  TypeOK
  CursorTrails
  TransportBounded
PROPERTIES
  CursorMonotone
  AudibleSpec
  CancelSilences
  AnswerEnds
CHECK_DEADLOCK FALSE
