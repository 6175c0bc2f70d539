SPECIFICATION FairSpec
CONSTANTS
  Words = 5
  Ahead = 1
  Transport = 3
  Overlaps = 1
PROPERTY ResumedAnswerIsSpoken
CHECK_DEADLOCK FALSE
