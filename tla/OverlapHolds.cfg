SPECIFICATION FairSpec
CONSTANTS
  Words = 5
  Ahead = 1
  Transport = 3
  Overlaps = 3
INVARIANTS SynthesisBounded TextHeld
PROPERTY TextContinues
CHECK_DEADLOCK FALSE
