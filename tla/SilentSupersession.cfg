SPECIFICATION Spec
CONSTANTS
  MaxChunks = 3
  MaxFaults = 2
PROPERTIES
  OverflowDegrades
CHECK_DEADLOCK FALSE
