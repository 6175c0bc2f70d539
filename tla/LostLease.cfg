SPECIFICATION FairSpec
CONSTANTS
  MaxSessions = 2
  MaxWords = 1
  MaxFaults = 0
PROPERTY TerminalEventReleases
CHECK_DEADLOCK FALSE
