SPECIFICATION FairSpec
CONSTANTS
  talker = talker
  visitor = visitor
  Clients = {talker, visitor}
  NoClient = none
  QueueSize = 2
  Backlog = 1
  MaxMessages <- MessagesOfTwo
INVARIANTS TypeOK OneSession ModelsAreFree 
PROPERTIES ReasonIsFinal SessionEnds
CHECK_DEADLOCK FALSE
