CONSTANTS
  WG_MAX_PEERS = 1
  MaxIndex = 3
  MaxSend = 1
SPECIFICATION Spec
INVARIANT AnswerIsTaken
CHECK_DEADLOCK FALSE
