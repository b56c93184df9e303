CONSTANTS
  Requests <- MCRequests
  MaxCalls = 3
  MaxWire = 2
  MaxOpens = 2
SPECIFICATION FairSpec
INVARIANTS NoLostCallback TimerOfPending AnswerIsOwn
PROPERTIES KeepsSlot TimedCommandsEnd
CHECK_DEADLOCK FALSE
