SPECIFICATION FairSpec
CONSTANTS
  EventTurnBatching = TRUE
  OverlappingSync = TRUE
  SeparateFlushed = TRUE
  InstructionCanFail = FALSE
  CommitCanFail = FALSE
  SyncCanFail = FALSE
  Operations = {"WRITE"}
  MaxSlots = 6
  MaxNesting = 2
  ResolveInterval = 2
  TxnStartThreshold = 2
  BatchStartThreshold = 1
PROPERTIES
  EveryFlushResolves
CHECK_DEADLOCK FALSE
