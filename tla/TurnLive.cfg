SPECIFICATION FairSpec
CONSTANTS
  EventTurnBatching = TRUE
  OverlappingSync = TRUE
  SeparateFlushed = TRUE
  InstructionCanFail = TRUE
  CommitCanFail = TRUE
  SyncCanFail = FALSE
  Operations = {"WRITE", "START"}
  MaxSlots = 6
  MaxNesting = 2
  ResolveInterval = 2
  TxnStartThreshold = 2
  BatchStartThreshold = 1
INVARIANTS
  FlushedIsDurable
PROPERTIES
  EveryWriteSettles
  HandedFlushResolves
CHECK_DEADLOCK FALSE
