SPECIFICATION Spec
CONSTANTS
  EventTurnBatching = FALSE
  OverlappingSync = TRUE
  SeparateFlushed = TRUE
  InstructionCanFail = FALSE
  CommitCanFail = FALSE
  SyncCanFail = FALSE
  Operations = {"WRITE","START","WRITEIF"}
  MaxSlots = 6
  MaxNesting = 2
  ResolveInterval = 2
  TxnStartThreshold = 2
  BatchStartThreshold = 1
INVARIANTS
  FlushedIsDurable
CHECK_DEADLOCK FALSE
