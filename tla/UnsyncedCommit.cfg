SPECIFICATION Spec
CONSTANTS
  EventTurnBatching = FALSE
  OverlappingSync = TRUE
  SeparateFlushed = FALSE
  InstructionCanFail = FALSE
  CommitCanFail = FALSE
  SyncCanFail = TRUE
  Operations = {"WRITE"}
  MaxSlots = 3
  MaxNesting = 2
  ResolveInterval = 2
  TxnStartThreshold = 2
  BatchStartThreshold = 1
INVARIANTS
  ResolvedIsDurable
CHECK_DEADLOCK FALSE
