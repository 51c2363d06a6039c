SPECIFICATION Spec
CONSTANTS
  EventTurnBatching = FALSE
  OverlappingSync = TRUE
  SeparateFlushed = FALSE
  InstructionCanFail = FALSE
  CommitCanFail = TRUE
  SyncCanFail = FALSE
  Operations = {"WRITE"}
  MaxSlots = 4
  MaxNesting = 2
  ResolveInterval = 4
  TxnStartThreshold = 2
  BatchStartThreshold = 1
INVARIANTS
  ResolvedIsCommitted
CHECK_DEADLOCK FALSE
