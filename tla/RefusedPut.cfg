SPECIFICATION Spec
CONSTANTS
  EventTurnBatching = TRUE
  OverlappingSync = TRUE
  SeparateFlushed = TRUE
  InstructionCanFail = TRUE
  CommitCanFail = FALSE
  SyncCanFail = FALSE
  Operations = {"WRITE"}
  MaxSlots = 3
  MaxNesting = 2
  ResolveInterval = 2
  TxnStartThreshold = 2
  BatchStartThreshold = 1
INVARIANTS
  TrueIsWritten
CHECK_DEADLOCK FALSE
