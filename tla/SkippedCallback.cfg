SPECIFICATION Spec
CONSTANTS
  EventTurnBatching = TRUE
  OverlappingSync = FALSE
  SeparateFlushed = FALSE
  InstructionCanFail = FALSE
  CommitCanFail = FALSE
  SyncCanFail = FALSE
  Operations = {"CALL", "COND"}
  MaxSlots = 9
  MaxNesting = 2
  ResolveInterval = 2
  TxnStartThreshold = 2
  BatchStartThreshold = 1
INVARIANTS
  CallbackInOwnTxn
CHECK_DEADLOCK FALSE
