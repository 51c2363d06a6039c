SPECIFICATION Spec
CONSTANTS
  EventTurnBatching = FALSE
  OverlappingSync = FALSE
  SeparateFlushed = FALSE
  InstructionCanFail = FALSE
  CommitCanFail = FALSE
  SyncCanFail = FALSE
  Operations = {"WRITE", "COND"}
  MaxSlots = 5
  MaxNesting = 2
  ResolveInterval = 2
  TxnStartThreshold = 2
  BatchStartThreshold = 1
INVARIANTS
  ConditionsNest
  HandoffUnique
CHECK_DEADLOCK FALSE
