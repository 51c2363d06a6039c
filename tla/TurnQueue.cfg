SPECIFICATION Spec
CONSTANTS
  EventTurnBatching = TRUE
  OverlappingSync = TRUE
  SeparateFlushed = FALSE
  InstructionCanFail = FALSE
  CommitCanFail = TRUE
  SyncCanFail = FALSE
  Operations = {"CALL", "COND"}
  MaxSlots = 9
  MaxNesting = 2
  ResolveInterval = 4
  TxnStartThreshold = 2
  BatchStartThreshold = 1
INVARIANTS
  TypeOK
  ExecutedInOrder
  PromiseTruth
  SettleCursor
  ResolvedIsDurable
  BlockAtomic
  EffectiveInOwnTxn
CHECK_DEADLOCK FALSE
