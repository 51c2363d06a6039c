SPECIFICATION FairSpec
CONSTANTS
  Operations = {"CALL", "STRICT"}
  SyncKinds = {"put", "txn"}
  AsyncCallbacks = TRUE
  AsyncSyncs = FALSE
  WriteMap = FALSE
  CanAbort = TRUE
  MaxInstructions = 3
  MaxSyncs = 2
INVARIANTS
  TxnUnderLock
  SyncCommitted
  NoLockCycle
PROPERTIES
  SyncReturns
  EveryInstructionRuns
CHECK_DEADLOCK FALSE
