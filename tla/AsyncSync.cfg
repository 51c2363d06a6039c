SPECIFICATION Spec
CONSTANTS
  Operations = {"CALL"}
  SyncKinds = {"txn"}
  AsyncCallbacks = FALSE
  AsyncSyncs = TRUE
  WriteMap = FALSE
  CanAbort = FALSE
  MaxInstructions = 2
  MaxSyncs = 1
INVARIANT
  NoSelfLock
CHECK_DEADLOCK FALSE
