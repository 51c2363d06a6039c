SPECIFICATION Spec
CONSTANTS
  Operations = {"START"}
  SyncKinds = {"txn"}
  AsyncCallbacks = FALSE
  AsyncSyncs = FALSE
  WriteMap = TRUE
  CanAbort = TRUE
  MaxInstructions = 2
  MaxSyncs = 1
INVARIANT
  AbortHasTxn
CHECK_DEADLOCK FALSE
