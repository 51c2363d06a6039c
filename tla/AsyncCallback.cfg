SPECIFICATION Spec
CONSTANTS
  Operations = {"CALL"}
  SyncKinds = {"put"}
  AsyncCallbacks = TRUE
  AsyncSyncs = FALSE
  WriteMap = FALSE
  CanAbort = FALSE
  MaxInstructions = 2
  MaxSyncs = 1
INVARIANT
  CommitDeferred
CHECK_DEADLOCK FALSE
