SPECIFICATION Spec
CONSTANTS
  Operations = {"PUT", "START"}
  SyncKinds = {"put"}
  AsyncCallbacks = FALSE
  AsyncSyncs = FALSE
  WriteMap = FALSE
  CanAbort = FALSE
  MaxInstructions = 3
  MaxSyncs = 1
INVARIANT
  SyncCommitted
CHECK_DEADLOCK FALSE
