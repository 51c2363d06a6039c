SPECIFICATION Spec
CONSTANTS
  Operations = {"ZIP", "CALL"}
  SyncKinds = {"put"}
  AsyncCallbacks = FALSE
  AsyncSyncs = FALSE
  WriteMap = FALSE
  CanAbort = FALSE
  MaxInstructions = 3
  MaxSyncs = 2
INVARIANT
  NoLockCycle
CHECK_DEADLOCK FALSE
