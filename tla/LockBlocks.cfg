SPECIFICATION Spec
CONSTANTS
  Operations = {"ZIP", "STRICT", "START"}
  SyncKinds = {"put", "start"}
  AsyncCallbacks = FALSE
  AsyncSyncs = TRUE
  WriteMap = TRUE
  CanAbort = FALSE
  MaxInstructions = 3
  MaxSyncs = 2
INVARIANTS
  BlockUnsplit
  CompressedOnce
CHECK_DEADLOCK FALSE
