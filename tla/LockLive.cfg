SPECIFICATION FairSpec
CONSTANTS
  Operations = {"CALL", "STRICT", "START"}
  SyncKinds = {"put"}
  AsyncCallbacks = FALSE
  AsyncSyncs = FALSE
  WriteMap = FALSE
  CanAbort = FALSE
  MaxInstructions = 3
  MaxSyncs = 2
PROPERTIES
  SyncReturns
  EveryInstructionRuns
CHECK_DEADLOCK FALSE
