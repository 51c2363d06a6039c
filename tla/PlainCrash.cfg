SPECIFICATION Spec
CONSTANTS
  LastPage = 6
  Readers = {r1}
  Syncers = {}
  Overlapping = FALSE
  NoSyncs = {FALSE}
  Flushed = FALSE
  MaxTxns = 4
  MaxWrites = 2
  MaxCrashes = 2
  FlushedBias = 100
INVARIANTS
  RecoveryIntact
  AckSurvives
  ReaderIntact
CHECK_DEADLOCK FALSE
