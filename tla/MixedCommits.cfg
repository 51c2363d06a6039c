SPECIFICATION Spec
CONSTANTS
  LastPage = 5
  Readers = {}
  Syncers = {s1}
  Overlapping = TRUE
  NoSyncs = {TRUE, FALSE}
  Flushed = TRUE
  MaxTxns = 6
  MaxWrites = 1
  MaxCrashes = 0
  FlushedBias = 100
INVARIANTS
  RecoveryIntact
CHECK_DEADLOCK FALSE
