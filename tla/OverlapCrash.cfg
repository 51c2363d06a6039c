SPECIFICATION Spec
CONSTANTS
  LastPage = 5
  Readers = {}
  Syncers = {s1, s2}
  Overlapping = TRUE
  NoSyncs = {TRUE}
  Flushed = TRUE
  MaxTxns = 4
  MaxWrites = 1
  MaxCrashes = 2
  FlushedBias = 100
SYMMETRY Symmetry
INVARIANTS
  TypeOK
  RecoveryIntact
  PagesAccounted
PROPERTY
  ImplementsStore
CHECK_DEADLOCK FALSE
