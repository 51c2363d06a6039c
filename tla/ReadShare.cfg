SPECIFICATION Spec
CONSTANTS
  Iterators = {i1, i2}
  Txns = {t1, t2, t3, t4}
  Cursors = {c1, c2, c3}
  None = None
  MaxCommits = 1
SYMMETRY Symmetry
INVARIANTS
  CursorLive
  SnapshotStable
  CursorExclusive
  ReadOwnWrites
  NativeAgrees
  NoReaderLeak
