SPECIFICATION FairSpec
CONSTANTS
  Iterators = {i1}
  Txns = {t1, t2, t3}
  Cursors = {c1, c2}
  None = None
  MaxCommits = 1
PROPERTIES
  ReaderReleased
