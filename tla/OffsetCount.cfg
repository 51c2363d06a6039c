SPECIFICATION Spec
CONSTANTS
  Keys = {1, 2, 3}
  Vals = {1, 2}
  Scans <- OffsetCounts
  MaxWrites = 1
INVARIANT CountExact
