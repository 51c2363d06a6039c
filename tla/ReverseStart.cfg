SPECIFICATION Spec
CONSTANTS
  Keys = {1, 2, 3}
  Vals = {1, 2}
  Scans <- ReverseStarts
  MaxWrites = 1
INVARIANT ScanExact
