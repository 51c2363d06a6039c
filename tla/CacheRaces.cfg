SPECIFICATION Spec
CONSTANTS
  Keys = {k1}
  Vals = {a, b}
  Absent = Absent
  MaxWrites = 3
SYMMETRY Symmetry
INVARIANTS
  CacheFresh
  PinsReleased
