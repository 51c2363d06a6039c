SPECIFICATION Spec
CONSTANTS
  Keys = {k1}
  Vals = {a, b}
  Absent = Absent
  MaxWrites = 1
SYMMETRY Symmetry
INVARIANTS
  NeverStale
