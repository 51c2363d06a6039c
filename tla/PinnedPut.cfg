SPECIFICATION Spec
CONSTANTS
  Keys = {k1}
  Vals = {a, b}
  Absent = Absent
  MaxWrites = 2
PROPERTIES
  PinnedUntilCommitted
