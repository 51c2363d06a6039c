SPECIFICATION Spec
CONSTANTS
  Keys = {1, 2, 3}
  Vals = {1, 2}
  Scans <- Exact
  MaxWrites = 2
INVARIANTS
  AnswersExact
  RenewedOrder
  StableFound
