SPECIFICATION Spec
CONSTANTS
  w1 = w1
  w2 = w2
  w3 = w3
  main = main
  worker = worker
  p1 = p1
  p2 = p2
  None = None
  Wrappers = {w1, w2, w3}
  Threads = {main, worker}
  ThreadOf <- MCThreadOf
  Paths = {p1, p2}
  FileOf <- DistinctFiles
  MaxReads = 1
  CloseWhileBusy = FALSE
INVARIANTS
  RegistryExact
  InUseIsOpen
  AllReleased
CHECK_DEADLOCK FALSE
