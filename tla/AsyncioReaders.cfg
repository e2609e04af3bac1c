SPECIFICATION Spec
CONSTANTS
  Readers = {r1, r2}
  Receives = {t1}
  FilterBudget = 1
  MaxArrivals = 2
CHECK_DEADLOCK FALSE
INVARIANTS
  DescriptorsAccounted
  PacketsOnce
PROPERTIES
  CloseIsFinal
  RemovalObserved
  ReaderServes
