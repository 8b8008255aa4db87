SPECIFICATION Spec
CONSTANTS
  p1 = p1
  p2 = p2
  Producers = {p1}
  DataSize = 8
  Sizes = {2, 3}
  Contents = 2
  MaxHead = 16
CHECK_DEADLOCK FALSE
INVARIANT TakesOnlyCommitted
