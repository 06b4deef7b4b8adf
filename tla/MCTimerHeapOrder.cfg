CONSTANTS
  Fibers = {f1, f2, f3, f4}
  MaxTime = 4
SPECIFICATION Spec
INVARIANTS
  EarliestAtRoot
CHECK_DEADLOCK FALSE
