SPECIFICATION Spec
CONSTANTS
  w1 = w1
  w2 = w2
  Workers = {w1}
  MaxRows = 2
  MaxSettings = 2
INVARIANT RemoveIsClean
CHECK_DEADLOCK FALSE
