SPECIFICATION Spec
CONSTANTS
  w1 = w1
  w2 = w2
  Workers = {w1, w2}
  MaxRows = 1
  MaxSettings = 3
INVARIANTS StopLabel NoDeadSocketOnGoodLink
PROPERTIES ImplementsTab QuietAfterStop StopReturns RemoveReturns LinkLossNoticed NoOrphanThread MeasuringTurnsBlue
CHECK_DEADLOCK FALSE
