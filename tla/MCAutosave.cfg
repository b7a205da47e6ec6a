CONSTANTS
  FloatsPerPage = 4
  FloatNumber = 3
  MaxRows = 8
  MaxRedraws = 2
  MaxEchoes = 2
SPECIFICATION Spec
INVARIANTS FileIsPrefix PendingHasCallback
PROPERTY PendingClears
CHECK_DEADLOCK FALSE
