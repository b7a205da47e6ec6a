CONSTANTS
  FloatsPerPage = 4
  FloatNumber = 3
  MaxRows = 8
  MaxRedraws = 2
  MaxEchoes = 2
SPECIFICATION Spec
PROPERTY ExportHoldsRows
CHECK_DEADLOCK FALSE
