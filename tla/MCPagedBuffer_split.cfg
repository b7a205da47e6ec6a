\* Three floats per page, two channels, three pages: rows straddle, and the
\* table is full in the middle of a row.
CONSTANTS
  FloatsPerPage = 3
  FloatNumber = 2
  MaxPages = 3
  MaxFloats = 5
  Value = {0, 1}
SPECIFICATION Spec
INVARIANT TypeOK
PROPERTIES ImplementsRowLog StoresPackageRow LimitIsTight
CHECK_DEADLOCK FALSE
