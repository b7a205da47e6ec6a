CONSTANTS
  FloatsPerPage = 6
  FloatNumber = 3
  MaxPages = 2
  MaxFloats = 3
  Value <- MCValue
  Samples <- MCSamples
  Windows = {3}
  Widths = {1, 2}
  TypedRanges <- MCTypedRanges
SPECIFICATION PlotSpec
INVARIANTS PlotReadsPublishedRows PlotShowsExtremes ScaledValuesStayInRange
CHECK_DEADLOCK FALSE
