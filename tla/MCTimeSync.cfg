CONSTANTS
  MaxStarts = 2
  MaxEchoes = 5
  MaxRows = 1
  Gaps = {2, 7}
  Delays = {0, 2}
  Horizon = 34
  Rate = 50
  Offset = 1
  Mantissa = 1024
SPECIFICATION SyncSpec
INVARIANTS EntriesAreEchoes OnlyLastEchoLost
INVARIANTS TimeAdvances KeepsHalf ErrorIsBounded OutlierRejected
CHECK_DEADLOCK FALSE
