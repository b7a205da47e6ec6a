CONSTANTS
  Bits <- MCBits
  Res = 3
  Frac = 2
  DecimalComma = FALSE
  Datatypes = {"uint8", "uint8_hex", "uint32", "uint64", "int32", "float", "char[256]"}
  Numbers <- MCNumbers
  Typed <- MCTyped
  Options <- MCOptions
  Null = Null
  Absent = Absent
  None = None
SPECIFICATION Spec
INVARIANTS TypeOK EntryIsSent
PROPERTY LoadedValueArrives
