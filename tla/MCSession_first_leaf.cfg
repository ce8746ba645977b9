SPECIFICATION SessionSpec
CONSTANTS
  ByteStrings <- ThreeLongKeys
  Strings <- MCStrings
  Keys <- MCKeys
  KeyLen <- MCKeyLen
  ValLen <- MCValLen
  Pfx <- MCPfx
  Values = {0}
  Faults = {}
  MaxLost = 0
  MinStored = 0
  Together = FALSE
  Psize = 68
  MaxPages = 7
INVARIANTS
  ScanComplete
CHECK_DEADLOCK FALSE
