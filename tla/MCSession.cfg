SPECIFICATION SessionFairSpec
CONSTANTS
  ByteStrings <- FourLongKeys
  Strings <- MCStrings
  Keys <- MCKeys
  KeyLen <- MCKeyLen
  ValLen <- MCValLen
  Pfx <- MCPfx
  Values = {0}
  Faults = {"partial", "lost"}
  MaxLost = 1
  MinStored = 0
  Together = FALSE
  Psize = 68
  MaxPages = 6
INVARIANTS
  SessionTypeOK
  FinishedOpens
  ScanAllOrFirstLeafEmpty
PROPERTIES
  ImplementsSnapshot
  MappedStays
  ErrorCostsOneEntry
  ReaderCallsEnd
CHECK_DEADLOCK FALSE
