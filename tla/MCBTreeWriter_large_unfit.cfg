SPECIFICATION Spec
CONSTANTS
  ByteStrings <- FewLongKeys
  Strings <- MCStrings
  Keys <- MCKeys
  KeyLen <- MCKeyLen
  ValLen <- MCValLen
  Pfx <- MCPfx
  Values = {3, 19}
  Psize = 68
  MaxPages = 10
INVARIANTS
  PutNeverUnfit
CHECK_DEADLOCK FALSE
