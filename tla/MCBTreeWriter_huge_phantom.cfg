SPECIFICATION Spec
CONSTANTS
  ByteStrings <- HugeKeys
  Strings <- MCStrings
  Keys <- MCKeys
  KeyLen <- MCKeyLen
  ValLen <- MCValLen
  Pfx <- MCPfx
  Values = {0}
  Psize = 68
  MaxPages = 8
INVARIANTS
  NoPhantomPage
CHECK_DEADLOCK FALSE
