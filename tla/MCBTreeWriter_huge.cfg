SPECIFICATION FairSpec
CONSTANTS
  ByteStrings <- HugeKeys
  Strings <- MCStrings
  Keys <- MCKeys
  KeyLen <- MCKeyLen
  ValLen <- MCValLen
  Pfx <- MCPfx
  Values = {0}
  Psize = 68
  MaxPages = 8
INVARIANTS
  PagesFit
  SiblingsAgree
CHECK_DEADLOCK FALSE
