SPECIFICATION Spec
CONSTANTS
  ByteStrings <- MixedKeys
  Strings <- MCStrings
  Keys <- MCKeys
  KeyLen <- MCKeyLen
  ValLen <- MCValLen
  Pfx <- MCPfx
  Values = {0, 3, 100}
  Psize = 68
  MaxPages = 8
INVARIANTS
  TypeOK
  PagesFit
  KeysSorted
  DescentExact
  PutNeverUnfit
PROPERTIES
  ImplementsDict
