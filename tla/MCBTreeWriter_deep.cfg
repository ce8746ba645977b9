SPECIFICATION Spec
CONSTANTS
  ByteStrings <- LongKeys
  Strings <- MCStrings
  Keys <- MCKeys
  KeyLen <- MCKeyLen
  ValLen <- MCValLen
  Pfx <- MCPfx
  Values = {3}
  Psize = 68
  MaxPages = 10
INVARIANTS
  ChildRanges
  SpineLeadsToCur
  NoPhantomPage
  SiblingsAgree
