SPECIFICATION Spec
CONSTANTS
  Sizes <- MCSizes
  PageEntries <- MCEntries
  NWords <- MCNWords
  PageEnd = 34
INVARIANTS
  SlotsIntact
  SpaceExact
PROPERTIES
  ImplementsContents
CHECK_DEADLOCK FALSE
