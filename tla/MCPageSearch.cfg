SPECIFICATION FairSpec
CONSTANTS
  N = 7
  Searches <- MCSearches
INVARIANTS
  LeafSearchCorrect
  PickCorrect
  ReadsInRange
PROPERTIES
  Terminates
CHECK_DEADLOCK FALSE
