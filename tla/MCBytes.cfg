SPECIFICATION BytesFairSpec
CONSTANTS
  NLetters = 3
  MaxLen = 4
  PsizeWords <- MCPsizeWords
  Words <- MCWords
  Lengths <- MCLengths
  Fields32 <- MCFields32
  Fields16 <- MCFields16
  PageSizes = {32, 40}
  U16 <- MCU16
  U32 <- MCU32
  UsizeMax = 127
  NPages = 2
  Cap = 2
  Bytes = {0, 1}
  MaxSize = 5
  MaxKey = 3
INVARIANTS
  SeparatorDivides
  OpensAnywhere
  HostsAgree
  ItemsReadable
  FetchRight
  CompareAgrees
PROPERTIES
  BothReturn
CHECK_DEADLOCK FALSE
