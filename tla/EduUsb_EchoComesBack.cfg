SPECIFICATION UsbSpec
CHECK_DEADLOCK FALSE
CONSTANTS
  BufSize = 4
  CounterMod = 3
  PrefixLen <- MCPrefixLen
  Texts <- MCTexts
  ReadSizes = {2, 6}
  MaxQueued = 2
  MaxMessages = 4
  Base = 16
  Words <- MCWords
PROPERTY
  EchoComesBack
