SPECIFICATION Spec
CHECK_DEADLOCK FALSE
CONSTANTS
  Lines <- CodeLines
  MaxLines = 3
  Number <- MCNumber
  Trailing <- MCTrailing
  Symbols <- MCSymbols
  MemoryOperand <- MCMemoryOperand
  CODE_SEGMENT_START = 0
  DATA_SEGMENT_START = 1048576
  UninitializedWords <- MCUninitialized
INVARIANT JumpsReachLabels
