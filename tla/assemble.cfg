SPECIFICATION Spec
CHECK_DEADLOCK FALSE
CONSTRAINT WithinBounds
CONSTANTS
  Lines <- AllLines
  MaxLines = 5
  Number <- MCNumber
  Trailing <- MCTrailing
  Symbols <- MCSymbols
  MemoryOperand <- MCMemoryOperand
  CODE_SEGMENT_START = 50331648
  DATA_SEGMENT_START = 50331656
  UninitializedWords <- MCUninitialized
INVARIANT TypeOK
INVARIANT CodeMeansText
INVARIANT DataMeansText
INVARIANT EveryLineAnswered
INVARIANT UndefinedReported
INVARIANT LabelsResolve
INVARIANT WordsAreExact
