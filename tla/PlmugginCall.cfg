SPECIFICATION Spec
CONSTANTS
  Calls        <- MCCalls
  Columns      <- MCColumns
  RowLimit     = 2
  MaxDepth     = 8
  Words        <- MCWords
  VoidElements <- MCVoid
  MaxClasses   = 2
  Hash         <- MCHash
  FirstSize    = 2
INVARIANTS TypeOK AsWritten LexicalPage SafeReads Nested
PROPERTIES Shrinks Terminates
