SPECIFICATION Spec
CONSTANTS
  Size = 9
  NULL = NULL
  Calls <- MCCalls
  Chars <- MCChars
  Prints <- MCPrints
INVARIANTS
  MemmoveRight
  StringsRight
  StaysInBuffer
  OutputRight
