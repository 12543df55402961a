CONSTANTS
  a = a
  b = b
  X = X
  o = o
  SP = SP
  COLON = COLON
  CR = CR
  LF = LF
  Text = {a, b, X, o, SP, COLON}
  RawText = {a, b}
  toUpper <- MCUpper
  MaxStream = 24
  MaxRaw = 4
  MaxChunk = 4
  Scripts <- MCScripts
SPECIFICATION Spec
INVARIANTS
  ParsesLines
CHECK_DEADLOCK FALSE
