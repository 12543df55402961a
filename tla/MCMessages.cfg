CONSTANTS
  a = a
  b = b
  X = X
  o = o
  SP = SP
  COLON = COLON
  CR = CR
  LF = LF
  Text = {a, b, X, o, SP, COLON}
  RawText = {a, b}
  toUpper <- MCUpper
  MaxStream = 24
  MaxRaw = 6
  MaxChunk = 6
  Scripts <- MCScripts
SPECIFICATION Spec
SYMMETRY MCSymmetry
INVARIANTS
  MessagesTypeOK
  EveryLineIsParsed
  LinesAreExact
  MessagesArrive
  MessagesDoNotMultiply
CHECK_DEADLOCK FALSE
