CONSTANTS
  c1 = c1
  Conns = {c1}
  NoConn = NoConn
  Names = {"alice"}
  NoName = "none"
  ValidNames = {"alice"}
  Keys <- MCKeys
  IRCtoLower <- MCFold
  MaxCount = 3
  MaxStray = 1
  Crowds <- MCUsers
SPECIFICATION Spec
INVARIANTS
  ErrorDisconnects
CHECK_DEADLOCK FALSE
