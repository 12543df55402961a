CONSTANTS
  c1 = c1
  c2 = c2
  Conns = {c1, c2}
  NoConn = NoConn
  Names = {"alice"}
  NoName = "none"
  ValidNames = {"alice"}
  Keys <- MCKeys
  IRCtoLower <- MCFold
  MaxCount = 3
  MaxStray = 1
  Crowds <- MCUsers
SPECIFICATION Spec
INVARIANTS
  QuitNeedsRegistration
CHECK_DEADLOCK FALSE
