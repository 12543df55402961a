CONSTANTS
  c1 = c1
  c2 = c2
  Conns = {c1, c2}
  NoConn = NoConn
  Names = {"alice", "ALICE", "bob"}
  NoName = "none"
  ValidNames = {"alice", "ALICE", "bob"}
  Keys <- MCKeys
  IRCtoLower <- MCFold
  MaxCount = 3
  MaxStray = 1
  Languages = {"en", "de"}
  DefaultLanguage = "en"
  NullLanguage = "none"
  Spoken <- MCSpoken
  Charsets = {"UCS-4-INTERNAL", "UTF-8"}
  ICONV_BUFFER_SIZE = 2048
  MaxTargets = 3
  MaxLanguages = 2
  TargetLists <- MCTargetLists
  CodeLists <- MCCodeLists
  MaxQueued = 1
SPECIFICATION Spec
SYMMETRY ConnSymmetry
INVARIANTS
  ChatTypeOK
  ClientsKnowTheirUsers
PROPERTIES
  
  NoticesAreSilent
CHECK_DEADLOCK FALSE
