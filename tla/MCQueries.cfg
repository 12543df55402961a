CONSTANTS
  c1 = c1
  c2 = c2
  c3 = c3
  Conns = {c1, c2, c3}
  NoConn = NoConn
  Names <- MCNames
  NoName = "none"
  ValidNames <- MCValidNames
  Keys <- MCKeys
  IRCtoLower <- MCFold
  MaxCount = 4
  MaxStray = 1
  ServerName = "irc"
  Lines <- MCLines
  Spelling <- MCSpelling
  Servers <- MCServers
  SuffixLength = 28
  MaxUnsigned = 65535
  WideLetters = {}
SPECIFICATION Spec
SYMMETRY ConnSymmetry
INVARIANTS
  QueriesTypeOK
  KeysMatchNicknames
  DriftIsStray
  QueriesEnd
  AnswersTellTheState
  HelpListsWhatIsAllowed
  ISupportIsWhole
PROPERTIES
  ImplementsDirectory
CHECK_DEADLOCK FALSE
