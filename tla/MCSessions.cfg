CONSTANTS
  c1 = c1
  c2 = c2
  c3 = c3
  Conns = {c1, c2, c3}
  NoConn = NoConn
  Names = {"alice", "-bad"}
  NoName = "none"
  ValidNames = {"alice"}
  Keys <- MCKeys
  IRCtoLower <- MCFold
  MaxCount = 3
  MaxStray = 2
  Crowds <- MCCrowds
SPECIFICATION Spec
SYMMETRY ConnSymmetry
INVARIANTS
  SessionsTypeOK
  EntriesAreMembers
  LostOnlyToNamesakes
  RefusedOnlyForNamesakes
  NothingOfRefusedLines
PROPERTIES
  ImplementsRegistry
CHECK_DEADLOCK FALSE
