CONSTANTS
  c1 = c1
  c2 = c2
  c3 = c3
  Conns = {c1, c2, c3}
  Listener = 3
  ConnFds = {4, 5}
  NoFd = NoFd
  MaxQueue = 2
  MaxChunks = 1
SPECIFICATION Spec
INVARIANTS
  PollerTypeOK
  SetsMatchConnections
  ReadsDoNotWait
PROPERTIES
  AskedOutputIsSent
  InputIsServed
CHECK_DEADLOCK FALSE
