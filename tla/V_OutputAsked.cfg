CONSTANTS
  c1 = c1
  c2 = c2
  Conns = {c1, c2}
  Listener = 3
  ConnFds = {4, 5}
  NoFd = NoFd
  MaxQueue = 1
  MaxChunks = 1
SPECIFICATION Spec
INVARIANTS
  QueuedOutputIsAskedFor
CHECK_DEADLOCK FALSE
