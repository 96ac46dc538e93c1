SPECIFICATION Spec
CONSTANTS
  Nodes = {n0}
  Threads = {a}
  Sends = 1
  Sizes = {2}
  ChunkSize = 3
  SocketSpace = 4
  ShortReads = TRUE
  Nil = Nil
CHECK_DEADLOCK FALSE
INVARIANTS
  ReceivedIntact
