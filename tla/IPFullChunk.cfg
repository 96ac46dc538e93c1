SPECIFICATION FairSpec
CONSTANTS
  Nodes = {n0}
  Threads = {a}
  Sends = 1
  Sizes = {3}
  ChunkSize = 3
  SocketSpace = 4
  ShortReads = FALSE
  Nil = Nil
CHECK_DEADLOCK FALSE
PROPERTIES
  EverySendArrives
