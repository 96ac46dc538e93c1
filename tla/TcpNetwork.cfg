SPECIFICATION TcpSpec
CONSTANTS
  NumNodes = 4
  Address <- MCAddress
  Talks = 2
  StartedInOrder = TRUE
  ServerFirst = TRUE
  Nil = Nil
  Receivers = {n0}
  Threads = {a, b}
  Sends = 2
  Sizes = {2, 5, 6}
  ChunkSize = 3
  SocketSpace = 3
  ShortReads = FALSE
CHECK_DEADLOCK FALSE
INVARIANTS
  HeardInTurn
  RightNode
  ConnectsSucceed
PROPERTIES
  ImplementsMailbox
  EverySendArrives
  EverySendReturns
  AllNodesUp
