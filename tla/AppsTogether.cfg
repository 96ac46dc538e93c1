SPECIFICATION FairSpec
CONSTANTS
  NumNodes = 3
  Apps = {"demo", "wc", "linus"}
  Degrees = 1
  ChunkSize = 2
  InputRows <- MCInputRows
  OutputRows <- MCOutputRows
  SleepIsEnough = TRUE
  Nil = Nil
CHECK_DEADLOCK FALSE
INVARIANTS
  LocalReadsHit
  StopIsLast
PROPERTY
  GracefulStop
