SPECIFICATION FairSpec
CONSTANTS
  NumNodes = 3
  Apps = {"linus"}
  Degrees = 1
  ChunkSize = 2
  InputRows <- OneRow
  OutputRows <- OneRow
  SleepIsEnough = FALSE
  Nil = Nil
CHECK_DEADLOCK FALSE
PROPERTY
  GracefulStop
