SPECIFICATION Spec
CONSTANTS
  NumNodes = 3
  NumProjects = 2
  NumUsers = 4
  Linus = 0
  Degrees = 2
  Commits <- MCCommits
  Nil = Nil
CHECK_DEADLOCK FALSE
INVARIANT
  DegreesOfLinus
PROPERTIES
  FramesWrittenOnce
  AllDegreesDone
