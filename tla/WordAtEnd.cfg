SPECIFICATION Spec
CONSTANTS
  BufSize = 3
  MaxFile = 4
  Zero = Zero
  Junk = Junk
CHECK_DEADLOCK FALSE
INVARIANT
  NextWordRead
