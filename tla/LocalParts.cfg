SPECIFICATION PartsSpec
CONSTANTS
  ChunkSize = 2
  Lengths = {1, 3}
  MaxValue = 11
  MaxEdits = 1
  Inside = FALSE
  None = None
  Junk = Junk
  Zero = Zero
  BufSize = 3
  MaxText = 9
  MaxSor = 6
  Resets = 1
  MaxPiece = 25
  MaxSize = 45
  k0 = k0
  k1 = k1
  k2 = k2
  Keys = {k0, k1, k2}
  Hash <- MCHash
  Putters = {servicer}
  Seekers = {replier}
  Buckets = 2
  Puts = 3
  Seeks = 1
  Types <- MCTypes
  Numbers = {Zero, one}
  Strings = {s}
  FrameRows = 3
  Gaps = FALSE
  GuessLines = 2
  SorLines <- MCLines
  MaxLines = 3
  NumNodes = 2
  RowCounts = {1, 2, 5, 6}
  Widths = {1, 2}
  GetWidths = {1}
  MinRows = 3
  MaxThreads = 3
  PmapRows = 17
CHECK_DEADLOCK FALSE
INVARIANTS
  WordsInTurn
  LinesInTurn
  WritesInside
  LookupRight
  NullIsFlagged
  ChunksAligned
  RowsAreLines
  GetsTheCell
  MapVisitsRows
  PmapIsMap
PROPERTIES
  ImplementsList
  AllWordsRead
  AllLinesRead
  ImplementsDictionary
  ImplementsTable
