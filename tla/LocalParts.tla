----------------------------- MODULE LocalParts -----------------------------
(***************************************************************************)
(* The parts of eau2 that stay within a node and that no other module of   *)
(* this project is composed of: arrays and queues, string buffers, the     *)
(* readers of words and lines, the local map, data frames in memory, how a *)
(* distributed one is cut into chunks and read, and pmap().  They have     *)
(* nothing to do with each other; a behaviour is about one of them.        *)
(***************************************************************************)
EXTENDS ChunkedArray

CONSTANTS
  \* of the readers
  BufSize,   \* the size of a reader's buffer
  MaxText,   \* bound: how long a file of words is
  MaxSor,    \* bound: how long a file of lines is
  Resets,    \* bound: how often the reader of lines is reset
  \* of string buffers (StrBuff)
  MaxPiece, MaxSize,
  \* of the local map (HashMap)
  Keys, Hash, Putters, Seekers, Buckets, Puts, Seeks,
  \* of frames in memory (LocalFrame)
  Types, Numbers, Strings, FrameRows, Gaps, Zero,
  \* of distributed frames (FrameWriter, FrameReader)
  GuessLines, SorLines, MaxLines, NumNodes, RowCounts, Widths, GetWidths,
  \* of pmap() (ParallelMap)
  MinRows, MaxThreads, PmapRows

\* dataframe.h:12-15: 500000 and 8.
ASSUME PmapAssumption ==
  MinRows \in Nat /\ MaxThreads \in Nat \ {0} /\ MaxThreads <= MinRows /\ PmapRows \in Nat
\* parser.h:333: 500.  A field is one of these kinds.
ASSUME LinesAssumption ==
  /\ GuessLines \in Nat \ {0} /\ MaxLines \in Nat
  /\ \A line \in SorLines :
       line \in Seq({"missing", "bit", "int", "float", "text", "mixed", "numbered", "dotted"})
\* A frame in memory has columns, and nullptr is neither a string nor a number.
ASSUME TypesAssumption ==
  /\ Types \in Seq({"S", "I"}) /\ Types # <<>>
  /\ Zero \in Numbers /\ None \notin Numbers \cup Strings
\* Every key has a hash, there is a chain to put it into, and nullptr is neither a key
\* nor a value.
ASSUME MapAssumption ==
  /\ Hash \in [Keys -> Nat] /\ Buckets \in Nat \ {0} /\ Puts \in Nat
  /\ None \notin Keys \cup Putters \cup 0 .. Puts /\ Junk \notin Keys \cup {None}
  /\ None \notin {"found", "absent", "broken"}
  /\ None \notin
       [pc : {"put", "allocate", "clear", "resize", "move", "delete", "unlock"},
        key : Keys, value : 1 .. Puts, bucket : Nat, node : Keys \cup {None}]
\* A buffer has room, and neither a terminator nor nullptr is read from a file.
ASSUME ReadersAssumption ==
  /\ BufSize \in Nat \ {0} /\ MaxText \in Nat /\ MaxSor \in Nat
  /\ Zero \notin Nat \cup {Junk} /\ None \notin Seq(Nat)
ASSUME RowsAssumption == RowCounts \subseteq Nat /\ Junk \notin Nat

VARIABLES
  part,      \* what the behaviour is about
  wLength, wSpaces, wPos, wEof, wBuf, wEnd, wI, wStart, wPc, words,
  rLength, rNewlines, rFirst, rLast, rBuf, rPos, rReadSize, rEof, rLine, rSkip, rPc,
  lines, resets,
  capacity, size, written, consumed,
  arrays, nodes, numNodes, numElements, owner, job, puts, seek, seeks,
  cols, height, row,
  op, input, pc, pos, width, guesses, fCols, stored, fHeight,
  frame, loaded, index, mustLoad, got, map, chunk, visited,
  nrows, spawned, next, joined, merged, rowers

wordVars == <<wLength, wSpaces, wPos, wEof, wBuf, wEnd, wI, wStart, wPc, words>>
lineVars == <<rLength, rNewlines, rFirst, rLast, rBuf, rPos, rReadSize, rEof, rLine,
              rSkip, rPc, lines, resets>>
stringVars == <<capacity, size, written, consumed>>
mapVars == <<arrays, nodes, numNodes, numElements, owner, job, puts, seek, seeks>>
tableVars == <<cols, height, row>>
writerVars == <<op, input, pc, pos, width, guesses, fCols, stored, fHeight>>
readerVars == <<frame, loaded, index, mustLoad, got, map, chunk, visited>>
pmapVars == <<nrows, spawned, next, joined, merged, rowers>>
partVars == <<part, vars, wordVars, lineVars, stringVars, mapVars, tableVars, writerVars,
              readerVars, pmapVars>>

WordRead == INSTANCE WordReader WITH
  MaxFile <- MaxText, length <- wLength, spaces <- wSpaces, pos <- wPos, eof <- wEof,
  buf <- wBuf, end <- wEnd, i <- wI, pc <- wPc

LineRead == INSTANCE LineReader WITH
  MaxFile <- MaxSor, Parts <- TRUE, Nil <- None, length <- rLength,
  newlines <- rNewlines, first <- rFirst, last <- rLast, buf <- rBuf, pos <- rPos,
  readSize <- rReadSize, eof <- rEof, line <- rLine, skip <- rSkip, pc <- rPc

StringBuffer == INSTANCE StrBuff

LocalMap == INSTANCE HashMap WITH Nil <- None

InMemory == INSTANCE LocalFrame WITH MaxRows <- FrameRows, Null <- None

Writer == INSTANCE FrameWriter WITH
  Lines <- SorLines, Lost <- Junk, cols <- fCols, height <- fHeight

Reader == INSTANCE FrameReader WITH Lengths <- RowCounts, out <- got

Pmap == INSTANCE ParallelMap WITH MaxRows <- PmapRows

-----------------------------------------------------------------------------
SomeFrame == CHOOSE f \in Reader!Frames : f.from = "array" /\ f.width = 1

\* A part that the behaviour is not about stays as it begins, at some beginning.
PartsInit ==
  /\ part \in {"arrays", "words", "lines", "strings", "map", "table", "writer", "reader",
               "pmap"}
  /\ Init
  /\ (part # "words" => wLength = 1 /\ wSpaces = {}) /\ WordRead!Init
  /\ (part # "lines" => rLength = 0 /\ rNewlines = {}) /\ LineRead!Init
  /\ StringBuffer!Init
  /\ LocalMap!Init
  /\ InMemory!Init
  /\ (part # "writer" => op = "array" /\ input = <<>>) /\ Writer!Init
  /\ (part # "reader" => frame = SomeFrame) /\ Reader!Init
  /\ (part # "pmap" => nrows = 0) /\ Pmap!Init

UseArray ==
  /\ part = "arrays" /\ Next
  /\ UNCHANGED <<part, wordVars, lineVars, stringVars, mapVars, tableVars, writerVars,
                 readerVars, pmapVars>>
ReadWords ==
  /\ part = "words" /\ WordRead!Next
  /\ UNCHANGED <<part, vars, lineVars, stringVars, mapVars, tableVars, writerVars,
                 readerVars, pmapVars>>
ReadLines(step) ==
  /\ part = "lines" /\ step
  /\ UNCHANGED <<part, vars, wordVars, stringVars, mapVars, tableVars, writerVars,
                 readerVars, pmapVars>>
BuildString ==
  /\ part = "strings" /\ StringBuffer!Next
  /\ UNCHANGED <<part, vars, wordVars, lineVars, mapVars, tableVars, writerVars,
                 readerVars, pmapVars>>
UseMap ==
  /\ part = "map" /\ LocalMap!Next
  /\ UNCHANGED <<part, vars, wordVars, lineVars, stringVars, tableVars, writerVars,
                 readerVars, pmapVars>>
UseTable ==
  /\ part = "table" /\ InMemory!Next
  /\ UNCHANGED <<part, vars, wordVars, lineVars, stringVars, mapVars, writerVars,
                 readerVars, pmapVars>>
WriteFrame ==
  /\ part = "writer" /\ Writer!Next
  /\ UNCHANGED <<part, vars, wordVars, lineVars, stringVars, mapVars, tableVars,
                 readerVars, pmapVars>>
ReadFrame ==
  /\ part = "reader" /\ Reader!Next
  /\ UNCHANGED <<part, vars, wordVars, lineVars, stringVars, mapVars, tableVars,
                 writerVars, pmapVars>>
MapInParallel ==
  /\ part = "pmap" /\ Pmap!Next
  /\ UNCHANGED <<part, vars, wordVars, lineVars, stringVars, mapVars, tableVars,
                 writerVars, readerVars>>

PartsNext ==
  \/ UseArray \/ ReadWords \/ ReadLines(LineRead!Next) \/ BuildString \/ UseMap
  \/ UseTable \/ WriteFrame \/ ReadFrame \/ MapInParallel

\* The readers read on; nobody need do anything else.
PartsSpec ==
  /\ PartsInit /\ [][PartsNext]_partVars
  /\ WF_partVars(ReadWords)
  /\ WF_partVars(ReadLines(LineRead!Step))

-----------------------------------------------------------------------------
\* FileReader hands out the words of a file whole and in order.
WordsInTurn == WordRead!WordsInTurn

\* It comes to the end of a file that ends with whitespace.
AllWordsRead == part = "words" => WordRead!AllWordsRead

\* read_line() returns the lines of a file whole and in order, also after a reset.
LinesInTurn == LineRead!LinesInTurn

\* It comes to the end of the file.
AllLinesRead == part = "lines" => LineRead!AllLinesRead

\* Nothing is written behind the end of a StrBuff.
WritesInside == StringBuffer!WritesInside

\* The local map is a function whose puts take effect at once, also while it grows,
\* and which nothing else changes.
ImplementsDictionary ==
  /\ LocalMap!D!Init
  /\ [][part = "map" => /\ [LocalMap!D!Next]_(LocalMap!Content)
                        /\ LocalMap!EachOperation]_partVars

\* A look-up without the lock is right in spite of puts that overtake it, as long as
\* the map does not grow meanwhile.
LookupRight == LocalMap!LookupRight

\* A frame in memory is a table: no value and no gap gets lost or made up.
ImplementsTable ==
  /\ InMemory!T!Init
  /\ [][part = "table" => /\ [InMemory!T!Next]_(InMemory!T!vars)
                          /\ InMemory!EachOperation]_partVars

\* nullptr is never taken for a string.
NullIsFlagged == InMemory!NullIsFlagged

\* The columns of a distributed frame have its length, chunk by chunk.
ChunksAligned == Writer!ChunksAligned

\* A reader finds each line of a file in the row of its number.
RowsAreLines == Writer!RowsAreLines

\* get_float() returns the cell it was asked for.
GetsTheCell == Reader!GetsTheCell

\* The maps visit the rows once and in order.
MapVisitsRows == Reader!MapVisitsRows

\* pmap() gives a rower what map() gives it.
PmapIsMap == Pmap!PmapIsMap

=============================================================================
