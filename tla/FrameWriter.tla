----------------------------- MODULE FrameWriter -----------------------------
(***************************************************************************)
(* How a distributed frame is cut into chunks: from an array, by a Writer  *)
(* or from a file of lines, whose columns and types are first guessed      *)
(* (store/dataframe.h, store/parser.h).                                    *)
(*                                                                         *)
(* A line is the sequence of its fields, a field its kind: "missing",      *)
(* "bit" (0 or 1), "int", "float", or one of the Texts: "text" without a   *)
(* digit, sign or dot, "mixed" with a digit or sign, "numbered" that also  *)
(* begins with a number other than 0 and 1, and "dotted" with a dot.       *)
(* LineReader is about where a line ends.                                  *)
(***************************************************************************)
EXTENDS Naturals, Sequences, FiniteSetsExt

CONSTANTS
  ChunkSize,  \* CHUNK_SIZE
  GuessLines, \* GUESS_SCHEMA_LINES
  Lines,      \* the lines that may be in a file
  MaxLines,   \* bound: the lines of a file, the rows of an array or of a Writer
  Lost        \* a value that became another one

VARIABLES
  op,       \* "array", "visitor" or "file"
  input,    \* its rows or lines, in order
  pc,       \* what it does: "count", "guess", "fill" or "done"
  pos,      \* how many rows or lines it has taken
  width,    \* _num_columns
  guesses,  \* _typeGuesses
  cols,     \* the columns it fills
  stored,   \* the chunks in the store, each a sequence of columns
  height    \* the length in the distributed schema

vars == <<op, input, pc, pos, width, guesses, cols, stored, height>>

Empty(n) == [c \in 1 .. n |-> <<>>]

\* The lines that the columns are guessed from.  One of them has a field, and a later
\* line has no more fields than they.
Guessed(lines) == 1 .. Min({GuessLines, Len(lines)})
WidthOf(lines) == Max({Len(lines[k]) : k \in Guessed(lines)})
Readable(lines) ==
  /\ WidthOf(lines) > 0
  /\ \A k \in DOMAIN lines : Len(lines[k]) <= WidthOf(lines)

\* An array has one column, as have the Writers of this model.
Init ==
  /\ \/ /\ op = "file"
        /\ input \in UNION {[1 .. n -> Lines] : n \in 1 .. MaxLines}
        /\ Readable(input)
     \/ /\ op \in {"array", "visitor"}
        /\ input \in {[k \in 1 .. n |-> <<"int">>] : n \in 0 .. MaxLines + 1}
  /\ pc = IF op = "file" THEN "count" ELSE "fill"
  /\ width = IF op = "file" THEN 0 ELSE 1
  /\ guesses = IF op = "file" THEN <<>> ELSE <<"I">>
  /\ cols = Empty(width)
  /\ pos = 0
  /\ stored = <<>>
  /\ height = 0

-----------------------------------------------------------------------------
\* guess_schema()

NoMoreLines == pos = Min({GuessLines, Len(input)})

CountFields ==
  /\ pc = "count"
  /\ IF NoMoreLines
       THEN /\ pc' = "guess"
            /\ pos' = 0
            /\ guesses' = [c \in 1 .. width |-> "B"]
            /\ UNCHANGED width
       ELSE /\ pos' = pos + 1
            /\ width' = Max({width, Len(input[pos + 1])})
            /\ UNCHANGED <<pc, guesses>>
  /\ UNCHANGED <<op, input, cols, stored, height>>

\* What a field is taken for: a text with any numeric character is taken for a number,
\* one of the value to_int() finds at its beginning, or 0.
Looks(kind) ==
  CASE kind \in {"bit", "mixed"} -> "B"
    [] kind \in {"int", "numbered"} -> "I"
    [] kind \in {"float", "dotted"} -> "F"
    [] kind = "text" -> "S"

\* Mutation: a column whose last field is 0 or 1 becomes a column of those.
GuessLastBit(type, kind) ==
  IF kind = "missing" \/ type = "S" THEN type
  ELSE IF Looks(kind) = "I" /\ type = "F" THEN "F" ELSE Looks(kind)

\* _guess_field_type()
Guess(type, kind) ==
  IF kind = "missing" \/ type = "S" THEN type
  ELSE CASE Looks(kind) = "B" -> IF type \in {"I", "F"} THEN type ELSE "B"
         [] Looks(kind) = "I" -> IF type = "F" THEN "F" ELSE "I"
         [] Looks(kind) \in {"F", "S"} -> Looks(kind)

GuessTypes ==
  /\ pc = "guess"
  /\ IF NoMoreLines
       THEN /\ pc' = "fill"
            /\ pos' = 0
            /\ cols' = Empty(width)
            /\ UNCHANGED guesses
       ELSE /\ pos' = pos + 1
            /\ guesses' = [c \in 1 .. width |->
                 IF c <= Len(input[pos + 1]) THEN Guess(guesses[c], input[pos + 1][c])
                 ELSE guesses[c]]
            /\ UNCHANGED <<pc, cols>>
  /\ UNCHANGED <<op, input, width, stored, height>>

-----------------------------------------------------------------------------
Texts == {"text", "mixed", "numbered", "dotted"}

\* _append_field(): what becomes of a field in a column of that type.
Stays(type) ==
  CASE type = "B" -> {"bit"}
    [] type = "I" -> {"bit", "int"}
    [] type = "F" -> {"bit", "int", "float"}
    [] type = "S" -> {"bit", "int", "float"} \cup Texts
Value(type, kind) == IF kind \in Stays(type) \cup {"missing"} THEN kind ELSE Lost

\* Mutation: a line that is too short is not filled up.
RowOfShort(line) ==
  [c \in 1 .. width |-> IF c <= Len(line) THEN <<Value(guesses[c], line[c])>> ELSE <<>>]

\* One value per column.  parseFile() fills a short line up with missing values.
RowOf(line) ==
  [c \in 1 .. width |-> <<IF c <= Len(line) THEN Value(guesses[c], line[c]) ELSE "missing">>]

\* The chunk is full or there is nothing more to put into it.
ChunkEnds == Len(cols[1]) = ChunkSize \/ pos = Len(input)

Fill ==
  /\ pc = "fill"
  /\ ~ChunkEnds
  /\ cols' = [c \in 1 .. width |-> cols[c] \o RowOf(input[pos + 1])[c]]
  /\ pos' = pos + 1
  /\ height' = IF op = "file" THEN height ELSE height + 1
  /\ UNCHANGED <<op, input, pc, width, guesses, stored>>

\* fromVisitor() asks done() before it begins a chunk.
WriterIsDone == op = "visitor" /\ pos = Len(input) /\ cols[1] = <<>>

\* After a full chunk the writer goes on.  fromArray() and fromFile() end with a chunk
\* that is not full, even if it is empty.
Distribute ==
  /\ pc = "fill"
  /\ ChunkEnds
  /\ ~WriterIsDone
  /\ stored' = Append(stored, cols)
  /\ cols' = Empty(width)
  /\ height' = IF op = "file" THEN height + Len(cols[1]) ELSE height
  /\ pc' = IF Len(cols[1]) < ChunkSize THEN "done" ELSE "fill"
  /\ UNCHANGED <<op, input, pos, width, guesses>>

WriterEnds ==
  /\ pc = "fill"
  /\ WriterIsDone
  /\ pc' = "done"
  /\ UNCHANGED <<op, input, pos, width, guesses, cols, stored, height>>

Next ==
  \/ CountFields \/ GuessTypes
  \/ Fill \/ Distribute \/ WriterEnds

Spec == Init /\ [][Next]_vars

-----------------------------------------------------------------------------
\* Row k of the frame as a reader finds it: in its chunk, at its place.
RowInStore(k) ==
  [c \in 1 .. width |-> stored[(k - 1) \div ChunkSize + 1][c][((k - 1) % ChunkSize) + 1]]

FieldOf(k, c) == IF c <= Len(input[k]) THEN input[k][c] ELSE "missing"

\* The length in the schema is that of the input, and the columns of a chunk are as
\* long as the chunk is to be: only the last one may be short.
ChunksAligned ==
  pc = "done" =>
    /\ height = Len(input)
    /\ height <= ChunkSize * Len(stored)
    /\ \A k \in DOMAIN stored : \A c \in 1 .. width :
         Len(stored[k][c]) = Max({0, Min({ChunkSize, height + ChunkSize - k * ChunkSize})})

\* A reader finds each line of the file in the row of its number, field by field.  A
\* value is another one only if none of the fields that the type of its column was
\* guessed from looks like a type that would have kept it.
RowsAreLines ==
  pc = "done" =>
    \A k \in 1 .. Len(input) : \A c \in 1 .. width :
      \/ RowInStore(k)[c] = FieldOf(k, c)
      \/ /\ op = "file" /\ RowInStore(k)[c] = Lost
         /\ \A g \in Guessed(input) :
              FieldOf(g, c) # "missing" => FieldOf(k, c) \notin Stays(Looks(FieldOf(g, c)))

=============================================================================
