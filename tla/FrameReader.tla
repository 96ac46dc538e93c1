----------------------------- MODULE FrameReader -----------------------------
(***************************************************************************)
(* One node's handle of a distributed data frame (store/dataframe.h): the  *)
(* true dimensions, and in memory one chunk per column, which get_float()  *)
(* replaces when it needs another one and the maps replace chunk by chunk. *)
(* A handle is what the writer was given back or what get() and            *)
(* get_and_wait() make of the stored schema.                               *)
(*                                                                         *)
(* The chunks are in the store (see Apps for their order in time); the     *)
(* cell of a row and a column is <<row, column>>.                          *)
(***************************************************************************)
EXTENDS Naturals, Sequences

CONSTANTS
  ChunkSize,   \* CHUNK_SIZE
  NumNodes,    \* arg.num_nodes
  Lengths,     \* the lengths frames may have
  Widths,      \* how many columns they may have
  GetWidths,   \* of which get_float() is used on those with so many
  Junk         \* whatever is in memory

VARIABLES
  frame,    \* [from, length, width, home, node]: where the handle is from, the
            \* dimensions, the home of chunk 0 and the node of the handle
  loaded,   \* column |-> the chunk that cols_ has, or Junk for an empty column
  index,    \* dist_scm_->chunk_indexes_: column |-> chunk
  mustLoad, \* must_load_
  out,      \* what get_float() has returned last, with what it was asked for
  map,      \* "local", "all" or Junk: the map that runs
  chunk,    \* cur_chunk
  visited   \* the cells of the rows that the rower was called with, row by row

vars == <<frame, loaded, index, mustLoad, out, map, chunk, visited>>

Frames ==
  [from : {"array", "visitor", "get"}, length : Lengths, width : Widths,
   home : 0 .. NumNodes - 1, node : {0}]

Columns == 0 .. frame.width - 1

\* Rows are numbered from 0.
ChunkOf(r) == r \div ChunkSize
RowsOfChunk(c) == {r \in 0 .. frame.length - 1 : ChunkOf(r) = c}

\* fromArray() and fromScalar() make a frame of one column and keep its first chunk;
\* fromVisitor() and fromFile() keep empty columns.  A schema that was read back has
\* no chunk indexes: what is read there is whatever was in the memory.
Init ==
  /\ frame \in {f \in Frames : f.from = "array" => f.width = 1}
  /\ loaded = [c \in Columns |-> IF frame.from = "array" THEN 0 ELSE Junk]
  /\ index \in [Columns -> IF frame.from = "get" THEN 0 .. ChunkOf(frame.length)
                           ELSE {0}]
  /\ mustLoad = (frame.from # "array")
  /\ out = Junk
  /\ map = Junk
  /\ chunk = 0
  /\ visited = <<>>

-----------------------------------------------------------------------------
\* get_float()

\* A cell of the column in memory; there is none in a row that it does not have.
InMemory(ld, col, r) ==
  IF ld[col] = Junk THEN Junk
  ELSE LET row == ld[col] * ChunkSize + r
       IN  IF r \in 0 .. ChunkSize - 1 /\ row < frame.length THEN <<row, col>> ELSE Junk

\* Mutation: a chunk that was loaded stays the current one.
NeedsLoadOnce(col, r) == mustLoad

NeedsLoad(col, r) == mustLoad \/ index[col] # ChunkOf(r)

\* load_if_necessary_()
GetFloat(col, r) ==
  /\ map = Junk
  /\ IF NeedsLoad(col, r)
       THEN /\ loaded' = [loaded EXCEPT ![col] = ChunkOf(r)]
            /\ index' = [index EXCEPT ![col] = ChunkOf(r)]
            /\ mustLoad' = FALSE
       ELSE UNCHANGED <<loaded, index, mustLoad>>
  /\ out' = [row |-> r, col |-> col,
             cell |-> InMemory(loaded', col, r - index'[col] * ChunkSize)]
  /\ UNCHANGED <<frame, map, chunk, visited>>

-----------------------------------------------------------------------------
\* local_map() and distributed_map()

MaxChunks ==
  IF frame.length % ChunkSize = 0 THEN frame.length \div ChunkSize
  ELSE frame.length \div ChunkSize + 1

IsLocallyStored(c) == (c + frame.home) % NumNodes = frame.node

BeginMap(kind) ==
  /\ map = Junk
  /\ map' = kind
  /\ chunk' = 0
  /\ visited' = <<>>
  /\ UNCHANGED <<frame, loaded, index, mustLoad, out>>

SkipChunk ==
  /\ map = "local"
  /\ chunk < MaxChunks
  /\ ~IsLocallyStored(chunk)
  /\ chunk' = chunk + 1
  /\ UNCHANGED <<frame, loaded, index, mustLoad, out, map, visited>>

\* Mutation: the last chunk is taken to be full.
RowsOfFullChunk(c) == ChunkSize

\* How many rows of chunk c are visited: limit - cur_chunk * CHUNK_SIZE
RowsInChunk(c) ==
  IF (c + 1) * ChunkSize < frame.length THEN ChunkSize
  ELSE frame.length - c * ChunkSize

\* load_() of all columns, then fill_row() and accept() row by row.
VisitChunk ==
  /\ map # Junk
  /\ chunk < MaxChunks
  /\ map = "local" => IsLocallyStored(chunk)
  /\ loaded' = [c \in Columns |-> chunk]
  /\ index' = [c \in Columns |-> chunk]
  /\ visited' = visited \o
       [k \in 1 .. RowsInChunk(chunk) |-> [c \in Columns |-> InMemory(loaded', c, k - 1)]]
  /\ chunk' = chunk + 1
  /\ UNCHANGED <<frame, mustLoad, out, map>>

EndMap ==
  /\ map # Junk
  /\ chunk = MaxChunks
  /\ map' = Junk
  /\ chunk' = 0
  /\ visited' = <<>>
  /\ UNCHANGED <<frame, loaded, index, mustLoad, out>>

Next ==
  \/ frame.width \in GetWidths
       /\ \E c \in Columns, r \in 0 .. frame.length - 1 : GetFloat(c, r)
  \/ \E kind \in {"local", "all"} : BeginMap(kind)
  \/ SkipChunk \/ VisitChunk \/ EndMap

Spec == Init /\ [][Next]_vars

-----------------------------------------------------------------------------
\* dataframe.h:347 "Loads data if it is not currently stored in local storage": what
\* get_float() returns is the cell it was asked for, whatever was loaded, mapped or
\* got before.
GetsTheCell == out # Junk => out.cell = <<out.row, out.col>>

\* A map visits the rows of all chunks, or those of the chunks of its node, once and
\* in order, with all their cells.
RowsToVisit ==
  LET rows[n \in 0 .. frame.length] ==
        IF n = 0 THEN <<>>
        ELSE IF map = "all" \/ IsLocallyStored(ChunkOf(n - 1)) THEN Append(rows[n - 1], n - 1)
        ELSE rows[n - 1]
  IN  rows[frame.length]

MapVisitsRows ==
  map # Junk /\ chunk = MaxChunks =>
    visited = [k \in DOMAIN RowsToVisit |-> [c \in Columns |-> <<RowsToVisit[k], c>>]]

=============================================================================
