-------------------------- MODULE LocalPartsProofs --------------------------
(***************************************************************************)
(* Proofs about LocalParts for parts of any size: nothing is written       *)
(* behind the end of a string buffer, get_float() returns the cell it was  *)
(* asked for, maps visit rows once and in order, pmap() gives a rower what *)
(* map() gives it, an array is the sequence that its operations say, the   *)
(* chunks of a distributed frame are full and have the rows of what it was *)
(* written from, a data frame in memory is a table of cells, the local map *)
(* is a dictionary that look-ups without its lock find right, and the      *)
(* lines of a part and the words of a text are read whole and in order.    *)
(***************************************************************************)
EXTENDS LocalParts, WellOrdering, SequenceTheorems

-----------------------------------------------------------------------------
\* A step of the parts is one of each part, or leaves it alone.
LEMMA StringStep == PartsNext \/ UNCHANGED partVars => StringBuffer!Next \/ UNCHANGED stringVars
BY DEF PartsNext, partVars, UseArray, ReadWords, ReadLines, BuildString, UseMap, UseTable,
       WriteFrame, ReadFrame, MapInParallel

LEMMA TableStep == PartsNext \/ UNCHANGED partVars => InMemory!Next \/ UNCHANGED tableVars
BY DEF PartsNext, partVars, UseArray, ReadWords, ReadLines, BuildString, UseMap, UseTable,
       WriteFrame, ReadFrame, MapInParallel

LEMMA MapStep == PartsNext \/ UNCHANGED partVars => LocalMap!Next \/ UNCHANGED mapVars
BY DEF PartsNext, partVars, UseArray, ReadWords, ReadLines, BuildString, UseMap, UseTable,
       WriteFrame, ReadFrame, MapInParallel

LEMMA WordStep == PartsNext \/ UNCHANGED partVars => WordRead!Next \/ UNCHANGED wordVars
BY DEF PartsNext, partVars, UseArray, ReadWords, ReadLines, BuildString, UseMap, UseTable,
       WriteFrame, ReadFrame, MapInParallel

LEMMA LineStep == PartsNext \/ UNCHANGED partVars => LineRead!Next \/ UNCHANGED lineVars
BY DEF PartsNext, partVars, UseArray, ReadWords, ReadLines, BuildString, UseMap, UseTable,
       WriteFrame, ReadFrame, MapInParallel

LEMMA ReaderStep == PartsNext \/ UNCHANGED partVars => Reader!Next \/ UNCHANGED readerVars
BY DEF PartsNext, partVars, UseArray, ReadWords, ReadLines, BuildString, UseMap, UseTable,
       WriteFrame, ReadFrame, MapInParallel

LEMMA PmapStep == PartsNext \/ UNCHANGED partVars => Pmap!Next \/ UNCHANGED pmapVars
BY DEF PartsNext, partVars, UseArray, ReadWords, ReadLines, BuildString, UseMap, UseTable,
       WriteFrame, ReadFrame, MapInParallel

LEMMA ArrayStep == PartsNext \/ UNCHANGED partVars => Next \/ UNCHANGED vars
BY DEF PartsNext, partVars, UseArray, ReadWords, ReadLines, BuildString, UseMap, UseTable,
       WriteFrame, ReadFrame, MapInParallel

-----------------------------------------------------------------------------
(***************************************************************************)
(* String buffers                                                          *)
(***************************************************************************)

\* What the operations rely on: until it is handed out there is room for at least one
\* more character, so that doubling makes room for whatever grow_by_() then adds.
RoomLeft ==
  /\ capacity \in Nat /\ size \in Nat /\ written \in Nat
  /\ written <= capacity
  /\ size < capacity

\* grow_by_() makes room for the piece and a terminator behind it.
LEMMA GrowMakesRoom ==
  ASSUME RoomLeft, NEW step \in Nat
  PROVE  StringBuffer!Grow(step) \in Nat /\ size + step < StringBuffer!Grow(step)
BY DEF RoomLeft, StringBuffer!Grow

LEMMA RoomStays == RoomLeft /\ (StringBuffer!Next \/ UNCHANGED stringVars) => RoomLeft'
<1> SUFFICES ASSUME RoomLeft, StringBuffer!Next \/ UNCHANGED stringVars PROVE RoomLeft'
  OBVIOUS
<1>1. ASSUME NEW step \in 0 .. MaxPiece, StringBuffer!AppendPiece(step) PROVE RoomLeft'
  <2>1. step \in Nat
    OBVIOUS
  <2>2. StringBuffer!Grow(step) \in Nat /\ size + step < StringBuffer!Grow(step)
    BY <2>1, GrowMakesRoom
  <2> QED
    BY <1>1, <2>1, <2>2 DEF StringBuffer!AppendPiece, RoomLeft
<1>2. CASE StringBuffer!Get
  <2>1. StringBuffer!Grow(1) \in Nat /\ size + 1 < StringBuffer!Grow(1)
    BY GrowMakesRoom
  <2> QED
    BY <1>2, <2>1 DEF StringBuffer!Get, RoomLeft
<1>3. CASE UNCHANGED stringVars
  BY <1>3 DEF stringVars, RoomLeft
<1> QED
  BY <1>1, <1>2, <1>3 DEF StringBuffer!Next

\* No c() and no get() of a StrBuff writes behind the end of its buffer.
THEOREM WritesInsideCorrect == PartsSpec => []WritesInside
<1>1. PartsInit => RoomLeft
  BY DEF PartsInit, StringBuffer!Init, StringBuffer!InitialCapacity, RoomLeft
<1>2. RoomLeft /\ [PartsNext]_partVars => RoomLeft'
  BY StringStep, RoomStays
<1>3. RoomLeft => WritesInside
  BY DEF RoomLeft, WritesInside, StringBuffer!WritesInside
<1> QED
  BY <1>1, <1>2, <1>3, PTL DEF PartsSpec

-----------------------------------------------------------------------------
(***************************************************************************)
(* Readers of a distributed frame                                          *)
(***************************************************************************)

\* A column in memory is the chunk that the indexes say, as soon as something was loaded.
ReaderInv ==
  /\ frame \in Reader!Frames
  /\ DOMAIN loaded = Reader!Columns /\ DOMAIN index = Reader!Columns
  /\ frame.width = 1 /\ ~mustLoad => loaded[0] = index[0] /\ index[0] \in Nat
  /\ chunk \in Nat
  /\ GetsTheCell

\* A row is in its chunk, at its place.
LEMMA PlaceInChunk ==
  ASSUME NEW r \in Nat
  PROVE  /\ r \div ChunkSize \in Nat
         /\ r - (r \div ChunkSize) * ChunkSize \in 0 .. ChunkSize - 1
         /\ (r \div ChunkSize) * ChunkSize + (r - (r \div ChunkSize) * ChunkSize) = r
<1>1. PICK C \in Nat \ {0} : C = ChunkSize
  BY ChunkSizeAssumption
<1>2. PICK q \in Nat : q = r \div C
  OBVIOUS
<1>3. r = C * q + (r % C) /\ r % C \in 0 .. C - 1
  BY <1>1, <1>2
<1>4. PICK s \in Nat : s = q * C
  BY <1>1, <1>2
<1>5. r - s \in 0 .. C - 1 /\ s + (r - s) = r
  BY <1>3, <1>4
<1> QED
  BY <1>1, <1>2, <1>4, <1>5

\* A cell that is read from the right chunk is the right one.
LEMMA RightChunk ==
  ASSUME frame \in Reader!Frames, NEW r \in 0 .. frame.length - 1, NEW col, NEW ld,
         ld[col] = r \div ChunkSize
  PROVE  Reader!InMemory(ld, col, r - (r \div ChunkSize) * ChunkSize) = <<r, col>>
<1>1. frame.length \in Nat
  BY RowsAssumption DEF Reader!Frames
<1>2. r \in Nat /\ r < frame.length
  BY <1>1
<1>3. /\ r \div ChunkSize \in Nat
      /\ r - (r \div ChunkSize) * ChunkSize \in 0 .. ChunkSize - 1
      /\ (r \div ChunkSize) * ChunkSize + (r - (r \div ChunkSize) * ChunkSize) = r
  BY <1>2, PlaceInChunk
<1>4. ld[col] # Junk
  BY <1>3, RowsAssumption
<1> QED
  BY <1>2, <1>3, <1>4 DEF Reader!InMemory

LEMMA GetFloatKeeps ==
  ASSUME ReaderInv, frame.width = 1, NEW col \in Reader!Columns,
         NEW r \in 0 .. frame.length - 1, Reader!GetFloat(col, r)
  PROVE  ReaderInv'
<1>1. col = 0 /\ Reader!Columns = {0} /\ frame' = frame /\ Reader!Columns' = Reader!Columns
  BY DEF Reader!Columns, Reader!GetFloat
<1>2. r \in Nat /\ r \div ChunkSize \in Nat
  <2>1. r \in Nat
    BY RowsAssumption DEF ReaderInv, Reader!Frames
  <2> QED
    BY <2>1, PlaceInChunk
<1>3. /\ DOMAIN loaded' = Reader!Columns /\ DOMAIN index' = Reader!Columns
      /\ loaded'[0] = r \div ChunkSize /\ index'[0] = r \div ChunkSize
  <2>1. CASE Reader!NeedsLoad(col, r)
    BY <1>1, <2>1 DEF ReaderInv, Reader!GetFloat, Reader!ChunkOf
  <2>2. CASE ~Reader!NeedsLoad(col, r)
    <3>1. ~mustLoad /\ index[0] = r \div ChunkSize /\ loaded' = loaded /\ index' = index
      BY <1>1, <2>2 DEF Reader!NeedsLoad, Reader!GetFloat, Reader!ChunkOf
    <3> QED
      BY <3>1 DEF ReaderInv
  <2> QED
    BY <2>1, <2>2
<1>4. got' = [row |-> r, col |-> 0,
              cell |-> Reader!InMemory(loaded', 0, r - (r \div ChunkSize) * ChunkSize)]
  BY <1>1, <1>3 DEF Reader!GetFloat
<1>5. Reader!InMemory(loaded', 0, r - (r \div ChunkSize) * ChunkSize) = <<r, 0>>
  BY <1>3, RightChunk DEF ReaderInv
<1>6. GetsTheCell'
  BY <1>4, <1>5 DEF GetsTheCell, Reader!GetsTheCell
<1>7. chunk' \in Nat
  BY DEF ReaderInv, Reader!GetFloat
<1> QED
  BY <1>1, <1>2, <1>3, <1>6, <1>7 DEF ReaderInv

LEMMA ReaderStays ==
  ASSUME ReaderInv, GetWidths \subseteq {1}, Reader!Next \/ UNCHANGED readerVars
  PROVE  ReaderInv'
<1>1. ASSUME NEW col \in Reader!Columns, NEW r \in 0 .. frame.length - 1,
             frame.width \in GetWidths, Reader!GetFloat(col, r)
      PROVE  ReaderInv'
  BY <1>1, GetFloatKeeps
<1>2. CASE Reader!VisitChunk
  BY <1>2 DEF Reader!VisitChunk, ReaderInv, Reader!Columns, GetsTheCell, Reader!GetsTheCell
<1>3. ASSUME NEW kind, Reader!BeginMap(kind) PROVE ReaderInv'
  BY <1>3 DEF Reader!BeginMap, ReaderInv, Reader!Columns, GetsTheCell, Reader!GetsTheCell
<1>4. CASE Reader!SkipChunk
  BY <1>4 DEF Reader!SkipChunk, ReaderInv, Reader!Columns, GetsTheCell, Reader!GetsTheCell
<1>5. CASE Reader!EndMap
  BY <1>5 DEF Reader!EndMap, ReaderInv, Reader!Columns, GetsTheCell, Reader!GetsTheCell
<1>6. CASE UNCHANGED readerVars
  BY <1>6 DEF readerVars, ReaderInv, Reader!Columns, GetsTheCell, Reader!GetsTheCell
<1> QED
  BY <1>1, <1>2, <1>3, <1>4, <1>5, <1>6 DEF Reader!Next

\* get_float() returns the cell it was asked for, in frames of any length and after any
\* maps and gets before it, as long as it is used on frames of one column.
THEOREM GetsTheCellCorrect ==
  ASSUME GetWidths \subseteq {1}
  PROVE  PartsSpec => []GetsTheCell
<1>1. PartsInit => ReaderInv
  <2> SUFFICES ASSUME PartsInit PROVE ReaderInv
    OBVIOUS
  <2>1. Reader!Init
    BY DEF PartsInit
  <2>2. frame.from = "array" => loaded = [c \in Reader!Columns |-> 0] /\ index = [c \in Reader!Columns |-> 0]
    BY <2>1 DEF Reader!Init
  <2>3. frame.width = 1 => 0 \in Reader!Columns
    BY DEF Reader!Columns
  <2>5. ~mustLoad => frame.from = "array"
    BY <2>1, Zenon DEF Reader!Init
  <2>6. frame.width = 1 /\ ~mustLoad => loaded[0] = 0 /\ index[0] = 0
    BY <2>2, <2>3, <2>5
  <2>4. got = Junk /\ chunk = 0 /\ frame \in Reader!Frames
        /\ DOMAIN loaded = Reader!Columns /\ DOMAIN index = Reader!Columns
    BY <2>1 DEF Reader!Init
  <2> QED
    BY <2>4, <2>6 DEF ReaderInv, GetsTheCell, Reader!GetsTheCell
<1>2. ReaderInv /\ [PartsNext]_partVars => ReaderInv'
  BY ReaderStep, ReaderStays
<1>3. ReaderInv => GetsTheCell
  BY DEF ReaderInv
<1> QED
  BY <1>1, <1>2, <1>3, PTL DEF PartsSpec

-----------------------------------------------------------------------------
(***************************************************************************)
(* Maps over a distributed frame                                           *)
(***************************************************************************)

\* Chunks follow each other without a gap.
LEMMA ChunksInOrder ==
  ASSUME NEW a \in Nat, NEW b \in Nat
  PROVE  /\ a * ChunkSize \in Nat /\ (a + 1) * ChunkSize = a * ChunkSize + ChunkSize
         /\ a < b => a * ChunkSize + ChunkSize <= b * ChunkSize
<1>1. PICK C \in Nat \ {0} : C = ChunkSize
  BY ChunkSizeAssumption
<1>2. a * C \in Nat /\ b * C \in Nat /\ (a + 1) * C = a * C + C
  BY <1>1
<1>3. ASSUME a < b PROVE a * C + C <= b * C
  <2>1. PICK d \in Nat : b = a + 1 + d
    <3>1. b - a - 1 \in Nat /\ b = a + 1 + (b - a - 1)
      BY <1>3
    <3> QED
      BY <3>1
  <2>2. b * C = a * C + C + d * C /\ d * C \in Nat
    BY <2>1
  <2> QED
    BY <1>2, <2>2
<1> QED
  BY <1>1, <1>2, <1>3

\* The rows of a chunk are those from its first to the first of the next.
LEMMA ChunkOfRow ==
  ASSUME NEW c \in Nat, NEW r \in Nat, c * ChunkSize <= r, r < c * ChunkSize + ChunkSize
  PROVE  r \div ChunkSize = c
<1>1. PICK q \in Nat : q = r \div ChunkSize
  BY PlaceInChunk
<1>2. PICK C \in Nat \ {0} : C = ChunkSize
  BY ChunkSizeAssumption
<1>3. q * C \in Nat /\ c * C \in Nat
  BY <1>2
<1>4. q * C <= r /\ r < q * C + C
  <2>1. r - q * C \in 0 .. C - 1
    BY <1>1, <1>2, PlaceInChunk
  <2> QED
    BY <1>3, <2>1
<1>5. ~ (q < c)
  <2>1. q < c => q * C + C <= c * C
    BY <1>2, ChunksInOrder
  <2> QED
    BY <1>2, <1>3, <1>4, <2>1
<1>6. ~ (c < q)
  <2>1. c < q => c * C + C <= q * C
    BY <1>2, ChunksInOrder
  <2> QED
    BY <1>2, <1>3, <1>4, <2>1
<1> QED
  BY <1>1, <1>5, <1>6

\* There is a row in every chunk below MaxChunks and in no other.
LEMMA ChunksOfFrame ==
  ASSUME frame \in Reader!Frames, NEW c \in Nat
  PROVE  /\ Reader!MaxChunks \in Nat
         /\ c < Reader!MaxChunks <=> c * ChunkSize < frame.length
<1>1. PICK n \in Nat : n = frame.length
  BY RowsAssumption DEF Reader!Frames
<1>2. PICK C \in Nat \ {0} : C = ChunkSize
  BY ChunkSizeAssumption
<1>3. PICK q \in Nat : q = n \div C
  BY <1>2, PlaceInChunk
<1>4. n = C * q + (n % C) /\ n % C \in 0 .. C - 1
  BY <1>2, <1>3
<1>5. PICK e \in Nat : e = q * C
  BY <1>2
<1>6. n = e + (n % C)
  BY <1>2, <1>4, <1>5
<1>7. c * C \in Nat /\ q * C = e /\ (q + 1) * C = e + C
      /\ (c < q => c * C + C <= e) /\ (q < c => e + C <= c * C)
  BY <1>2, <1>5, ChunksInOrder
<1>8. c = q => c * C = e
  BY <1>5
<1>9. CASE n % C = 0
  <2>1. Reader!MaxChunks = q
    BY <1>1, <1>2, <1>3, <1>9 DEF Reader!MaxChunks
  <2>2. n = e
    BY <1>6, <1>9
  <2> QED
    BY <1>1, <1>2, <1>7, <1>8, <2>1, <2>2
<1>10. CASE n % C # 0
  <2>1. Reader!MaxChunks = q + 1
    BY <1>1, <1>2, <1>3, <1>10 DEF Reader!MaxChunks
  <2>2. e < n /\ n < e + C
    BY <1>4, <1>6, <1>10
  <2> QED
    BY <1>1, <1>2, <1>7, <1>8, <2>1, <2>2
<1> QED
  BY <1>9, <1>10

\* The rows that a map visits among the first n of a frame.
Wanted(F, m, r) == m = "all" \/ (Reader!ChunkOf(r) + F.home) % NumNodes = F.node
WantOn(s, F, m, n) == IF Wanted(F, m, n - 1) THEN Append(s, n - 1) ELSE s
WantedBy(f, F, m) ==
  f = [n \in 0 .. F.length |->
        IF n = 0 THEN <<>>
        ELSE IF m = "all" \/ (Reader!ChunkOf(n - 1) + F.home) % NumNodes = F.node
             THEN Append(f[n - 1], n - 1)
        ELSE f[n - 1]]
WantedRows(F, m) == CHOOSE f : WantedBy(f, F, m)

LEMMA WantedIs ==
  ASSUME NEW F \in Reader!Frames, NEW m
  PROVE  /\ F.length \in Nat
         /\ WantedRows(F, m)[0] = <<>>
         /\ \A n \in 1 .. F.length :
              WantedRows(F, m)[n] = WantOn(WantedRows(F, m)[n - 1], F, m, n)
         /\ \A n \in 0 .. F.length : WantedRows(F, m)[n] \in Seq(Nat)
<1> DEFINE R == WantedRows(F, m)
           T == Seq(Nat)
           G == [p \in T \X (1 .. F.length) |-> WantOn(p[1], F, m, p[2])]
<1>1. F.length \in Nat
  BY RowsAssumption DEF Reader!Frames
<1>2. <<>> \in T
  OBVIOUS
<1>3. ASSUME NEW s \in T, NEW n \in 1 .. F.length PROVE WantOn(s, F, m, n) \in T
  <2>1. n - 1 \in Nat
    BY <1>1
  <2> QED
    BY <2>1 DEF WantOn
<1> HIDE DEF T
<1>4. G \in [T \X (1 .. F.length) -> T]
  BY <1>3
<1>5. \A s \in T, n \in 1 .. F.length : G[<<s, n>>] = WantOn(s, F, m, n)
  OBVIOUS
<1> HIDE DEF G
<1>6. PICK f : Recursive(f, F.length, T, <<>>, G)
  BY <1>1, <1>2, <1>4, Recursion
<1>7. /\ f \in [0 .. F.length -> T] /\ f[0] = <<>>
      /\ \A n \in 1 .. F.length : f[n] = G[<<f[n - 1], n>>]
  BY <1>6 DEF Recursive
<1>8. \A n \in 1 .. F.length : f[n] = WantOn(f[n - 1], F, m, n)
  <2> SUFFICES ASSUME NEW n \in 1 .. F.length PROVE f[n] = WantOn(f[n - 1], F, m, n)
    OBVIOUS
  <2>1. n - 1 \in 0 .. F.length
    BY <1>1
  <2> QED
    BY <1>5, <1>7, <2>1
<1> DEFINE Value(g, n) == IF n = 0 THEN <<>> ELSE WantOn(g[n - 1], F, m, n)
<1>9. \A n \in 0 .. F.length : f[n] = Value(f, n)
  BY <1>1, <1>7, <1>8
<1>10. WantedBy(f, F, m)
  <2> HIDE DEF Value
  <2>1. f = [n \in 0 .. F.length |-> Value(f, n)]
    BY <1>7, <1>9
  <2> QED
    BY <2>1 DEF WantedBy, WantOn, Wanted, Value
<1>11. WantedBy(R, F, m)
  BY <1>10 DEF WantedRows
<1>12. R = [n \in 0 .. F.length |-> Value(R, n)]
  BY <1>11 DEF WantedBy, WantOn, Wanted
<1> HIDE DEF R, Value
<1>13. \A n \in 0 .. F.length : R[n] = Value(R, n)
  BY <1>12
<1>14. R[0] = <<>> /\ \A n \in 1 .. F.length : R[n] = WantOn(R[n - 1], F, m, n)
  BY <1>1, <1>13 DEF Value
<1> DEFINE I == {n \in Nat : n <= F.length => R[n] \in T}
<1>15. 0 \in I
  BY <1>2, <1>14
<1>16. ASSUME NEW n \in Nat, n \in I PROVE n + 1 \in I
  <2> SUFFICES ASSUME n + 1 <= F.length PROVE R[n + 1] \in T
    OBVIOUS
  <2>1. n + 1 \in 1 .. F.length /\ (n + 1) - 1 = n /\ n <= F.length
    BY <1>1
  <2>2. R[n] \in T /\ R[n + 1] = WantOn(R[n], F, m, n + 1)
    BY <1>14, <1>16, <2>1
  <2> QED
    BY <1>3, <2>1, <2>2
<1> HIDE DEF I
<1>17. Nat \subseteq I
  BY <1>15, <1>16, SetInduction
<1>18. \A n \in 0 .. F.length : R[n] \in T
  <2>1. \A n \in 0 .. F.length : n \in Nat /\ n <= F.length
    BY <1>1
  <2> QED
    BY <1>17, <2>1 DEF I
<1> QED
  BY <1>1, <1>14, <1>18 DEF R, T

LEMMA AppendBehind ==
  ASSUME NEW s \in Seq(Nat), NEW t \in Seq(Nat), NEW x \in Nat
  PROVE  Append(s \o t, x) = s \o Append(t, x)
<1> DEFINE u == <<x>>
<1>1. s \o t \in Seq(Nat) /\ u \in Seq(Nat)
  BY ConcatProperties
<1>2. Append(s \o t, x) = (s \o t) \o u /\ Append(t, x) = t \o u
  BY <1>1, AppendIsConcat
<1> HIDE DEF u
<1>3. (s \o t) \o u = s \o (t \o u)
  BY <1>1, ConcatAssociative
<1> QED
  BY <1>2, <1>3

\* Behind the rows of the chunks below a chunk come its own rows, if it is visited.
LEMMA WantedOfChunk ==
  ASSUME NEW F \in Reader!Frames, NEW m, NEW c \in Nat, NEW n \in Nat, n <= ChunkSize,
         c * ChunkSize + n <= F.length
  PROVE  WantedRows(F, m)[c * ChunkSize + n] =
           IF m = "all" \/ (c + F.home) % NumNodes = F.node
             THEN WantedRows(F, m)[c * ChunkSize] \o [k \in 1 .. n |-> c * ChunkSize + k - 1]
           ELSE WantedRows(F, m)[c * ChunkSize]
<1> DEFINE R == WantedRows(F, m)
           Chosen == m = "all" \/ (c + F.home) % NumNodes = F.node
           Own(lo, i) == [k \in 1 .. i |-> lo + k - 1]
           With(lo, i) == IF Chosen THEN R[lo] \o Own(lo, i) ELSE R[lo]
<1>1. PICK lo \in Nat : lo = c * ChunkSize
  BY ChunksInOrder
<1>2. /\ F.length \in Nat
      /\ \A i \in 1 .. F.length : R[i] = WantOn(R[i - 1], F, m, i)
      /\ \A i \in 0 .. F.length : R[i] \in Seq(Nat)
  BY WantedIs
<1> HIDE DEF R
<1>3. ChunkSize \in Nat /\ lo + n <= F.length /\ lo \in 0 .. F.length
  BY <1>1, <1>2, ChunkSizeAssumption
<1> DEFINE I == {i \in Nat : i <= n => R[lo + i] = With(lo, i)}
<1>4. 0 \in I
  <2>1. R[lo] \in Seq(Nat)
    BY <1>2, <1>3
  <2>2. Own(lo, 0) = <<>>
    OBVIOUS
  <2>3. R[lo] \o <<>> = R[lo]
    BY <2>1
  <2>4. lo + 0 = lo
    OBVIOUS
  <2> QED
    BY <2>2, <2>3, <2>4
<1>5. ASSUME NEW i \in Nat, i \in I PROVE i + 1 \in I
  <2> SUFFICES ASSUME i + 1 <= n PROVE R[lo + (i + 1)] = With(lo, i + 1)
    OBVIOUS
  <2>1. /\ lo + (i + 1) \in 1 .. F.length /\ (lo + (i + 1)) - 1 = lo + i
        /\ lo + i \in Nat /\ i <= n /\ lo <= lo + i /\ lo + i < lo + ChunkSize
    BY <1>2, <1>3
  <2>2. R[lo + (i + 1)] = WantOn(R[lo + i], F, m, lo + (i + 1))
    BY <1>2, <2>1
  <2>3. R[lo + i] = With(lo, i)
    BY <1>5, <2>1
  <2>4. (lo + i) \div ChunkSize = c
    BY <1>1, <2>1, ChunkOfRow
  <2>5. Wanted(F, m, lo + i) <=> Chosen
    BY <2>4 DEF Wanted, Reader!ChunkOf
  <2>6. R[lo + (i + 1)] = IF Chosen THEN Append(R[lo + i], lo + i) ELSE R[lo + i]
    BY <2>1, <2>2, <2>5 DEF WantOn
  <2>7. CASE Chosen
    <3>1. R[lo] \in Seq(Nat) /\ Own(lo, i) \in Seq(Nat) /\ lo + i \in Nat
      <4>1. \A k \in 1 .. i : lo + k - 1 \in Nat
        OBVIOUS
      <4> QED
        BY <1>2, <1>3, <2>1, <4>1
    <3>2. Own(lo, i + 1) = Append(Own(lo, i), lo + i)
      OBVIOUS
    <3>3. Append(R[lo] \o Own(lo, i), lo + i) = R[lo] \o Append(Own(lo, i), lo + i)
      <4> DEFINE x == lo + i
      <4>1. R[lo] \in Seq(Nat) /\ Own(lo, i) \in Seq(Nat) /\ x \in Nat
        BY <3>1
      <4> HIDE DEF Own, x
      <4> QED
        BY <4>1, AppendBehind DEF x
    <3> QED
      BY <2>3, <2>6, <2>7, <3>2, <3>3
  <2>8. CASE ~ Chosen
    BY <2>3, <2>6, <2>8
  <2> QED
    BY <2>7, <2>8
<1> HIDE DEF I
<1>6. Nat \subseteq I
  BY <1>4, <1>5, SetInduction
<1>7. R[lo + n] = With(lo, n)
  BY <1>6 DEF I
<1> QED
  BY <1>1, <1>7 DEF R

\* Where a map is: all rows below the chunk that comes next have been visited, or are
\* not to be.
RowCells(s) == [k \in DOMAIN s |-> [c \in Reader!Columns |-> <<s[k], c>>]]
Seen == IF chunk < Reader!MaxChunks THEN chunk * ChunkSize ELSE frame.length

MapInv ==
  /\ frame \in Reader!Frames
  /\ chunk \in Nat /\ chunk <= Reader!MaxChunks
  /\ map \in {Junk, "local", "all"}
  /\ map # Junk => visited = RowCells(WantedRows(frame, map)[Seen])

\* What a map comes to behind a chunk: the rows of the chunk, or nothing.
LEMMA SeenNext ==
  ASSUME frame \in Reader!Frames, NEW c \in Nat, c < Reader!MaxChunks, NEW m
  PROVE  /\ Reader!RowsInChunk(c) \in 0 .. ChunkSize
         /\ c * ChunkSize \in 0 .. frame.length
         /\ c * ChunkSize + Reader!RowsInChunk(c) =
              IF c + 1 < Reader!MaxChunks THEN (c + 1) * ChunkSize ELSE frame.length
<1>1. PICK n \in Nat : n = frame.length
  BY RowsAssumption DEF Reader!Frames
<1>2. PICK C \in Nat \ {0} : C = ChunkSize
  BY ChunkSizeAssumption
<1>3. PICK lo \in Nat : lo = c * C
  BY <1>2, ChunksInOrder
<1>4. c + 1 \in Nat /\ (c + 1) * C = lo + C
  BY <1>2, <1>3, ChunksInOrder
<1>5. lo < n
  BY <1>1, <1>2, <1>3, ChunksOfFrame
<1>6. c + 1 < Reader!MaxChunks <=> lo + C < n
  BY <1>1, <1>2, <1>4, ChunksOfFrame
<1>7. Reader!RowsInChunk(c) = IF lo + C < n THEN C ELSE n - lo
  BY <1>1, <1>2, <1>3, <1>4 DEF Reader!RowsInChunk
<1> QED
  BY <1>1, <1>2, <1>3, <1>4, <1>5, <1>6, <1>7

LEMMA ChunkHasRows ==
  ASSUME frame \in Reader!Frames, NEW c \in Nat, c < Reader!MaxChunks
  PROVE  /\ Reader!RowsInChunk(c) \in Nat /\ Reader!RowsInChunk(c) <= ChunkSize
         /\ c * ChunkSize + Reader!RowsInChunk(c) <= frame.length
         /\ c * ChunkSize \in 0 .. frame.length
<1>1. frame.length \in Nat
  BY WantedIs
<1>2. /\ Reader!RowsInChunk(c) \in 0 .. ChunkSize
      /\ c * ChunkSize \in 0 .. frame.length
      /\ c * ChunkSize + Reader!RowsInChunk(c) =
           IF c + 1 < Reader!MaxChunks THEN (c + 1) * ChunkSize ELSE frame.length
  BY SeenNext
<1>3. c + 1 < Reader!MaxChunks => (c + 1) * ChunkSize < frame.length
  BY ChunksOfFrame
<1>4. (c + 1) * ChunkSize \in Nat
  BY ChunksInOrder
<1> QED
  BY <1>1, <1>2, <1>3, <1>4, ChunkSizeAssumption

LEMMA CellsConcat ==
  ASSUME NEW s \in Seq(Nat), NEW t \in Seq(Nat)
  PROVE  RowCells(s) \o RowCells(t) = RowCells(s \o t)
<1> DEFINE Line(r) == [c \in Reader!Columns |-> <<r, c>>]
           Ls == {Line(r) : r \in Nat}
<1>1. \A u \in Seq(Nat) : /\ RowCells(u) \in Seq(Ls) /\ Len(RowCells(u)) = Len(u)
                          /\ \A k \in 1 .. Len(u) : RowCells(u)[k] = Line(u[k])
  <2> SUFFICES ASSUME NEW u \in Seq(Nat)
               PROVE  /\ RowCells(u) \in Seq(Ls) /\ Len(RowCells(u)) = Len(u)
                      /\ \A k \in 1 .. Len(u) : RowCells(u)[k] = Line(u[k])
    OBVIOUS
  <2>1. DOMAIN u = 1 .. Len(u) /\ \A k \in 1 .. Len(u) : Line(u[k]) \in Ls
    OBVIOUS
  <2>2. RowCells(u) = [k \in 1 .. Len(u) |-> Line(u[k])]
    BY <2>1 DEF RowCells
  <2> HIDE DEF Line, Ls
  <2> QED
    BY <2>1, <2>2
<1>2. /\ s \o t \in Seq(Nat) /\ Len(s \o t) = Len(s) + Len(t)
      /\ \A k \in 1 .. Len(s) + Len(t) :
           (s \o t)[k] = IF k <= Len(s) THEN s[k] ELSE t[k - Len(s)]
  BY ConcatProperties
<1> HIDE DEF Line, Ls
<1> DEFINE p == RowCells(s)
           q == RowCells(t)
           x == p \o q
           y == RowCells(s \o t)
<1>3. /\ p \in Seq(Ls) /\ q \in Seq(Ls) /\ y \in Seq(Ls)
      /\ Len(p) = Len(s) /\ Len(q) = Len(t) /\ Len(y) = Len(s) + Len(t)
      /\ \A k \in 1 .. Len(s) : p[k] = Line(s[k])
      /\ \A k \in 1 .. Len(t) : q[k] = Line(t[k])
      /\ \A k \in 1 .. Len(s) + Len(t) : y[k] = Line((s \o t)[k])
  BY <1>1, <1>2
<1> HIDE DEF p, q, y
<1>a. p \in Seq(Ls) /\ q \in Seq(Ls)
  BY <1>3
<1>4. /\ x \in Seq(Ls) /\ Len(x) = Len(p) + Len(q)
      /\ \A k \in 1 .. Len(p) + Len(q) :
           x[k] = IF k <= Len(p) THEN p[k] ELSE q[k - Len(p)]
  BY <1>a, ConcatProperties
<1> HIDE DEF x
<1>5. ASSUME NEW k \in 1 .. Len(s) + Len(t) PROVE x[k] = y[k]
  <2>1. Len(s) \in Nat /\ Len(t) \in Nat
    OBVIOUS
  <2>2. CASE k <= Len(s)
    <3>1. k \in 1 .. Len(s) /\ (s \o t)[k] = s[k] /\ x[k] = p[k]
      BY <1>2, <1>3, <1>4, <2>1, <2>2
    <3> QED
      BY <1>3, <3>1
  <2>3. CASE ~ (k <= Len(s))
    <3>1. /\ k - Len(s) \in 1 .. Len(t) /\ (s \o t)[k] = t[k - Len(s)]
          /\ x[k] = q[k - Len(s)]
      BY <1>2, <1>3, <1>4, <2>1, <2>3
    <3> QED
      BY <1>3, <3>1
  <2> QED
    BY <2>2, <2>3
<1>6. x \in Seq(Ls) /\ y \in Seq(Ls) /\ Len(x) = Len(y) /\ \A k \in 1 .. Len(x) : x[k] = y[k]
  BY <1>3, <1>4, <1>5
<1>7. x = y
  BY <1>6, SeqEqual
<1> QED
  BY <1>7 DEF p, q, x, y

LEMMA MapStays == MapInv /\ (Reader!Next \/ UNCHANGED readerVars) => MapInv'
<1> SUFFICES ASSUME MapInv, Reader!Next \/ UNCHANGED readerVars PROVE MapInv'
  OBVIOUS
<1>1. frame \in Reader!Frames /\ chunk \in Nat /\ chunk <= Reader!MaxChunks
      /\ Reader!MaxChunks \in Nat /\ map \in {Junk, "local", "all"}
  BY ChunksOfFrame DEF MapInv
<1>2. ASSUME UNCHANGED <<frame, map, chunk, visited>> PROVE MapInv'
  BY <1>2 DEF MapInv, RowCells, Seen, Reader!Columns, Reader!MaxChunks
<1>3. ASSUME NEW kind \in {"local", "all"}, Reader!BeginMap(kind) PROVE MapInv'
  <2>1. frame' = frame /\ map' = kind /\ chunk' = 0 /\ visited' = <<>>
    BY <1>3 DEF Reader!BeginMap
  <2>2. Seen' = 0
    <3>1. frame.length \in Nat
      BY <1>1, WantedIs
    <3>2. 0 * ChunkSize = 0
      BY ChunkSizeAssumption
    <3>3. 0 < Reader!MaxChunks <=> 0 < frame.length
      BY <1>1, <3>2, ChunksOfFrame
    <3>4. ~ (0 < frame.length) => frame.length = 0
      BY <3>1
    <3>5. Seen' = IF 0 < Reader!MaxChunks THEN 0 * ChunkSize ELSE frame.length
      BY <2>1 DEF Seen, Reader!MaxChunks
    <3> QED
      BY <3>2, <3>3, <3>4, <3>5
  <2>3. WantedRows(frame', map')[Seen'] = <<>>
    BY <1>1, <2>1, <2>2, WantedIs
  <2>4. (RowCells(WantedRows(frame, map)[Seen]))' = <<>>
    BY <2>3 DEF RowCells
  <2>5. Reader!MaxChunks' = Reader!MaxChunks
    BY <2>1 DEF Reader!MaxChunks
  <2> QED
    BY <1>1, <2>1, <2>4, <2>5 DEF MapInv
<1>4. CASE Reader!SkipChunk
  <2>1. /\ map = "local" /\ chunk < Reader!MaxChunks
        /\ (chunk + frame.home) % NumNodes # frame.node
        /\ chunk' = chunk + 1 /\ frame' = frame /\ map' = map /\ visited' = visited
    BY <1>4 DEF Reader!SkipChunk, Reader!IsLocallyStored
  <2>2. Reader!MaxChunks' = Reader!MaxChunks /\ Reader!Columns' = Reader!Columns
    BY <2>1 DEF Reader!MaxChunks, Reader!Columns
  <2>3. Seen = chunk * ChunkSize
        /\ Seen' = chunk * ChunkSize + Reader!RowsInChunk(chunk)
    BY <1>1, <2>1, <2>2, SeenNext DEF Seen
  <2>4. WantedRows(frame, map)[Seen'] = WantedRows(frame, map)[Seen]
    <3>1. /\ Reader!RowsInChunk(chunk) \in Nat /\ Reader!RowsInChunk(chunk) <= ChunkSize
          /\ chunk * ChunkSize + Reader!RowsInChunk(chunk) <= frame.length
      BY <1>1, <2>1, ChunkHasRows
    <3>2. PICK n \in Nat : n = Reader!RowsInChunk(chunk)
      BY <3>1
    <3>3. ~ (map = "all" \/ (chunk + frame.home) % NumNodes = frame.node)
      BY <2>1
    <3>4. n <= ChunkSize /\ chunk * ChunkSize + n <= frame.length
      BY <3>1, <3>2
    <3>5. WantedRows(frame, map)[chunk * ChunkSize + n] =
            WantedRows(frame, map)[chunk * ChunkSize]
      BY <1>1, <3>3, <3>4, WantedOfChunk
    <3> QED
      BY <2>3, <3>2, <3>5
  <2> QED
    BY <1>1, <2>1, <2>2, <2>4 DEF MapInv, RowCells
<1>5. CASE Reader!VisitChunk
  <2>1. /\ map \in {"local", "all"} /\ chunk < Reader!MaxChunks
        /\ map = "local" => (chunk + frame.home) % NumNodes = frame.node
        /\ loaded' = [c \in Reader!Columns |-> chunk]
        /\ chunk' = chunk + 1 /\ frame' = frame /\ map' = map
    BY <1>1, <1>5 DEF Reader!VisitChunk, Reader!IsLocallyStored
  <2>2. Reader!MaxChunks' = Reader!MaxChunks /\ Reader!Columns' = Reader!Columns
    BY <2>1 DEF Reader!MaxChunks, Reader!Columns
  <2>3. Seen = chunk * ChunkSize
        /\ Seen' = chunk * ChunkSize + Reader!RowsInChunk(chunk)
    BY <1>1, <2>1, <2>2, SeenNext DEF Seen
  <2>4. PICK lo \in Nat : lo = chunk * ChunkSize
    BY <1>1, ChunksInOrder
  <2>5. PICK n \in Nat : n = Reader!RowsInChunk(chunk)
    BY <1>1, <2>1, SeenNext, ChunkSizeAssumption
  <2>6. n <= ChunkSize /\ lo + n <= frame.length /\ lo \in 0 .. frame.length
    BY <1>1, <2>1, <2>4, <2>5, ChunkHasRows
  <2> DEFINE Old == WantedRows(frame, map)[lo]
             Own == [k \in 1 .. n |-> lo + k - 1]
  <2>7. WantedRows(frame, map)[lo + n] = Old \o Own
    <3>1. map = "all" \/ (chunk + frame.home) % NumNodes = frame.node
      BY <2>1
    <3>2. n <= ChunkSize /\ chunk * ChunkSize + n <= frame.length
      BY <2>4, <2>6
    <3>3. WantedRows(frame, map)[chunk * ChunkSize + n] =
            WantedRows(frame, map)[chunk * ChunkSize]
              \o [k \in 1 .. n |-> chunk * ChunkSize + k - 1]
      BY <1>1, <3>1, <3>2, WantedOfChunk
    <3> QED
      BY <2>4, <3>3
  <2>8. Old \in Seq(Nat) /\ Own \in Seq(Nat)
    <3>1. \A k \in 1 .. n : lo + k - 1 \in Nat
      OBVIOUS
    <3> QED
      BY <1>1, <2>6, <3>1, WantedIs
  <2>9. [k \in 1 .. n |-> [c \in Reader!Columns |-> (Reader!InMemory(loaded, c, k - 1))']]
          = RowCells(Own)
    <3>1. ASSUME NEW k \in 1 .. n, NEW c \in Reader!Columns
          PROVE  (Reader!InMemory(loaded, c, k - 1))' = <<lo + k - 1, c>>
      <4>1. loaded'[c] = chunk /\ chunk # Junk
        BY <1>1, <2>1, RowsAssumption
      <4>2. k - 1 \in 0 .. ChunkSize - 1 /\ lo + (k - 1) < frame.length
            /\ lo + (k - 1) = lo + k - 1
        BY <1>1, <2>6, WantedIs, ChunkSizeAssumption
      <4> QED
        BY <2>1, <2>4, <4>1, <4>2 DEF Reader!InMemory
    <3> QED
      BY <3>1 DEF RowCells
  <2>10. visited = RowCells(Old)
    <3>1. map # Junk
      BY <1>5 DEF Reader!VisitChunk
    <3> QED
      BY <2>3, <2>4, <3>1 DEF MapInv
  <2>11. visited' = RowCells(Old) \o RowCells(Own)
    BY <1>5, <2>5, <2>9, <2>10 DEF Reader!VisitChunk, Reader!InMemory
  <2>12. visited' = RowCells(Old \o Own)
    <3> HIDE DEF Old, Own
    <3> QED
      BY <2>8, <2>11, CellsConcat
  <2>13. visited' = (RowCells(WantedRows(frame, map)[Seen]))'
    BY <2>1, <2>2, <2>3, <2>4, <2>5, <2>7, <2>12 DEF RowCells
  <2> QED
    BY <1>1, <2>1, <2>2, <2>13 DEF MapInv
<1>6. CASE Reader!EndMap
  <2>1. frame' = frame /\ map' = Junk /\ chunk' = 0
    BY <1>6 DEF Reader!EndMap
  <2> QED
    BY <1>1, <2>1 DEF MapInv, Reader!MaxChunks
<1>7. ASSUME NEW c, NEW r, Reader!GetFloat(c, r) PROVE MapInv'
  BY <1>2, <1>7 DEF Reader!GetFloat
<1>8. CASE UNCHANGED readerVars
  BY <1>2, <1>8 DEF readerVars
<1> QED
  BY <1>3, <1>4, <1>5, <1>6, <1>7, <1>8 DEF Reader!Next

\* A map visits the rows of a frame, or those of the chunks of its node, once and in
\* order, whatever its length and on however many nodes it is.
THEOREM MapVisitsRowsCorrect == PartsSpec => []MapVisitsRows
<1>1. PartsInit => MapInv
  <2> SUFFICES ASSUME PartsInit PROVE MapInv
    OBVIOUS
  <2>1. map = Junk /\ chunk = 0 /\ frame \in Reader!Frames
    BY DEF PartsInit, Reader!Init
  <2>2. Reader!MaxChunks \in Nat
    BY <2>1, ChunksOfFrame
  <2> QED
    BY <2>1, <2>2 DEF MapInv
<1>2. MapInv /\ [PartsNext]_partVars => MapInv'
  BY ReaderStep, MapStays
<1>3. MapInv => MapVisitsRows
  <2> SUFFICES ASSUME MapInv, map # Junk, chunk = Reader!MaxChunks
               PROVE  visited = RowCells(Reader!RowsToVisit)
    BY DEF MapVisitsRows, Reader!MapVisitsRows, RowCells
  <2>1. Seen = frame.length /\ visited = RowCells(WantedRows(frame, map)[Seen])
    BY DEF MapInv, Seen
  <2>2. Reader!RowsToVisit = WantedRows(frame, map)[frame.length]
    BY DEF Reader!RowsToVisit, Reader!IsLocallyStored, WantedRows, WantedBy
  <2> QED
    BY <2>1, <2>2
<1> QED
  BY <1>1, <1>2, <1>3, PTL DEF PartsSpec

-----------------------------------------------------------------------------
(***************************************************************************)
(* pmap()                                                                  *)
(***************************************************************************)

\* The rows of a range.
Rows(a, b) == [i \in 1 .. b - a |-> a + i - 1]

LEMMA RowsFacts ==
  ASSUME NEW a \in Nat, NEW b \in Nat, a <= b
  PROVE  /\ Rows(a, b) \in Seq(Nat) /\ Len(Rows(a, b)) = b - a
         /\ \A i \in 1 .. Len(Rows(a, b)) : Rows(a, b)[i] = a + i - 1
<1>1. PICK n \in Nat : n = b - a
  OBVIOUS
<1>a. \A i \in 1 .. n : a + i - 1 \in Nat
  BY <1>1
<1>2. PICK f \in [1 .. n -> Nat] : f = Rows(a, b)
  BY <1>1, <1>a DEF Rows
<1>3. f \in Seq(Nat) /\ Len(f) = n
  OBVIOUS
<1> QED
  BY <1>1, <1>2, <1>3 DEF Rows

LEMMA NoRows ==
  ASSUME NEW a \in Nat
  PROVE  Rows(a, a) = <<>>
<1>1. a <= a /\ a - a = 0
  OBVIOUS
<1>2. PICK s \in Seq(Nat) : s = Rows(a, a) /\ Len(s) = 0
  BY <1>1, RowsFacts
<1> QED
  BY <1>2

\* The next row behind a range.
LEMMA RowsAppend ==
  ASSUME NEW a \in Nat, NEW b \in Nat, a <= b
  PROVE  Append(Rows(a, b), b) = Rows(a, b + 1)
<1>1. PICK s \in Seq(Nat) : s = Rows(a, b)
  BY RowsFacts
<1>0. PICK e \in Nat : e = b + 1 /\ a <= e
  OBVIOUS
<1>2. PICK t \in Seq(Nat) : t = Rows(a, e)
  BY <1>0, RowsFacts
<1>3. Len(s) = b - a /\ \A i \in 1 .. Len(s) : s[i] = a + i - 1
  BY <1>1, RowsFacts
<1>4. Len(t) = e - a /\ \A i \in 1 .. Len(t) : t[i] = a + i - 1
  <2>1. a <= e
    BY <1>0
  <2> QED
    BY <1>2, <2>1, RowsFacts
<1>5. Append(s, b) \in Seq(Nat) /\ Len(Append(s, b)) = Len(t)
  BY <1>0, <1>3, <1>4
<1>6. \A i \in 1 .. Len(t) : Append(s, b)[i] = t[i]
  BY <1>0, <1>3, <1>4
<1>7. Append(s, b) = t
  BY <1>5, <1>6, SeqEqual
<1> QED
  BY <1>0, <1>1, <1>2, <1>7

\* A range and the one behind it.
LEMMA RowsConcat ==
  ASSUME NEW a \in Nat, NEW b \in Nat, NEW c \in Nat, a <= b, b <= c
  PROVE  Rows(a, b) \o Rows(b, c) = Rows(a, c)
<1>1. PICK s \in Seq(Nat) : s = Rows(a, b)
  BY RowsFacts
<1>2. PICK t \in Seq(Nat) : t = Rows(b, c)
  BY RowsFacts
<1>0. a <= c
  OBVIOUS
<1>3. PICK u \in Seq(Nat) : u = Rows(a, c)
  BY <1>0, RowsFacts
<1>4. Len(s) = b - a /\ \A i \in 1 .. Len(s) : s[i] = a + i - 1
  BY <1>1, RowsFacts
<1>5. Len(t) = c - b /\ \A i \in 1 .. Len(t) : t[i] = b + i - 1
  BY <1>2, RowsFacts
<1>6. Len(u) = c - a /\ \A i \in 1 .. Len(u) : u[i] = a + i - 1
  BY <1>0, <1>3, RowsFacts
<1>7. s \o t \in Seq(Nat) /\ Len(s \o t) = Len(u)
  BY <1>4, <1>5, <1>6
<1>8. ASSUME NEW i \in 1 .. Len(u) PROVE (s \o t)[i] = u[i]
  <2>1. u[i] = a + i - 1
    BY <1>6
  <2>2. CASE i <= b - a
    <3>1. i \in 1 .. Len(s)
      BY <1>4, <2>2
    <3>2. (s \o t)[i] = s[i]
      BY <3>1
    <3> QED
      BY <1>4, <2>1, <3>1, <3>2
  <2>3. CASE i > b - a
    <3>1. PICK j \in 1 .. Len(t) : j = i - Len(s)
      BY <1>4, <1>5, <1>6, <2>3
    <3>2. i \in Len(s) + 1 .. Len(s) + Len(t)
      BY <1>4, <1>5, <1>6, <2>3
    <3>3. (s \o t)[i] = t[j]
      BY <3>1, <3>2, ConcatProperties
    <3> QED
      BY <1>4, <1>5, <2>1, <3>1, <3>3
  <2>4. i <= b - a \/ i > b - a
    <3>1. i \in Nat /\ b - a \in Nat
      OBVIOUS
    <3> QED
      BY ONLY <3>1
  <2> QED
    BY <2>2, <2>3, <2>4, Zenon
<1>9. s \o t = u
  BY <1>7, <1>8, SeqEqual
<1> QED
  BY <1>1, <1>2, <1>3, <1>9

\* pmap() takes the least number of threads that is large enough.
LEMMA ThreadsChosen ==
  ASSUME nrows \in Nat
  PROVE  /\ Pmap!NumThreads \in 1 .. MaxThreads
         /\ \A k \in 1 .. Pmap!NumThreads - 1 : Pmap!RowsPerThread(k) >= 2 * MinRows
<1> DEFINE Enough(n) == n = MaxThreads \/ Pmap!RowsPerThread(n) < 2 * MinRows
           A == {n \in 1 .. MaxThreads : Enough(n)}
<1>1. MaxThreads \in Nat \ {0} /\ MinRows \in Nat
  BY PmapAssumption
<1>2. A \in SUBSET Nat /\ MaxThreads \in A
  BY <1>1
<1>3. PICK m \in A : \A k \in A : m <= k
  <2> HIDE DEF A
  <2> QED
    BY <1>2, LeastNatural
<1>4. ASSUME NEW k \in 1 .. m - 1 PROVE Pmap!RowsPerThread(k) >= 2 * MinRows
  <2>1. k \in 1 .. MaxThreads /\ k \notin A /\ k \in Nat \ {0}
    BY <1>1, <1>3
  <2>2. nrows \div k \in Nat
    BY <2>1
  <2> QED
    BY <1>1, <2>1, <2>2 DEF Pmap!RowsPerThread
<1>5. \E n \in 1 .. MaxThreads : Enough(n) /\ \A k \in 1 .. n - 1 : Pmap!RowsPerThread(k) >= 2 * MinRows
  BY <1>3, <1>4
<1> QED
  BY <1>5 DEF Pmap!NumThreads

\* That many rows per thread that no thread is left without: n threads, one less of
\* which would have p rows each; q rows each, and s over.
LEMMA NobodyIdle ==
  ASSUME NEW n \in Nat, n > 1, NEW p \in Nat, NEW q \in Nat, NEW s \in 0 .. n - 1,
         p >= 2 * n - 1, q * n + s >= p * (n - 1)
  PROVE  (q + 1) * (n - 1) < q * n + s
<1>1. PICK k \in Nat \ {0} : n = k + 1
  <2>1. n - 1 \in Nat \ {0} /\ n = (n - 1) + 1
    OBVIOUS
  <2> QED
    BY <2>1
<1>2. p * k >= (2 * k + 1) * k
  <2>1. PICK d \in Nat : p = 2 * k + 1 + d
    <3>1. p - (2 * k + 1) \in Nat /\ p = 2 * k + 1 + (p - (2 * k + 1))
      BY <1>1
    <3> QED
      BY <3>1
  <2>2. p * k = (2 * k + 1) * k + d * k /\ d * k >= 0
    BY <2>1
  <2> QED
    BY <2>2
<1>3. q * n = q * k + q
  BY <1>1
<1>4. q * k + q + s >= 2 * (k * k) + k
  <2>1. (2 * k + 1) * k = 2 * (k * k) + k
    OBVIOUS
  <2> QED
    BY <1>1, <1>2, <1>3, <2>1
<1>5. k < q + s
  <2>1. CASE q > k
    BY <2>1
  <2>2. CASE q = k
    <3>1. PICK w \in Nat : w = k * k /\ w >= 1
      OBVIOUS
    <3> QED
      BY <1>4, <2>2, <3>1
  <2>3. CASE q < k
    <3>1. PICK e \in Nat \ {0} : k = q + e
      <4>1. k - q \in Nat \ {0} /\ k = q + (k - q)
        BY <2>3
      <4> QED
        BY <4>1
    <3>2. k * k = q * k + e * k /\ e * k >= k
      BY <3>1
    <3>3. s <= k
      BY <1>1
    <3> QED
      BY <1>4, <3>1, <3>2, <3>3
  <2> QED
    BY <2>1, <2>2, <2>3
<1>6. (q + 1) * k = q * k + k
  OBVIOUS
<1> QED
  BY <1>1, <1>3, <1>5, <1>6

\* The ranges are cut where the one before ends, none of them is empty, and the last
\* one goes to the end.
LEMMA RangesFit ==
  ASSUME nrows \in Nat, NEW n, n = Pmap!NumThreads, n > 1
  PROVE  /\ n \in 1 .. MaxThreads /\ n \in Nat /\ Pmap!First(0) = 0
         /\ \A t \in 0 .. n - 1 : /\ Pmap!First(t) \in Nat /\ Pmap!End(t) \in Nat
                                 /\ Pmap!First(t) < Pmap!End(t) /\ Pmap!End(t) <= nrows
                                 /\ Pmap!End(t) = IF t = n - 1 THEN nrows ELSE Pmap!First(t + 1)
<1>1. /\ n \in 1 .. MaxThreads /\ n \in Nat /\ MaxThreads \in Nat /\ MinRows \in Nat
      /\ MaxThreads <= MinRows
      /\ \A k \in 1 .. n - 1 : Pmap!RowsPerThread(k) >= 2 * MinRows
  BY PmapAssumption, ThreadsChosen
<1>2. PICK N \in Nat : N = nrows
  OBVIOUS
<1>3. PICK q \in Nat, s \in 0 .. n - 1 : N = q * n + s /\ q = N \div n
  <2>1. n \in Nat \ {0}
    BY <1>1
  <2>2. N \div n \in Nat /\ N % n \in 0 .. n - 1 /\ N = (N \div n) * n + (N % n)
    BY <2>1
  <2> QED
    BY <2>2
<1>4. PICK p \in Nat : p >= 2 * n - 1 /\ N >= p * (n - 1)
  <2>1. PICK k \in Nat \ {0} : k = n - 1 /\ k \in 1 .. n - 1
    BY <1>1
  <2>2. PICK p \in Nat : p = N \div k
    OBVIOUS
  <2>3. N = p * k + (N % k) /\ N % k \in Nat
    BY <2>2
  <2>4. p + 1 >= 2 * MinRows
    BY <1>1, <1>2, <2>1, <2>2 DEF Pmap!RowsPerThread
  <2>5. N >= p * k
    <3>1. PICK w \in Nat : w = p * k
      OBVIOUS
    <3> QED
      BY <2>3, <3>1
  <2> QED
    BY <1>1, <2>1, <2>4, <2>5
<1>5. PICK R \in Nat \ {0} : R = q + 1
  OBVIOUS
<1>6. R * (n - 1) < N
  BY <1>1, <1>3, <1>4, <1>5, NobodyIdle
<1>7. N <= R * n
  <2>1. R * n = q * n + n
    BY <1>1, <1>5
  <2> QED
    BY <1>1, <1>3, <2>1
<1>8. \A t : Pmap!First(t) = R * t
  BY <1>2, <1>3, <1>5 DEF Pmap!First, Pmap!RowsPerThread
<1>9. ASSUME NEW t \in 0 .. n - 1
      PROVE  /\ Pmap!First(t) \in Nat /\ Pmap!End(t) \in Nat
             /\ Pmap!First(t) < Pmap!End(t) /\ Pmap!End(t) <= nrows
             /\ Pmap!End(t) = IF t = n - 1 THEN nrows ELSE Pmap!First(t + 1)
  <2>1. PICK a \in Nat : a = R * t
    BY <1>1
  <2>2. R * (t + 1) = a + R
    BY <1>1, <2>1
  <2>3. CASE t = n - 1
    <3>1. a < N /\ N <= a + R
      BY <1>1, <1>6, <1>7, <2>1, <2>2, <2>3
    <3> QED
      BY <1>2, <1>8, <2>1, <2>2, <2>3, <3>1 DEF Pmap!End
  <2>4. CASE t # n - 1
    <3>1. PICK d \in Nat : n - 1 = (t + 1) + d
      <4>1. n - 1 - (t + 1) \in Nat /\ n - 1 = (t + 1) + (n - 1 - (t + 1))
        BY <1>1, <2>4
      <4> QED
        BY <4>1
    <3>2. R * (n - 1) = (a + R) + R * d /\ R * d \in Nat
      BY <1>1, <2>2, <3>1
    <3>3. a + R < N
      BY <1>6, <3>2
    <3> QED
      BY <1>2, <1>8, <2>1, <2>2, <2>4, <3>3 DEF Pmap!End
  <2> QED
    BY <2>3, <2>4
<1>10. Pmap!First(0) = 0
  BY <1>8
<1> QED
  BY <1>1, <1>9, <1>10

\* What the rower of thread t has when n threads run and none, or those behind t, are
\* merged; the one that was merged last has the rows up to the end.
RangeRight(n, t) ==
  /\ t < spawned => Pmap!First(t) <= next[t] /\ next[t] <= Pmap!End(t)
  /\ t < joined => next[t] = Pmap!End(t)
  /\ merged = 0 \/ t + merged < n - 1 =>
       rowers[t] = IF t < spawned THEN Rows(Pmap!First(t), next[t]) ELSE <<>>
  /\ merged > 0 /\ t + merged = n - 1 => rowers[t] = Rows(Pmap!First(t), nrows)

PmapTypes(n) ==
  /\ nrows \in Nat
  /\ spawned \in 0 .. n /\ joined \in 0 .. spawned /\ merged \in 0 .. n - 1
  /\ next \in [Pmap!Threads -> Nat] /\ rowers \in [Pmap!Threads -> Seq(Nat)]
  /\ merged > 0 => joined = n

PmapInv ==
  LET n == Pmap!NumThreads
  IN  /\ PmapTypes(n)
      /\ n = 1 => spawned = 0 /\ next[0] <= nrows /\ rowers[0] = Rows(0, next[0])
      /\ n > 1 => \A t \in 0 .. n - 1 : RangeRight(n, t)

LEMMA RangesFixed ==
  ASSUME nrows' = nrows
  PROVE  /\ Pmap!NumThreads' = Pmap!NumThreads
         /\ \A t : Pmap!First(t)' = Pmap!First(t) /\ Pmap!End(t)' = Pmap!End(t)
<1>1. Pmap!NumThreads' = Pmap!NumThreads
  BY DEF Pmap!NumThreads, Pmap!RowsPerThread
<1> QED
  BY <1>1 DEF Pmap!First, Pmap!End, Pmap!RowsPerThread

LEMMA PmapBegins == Pmap!Init => PmapInv
<1> SUFFICES ASSUME Pmap!Init PROVE PmapInv
  OBVIOUS
<1>1. nrows \in Nat
  BY PmapAssumption DEF Pmap!Init
<1>2. PICK n \in 1 .. MaxThreads : n = Pmap!NumThreads
  BY <1>1, ThreadsChosen
<1>3. n \in Nat /\ 0 \in Pmap!Threads /\ \A t \in 0 .. n - 1 : t \in Pmap!Threads
  BY PmapAssumption DEF Pmap!Threads
<1>4. Rows(0, 0) = <<>>
  BY NoRows
<1>5. PmapTypes(n)
  BY <1>1, <1>3 DEF PmapTypes, Pmap!Init
<1>6. n = 1 => spawned = 0 /\ next[0] <= nrows /\ rowers[0] = Rows(0, next[0])
  BY <1>1, <1>3, <1>4 DEF Pmap!Init
<1>7. ASSUME NEW t \in 0 .. n - 1 PROVE RangeRight(n, t)
  BY <1>3 DEF RangeRight, Pmap!Init
<1> QED
  BY <1>2, <1>5, <1>6, <1>7 DEF PmapInv

\* What there is to show of a step, with the ranges as they were cut.
LEMMA PmapNext ==
  ASSUME nrows' = nrows, NEW n, n = Pmap!NumThreads, PmapTypes(n)',
         n = 1 => spawned' = 0 /\ next'[0] <= nrows /\ rowers'[0] = Rows(0, next'[0]),
         n > 1 => \A t \in 0 .. n - 1 :
           /\ t < spawned' => Pmap!First(t) <= next'[t] /\ next'[t] <= Pmap!End(t)
           /\ t < joined' => next'[t] = Pmap!End(t)
           /\ merged' = 0 \/ t + merged' < n - 1 =>
                rowers'[t] = IF t < spawned' THEN Rows(Pmap!First(t), next'[t]) ELSE <<>>
           /\ merged' > 0 /\ t + merged' = n - 1 => rowers'[t] = Rows(Pmap!First(t), nrows)
  PROVE  PmapInv'
<1>1. Pmap!NumThreads' = n
  BY RangesFixed
<1>2. n > 1 => \A t \in 0 .. n - 1 : RangeRight(n, t)'
  BY RangesFixed DEF RangeRight
<1> QED
  BY <1>1, <1>2 DEF PmapInv

\* The number of threads, once and for all.
LEMMA PmapFacts ==
  ASSUME PmapInv
  PROVE  \E n \in 1 .. MaxThreads :
           /\ n = Pmap!NumThreads /\ n \in Nat /\ PmapTypes(n)
           /\ n = 1 => spawned = 0 /\ next[0] <= nrows /\ rowers[0] = Rows(0, next[0])
           /\ n > 1 => \A t \in 0 .. n - 1 : RangeRight(n, t)
           /\ \A t \in 0 .. n - 1 : t \in Pmap!Threads
<1>1. nrows \in Nat
  BY DEF PmapInv, PmapTypes
<1>2. PICK n \in 1 .. MaxThreads : n = Pmap!NumThreads
  BY <1>1, ThreadsChosen
<1>3. n \in Nat /\ \A t \in 0 .. n - 1 : t \in Pmap!Threads
  BY PmapAssumption DEF Pmap!Threads
<1> QED
  BY <1>2, <1>3 DEF PmapInv

LEMMA MapKeeps ==
  ASSUME PmapInv, Pmap!Map
  PROVE  PmapInv'
<1>1. PICK n \in 1 .. MaxThreads :
        /\ n = Pmap!NumThreads /\ n \in Nat /\ PmapTypes(n)
        /\ n = 1 => spawned = 0 /\ next[0] <= nrows /\ rowers[0] = Rows(0, next[0])
        /\ \A t \in 0 .. n - 1 : t \in Pmap!Threads
  BY PmapFacts
<1>2. /\ n = 1 /\ nrows' = nrows /\ nrows \in Nat /\ spawned' = 0 /\ 0 \in Pmap!Threads
      /\ next' = [next EXCEPT ![0] = @ + 1] /\ rowers' = [rowers EXCEPT ![0] = Append(@, next[0])]
      /\ UNCHANGED <<spawned, joined, merged>> /\ next[0] < nrows
  BY <1>1 DEF Pmap!Map, Pmap!Call, PmapTypes
<1>3. PICK b \in Nat : b = next[0]
  BY <1>1, <1>2 DEF PmapTypes
<1>4. next'[0] = b + 1 /\ rowers'[0] = Append(Rows(0, b), b)
  BY <1>1, <1>2, <1>3 DEF PmapTypes
<1>5. rowers'[0] = Rows(0, b + 1)
  <2>1. 0 \in Nat /\ 0 <= b
    OBVIOUS
  <2>2. Append(Rows(0, b), b) = Rows(0, b + 1)
    BY <2>1, RowsAppend
  <2> QED
    BY <1>4, <2>2
<1>6. next' \in [Pmap!Threads -> Nat]
  BY <1>1, <1>2, <1>3 DEF PmapTypes
<1>7. rowers' \in [Pmap!Threads -> Seq(Nat)]
  <2>1. Append(rowers[0], next[0]) \in Seq(Nat)
    BY <1>1, <1>2, <1>3 DEF PmapTypes
  <2> QED
    BY <1>1, <1>2, <2>1 DEF PmapTypes
<1>8. PmapTypes(n)'
  BY <1>1, <1>2, <1>6, <1>7 DEF PmapTypes, Pmap!Threads
<1> QED
  BY <1>1, <1>2, <1>3, <1>4, <1>5, <1>8, PmapNext

\* A thread begins with its range, and with an empty rower.
LEMMA SpawnKeeps ==
  ASSUME PmapInv, Pmap!Spawn
  PROVE  PmapInv'
<1>1. PICK n \in 1 .. MaxThreads :
        /\ n = Pmap!NumThreads /\ n \in Nat /\ PmapTypes(n)
        /\ n > 1 => \A t \in 0 .. n - 1 : RangeRight(n, t)
        /\ \A t \in 0 .. n - 1 : t \in Pmap!Threads
  BY PmapFacts
<1>2. /\ n > 1 /\ nrows' = nrows /\ nrows \in Nat /\ spawned < n /\ spawned' = spawned + 1
      /\ next' = [next EXCEPT ![spawned] = Pmap!First(spawned)]
      /\ UNCHANGED <<joined, merged, rowers>>
  BY <1>1 DEF Pmap!Spawn, PmapTypes
<1>3. PICK u \in 0 .. n - 1 : u = spawned
  BY <1>1, <1>2 DEF PmapTypes
<1>4. merged = 0 /\ joined \in 0 .. u /\ u \in Pmap!Threads
  BY <1>1, <1>2, <1>3 DEF PmapTypes
<1>5. /\ Pmap!First(u) \in Nat /\ Pmap!End(u) \in Nat /\ Pmap!First(u) <= Pmap!End(u)
  BY <1>1, <1>2, RangesFit
<1>6. /\ next' \in [Pmap!Threads -> Nat] /\ next'[u] = Pmap!First(u)
      /\ \A t \in 0 .. n - 1 : t # u => next'[t] = next[t]
  BY <1>1, <1>2, <1>3, <1>4, <1>5 DEF PmapTypes
<1>7. PmapTypes(n)'
  BY <1>1, <1>2, <1>3, <1>4, <1>6 DEF PmapTypes, Pmap!Threads
<1>8. ASSUME NEW t \in 0 .. n - 1
      PROVE  /\ t < spawned' => Pmap!First(t) <= next'[t] /\ next'[t] <= Pmap!End(t)
             /\ t < joined' => next'[t] = Pmap!End(t)
             /\ rowers'[t] = IF t < spawned' THEN Rows(Pmap!First(t), next'[t]) ELSE <<>>
  <2>1. CASE t = u
    <3>1. rowers[u] = <<>>
      BY <1>1, <1>2, <1>3, <1>4 DEF RangeRight
    <3>2. Rows(Pmap!First(u), Pmap!First(u)) = <<>>
      BY <1>5, NoRows
    <3> QED
      BY <1>2, <1>3, <1>4, <1>5, <1>6, <2>1, <3>1, <3>2
  <2>2. CASE t # u
    <3>1. RangeRight(n, t) /\ next'[t] = next[t] /\ (t < spawned' <=> t < spawned)
      BY <1>1, <1>2, <1>3, <1>6, <2>2
    <3> QED
      BY <1>2, <1>4, <3>1 DEF RangeRight
  <2> QED
    BY <2>1, <2>2
<1> QED
  BY <1>1, <1>2, <1>4, <1>7, <1>8, PmapNext

\* A thread that goes on was not joined, and so nothing is merged yet.
LEMMA VisitKeeps ==
  ASSUME PmapInv, NEW u \in Pmap!Threads, Pmap!Visit(u)
  PROVE  PmapInv'
<1>1. PICK n \in 1 .. MaxThreads :
        /\ n = Pmap!NumThreads /\ n \in Nat /\ PmapTypes(n)
        /\ n = 1 => spawned = 0
        /\ n > 1 => \A t \in 0 .. n - 1 : RangeRight(n, t)
        /\ \A t \in 0 .. n - 1 : t \in Pmap!Threads
  BY PmapFacts
<1>2. /\ nrows' = nrows /\ nrows \in Nat /\ u < spawned /\ next[u] < Pmap!End(u)
      /\ next' = [next EXCEPT ![u] = @ + 1] /\ rowers' = [rowers EXCEPT ![u] = Append(@, next[u])]
      /\ UNCHANGED <<spawned, joined, merged>>
  BY <1>1 DEF Pmap!Visit, Pmap!Call, PmapTypes
<1>3. u \in 0 .. n - 1 /\ n > 1
  BY <1>1, <1>2 DEF PmapTypes, Pmap!Threads
<1>4. /\ Pmap!First(u) \in Nat /\ Pmap!End(u) \in Nat
  BY <1>1, <1>2, <1>3, RangesFit
<1>5. PICK a \in Nat, b \in Nat : /\ a = Pmap!First(u) /\ b = next[u] /\ a <= b
                                /\ b + 1 <= Pmap!End(u)
  <2>1. next[u] \in Nat /\ Pmap!First(u) <= next[u]
    BY <1>1, <1>2, <1>3 DEF PmapTypes, RangeRight
  <2> QED
    BY <1>2, <1>4, <2>1
<1>6. merged = 0 /\ ~(u < joined)
  <2>1. ~(u < joined)
    BY <1>1, <1>2, <1>3, <1>4, <1>5 DEF RangeRight
  <2> QED
    BY <1>1, <1>3, <2>1 DEF PmapTypes
<1>7. rowers[u] = Rows(a, b)
  BY <1>1, <1>2, <1>3, <1>5, <1>6 DEF RangeRight
<1>8. /\ next' \in [Pmap!Threads -> Nat] /\ next'[u] = b + 1
      /\ \A t \in 0 .. n - 1 : t # u => next'[t] = next[t]
  BY <1>1, <1>2, <1>5 DEF PmapTypes
<1>9. /\ rowers' \in [Pmap!Threads -> Seq(Nat)] /\ rowers'[u] = Rows(a, b + 1)
      /\ \A t \in 0 .. n - 1 : t # u => rowers'[t] = rowers[t]
  <2>1. Append(rowers[u], next[u]) = Rows(a, b + 1)
    BY <1>5, <1>7, RowsAppend
  <2>2. PICK e \in Nat : e = b + 1 /\ a <= e
    BY <1>5
  <2>3. Rows(a, b + 1) \in Seq(Nat)
    BY <2>2, RowsFacts
  <2> QED
    BY <1>1, <1>2, <2>1, <2>3 DEF PmapTypes
<1>10. PmapTypes(n)'
  BY <1>1, <1>2, <1>8, <1>9 DEF PmapTypes, Pmap!Threads
<1>11. ASSUME NEW t \in 0 .. n - 1
       PROVE  /\ t < spawned' => Pmap!First(t) <= next'[t] /\ next'[t] <= Pmap!End(t)
              /\ t < joined' => next'[t] = Pmap!End(t)
              /\ rowers'[t] = IF t < spawned' THEN Rows(Pmap!First(t), next'[t]) ELSE <<>>
  <2>1. CASE t = u
    BY <1>2, <1>5, <1>6, <1>8, <1>9, <2>1
  <2>2. CASE t # u
    <3>1. RangeRight(n, t) /\ next'[t] = next[t] /\ rowers'[t] = rowers[t]
      BY <1>1, <1>3, <1>8, <1>9, <2>2
    <3> QED
      BY <1>2, <1>6, <3>1 DEF RangeRight
  <2> QED
    BY <2>1, <2>2
<1> QED
  BY <1>1, <1>2, <1>3, <1>6, <1>10, <1>11, PmapNext

LEMMA JoinKeeps ==
  ASSUME PmapInv, Pmap!Join
  PROVE  PmapInv'
<1>1. PICK n \in 1 .. MaxThreads :
        /\ n = Pmap!NumThreads /\ n \in Nat /\ PmapTypes(n)
        /\ n = 1 => spawned = 0
        /\ n > 1 => \A t \in 0 .. n - 1 : RangeRight(n, t)
  BY PmapFacts
<1>2. /\ nrows' = nrows /\ nrows \in Nat /\ spawned = n /\ joined < n
      /\ next[joined] = Pmap!End(joined) /\ joined' = joined + 1
      /\ UNCHANGED <<spawned, next, merged, rowers>>
  BY <1>1 DEF Pmap!Join, Pmap!Ended, PmapTypes
<1>3. n > 1 /\ joined \in Nat /\ merged = 0
  BY <1>1, <1>2 DEF PmapTypes
<1>4. PmapTypes(n)'
  BY <1>1, <1>2, <1>3 DEF PmapTypes, Pmap!Threads
<1>5. ASSUME NEW t \in 0 .. n - 1
      PROVE  /\ t < spawned' => Pmap!First(t) <= next'[t] /\ next'[t] <= Pmap!End(t)
             /\ t < joined' => next'[t] = Pmap!End(t)
             /\ rowers'[t] = IF t < spawned' THEN Rows(Pmap!First(t), next'[t]) ELSE <<>>
  <2>1. RangeRight(n, t) /\ (t < joined' <=> t < joined \/ t = joined)
    BY <1>1, <1>2, <1>3
  <2> QED
    BY <1>2, <1>3, <2>1 DEF RangeRight
<1> QED
  BY <1>1, <1>2, <1>3, <1>4, <1>5, PmapNext

\* Rowers are joined when all threads have ended: range t - 1 ends where t begins.
LEMMA JoinDeleteKeeps ==
  ASSUME PmapInv, Pmap!JoinDelete
  PROVE  PmapInv'
<1>1. PICK n \in 1 .. MaxThreads :
        /\ n = Pmap!NumThreads /\ n \in Nat /\ PmapTypes(n)
        /\ n > 1 => \A t \in 0 .. n - 1 : RangeRight(n, t)
        /\ \A t \in 0 .. n - 1 : t \in Pmap!Threads
  BY PmapFacts
<1>2. PICK m \in Nat : /\ m = merged /\ m < n - 1 /\ n > 1
  BY <1>1 DEF Pmap!JoinDelete, PmapTypes
<1>3. PICK t \in 1 .. n - 1, v \in 0 .. n - 2 :
        /\ t = n - 1 - m /\ v = t - 1 /\ t \in 0 .. n - 1 /\ v \in 0 .. n - 1 /\ t = v + 1 /\ v # n - 1
  <2>1. /\ n - 1 - m \in 1 .. n - 1 /\ n - 1 - m - 1 \in 0 .. n - 2
        /\ n - 1 - m \in 0 .. n - 1 /\ n - 1 - m - 1 \in 0 .. n - 1
    BY <1>1, <1>2
  <2> QED
    BY <1>1, <1>2, <2>1
<1>4. /\ nrows' = nrows /\ nrows \in Nat /\ joined = n
      /\ rowers' = [rowers EXCEPT ![v] = rowers[v] \o rowers[t]]
      /\ merged' = m + 1 /\ UNCHANGED <<spawned, next, joined>>
  BY <1>1, <1>2, <1>3 DEF Pmap!JoinDelete, PmapTypes
<1>5. spawned = n
  BY <1>1, <1>4 DEF PmapTypes
<1>6. /\ Pmap!First(v) \in Nat /\ Pmap!First(t) \in Nat /\ Pmap!End(v) = Pmap!First(t)
      /\ Pmap!First(v) < Pmap!First(t) /\ Pmap!First(t) < Pmap!End(t) /\ Pmap!End(t) \in Nat
      /\ t = n - 1 => Pmap!End(t) = nrows
  BY <1>1, <1>2, <1>3, <1>4, RangesFit
<1>7. Pmap!First(t) <= nrows
  <2>1. Pmap!End(t) <= nrows
    BY <1>1, <1>2, <1>3, <1>4, RangesFit
  <2> QED
    BY <1>4, <1>6, <2>1
<1>8. rowers[v] = Rows(Pmap!First(v), Pmap!First(t))
  <2>1. RangeRight(n, v) /\ v < spawned /\ v < joined /\ (merged = 0 \/ v + merged < n - 1)
    BY <1>1, <1>2, <1>3, <1>4, <1>5
  <2> QED
    BY <1>6, <2>1 DEF RangeRight
<1>9. rowers[t] = Rows(Pmap!First(t), nrows)
  <2>1. RangeRight(n, t) /\ t < spawned /\ t < joined
    BY <1>1, <1>2, <1>3, <1>4, <1>5
  <2>2. CASE m = 0
    <3>1. t = n - 1 /\ merged = 0
      BY <1>2, <1>3, <2>2
    <3>2. Pmap!End(t) = nrows
      BY ONLY <3>1, <1>6
    <3>3. rowers[t] = Rows(Pmap!First(t), next[t]) /\ next[t] = Pmap!End(t)
      BY ONLY <2>1, <3>1 DEF RangeRight
    <3> QED
      BY ONLY <3>2, <3>3
  <2>3. CASE m > 0
    <3>1. t + merged = n - 1 /\ merged > 0
      BY <1>1, <1>2, <1>3, <2>3
    <3> QED
      BY ONLY <2>1, <3>1 DEF RangeRight
  <2> QED
    BY <2>2, <2>3
<1>10. rowers[v] \o rowers[t] = Rows(Pmap!First(v), nrows)
  <2>1. PICK a \in Nat, b \in Nat, c \in Nat :
          a = Pmap!First(v) /\ b = Pmap!First(t) /\ c = nrows /\ a <= b /\ b <= c
    BY <1>4, <1>6, <1>7
  <2>a. a <= b /\ b <= c
    BY ONLY <2>1
  <2>2. Rows(a, b) \o Rows(b, c) = Rows(a, c)
    BY ONLY <2>a, a \in Nat, b \in Nat, c \in Nat, RowsConcat
  <2> QED
    BY <1>8, <1>9, <2>1, <2>2
<1>11. /\ rowers'[v] = Rows(Pmap!First(v), nrows)
       /\ \A k \in 0 .. n - 1 : k # v => rowers'[k] = rowers[k]
       /\ rowers' \in [Pmap!Threads -> Seq(Nat)]
  <2>1. v \in Pmap!Threads /\ t \in Pmap!Threads
    BY <1>1, <1>3
  <2>2. rowers[v] \in Seq(Nat) /\ rowers[t] \in Seq(Nat)
    BY <1>1, <2>1 DEF PmapTypes
  <2>3. rowers[v] \o rowers[t] \in Seq(Nat)
    BY <2>2, ConcatProperties
  <2> QED
    BY <1>1, <1>4, <1>10, <2>1, <2>3 DEF PmapTypes
<1>12. PmapTypes(n)'
  BY <1>1, <1>2, <1>4, <1>11 DEF PmapTypes, Pmap!Threads
<1>13. ASSUME NEW k \in 0 .. n - 1
       PROVE  /\ k < spawned' => Pmap!First(k) <= next'[k] /\ next'[k] <= Pmap!End(k)
              /\ k < joined' => next'[k] = Pmap!End(k)
              /\ merged' = 0 \/ k + merged' < n - 1 =>
                   rowers'[k] = IF k < spawned' THEN Rows(Pmap!First(k), next'[k]) ELSE <<>>
              /\ merged' > 0 /\ k + merged' = n - 1 => rowers'[k] = Rows(Pmap!First(k), nrows)
  <2>1. RangeRight(n, k)
    BY <1>1, <1>2
  <2>2. /\ k < spawned' => Pmap!First(k) <= next'[k] /\ next'[k] <= Pmap!End(k)
        /\ k < joined' => next'[k] = Pmap!End(k)
    BY <1>4, <2>1 DEF RangeRight
  <2>3. ASSUME merged' = 0 \/ k + merged' < n - 1
        PROVE  rowers'[k] = IF k < spawned' THEN Rows(Pmap!First(k), next'[k]) ELSE <<>>
    <3>1. k # v /\ k + merged < n - 1
      BY <1>1, <1>2, <1>3, <1>4, <2>3
    <3> QED
      BY <1>4, <1>11, <2>1, <3>1 DEF RangeRight
  <2>4. ASSUME k + merged' = n - 1 PROVE rowers'[k] = Rows(Pmap!First(k), nrows)
    <3>1. k = v
      BY <1>1, <1>2, <1>3, <1>4, <2>4
    <3> QED
      BY <1>11, <3>1
  <2> QED
    BY <2>2, <2>3, <2>4
<1>14. n = Pmap!NumThreads /\ nrows' = nrows /\ n # 1
  BY <1>1, <1>2, <1>4
<1> QED
  BY <1>12, <1>13, <1>14, PmapNext

LEMMA PmapStays ==
  ASSUME PmapInv, Pmap!Next \/ UNCHANGED pmapVars
  PROVE  PmapInv'
<1>1. CASE UNCHANGED pmapVars
  <2>1. PICK n \in 1 .. MaxThreads :
        /\ n = Pmap!NumThreads /\ n \in Nat /\ PmapTypes(n)
        /\ n = 1 => spawned = 0 /\ next[0] <= nrows /\ rowers[0] = Rows(0, next[0])
        /\ n > 1 => \A t \in 0 .. n - 1 : RangeRight(n, t)
    BY PmapFacts
  <2>2. PmapTypes(n)'
    BY <1>1, <2>1 DEF PmapTypes, Pmap!Threads, pmapVars
  <2>3. /\ nrows' = nrows /\ spawned' = spawned /\ next' = next /\ joined' = joined
        /\ merged' = merged /\ rowers' = rowers
    BY <1>1 DEF pmapVars
  <2>4. n > 1 => \A t \in 0 .. n - 1 :
          /\ t < spawned' => Pmap!First(t) <= next'[t] /\ next'[t] <= Pmap!End(t)
          /\ t < joined' => next'[t] = Pmap!End(t)
          /\ merged' = 0 \/ t + merged' < n - 1 =>
               rowers'[t] = IF t < spawned' THEN Rows(Pmap!First(t), next'[t]) ELSE <<>>
          /\ merged' > 0 /\ t + merged' = n - 1 => rowers'[t] = Rows(Pmap!First(t), nrows)
    BY <2>1, <2>3 DEF RangeRight
  <2> QED
    BY <2>1, <2>2, <2>3, <2>4, PmapNext
<1>2. CASE Pmap!Map
  BY <1>2, MapKeeps
<1>3. CASE Pmap!Spawn
  BY <1>3, SpawnKeeps
<1>4. ASSUME NEW t \in Pmap!Threads, Pmap!Visit(t) PROVE PmapInv'
  BY <1>4, VisitKeeps
<1>5. CASE Pmap!Join
  BY <1>5, JoinKeeps
<1>6. CASE Pmap!JoinDelete
  BY <1>6, JoinDeleteKeeps
<1> QED
  BY <1>1, <1>2, <1>3, <1>4, <1>5, <1>6 DEF Pmap!Next

\* However the rows divide and the threads are scheduled, no thread of pmap() is left
\* without rows, as its RowThread asserts, and the rower ends up with every row once and
\* in order.
THEOREM PmapIsMapCorrect == PartsSpec => []PmapIsMap
<1>1. PartsInit => PmapInv
  BY PmapBegins DEF PartsInit
<1>2. PmapInv /\ [PartsNext]_partVars => PmapInv'
  BY PmapStep, PmapStays
<1>3. PmapInv => PmapIsMap
  <2> SUFFICES ASSUME PmapInv PROVE Pmap!PmapIsMap
    BY DEF PmapIsMap
  <2>1. PICK n \in 1 .. MaxThreads :
        /\ n = Pmap!NumThreads /\ n \in Nat /\ PmapTypes(n)
        /\ n = 1 => spawned = 0 /\ next[0] <= nrows /\ rowers[0] = Rows(0, next[0])
        /\ n > 1 => \A t \in 0 .. n - 1 : RangeRight(n, t)
    BY PmapFacts
  <2>2. nrows \in Nat
    BY <2>1 DEF PmapTypes
  <2>3. n > 1 => \A t \in 0 .. n - 1 : Pmap!First(t) < Pmap!End(t)
    BY <2>1, <2>2, RangesFit
  <2>4. Pmap!Returned => rowers[0] = Rows(0, nrows)
    <3>1. CASE n = 1
      BY <2>1, <3>1 DEF Pmap!Returned
    <3>2. CASE n > 1
      <4>1. Pmap!Returned => merged = n - 1 /\ merged > 0 /\ 0 + merged = n - 1
        BY <2>1, <3>2 DEF Pmap!Returned
      <4>2. RangeRight(n, 0) /\ Pmap!First(0) = 0
        BY <2>1, <2>2, <3>2, RangesFit
      <4> QED
        BY <4>1, <4>2 DEF RangeRight
    <3> QED
      BY <2>1, <3>1, <3>2
  <2>5. Rows(0, nrows) = [i \in 1 .. nrows |-> i - 1]
    <3>1. nrows - 0 = nrows /\ \A i \in 1 .. nrows : 0 + i - 1 = i - 1
      BY <2>2
    <3> QED
      BY <3>1 DEF Rows
  <2> QED
    BY <2>1, <2>3, <2>4, <2>5 DEF Pmap!PmapIsMap
<1> QED
  BY <1>1, <1>2, <1>3, PTL DEF PartsSpec

-----------------------------------------------------------------------------
(***************************************************************************)
(* Arrays and queues                                                       *)
(***************************************************************************)

Cells == Nat \cup {Junk}

\* A ring of whole chunks that begins somewhere in it.
IsRing(r) ==
  /\ r = [chunks |-> r.chunks, start |-> r.start, cells |-> r.cells]
  /\ r.chunks \in Nat \ {0} /\ Capacity(r) \in Nat \ {0}
  /\ r.start \in 0 .. Capacity(r) - 1
  /\ r.cells \in [0 .. Capacity(r) - 1 -> Cells]

\* Element i of the ring.
Item(r, i) == r.cells[Offset(r, i)]

\* A remainder of what goes around at most once.
LEMMA OnceAround ==
  ASSUME NEW N \in Nat \ {0}, NEW x \in 0 .. 2 * N - 1
  PROVE  x % N = IF x < N THEN x ELSE x - N
<1>1. CASE x < N
  BY <1>1
<1>2. CASE x >= N
  <2>1. PICK y \in 0 .. N - 1 : x = 1 * N + y
    <3>1. x - N \in 0 .. N - 1 /\ x = 1 * N + (x - N)
      BY <1>2
    <3> QED
      BY <3>1
  <2> QED
    BY <1>2, <2>1
<1> QED
  BY <1>1, <1>2

LEMMA CapacityIs ==
  ASSUME NEW K \in Nat \ {0}
  PROVE  ChunkSize * K \in Nat \ {0} /\ K <= ChunkSize * K
<1>1. PICK C \in Nat : ChunkSize = C + 1
  <2>1. ChunkSize - 1 \in Nat /\ ChunkSize = (ChunkSize - 1) + 1
    BY ChunkSizeAssumption
  <2> QED
    BY <2>1
<1>2. (C + 1) * K = C * K + K /\ C * K \in Nat
  OBVIOUS
<1> QED
  BY <1>1, <1>2

\* Index and offset are inverse to each other.
LEMMA RingPlaces ==
  ASSUME NEW r, IsRing(r)
  PROVE  /\ \A i \in 0 .. Capacity(r) - 1 :
              /\ Offset(r, i) \in 0 .. Capacity(r) - 1
              /\ IndexAt(r, Offset(r, i)) = i
              /\ Offset(r, i) = IF i + r.start < Capacity(r) THEN i + r.start
                               ELSE i + r.start - Capacity(r)
         /\ \A k \in 0 .. Capacity(r) - 1 :
              IndexAt(r, k) \in 0 .. Capacity(r) - 1 /\ Offset(r, IndexAt(r, k)) = k
<1>a. PICK N \in Nat \ {0} : N = Capacity(r)
  BY DEF IsRing
<1>b. PICK s \in 0 .. N - 1 : s = r.start
  BY <1>a DEF IsRing
<1>1. N = Capacity(r) /\ s = r.start
  BY <1>a, <1>b
<1>2. ASSUME NEW i \in 0 .. N - 1
      PROVE  Offset(r, i) = IF i + s < N THEN i + s ELSE i + s - N
  <2>1. PICK x \in 0 .. 2 * N - 1 : x = i + s
    OBVIOUS
  <2>2. x % N = IF x < N THEN x ELSE x - N
    BY ONLY OnceAround, N \in Nat \ {0}, x \in 0 .. 2 * N - 1
  <2> QED
    BY <1>1, <2>1, <2>2 DEF Offset
<1>3. ASSUME NEW k \in 0 .. N - 1
      PROVE  IndexAt(r, k) = IF k < s THEN k + N - s ELSE k - s
  <2>1. PICK x \in 0 .. 2 * N - 1 : x = k + N - s
    OBVIOUS
  <2>2. x % N = IF x < N THEN x ELSE x - N
    BY ONLY OnceAround, N \in Nat \ {0}, x \in 0 .. 2 * N - 1
  <2>3. (x < N <=> k < s) /\ x - N = k - s
    BY <2>1
  <2> QED
    BY <1>1, <2>1, <2>2, <2>3 DEF IndexAt
<1>4. ASSUME NEW i \in 0 .. N - 1
      PROVE  Offset(r, i) \in 0 .. N - 1 /\ IndexAt(r, Offset(r, i)) = i
  <2>1. Offset(r, i) \in 0 .. N - 1
    BY <1>2
  <2> QED
    BY <1>2, <1>3, <2>1
<1>5. ASSUME NEW k \in 0 .. N - 1
      PROVE  IndexAt(r, k) \in 0 .. N - 1 /\ Offset(r, IndexAt(r, k)) = k
  <2>1. IndexAt(r, k) \in 0 .. N - 1
    BY <1>3
  <2> QED
    BY <1>2, <1>3, <2>1
<1> QED
  BY <1>1, <1>2, <1>4, <1>5

\* A quotient and a remainder make up the number.
LEMMA Quotient ==
  ASSUME NEW C \in Nat \ {0}, NEW x \in Nat
  PROVE  \E q \in Nat, j \in 0 .. C - 1 :
           x = C * q + j /\ x \div C = q /\ x % C = j
<1>1. x \div C \in Nat /\ x % C \in 0 .. C - 1 /\ x = C * (x \div C) + (x % C)
  OBVIOUS
<1> QED
  BY <1>1

\* The chunk and the cell in it of a place in K chunks of C cells.
LEMMA ChunkPlace ==
  ASSUME NEW C \in Nat \ {0}, NEW K \in Nat, NEW q \in Nat, NEW j \in 0 .. C - 1
  PROVE  C * q + j < C * K <=> q < K
<1>1. ASSUME q < K PROVE C * q + j < C * K
  <2>1. PICK d \in Nat : K = q + 1 + d
    <3>1. K - q - 1 \in Nat /\ K = q + 1 + (K - q - 1)
      BY <1>1
    <3> QED
      BY <3>1
  <2>2. C * K = C * q + C + C * d /\ C * d \in Nat /\ C * q \in Nat
    BY <2>1
  <2> QED
    BY <2>2
<1>2. ASSUME K <= q PROVE C * K <= C * q + j
  <2>1. PICK d \in Nat : q = K + d
    <3>1. q - K \in Nat /\ q = K + (q - K)
      BY <1>2
    <3> QED
      BY <3>1
  <2>2. C * q = C * K + C * d /\ C * d \in Nat /\ C * K \in Nat
    BY <2>1
  <2> QED
    BY <2>2
<1>3. C * q + j \in Nat /\ C * K \in Nat
  OBVIOUS
<1> QED
  BY <1>1, <1>2, <1>3

\* A place that goes around the chunks at most once is in the chunk that the number
\* of its chunk goes around to.
LEMMA ChunkAround ==
  ASSUME NEW C \in Nat \ {0}, NEW K \in Nat \ {0}, NEW b \in 0 .. 2 * K - 1,
         NEW j \in 0 .. C - 1
  PROVE  (C * b + j) % (C * K) = C * (b % K) + j
<1>1. C * K \in Nat \ {0} /\ C * b + j \in Nat
  <2>1. C * 0 + 0 < C * K <=> 0 < K
    BY ChunkPlace
  <2> QED
    BY <2>1
<1>2. CASE b < K
  <2>1. b % K = b
    BY <1>2
  <2>2. C * b + j < C * K
    BY <1>2, ChunkPlace
  <2>3. PICK N \in Nat \ {0} : N = C * K
    BY <1>1
  <2>4. PICK x \in Nat : x = C * b + j
    BY <1>1
  <2>5. x % N = x
    BY <2>2, <2>3, <2>4
  <2> QED
    BY <2>1, <2>3, <2>4, <2>5
<1>3. CASE b >= K
  <2>1. PICK d \in 0 .. K - 1 : b = K + d
    <3>1. b - K \in 0 .. K - 1 /\ b = K + (b - K)
      BY <1>3
    <3> QED
      BY <3>1
  <2>2. b % K = d
    <3>1. b \in 0 .. 2 * K - 1 /\ b - K = d
      BY <2>1
    <3>2. b % K = IF b < K THEN b ELSE b - K
      BY ONLY <3>1, OnceAround, K \in Nat \ {0}
    <3> QED
      BY <3>1, <3>2, <1>3
  <2>3. C * b + j = C * K + (C * d + j) /\ C * d + j \in Nat
    BY <2>1
  <2>4. C * d + j < C * K
    BY ChunkPlace
  <2>5. PICK N \in Nat \ {0} : N = C * K
    BY <1>1
  <2>6. PICK y \in Nat : y = C * d + j
    BY <2>3
  <2>7. PICK x \in 0 .. 2 * N - 1 : x = N + y
    BY <2>4, <2>5, <2>6
  <2>8. x % N = IF x < N THEN x ELSE x - N
    BY ONLY OnceAround, N \in Nat \ {0}, x \in 0 .. 2 * N - 1
  <2>9. x % N = y
    BY <2>7, <2>8
  <2> QED
    BY <2>2, <2>3, <2>5, <2>6, <2>7, <2>9
<1> QED
  BY <1>2, <1>3

\* Growing gives more chunks and room for what it was asked for.
LEMMA MoreChunks ==
  ASSUME NEW K \in Nat \ {0}, NEW n \in Nat, n > ChunkSize * K
  PROVE  /\ NewNumChunks(n) \in Nat /\ K < NewNumChunks(n)
         /\ n <= ChunkSize * NewNumChunks(n)
<1>a. PICK C \in Nat \ {0} : C = ChunkSize
  BY ChunkSizeAssumption
<1>b. PICK m \in Nat : m = n * 2
  OBVIOUS
<1>1. PICK q \in Nat, j \in 0 .. C - 1 : m = C * q + j /\ m \div C = q
  BY Quotient
<1>2. NewNumChunks(n) = q + 1
  BY <1>a, <1>b, <1>1 DEF NewNumChunks
<1>3. C * (q + 1) = C * q + C /\ C * q \in Nat
  OBVIOUS
<1>4. m < C * (q + 1)
  BY <1>1, <1>3
<1>5. C * K \in Nat /\ C * (q + 1) \in Nat /\ C * K + 0 = C * K
  OBVIOUS
<1>6. C * K < C * (q + 1) /\ n <= C * (q + 1)
  BY <1>a, <1>b, <1>4, <1>5
<1>7. C * K + 0 < C * (q + 1) <=> K < q + 1
  BY ChunkPlace
<1> QED
  BY <1>a, <1>2, <1>5, <1>6, <1>7

\* The elements of a ring that has grown are where they were.
LEMMA GrownItem ==
  ASSUME NEW r, IsRing(r), NEW n \in Nat, n > Capacity(r),
         NEW i \in 0 .. Capacity(r) - 1
  PROVE  /\ GrowToFit(r, n).start \in 0 .. Capacity(GrowToFit(r, n)) - 1
         /\ Item(GrowToFit(r, n), i) = Item(r, i)
<1> DEFINE g == GrowToFit(r, n)
           cell(y, z) == IF y < r.chunks THEN InChunk(r, ChunkOffset(r, y), z)
                         ELSE IF y = r.chunks THEN InChunk(r, ChunkOffset(r, 0), z)
                         ELSE Junk
<1>a. PICK C \in Nat \ {0} : C = ChunkSize
  BY ChunkSizeAssumption
<1>b. PICK K \in Nat \ {0} : K = r.chunks
  BY DEF IsRing
<1>c. PICK M \in Nat \ {0} : M = NewNumChunks(n) /\ K < M
  BY <1>b, MoreChunks DEF Capacity
<1>d. C * K \in Nat \ {0} /\ C * M \in Nat \ {0} /\ Capacity(r) = C * K
  BY <1>a, <1>b, <1>c, CapacityIs DEF Capacity
<1>e. PICK s \in Nat : s = r.start /\ s < C * K
  BY <1>d DEF IsRing
<1>f. PICK a \in Nat, o \in 0 .. C - 1 : s = C * a + o /\ s \div C = a /\ s % C = o
  BY Quotient
<1>g. a < K
  BY <1>e, <1>f, ChunkPlace
<1>h. PICK k \in Nat : k = i + o
  BY <1>d
<1>i. PICK c \in Nat, j \in 0 .. C - 1 : k = C * c + j /\ k \div C = c /\ k % C = j
  BY Quotient
<1>1. /\ g.chunks = M /\ g.start = o
      /\ g.cells = [x \in 0 .. C * M - 1 |-> cell(x \div C, x % C)]
  <2>1. ~ (n <= Capacity(r) \/ NewNumChunks(n) <= r.chunks)
    BY <1>b, <1>c, <1>d
  <2> QED
    BY <2>1, <1>a, <1>b, <1>c, <1>e, <1>f DEF GrowToFit
<1>2. C * K + C <= C * M
  <2>1. C * K + (C - 1) < C * M <=> K < M
    BY ChunkPlace
  <2> QED
    BY <2>1, <1>c, <1>d
<1>3. k < C * K + C
  BY <1>d, <1>h
<1>4. c <= K
  <2>1. C * (K + 1) = C * K + C
    OBVIOUS
  <2>2. C * c + j < C * (K + 1) <=> c < K + 1
    BY ChunkPlace
  <2> QED
    BY <2>1, <2>2, <1>3, <1>i
<1>5. Offset(g, i) = k
  <2>1. PICK N \in Nat \ {0} : N = C * M
    BY <1>d
  <2>2. k % N = k
    BY <2>1, <1>2, <1>3, <1>d
  <2> QED
    BY <2>1, <2>2, <1>1, <1>a, <1>h DEF Offset, Capacity
<1>6. i + s = C * (a + c) + j /\ a + c \in 0 .. 2 * K - 1
  <2>1. i + s = C * a + C * c + j /\ C * (a + c) = C * a + C * c
    BY <1>d, <1>f, <1>h, <1>i
  <2> QED
    BY <2>1, <1>4, <1>g
<1>7. Offset(r, i) = C * ((a + c) % K) + j
  <2>1. PICK b \in 0 .. 2 * K - 1 : b = a + c
    BY <1>6
  <2>2. (C * b + j) % (C * K) = C * (b % K) + j
    BY ChunkAround
  <2> QED
    BY <2>1, <2>2, <1>6, <1>d, <1>e DEF Offset
<1>8. g.cells[k] = IF c < K THEN InChunk(r, ChunkOffset(r, c), j)
                  ELSE InChunk(r, ChunkOffset(r, 0), j)
  <2>1. k \in 0 .. C * M - 1
    BY <1>2, <1>3, <1>d
  <2>2. g.cells[k] = cell(k \div C, k % C)
    <3> HIDE DEF g, cell
    <3> QED
      BY <2>1, <1>1
  <2>3. g.cells[k] = cell(c, j)
    <3> HIDE DEF g, cell
    <3> QED
      BY <2>2, <1>i
  <2> HIDE DEF g
  <2> QED
    BY <2>3, <1>4, <1>b
<1>9. ChunkOffset(r, c) = (a + c) % K /\ ChunkOffset(r, 0) = a % K
  BY <1>a, <1>b, <1>e, <1>f DEF ChunkOffset
<1>10. c = K => (a + c) % K = a % K
  <2>1. PICK b \in 0 .. 2 * K - 1 : b = a + K
    BY <1>g
  <2>2. b % K = IF b < K THEN b ELSE b - K
    BY ONLY OnceAround, K \in Nat \ {0}, b \in 0 .. 2 * K - 1
  <2>3. b % K = a
    BY <2>1, <2>2
  <2>4. a % K = a
    BY <1>g
  <2> QED
    BY <2>1, <2>3, <2>4
<1>11. Item(g, i) = InChunk(r, (a + c) % K, j)
  BY <1>4, <1>5, <1>8, <1>9, <1>10 DEF Item
<1>12. Item(r, i) = InChunk(r, (a + c) % K, j)
  BY <1>7, <1>a DEF Item, InChunk
<1>13. g.start \in 0 .. Capacity(g) - 1
  <2>1. Capacity(g) = C * M
    BY <1>1, <1>a DEF Capacity
  <2>2. o < C * M
    BY <1>2, <1>d
  <2> HIDE DEF g
  <2> QED
    BY <2>1, <2>2, <1>1, <1>d
<1> QED
  BY <1>11, <1>12, <1>13

LEMMA GrownRing ==
  ASSUME NEW r, IsRing(r), NEW n \in Nat
  PROVE  /\ IsRing(GrowToFit(r, n))
         /\ n <= Capacity(GrowToFit(r, n))
         /\ Capacity(r) <= Capacity(GrowToFit(r, n))
         /\ \A i \in 0 .. Capacity(r) - 1 : Item(GrowToFit(r, n), i) = Item(r, i)
<1> DEFINE g == GrowToFit(r, n)
           cell(y, z) == IF y < r.chunks THEN InChunk(r, ChunkOffset(r, y), z)
                         ELSE IF y = r.chunks THEN InChunk(r, ChunkOffset(r, 0), z)
                         ELSE Junk
<1>a. PICK C \in Nat \ {0} : C = ChunkSize
  BY ChunkSizeAssumption
<1>b. PICK K \in Nat \ {0} : K = r.chunks
  BY DEF IsRing
<1>c. C * K \in Nat \ {0} /\ Capacity(r) = C * K
  BY <1>a, <1>b, CapacityIs DEF Capacity
<1>1. CASE n <= Capacity(r)
  <2>1. g = r
    BY <1>1 DEF GrowToFit
  <2> QED
    BY <2>1, <1>1, <1>c
<1>2. CASE n > Capacity(r)
  <2>1. PICK M \in Nat \ {0} : M = NewNumChunks(n) /\ K < M /\ n <= C * M
    BY <1>2, <1>a, <1>b, MoreChunks DEF Capacity
  <2>2. g = [chunks |-> M, start |-> r.start % C,
             cells |-> [x \in 0 .. C * M - 1 |-> cell(x \div C, x % C)]]
    <3>1. ~ (n <= Capacity(r) \/ NewNumChunks(n) <= r.chunks)
      BY <2>1, <1>2, <1>b, <1>c
    <3> QED
      BY <3>1, <2>1, <1>a, <1>b DEF GrowToFit
  <2>3. ASSUME NEW y \in Nat PROVE ChunkOffset(r, y) \in 0 .. K - 1
    <3>1. PICK x \in Nat : x = r.start \div C + y
      <4>1. r.start \in Nat
        BY <1>c DEF IsRing
      <4>2. PICK q \in Nat, j \in 0 .. C - 1 : r.start \div C = q
        BY <4>1, Quotient
      <4> QED
        BY <4>2
    <3>2. x % K \in 0 .. K - 1
      OBVIOUS
    <3> QED
      BY <3>1, <3>2, <1>a, <1>b DEF ChunkOffset
  <2>4. ASSUME NEW y \in Nat, NEW z \in 0 .. C - 1
        PROVE  InChunk(r, ChunkOffset(r, y), z) \in Cells
    <3>1. PICK h \in 0 .. K - 1 : h = ChunkOffset(r, y)
      BY <2>3
    <3>2. C * h + z < C * K /\ C * h + z \in Nat
      BY ChunkPlace
    <3>3. C * h + z \in 0 .. Capacity(r) - 1
      BY <3>2, <1>c
    <3>4. r.cells[C * h + z] \in Cells
      BY <3>3 DEF IsRing
    <3> QED
      BY <3>1, <3>4, <1>a DEF InChunk
  <2>5. g.cells \in [0 .. C * M - 1 -> Cells]
    <3>1. ASSUME NEW x \in 0 .. C * M - 1 PROVE cell(x \div C, x % C) \in Cells
      <4>1. PICK q \in Nat, j \in 0 .. C - 1 : x \div C = q /\ x % C = j
        BY Quotient
      <4>2. InChunk(r, ChunkOffset(r, q), j) \in Cells
        BY <2>4
      <4>3. InChunk(r, ChunkOffset(r, 0), j) \in Cells
        BY <2>4
      <4>4. Junk \in Cells
        BY DEF Cells
      <4> QED
        BY <4>1, <4>2, <4>3, <4>4
    <3> HIDE DEF g, cell
    <3>2. [x \in 0 .. C * M - 1 |-> cell(x \div C, x % C)] \in [0 .. C * M - 1 -> Cells]
      BY ONLY <3>1
    <3>3. g.cells = [x \in 0 .. C * M - 1 |-> cell(x \div C, x % C)]
      BY <2>2
    <3> QED
      BY <3>2, <3>3
  <2>6. Capacity(g) = C * M /\ g.chunks = M
    BY <2>2, <1>a DEF Capacity
  <2>7. C * M \in Nat \ {0} /\ C * K < C * M
    <3>1. C * K + 0 < C * M <=> K < M
      BY ChunkPlace
    <3> QED
      BY <3>1, <2>1, <1>c
  <2>8. g.start \in 0 .. Capacity(g) - 1
    <3>1. 0 \in 0 .. Capacity(r) - 1
      BY <1>c
    <3> QED
      BY <3>1, <1>2, GrownItem
  <2>9. IsRing(g)
    <3>1. g = [chunks |-> g.chunks, start |-> g.start, cells |-> g.cells]
      BY <2>2
    <3> HIDE DEF g
    <3> QED
      BY <3>1, <2>5, <2>6, <2>7, <2>8 DEF IsRing
  <2>10. n <= Capacity(g) /\ Capacity(r) <= Capacity(g)
    BY <2>1, <2>6, <2>7, <1>c
  <2>11. \A i \in 0 .. Capacity(r) - 1 : Item(g, i) = Item(r, i)
    BY <1>2, GrownItem
  <2> QED
    BY <2>9, <2>10, <2>11
<1> QED
  BY <1>1, <1>2, <1>c

\* In w the cells of r are written anew, each by the index of its element.
IsEdited(w, r, f) ==
  w = [chunks |-> r.chunks, start |-> r.start,
       cells |-> [k \in DOMAIN r.cells |-> f[IndexAt(r, k)]]]

LEMMA EditedRing ==
  ASSUME NEW r, IsRing(r), NEW f \in [0 .. Capacity(r) - 1 -> Cells],
         NEW w, IsEdited(w, r, f)
  PROVE  /\ IsRing(w) /\ Capacity(w) = Capacity(r)
         /\ \A i \in 0 .. Capacity(r) - 1 : Item(w, i) = f[i]
<1>a. PICK new : new = [k \in DOMAIN r.cells |-> f[IndexAt(r, k)]]
  OBVIOUS
<1>b. w = [chunks |-> r.chunks, start |-> r.start, cells |-> new]
  BY <1>a DEF IsEdited
<1>1. \A k \in 0 .. Capacity(r) - 1 : IndexAt(r, k) \in 0 .. Capacity(r) - 1
  BY RingPlaces
<1>2. DOMAIN r.cells = 0 .. Capacity(r) - 1
  BY DEF IsRing
<1>3. new \in [0 .. Capacity(r) - 1 -> Cells]
  BY <1>1, <1>2, <1>a
<1>4. /\ IsRing(w) /\ Capacity(w) = Capacity(r)
      /\ \A i : Item(w, i) = new[Offset(r, i)]
  <2>1. w.chunks = r.chunks /\ w.start = r.start /\ w.cells = new
    BY <1>b
  <2>2. Capacity(w) = Capacity(r) /\ \A i : Offset(w, i) = Offset(r, i)
    BY <2>1 DEF Capacity, Offset
  <2>3. w = [chunks |-> w.chunks, start |-> w.start, cells |-> w.cells]
    BY ONLY <1>b, <2>1
  <2>4. IsRing(w)
    BY ONLY <1>3, <2>1, <2>2, <2>3, IsRing(r) DEF IsRing
  <2> QED
    BY <2>1, <2>2, <2>4 DEF Item
<1>5. ASSUME NEW i \in 0 .. Capacity(r) - 1 PROVE Item(w, i) = f[i]
  <2>1. Offset(r, i) \in 0 .. Capacity(r) - 1 /\ IndexAt(r, Offset(r, i)) = i
    BY RingPlaces
  <2> QED
    BY <2>1, <1>2, <1>4, <1>a
<1> QED
  BY <1>4, <1>5

LEMMA ItemAt ==
  ASSUME NEW r, IsRing(r)
  PROVE  /\ \A i \in 0 .. Capacity(r) - 1 : Item(r, i) \in Cells
         /\ \A k \in 0 .. Capacity(r) - 1 : r.cells[k] = Item(r, IndexAt(r, k))
<1>1. \A i \in 0 .. Capacity(r) - 1 : Offset(r, i) \in 0 .. Capacity(r) - 1
  BY RingPlaces
<1>2. \A k \in 0 .. Capacity(r) - 1 : Offset(r, IndexAt(r, k)) = k
  BY RingPlaces
<1>3. \A k \in 0 .. Capacity(r) - 1 : r.cells[k] \in Cells
  BY DEF IsRing
<1> QED
  BY <1>1, <1>2, <1>3 DEF Item

\* The first n elements of a ring.
Elements(r, n) == [i \in 1 .. n |-> Item(r, i - 1)]

LEMMA ElementsAre ==
  ASSUME NEW r, IsRing(r), NEW n \in 0 .. Capacity(r)
  PROVE  /\ Elements(r, n) \in Seq(Cells)
         /\ Len(Elements(r, n)) = n
         /\ \A i \in 1 .. n : Elements(r, n)[i] = Item(r, i - 1)
<1>1. Capacity(r) \in Nat
  BY DEF IsRing
<1>2. n \in Nat
  BY <1>1
<1>3. \A i \in 1 .. n : Item(r, i - 1) \in Cells
  <2>1. \A i \in 1 .. n : i - 1 \in 0 .. Capacity(r) - 1
    BY <1>1, <1>2
  <2> QED
    BY <2>1, ItemAt
<1>4. [i \in 1 .. n |-> Item(r, i - 1)] \in Seq(Cells)
  <2> DEFINE e(i) == Item(r, i - 1)
  <2>1. \A i \in 1 .. n : e(i) \in Cells
    BY <1>3
  <2> HIDE DEF e
  <2>2. [i \in 1 .. n |-> e(i)] \in Seq(Cells)
    BY <1>2, <2>1, IsASeq
  <2> QED
    BY <2>2 DEF e
<1> QED
  BY <1>2, <1>4 DEF Elements

\* In t, v is put behind the first i elements of s.
IsInsertion(t, s, v, i) ==
  /\ Len(t) = Len(s) + Len(v)
  /\ \A k \in 1 .. i : t[k] = s[k]
  /\ \A k \in 1 .. Len(v) : t[i + k] = v[k]
  /\ \A k \in i + 1 .. Len(s) : t[k + Len(v)] = s[k]

LEMMA InsertedItems ==
  ASSUME NEW S, NEW s \in Seq(S), NEW v \in Seq(S), NEW t \in Seq(S),
         NEW i \in 0 .. Len(s), IsInsertion(t, s, v, i)
  PROVE  t = SubSeq(s, 1, i) \o v \o SubSeq(s, i + 1, Len(s))
<1>a. PICK m \in Nat : m = Len(s)
  BY LenProperties
<1>b. PICK n \in Nat : n = Len(v)
  BY LenProperties
<1>d. /\ Len(t) = m + n
      /\ \A k \in 1 .. i : t[k] = s[k]
      /\ \A k \in 1 .. n : t[i + k] = v[k]
      /\ \A k \in i + 1 .. m : t[k + n] = s[k]
  BY ONLY IsInsertion(t, s, v, i), <1>a, <1>b DEF IsInsertion
<1>c. i \in Nat /\ i <= m /\ \A k \in 1 .. m : s[k] \in S
  BY <1>a, LenProperties
<1> DEFINE p == SubSeq(s, 1, i)
           q == SubSeq(s, i + 1, m)
<1>1. /\ p \in Seq(S) /\ Len(p) = i
      /\ \A k \in 1 .. i : p[k] = s[k]
  <2>1. \A k \in 1 .. i : s[k] \in S
    BY <1>c
  <2>2. /\ SubSeq(s, 1, i) \in Seq(S)
        /\ Len(SubSeq(s, 1, i)) = IF 1 <= i THEN i - 1 + 1 ELSE 0
        /\ \A k \in 1 .. i - 1 + 1 : SubSeq(s, 1, i)[k] = s[1 + k - 1]
    BY <2>1, <1>c, SubSeqProperties
  <2> QED
    BY <2>2, <1>c
<1>2. /\ q \in Seq(S) /\ Len(q) = m - i
      /\ \A k \in 1 .. m - i : q[k] = s[i + k]
  <2>1. \A k \in i + 1 .. m : s[k] \in S
    BY <1>c
  <2>2. /\ SubSeq(s, i + 1, m) \in Seq(S)
        /\ Len(SubSeq(s, i + 1, m)) = IF i + 1 <= m THEN m - (i + 1) + 1 ELSE 0
        /\ \A k \in 1 .. m - (i + 1) + 1 : SubSeq(s, i + 1, m)[k] = s[i + 1 + k - 1]
    BY <2>1, <1>c, SubSeqProperties
  <2> QED
    BY <2>2, <1>c
<1> HIDE DEF p, q
<1>3. /\ p \o v \in Seq(S) /\ Len(p \o v) = i + n
      /\ \A k \in 1 .. i + n : (p \o v)[k] = IF k <= i THEN p[k] ELSE v[k - i]
  BY <1>1, <1>b, ConcatProperties
<1> DEFINE pv == p \o v
<1> HIDE DEF pv
<1>4. pv \in Seq(S) /\ Len(pv) = i + n
      /\ \A k \in 1 .. i + n : pv[k] = IF k <= i THEN p[k] ELSE v[k - i]
  BY <1>3 DEF pv
<1>5. /\ pv \o q \in Seq(S) /\ Len(pv \o q) = i + n + (m - i)
      /\ \A k \in 1 .. i + n + (m - i) :
           (pv \o q)[k] = IF k <= i + n THEN pv[k] ELSE q[k - (i + n)]
  <2>1. /\ pv \o q \in Seq(S) /\ Len(pv \o q) = Len(pv) + Len(q)
        /\ \A k \in 1 .. Len(pv) + Len(q) :
             (pv \o q)[k] = IF k <= Len(pv) THEN pv[k] ELSE q[k - Len(pv)]
    BY ONLY <1>2, <1>4, ConcatProperties
  <2>2. Len(pv) = i + n /\ Len(q) = m - i
    BY <1>2, <1>4
  <2> QED
    BY ONLY <2>1, <2>2
<1>6. Len(t) = Len(pv \o q)
  BY <1>5, <1>c, <1>d
<1>7. ASSUME NEW k \in 1 .. Len(t) PROVE t[k] = (pv \o q)[k]
  <2>a. k \in Nat /\ 1 <= k /\ k <= m + n
    BY <1>d
  <2>1. (pv \o q)[k] = IF k <= i + n THEN pv[k] ELSE q[k - (i + n)]
    <3>1. i + n + (m - i) = m + n
      BY <1>c
    <3>2. k \in 1 .. i + n + (m - i)
      BY <3>1, <2>a
    <3> QED
      BY ONLY <3>2, <1>5
  <2>2. CASE k <= i
    <3>1. k \in 1 .. i /\ k <= i + n /\ k \in 1 .. i + n
      BY <2>2, <2>a, <1>c
    <3> QED
      BY <3>1, <2>1, <2>2, <1>1, <1>4, <1>d
  <2>3. CASE i < k /\ k <= i + n
    <3>1. k - i \in 1 .. n /\ k = i + (k - i) /\ k \in 1 .. i + n /\ ~ (k <= i)
      BY <2>3, <2>a, <1>c
    <3>2. t[k] = v[k - i]
      BY <3>1, <1>d
    <3> QED
      BY <3>1, <3>2, <2>1, <2>3, <1>4
  <2>4. CASE i + n < k
    <3>1. PICK h \in i + 1 .. m : k = h + n
      <4>1. k - n \in i + 1 .. m /\ k = (k - n) + n
        BY <2>4, <2>a, <1>c
      <4> QED
        BY <4>1
    <3>2. t[k] = s[h]
      BY <3>1, <1>d
    <3>3. h - i \in 1 .. m - i /\ h = i + (h - i) /\ k - (i + n) = h - i /\ ~ (k <= i + n)
      BY <3>1, <1>c, <2>4
    <3>4. q[k - (i + n)] = s[h]
      BY <3>3, <1>2
    <3>5. (pv \o q)[k] = q[k - (i + n)]
      BY ONLY <2>1, <3>3
    <3> QED
      BY ONLY <3>2, <3>4, <3>5
  <2>5. k <= i \/ (i < k /\ k <= i + n) \/ i + n < k
    BY <2>a, <1>c
  <2> QED
    BY ONLY <2>2, <2>3, <2>4, <2>5
<1>8. t = pv \o q
  BY <1>5, <1>6, <1>7, SeqEqual
<1> QED
  BY <1>8, <1>a DEF pv, p, q

\* In t, the element behind the first i ones of s is missing.
IsDeletion(t, s, i) ==
  /\ Len(t) = Len(s) - 1
  /\ \A k \in 1 .. i : t[k] = s[k]
  /\ \A k \in i + 1 .. Len(t) : t[k] = s[k + 1]

LEMMA DeletedItem ==
  ASSUME NEW S, NEW s \in Seq(S), NEW t \in Seq(S), NEW i \in 0 .. Len(s) - 1,
         IsDeletion(t, s, i)
  PROVE  t = L!RemoveAt(s, i + 1)
<1>a. PICK m \in Nat : m = Len(s)
  BY LenProperties
<1>d. /\ Len(t) = m - 1
      /\ \A k \in 1 .. i : t[k] = s[k]
      /\ \A k \in i + 1 .. m - 1 : t[k] = s[k + 1]
  BY ONLY IsDeletion(t, s, i), <1>a DEF IsDeletion
<1>c. i \in Nat /\ i < m /\ \A k \in 1 .. m : s[k] \in S
  BY <1>a, LenProperties
<1> DEFINE p == SubSeq(s, 1, i)
           q == SubSeq(s, i + 2, m)
<1>1. /\ p \in Seq(S) /\ Len(p) = i
      /\ \A k \in 1 .. i : p[k] = s[k]
  <2>1. \A k \in 1 .. i : s[k] \in S
    BY <1>c
  <2>2. /\ SubSeq(s, 1, i) \in Seq(S)
        /\ Len(SubSeq(s, 1, i)) = IF 1 <= i THEN i - 1 + 1 ELSE 0
        /\ \A k \in 1 .. i - 1 + 1 : SubSeq(s, 1, i)[k] = s[1 + k - 1]
    BY <2>1, <1>c, SubSeqProperties
  <2> QED
    BY <2>2, <1>c
<1>2. /\ q \in Seq(S) /\ Len(q) = m - i - 1
      /\ \A k \in 1 .. m - i - 1 : q[k] = s[i + k + 1]
  <2>1. \A k \in i + 2 .. m : s[k] \in S
    BY <1>c
  <2>2. /\ SubSeq(s, i + 2, m) \in Seq(S)
        /\ Len(SubSeq(s, i + 2, m)) = IF i + 2 <= m THEN m - (i + 2) + 1 ELSE 0
        /\ \A k \in 1 .. m - (i + 2) + 1 : SubSeq(s, i + 2, m)[k] = s[i + 2 + k - 1]
    BY <2>1, <1>c, SubSeqProperties
  <2> QED
    BY <2>2, <1>c
<1>3. p \o q = L!RemoveAt(s, i + 1)
  <2>1. (i + 1) - 1 = i /\ i + 1 + 1 = i + 2
    BY <1>c
  <2>2. L!RemoveAt(s, i + 1) = SubSeq(s, 1, (i + 1) - 1) \o SubSeq(s, i + 1 + 1, Len(s))
    BY DEF L!RemoveAt
  <2>3. SubSeq(s, 1, (i + 1) - 1) = p
    BY <2>1
  <2>4. SubSeq(s, i + 1 + 1, Len(s)) = q
    BY <2>1, <1>a
  <2> QED
    BY ONLY <2>2, <2>3, <2>4
<1> HIDE DEF p, q
<1>4. /\ p \o q \in Seq(S) /\ Len(p \o q) = m - 1
      /\ \A k \in 1 .. m - 1 : (p \o q)[k] = IF k <= i THEN p[k] ELSE q[k - i]
  <2>1. /\ p \o q \in Seq(S) /\ Len(p \o q) = Len(p) + Len(q)
        /\ \A k \in 1 .. Len(p) + Len(q) :
             (p \o q)[k] = IF k <= Len(p) THEN p[k] ELSE q[k - Len(p)]
    BY ONLY <1>1, <1>2, ConcatProperties
  <2>2. Len(p) = i /\ Len(p) + Len(q) = m - 1
    BY <1>1, <1>2, <1>c
  <2> QED
    BY ONLY <2>1, <2>2
<1>5. ASSUME NEW k \in 1 .. Len(t) PROVE t[k] = (p \o q)[k]
  <2>1. k \in Nat /\ 1 <= k /\ k <= m - 1
    BY <1>c, <1>d
  <2>2. (p \o q)[k] = IF k <= i THEN p[k] ELSE q[k - i]
    BY <2>1, <1>4, <1>c
  <2>3. CASE k <= i
    BY <2>1, <2>2, <2>3, <1>1, <1>d
  <2>4. CASE i < k
    <3>1. k - i \in 1 .. m - i - 1 /\ k + 1 = i + (k - i) + 1 /\ ~ (k <= i)
      BY <2>1, <2>4, <1>c
    <3>2. q[k - i] = s[k + 1]
      BY <3>1, <1>2
    <3>3. t[k] = s[k + 1]
      BY <2>1, <2>4, <1>c, <1>d
    <3>4. (p \o q)[k] = q[k - i]
      BY ONLY <3>1, <2>2
    <3> QED
      BY ONLY <3>2, <3>3, <3>4
  <2>5. k <= i \/ i < k
    BY <2>1, <1>c
  <2> QED
    BY ONLY <2>3, <2>4, <2>5
<1>6. Len(t) = Len(p \o q)
  BY <1>4, <1>d
<1>7. t = p \o q
  BY <1>4, <1>5, <1>6, SeqEqual
<1> QED
  BY <1>3, <1>7

-----------------------------------------------------------------------------
\* An array is a ring with as many elements as fit in it, and the next value is one.
ArrayInv ==
  /\ IsRing(Ring)
  /\ num_elements \in 0 .. Capacity(Ring)
  /\ fresh \in Nat

LEMMA ContentIs ==
  /\ Content = Elements(Ring, num_elements)
  /\ Content' = Elements(Ring', num_elements')
BY DEF Content, Elements, Item, Offset, Ring, Capacity

LEMMA RingBecomes ==
  ASSUME NEW r, NEW new, Become([r EXCEPT !.cells = new]), IsRing(r)
  PROVE  Ring' = [chunks |-> r.chunks, start |-> r.start, cells |-> new]
<1>1. /\ [r EXCEPT !.cells = new].chunks = r.chunks
      /\ [r EXCEPT !.cells = new].start = r.start
      /\ [r EXCEPT !.cells = new].cells = new
  BY DEF IsRing
<1> QED
  BY <1>1 DEF Become, Ring

\* What the steps do to the elements: v comes in between, one goes, one changes.
LEMMA ElementsInserted ==
  ASSUME NEW r, IsRing(r), NEW n \in 0 .. Capacity(r), NEW w, IsRing(w),
         NEW v \in Seq(Cells), NEW i \in 0 .. n, n + Len(v) <= Capacity(w),
         \A k \in 0 .. i - 1 : Item(w, k) = Item(r, k),
         \A k \in 1 .. Len(v) : Item(w, i + k - 1) = v[k],
         \A k \in i .. n - 1 : Item(w, k + Len(v)) = Item(r, k)
  PROVE  Elements(w, n + Len(v)) =
           SubSeq(Elements(r, n), 1, i) \o v
             \o SubSeq(Elements(r, n), i + 1, Len(Elements(r, n)))
<1>a. PICK m \in Nat : m = Len(v)
  BY LenProperties
<1>b. Capacity(r) \in Nat /\ Capacity(w) \in Nat /\ n \in Nat /\ i \in Nat /\ i <= n
  BY DEF IsRing
<1>c. n + m \in 0 .. Capacity(w)
  BY <1>a, <1>b
<1>d. PICK s \in Seq(Cells) :
      s = Elements(r, n) /\ Len(s) = n /\ \A k \in 1 .. n : s[k] = Item(r, k - 1)
  BY ElementsAre
<1>e. PICK t \in Seq(Cells) :
      t = Elements(w, n + m) /\ Len(t) = n + m /\ \A k \in 1 .. n + m : t[k] = Item(w, k - 1)
  BY <1>c, ElementsAre
<1>1. \A k \in 1 .. i : t[k] = s[k]
  <2> TAKE k \in 1 .. i
  <2>1. k - 1 \in 0 .. i - 1 /\ k \in 1 .. n /\ k \in 1 .. n + m
    BY <1>b
  <2> QED
    BY <2>1, <1>d, <1>e
<1>2. \A k \in 1 .. m : t[i + k] = v[k]
  <2> TAKE k \in 1 .. m
  <2>1. i + k \in 1 .. n + m
    BY <1>b
  <2>2. Item(w, i + k - 1) = v[k]
    BY <1>a
  <2> QED
    BY <2>1, <2>2, <1>e
<1>3. \A k \in i + 1 .. n : t[k + m] = s[k]
  <2> TAKE k \in i + 1 .. n
  <2>1. PICK h \in i .. n - 1 : k = h + 1
    <3>1. k - 1 \in i .. n - 1 /\ k = (k - 1) + 1
      BY <1>b
    <3> QED
      BY <3>1
  <2>2. k \in 1 .. n /\ k + m \in 1 .. n + m /\ k + m - 1 = h + m /\ k - 1 = h
    BY <2>1, <1>b
  <2>3. Item(w, h + m) = Item(r, h)
    BY <1>a
  <2>4. t[k + m] = Item(w, k + m - 1)
    BY ONLY <2>2, <1>e
  <2>5. s[k] = Item(r, k - 1)
    BY ONLY <2>2, <1>d
  <2> QED
    BY ONLY <2>2, <2>3, <2>4, <2>5
<1>4. t = SubSeq(s, 1, i) \o v \o SubSeq(s, i + 1, Len(s))
  <2>1. IsInsertion(t, s, v, i)
    <3>1. Len(t) = Len(s) + Len(v) /\ Len(v) = m /\ Len(s) = n
      BY <1>a, <1>b, <1>d, <1>e
    <3> QED
      BY ONLY <3>1, <1>1, <1>2, <1>3 DEF IsInsertion
  <2>2. i \in 0 .. Len(s)
    BY <1>b, <1>d
  <2> QED
    BY ONLY <2>1, <2>2, s \in Seq(Cells), t \in Seq(Cells), v \in Seq(Cells), InsertedItems
<1> QED
  BY <1>4, <1>a, <1>d, <1>e

\* add() and push_back() put one value in.
LEMMA AddStep ==
  ASSUME ArrayInv, NEW i \in 0 .. num_elements, Add(i, fresh), fresh' = fresh + 1
  PROVE  ArrayInv' /\ L!Insert(i, 1)
<1>a. PICK n \in Nat : n = num_elements /\ i \in Nat /\ i <= n
  BY DEF ArrayInv, IsRing
<1>b. IsRing(Ring) /\ n \in 0 .. Capacity(Ring) /\ fresh \in Nat /\ Capacity(Ring) \in Nat
  BY <1>a DEF ArrayInv, IsRing
<1>c. PICK g : g = GrowToFit(Ring, n + 1)
  OBVIOUS
<1>d. /\ IsRing(g) /\ n + 1 <= Capacity(g) /\ Capacity(g) \in Nat
      /\ \A k \in 0 .. n - 1 : Item(g, k) = Item(Ring, k)
  <2>1. /\ IsRing(g) /\ n + 1 <= Capacity(g)
        /\ \A k \in 0 .. Capacity(Ring) - 1 : Item(g, k) = Item(Ring, k)
    BY <1>b, <1>c, GrownRing
  <2>2. \A k \in 0 .. n - 1 : k \in 0 .. Capacity(Ring) - 1
    BY <1>b
  <2> QED
    BY <2>1, <2>2 DEF IsRing
<1>e. PICK N \in Nat : N = Capacity(g) /\ n + 1 <= N
  BY <1>d
<1>f. PICK f : f = [j \in 0 .. N - 1 |->
                     IF j = i THEN fresh
                     ELSE IF j \in i + 1 .. n THEN Item(g, j - 1) ELSE Item(g, j)]
  OBVIOUS
<1>1. f \in [0 .. Capacity(g) - 1 -> Cells]
  <2>1. \A j \in 0 .. N - 1 : Item(g, j) \in Cells
    BY <1>d, <1>e, ItemAt
  <2>2. fresh \in Cells
    BY <1>b DEF Cells
  <2>3. \A j \in 0 .. N - 1 : j \in i + 1 .. n => j - 1 \in 0 .. N - 1
    BY <1>a
  <2> QED
    BY <2>1, <2>2, <2>3, <1>e, <1>f
<1>g. PICK new : new = [k \in DOMAIN g.cells |-> f[IndexAt(g, k)]]
  OBVIOUS
<1>2. /\ Become([g EXCEPT !.cells = new])
      /\ num_elements' = n + 1 /\ out' = None
  <2>1. ASSUME NEW k \in DOMAIN g.cells
        PROVE  f[IndexAt(g, k)] =
                 LET j == IndexAt(g, k)
                 IN  IF j = i THEN fresh
                     ELSE IF j \in i + 1 .. n THEN g.cells[Offset(g, j - 1)]
                     ELSE g.cells[k]
    <3>1. k \in 0 .. Capacity(g) - 1
      BY <1>d DEF IsRing
    <3>2. IndexAt(g, k) \in 0 .. N - 1 /\ g.cells[k] = Item(g, IndexAt(g, k))
      BY <3>1, <1>d, <1>e, RingPlaces, ItemAt
    <3> QED
      BY <3>2, <1>f DEF Item
  <2> QED
    BY <2>1, <1>a, <1>c, <1>g DEF Add
<1>3. Ring' = [chunks |-> g.chunks, start |-> g.start, cells |-> new]
  BY ONLY <1>2, <1>d, RingBecomes
<1>h. PICK w : w = Ring'
  OBVIOUS
<1>4. IsRing(w) /\ Capacity(w) = N /\ \A j \in 0 .. N - 1 : Item(w, j) = f[j]
  <2>1. IsEdited(w, g, f)
    BY <1>3, <1>g, <1>h DEF IsEdited
  <2>2. /\ IsRing(w) /\ Capacity(w) = Capacity(g)
        /\ \A j \in 0 .. Capacity(g) - 1 : Item(w, j) = f[j]
    BY ONLY <2>1, <1>d, <1>1, EditedRing
  <2> QED
    BY ONLY <2>2, <1>e
<1>5. ArrayInv'
  <2>1. num_elements' \in 0 .. Capacity(w)
    BY <1>2, <1>4, <1>e
  <2>2. fresh' \in Nat
    BY <1>b
  <2>3. IsRing(w)' <=> IsRing(w)
    OBVIOUS
  <2> QED
    BY <2>1, <2>2, <1>4, <1>h DEF ArrayInv, IsRing, Capacity
<1>i. PICK v \in Seq(Cells) : v = <<fresh>> /\ Len(v) = 1 /\ v[1] = fresh
  <2>1. fresh \in Cells
    BY <1>b DEF Cells
  <2>2. <<fresh>> \in Seq(Cells)
    BY ONLY <2>1
  <2> QED
    BY <2>2
<1>6. Elements(w, n + Len(v)) =
        SubSeq(Elements(Ring, n), 1, i) \o v
          \o SubSeq(Elements(Ring, n), i + 1, Len(Elements(Ring, n)))
  <2>1. n + Len(v) <= Capacity(w)
    BY <1>e, <1>4, <1>i
  <2>2. \A k \in 0 .. i - 1 : Item(w, k) = Item(Ring, k)
    <3> TAKE k \in 0 .. i - 1
    <3>1. k \in 0 .. N - 1 /\ k # i /\ k \notin i + 1 .. n /\ k \in 0 .. n - 1
      BY <1>a, <1>e
    <3> QED
      BY <3>1, <1>d, <1>4, <1>f
  <2>3. \A k \in 1 .. Len(v) : Item(w, i + k - 1) = v[k]
    <3> TAKE k \in 1 .. Len(v)
    <3>1. k = 1 /\ i + k - 1 = i /\ i \in 0 .. N - 1
      BY <1>a, <1>e, <1>i
    <3> QED
      BY <3>1, <1>4, <1>f, <1>i
  <2>4. \A k \in i .. n - 1 : Item(w, k + Len(v)) = Item(Ring, k)
    <3> TAKE k \in i .. n - 1
    <3>1. /\ k + 1 \in 0 .. N - 1 /\ k + 1 # i /\ k + 1 \in i + 1 .. n
          /\ (k + 1) - 1 = k /\ k \in 0 .. n - 1
      BY <1>a, <1>e
    <3>2. Item(w, k + 1) = Item(g, (k + 1) - 1)
      BY <3>1, <1>4, <1>f
    <3> QED
      BY <3>1, <3>2, <1>d, <1>i
  <2>5. i \in 0 .. n /\ n \in 0 .. Capacity(Ring)
    BY <1>a, <1>b
  <2> QED
    BY ONLY <2>1, <2>2, <2>3, <2>4, <2>5, <1>4, <1>b, v \in Seq(Cells), ElementsInserted
<1>7. v = [j \in 1 .. 1 |-> fresh + j - 1]
  <2>1. \A j \in 1 .. 1 : j = 1 /\ fresh + j - 1 = fresh
    BY <1>b
  <2>2. <<fresh>> = [j \in 1 .. 1 |-> fresh]
    OBVIOUS
  <2> QED
    BY <2>1, <2>2, <1>i
<1>8. Content = Elements(Ring, n) /\ Content' = Elements(w, n + Len(v))
  BY ContentIs, <1>a, <1>h, <1>i, <1>2
<1>9. Content' = SubSeq(Content, 1, i) \o [j \in 1 .. 1 |-> fresh + j - 1]
                   \o SubSeq(Content, i + 1, Len(Content))
  BY ONLY <1>6, <1>7, <1>8
<1> QED
  BY <1>2, <1>5, <1>9 DEF L!Insert

LEMMA ValuesAre ==
  ASSUME fresh \in Nat, NEW m \in Nat
  PROVE  /\ Values(m) \in Seq(Cells) /\ Len(Values(m)) = m
         /\ \A j \in 1 .. m : Values(m)[j] = fresh + j - 1
<1> DEFINE e(j) == fresh + j - 1
<1>1. \A j \in 1 .. m : e(j) \in Cells
  BY DEF Cells
<1> HIDE DEF e
<1>2. [j \in 1 .. m |-> e(j)] \in Seq(Cells)
  BY <1>1, IsASeq
<1> QED
  BY <1>2 DEF e, Values

\* concat() puts all values of an array behind the end.
LEMMA AddAllStep ==
  ASSUME ArrayInv, NEW m \in Nat, AddAll(num_elements, Values(m)), fresh' = fresh + m
  PROVE  ArrayInv' /\ L!Insert(num_elements, m)
<1>a. PICK n \in Nat : n = num_elements
  BY DEF ArrayInv, IsRing
<1>b. IsRing(Ring) /\ n \in 0 .. Capacity(Ring) /\ fresh \in Nat /\ Capacity(Ring) \in Nat
  BY <1>a DEF ArrayInv, IsRing
<1>c. PICK g : g = GrowToFit(Ring, n + m)
  OBVIOUS
<1>d. /\ IsRing(g) /\ n + m <= Capacity(g) /\ Capacity(g) \in Nat
      /\ \A k \in 0 .. n - 1 : Item(g, k) = Item(Ring, k)
  <2>1. /\ IsRing(g) /\ n + m <= Capacity(g)
        /\ \A k \in 0 .. Capacity(Ring) - 1 : Item(g, k) = Item(Ring, k)
    BY <1>b, <1>c, GrownRing
  <2>2. \A k \in 0 .. n - 1 : k \in 0 .. Capacity(Ring) - 1
    BY <1>b
  <2> QED
    BY <2>1, <2>2 DEF IsRing
<1>e. PICK N \in Nat : N = Capacity(g) /\ n + m <= N
  BY <1>d
<1>i. PICK v \in Seq(Cells) :
      v = Values(m) /\ Len(v) = m /\ \A j \in 1 .. m : v[j] \in Cells
  <2>a. Values(m) \in Seq(Cells) /\ Len(Values(m)) = m
    BY ONLY <1>b, m \in Nat, ValuesAre
  <2>1. PICK v \in Seq(Cells) : v = Values(m)
    BY ONLY <2>a
  <2>2. Len(v) = m
    BY ONLY <2>a, <2>1
  <2>3. \A j \in 1 .. m : v[j] \in Cells
    BY ONLY <2>2, v \in Seq(Cells), LenProperties
  <2> QED
    BY <2>1, <2>2, <2>3
<1>f. PICK f : f = [j \in 0 .. N - 1 |->
                     IF j \in n .. n + m - 1 THEN v[j - n + 1] ELSE Item(g, j)]
  OBVIOUS
<1>1. f \in [0 .. Capacity(g) - 1 -> Cells]
  <2>1. \A j \in 0 .. N - 1 : Item(g, j) \in Cells
    BY <1>d, <1>e, ItemAt
  <2>2. \A j \in n .. n + m - 1 : v[j - n + 1] \in Cells
    <3>1. \A j \in n .. n + m - 1 : j - n + 1 \in 1 .. m
      OBVIOUS
    <3> QED
      BY <3>1, <1>i
  <2> QED
    BY <2>1, <2>2, <1>e, <1>f
<1>g. PICK new : new = [k \in DOMAIN g.cells |-> f[IndexAt(g, k)]]
  OBVIOUS
<1>2. /\ Become([g EXCEPT !.cells = new])
      /\ num_elements' = n + m /\ out' = None
  <2>1. ASSUME NEW k \in DOMAIN g.cells
        PROVE  f[IndexAt(g, k)] =
                 LET j == IndexAt(g, k)
                 IN  IF j \in n .. n + m - 1 THEN v[j - n + 1]
                     ELSE IF j \in n + m + 1 .. n + m THEN g.cells[Offset(g, j - m)]
                     ELSE g.cells[k]
    <3>1. k \in 0 .. Capacity(g) - 1
      BY <1>d DEF IsRing
    <3>2. IndexAt(g, k) \in 0 .. N - 1 /\ g.cells[k] = Item(g, IndexAt(g, k))
      BY <3>1, <1>d, <1>e, RingPlaces, ItemAt
    <3>3. IndexAt(g, k) \notin n + m + 1 .. n + m
      OBVIOUS
    <3> QED
      BY <3>2, <3>3, <1>f
  <2> QED
    BY <2>1, <1>a, <1>c, <1>g, <1>i DEF AddAll
<1>3. Ring' = [chunks |-> g.chunks, start |-> g.start, cells |-> new]
  BY ONLY <1>2, <1>d, RingBecomes
<1>h. PICK w : w = Ring'
  OBVIOUS
<1>4. IsRing(w) /\ Capacity(w) = N /\ \A j \in 0 .. N - 1 : Item(w, j) = f[j]
  <2>1. IsEdited(w, g, f)
    BY <1>3, <1>g, <1>h DEF IsEdited
  <2>2. /\ IsRing(w) /\ Capacity(w) = Capacity(g)
        /\ \A j \in 0 .. Capacity(g) - 1 : Item(w, j) = f[j]
    BY ONLY <2>1, <1>d, <1>1, EditedRing
  <2> QED
    BY ONLY <2>2, <1>e
<1>5. ArrayInv'
  <2>1. num_elements' \in 0 .. Capacity(w)
    BY <1>2, <1>4, <1>e
  <2>2. fresh' \in Nat
    BY <1>b
  <2> QED
    BY <2>1, <2>2, <1>4, <1>h DEF ArrayInv, IsRing, Capacity
<1>6. Elements(w, n + Len(v)) =
        SubSeq(Elements(Ring, n), 1, n) \o v
          \o SubSeq(Elements(Ring, n), n + 1, Len(Elements(Ring, n)))
  <2>1. n + Len(v) <= Capacity(w)
    BY <1>e, <1>4, <1>i
  <2>2. \A k \in 0 .. n - 1 : Item(w, k) = Item(Ring, k)
    <3> TAKE k \in 0 .. n - 1
    <3>1. k \in 0 .. N - 1 /\ k \notin n .. n + m - 1
      BY <1>a, <1>e
    <3> QED
      BY <3>1, <1>d, <1>4, <1>f
  <2>3. \A k \in 1 .. Len(v) : Item(w, n + k - 1) = v[k]
    <3> TAKE k \in 1 .. Len(v)
    <3>1. PICK j \in n .. n + m - 1 : j = n + k - 1 /\ j - n + 1 = k /\ j \in 0 .. N - 1
      BY <1>a, <1>e, <1>i
    <3> QED
      BY <3>1, <1>4, <1>f
  <2>4. \A k \in n .. n - 1 : Item(w, k + Len(v)) = Item(Ring, k)
    OBVIOUS
  <2>5. n \in 0 .. n /\ n \in 0 .. Capacity(Ring)
    BY <1>b
  <2> QED
    BY ONLY <2>1, <2>2, <2>3, <2>4, <2>5, <1>4, <1>b, v \in Seq(Cells), ElementsInserted
<1>7. v = [j \in 1 .. m |-> fresh + j - 1]
  BY <1>i DEF Values
<1>8. Content = Elements(Ring, n) /\ Content' = Elements(w, n + Len(v))
  BY ContentIs, <1>a, <1>h, <1>i, <1>2
<1>9. Content' = SubSeq(Content, 1, n) \o [j \in 1 .. m |-> fresh + j - 1]
                   \o SubSeq(Content, n + 1, Len(Content))
  BY ONLY <1>6, <1>7, <1>8
<1> QED
  BY <1>2, <1>5, <1>9, <1>a DEF L!Insert

LEMMA ElementsDeleted ==
  ASSUME NEW r, IsRing(r), NEW w, IsRing(w), NEW n \in Nat, n + 1 <= Capacity(r),
         n <= Capacity(w), NEW i \in 0 .. n,
         \A k \in 0 .. i - 1 : Item(w, k) = Item(r, k),
         \A k \in i .. n - 1 : Item(w, k) = Item(r, k + 1)
  PROVE  /\ Elements(w, n) = L!RemoveAt(Elements(r, n + 1), i + 1)
         /\ Elements(r, n + 1)[i + 1] = Item(r, i)
<1>a. /\ n + 1 \in 0 .. Capacity(r) /\ n \in 0 .. Capacity(w)
      /\ i \in Nat /\ i <= n
  BY DEF IsRing
<1>b. PICK s \in Seq(Cells) :
      s = Elements(r, n + 1) /\ Len(s) = n + 1 /\ \A k \in 1 .. n + 1 : s[k] = Item(r, k - 1)
  BY <1>a, ElementsAre
<1>c. PICK t \in Seq(Cells) :
      t = Elements(w, n) /\ Len(t) = n /\ \A k \in 1 .. n : t[k] = Item(w, k - 1)
  BY <1>a, ElementsAre
<1>1. \A k \in 1 .. i : t[k] = s[k]
  <2> TAKE k \in 1 .. i
  <2>1. k - 1 \in 0 .. i - 1 /\ k \in 1 .. n /\ k \in 1 .. n + 1
    BY <1>a
  <2> QED
    BY <2>1, <1>b, <1>c
<1>2. \A k \in i + 1 .. n : t[k] = s[k + 1]
  <2> TAKE k \in i + 1 .. n
  <2>1. PICK h \in i .. n - 1 : h = k - 1
    BY <1>a
  <2>2. k \in 1 .. n /\ k + 1 \in 1 .. n + 1 /\ (k + 1) - 1 = h + 1
    BY <2>1, <1>a
  <2>3. Item(w, h) = Item(r, h + 1)
    OBVIOUS
  <2>4. t[k] = Item(w, k - 1)
    BY ONLY <2>2, <1>c
  <2>5. s[k + 1] = Item(r, (k + 1) - 1)
    BY ONLY <2>2, <1>b
  <2> QED
    BY ONLY <2>1, <2>2, <2>3, <2>4, <2>5
<1>3. t = L!RemoveAt(s, i + 1)
  <2>1. IsDeletion(t, s, i)
    <3>1. Len(t) = Len(s) - 1 /\ Len(t) = n
      BY <1>b, <1>c
    <3> QED
      BY ONLY <3>1, <1>1, <1>2 DEF IsDeletion
  <2>2. i \in 0 .. Len(s) - 1
    BY <1>a, <1>b
  <2> QED
    BY ONLY <2>1, <2>2, s \in Seq(Cells), t \in Seq(Cells), DeletedItem
<1>4. s[i + 1] = Item(r, i)
  <2>1. i + 1 \in 1 .. n + 1 /\ (i + 1) - 1 = i
    BY <1>a
  <2>2. s[i + 1] = Item(r, (i + 1) - 1)
    BY ONLY <2>1, <1>b
  <2> QED
    BY ONLY <2>1, <2>2
<1> QED
  BY <1>3, <1>4, <1>b, <1>c

\* remove() takes an element out, and pop() the first one.
LEMMA RemoveStep ==
  ASSUME ArrayInv, NEW i \in 0 .. num_elements - 1, Remove(i), UNCHANGED fresh
  PROVE  ArrayInv' /\ L!Delete(i)
<1>a. PICK n \in Nat : num_elements = n + 1 /\ i \in Nat /\ i <= n
  <2>1. num_elements \in Nat
    BY DEF ArrayInv, IsRing
  <2>2. num_elements - 1 \in Nat /\ num_elements = (num_elements - 1) + 1
    BY <2>1
  <2> QED
    BY <2>2
<1>e. PICK N \in Nat : N = Capacity(Ring) /\ n + 1 <= N
  BY <1>a DEF ArrayInv, IsRing
<1>b. IsRing(Ring) /\ fresh \in Nat
  BY DEF ArrayInv
<1>f. PICK f : f = [j \in 0 .. N - 1 |->
                     IF j \in i .. n THEN cells[Offset(Ring, j + 1)] ELSE Item(Ring, j)]
  OBVIOUS
<1>1. f \in [0 .. Capacity(Ring) - 1 -> Cells]
  <2>1. \A j \in 0 .. N - 1 : Item(Ring, j) \in Cells
    BY <1>b, <1>e, ItemAt
  <2>2. \A j \in 0 .. N - 1 : cells[Offset(Ring, j + 1)] \in Cells
    <3> TAKE j \in 0 .. N - 1
    <3>1. Offset(Ring, j + 1) \in 0 .. N - 1
      <4>1. PICK x \in Nat : x = j + 1 + start_pos
        BY <1>b DEF IsRing, Ring
      <4>2. N \in Nat \ {0}
        BY <1>e
      <4>3. x % N \in 0 .. N - 1
        BY ONLY <4>2, x \in Nat
      <4> QED
        BY <4>1, <4>3, <1>e DEF Offset, Ring
    <3> QED
      BY <3>1, <1>b, <1>e DEF IsRing, Ring
  <2> QED
    BY <2>1, <2>2, <1>e, <1>f
<1>g. PICK new : new = [k \in DOMAIN Ring.cells |-> f[IndexAt(Ring, k)]]
  OBVIOUS
<1>2. cells' = new /\ num_elements' = n /\ out' = Item(Ring, i)
  <2>1. ASSUME NEW k \in DOMAIN cells
        PROVE  f[IndexAt(Ring, k)] =
                 LET j == IndexAt(Ring, k)
                 IN  IF j \in i .. n THEN cells[Offset(Ring, j + 1)] ELSE cells[k]
    <3>1. k \in 0 .. Capacity(Ring) - 1
      BY <1>b DEF IsRing, Ring
    <3>2. IndexAt(Ring, k) \in 0 .. N - 1 /\ Ring.cells[k] = Item(Ring, IndexAt(Ring, k))
      BY <3>1, <1>b, <1>e, RingPlaces, ItemAt
    <3>3. Ring.cells[k] = cells[k]
      BY DEF Ring
    <3> QED
      BY <3>2, <3>3, <1>f
  <2>2. num_elements - 1 = n
    BY <1>a
  <2>3. DOMAIN Ring.cells = DOMAIN cells /\ Item(Ring, i) = cells[Offset(Ring, i)]
    BY DEF Ring, Item
  <2> QED
    BY <2>1, <2>2, <2>3, <1>g DEF Remove
<1>h. PICK w : w = Ring'
  OBVIOUS
<1>3. w = [chunks |-> Ring.chunks, start |-> Ring.start, cells |-> new]
  BY <1>2, <1>h DEF Remove, Ring
<1>4. IsRing(w) /\ Capacity(w) = N /\ \A j \in 0 .. N - 1 : Item(w, j) = f[j]
  <2>1. PICK r : r = Ring
    OBVIOUS
  <2>2. IsRing(r) /\ f \in [0 .. Capacity(r) - 1 -> Cells]
    BY <2>1, <1>b, <1>1
  <2>3. IsEdited(w, r, f)
    BY <2>1, <1>g, <1>3 DEF IsEdited
  <2>4. /\ IsRing(w) /\ Capacity(w) = Capacity(r)
        /\ \A j \in 0 .. Capacity(r) - 1 : Item(w, j) = f[j]
    BY ONLY <2>2, <2>3, EditedRing
  <2> QED
    BY ONLY <2>1, <2>4, <1>e
<1>5. ArrayInv'
  <2>1. num_elements' \in 0 .. Capacity(w)
    BY <1>2, <1>4, <1>e
  <2> QED
    BY <2>1, <1>b, <1>4, <1>h DEF ArrayInv, IsRing, Capacity
<1>6. /\ Elements(w, n) = L!RemoveAt(Elements(Ring, n + 1), i + 1)
      /\ Elements(Ring, n + 1)[i + 1] = Item(Ring, i)
  <2>1. n + 1 <= Capacity(Ring) /\ n <= Capacity(w) /\ i \in 0 .. n
    BY <1>a, <1>e, <1>4
  <2>2. \A k \in 0 .. i - 1 : Item(w, k) = Item(Ring, k)
    <3> TAKE k \in 0 .. i - 1
    <3>1. k \in 0 .. N - 1 /\ k \notin i .. n
      BY <1>a, <1>e
    <3> QED
      BY <3>1, <1>4, <1>f
  <2>3. \A k \in i .. n - 1 : Item(w, k) = Item(Ring, k + 1)
    <3> TAKE k \in i .. n - 1
    <3>1. k \in 0 .. N - 1 /\ k \in i .. n
      BY <1>a, <1>e
    <3> QED
      BY <3>1, <1>4, <1>f DEF Item, Ring
  <2> QED
    BY ONLY <2>1, <2>2, <2>3, <1>4, <1>b, n \in Nat, ElementsDeleted
<1>7. Content = Elements(Ring, n + 1) /\ Content' = Elements(w, n)
  BY ContentIs, <1>a, <1>h, <1>2
<1>8. Content' = L!RemoveAt(Content, i + 1) /\ out' = Content[i + 1]
  BY ONLY <1>2, <1>6, <1>7
<1> QED
  BY <1>5, <1>8 DEF L!Delete

LEMMA PopStep == ASSUME ArrayInv, Pop PROVE ArrayInv' /\ L!Delete(0)
<1>a. PICK n \in Nat : num_elements = n + 1
  <2>1. num_elements \in Nat
    BY DEF ArrayInv, IsRing
  <2>2. num_elements - 1 \in Nat /\ num_elements = (num_elements - 1) + 1
    BY <2>1 DEF Pop
  <2> QED
    BY <2>2
<1>b. IsRing(Ring) /\ fresh \in Nat
  BY DEF ArrayInv
<1>c. PICK N \in Nat \ {0} : N = Capacity(Ring) /\ n + 1 <= N
  BY <1>a DEF ArrayInv, IsRing
<1>d. PICK s \in 0 .. N - 1 : s = start_pos
  BY <1>b, <1>c DEF IsRing, Ring
<1>e. PICK z : z = Offset(Ring, 1)
  OBVIOUS
<1>1. z = IF s + 1 < N THEN s + 1 ELSE 0
  <2>1. PICK x \in 0 .. 2 * N - 1 : x = 1 + s
    OBVIOUS
  <2>2. x % N = IF x < N THEN x ELSE x - N
    BY ONLY OnceAround, N \in Nat \ {0}, x \in 0 .. 2 * N - 1
  <2> QED
    BY <2>1, <2>2, <1>c, <1>d, <1>e DEF Offset, Ring
<1>h. PICK w : w = Ring'
  OBVIOUS
<1>2. w = [chunks |-> num_chunks, start |-> z, cells |-> cells]
  BY <1>e, <1>h DEF Pop, Ring
<1>3. Capacity(w) = N
  BY <1>2, <1>c DEF Capacity, Ring
<1>4. IsRing(w)
  <2>1. z \in 0 .. N - 1
    BY <1>1
  <2> QED
    BY <2>1, <1>b, <1>2, <1>3, <1>c DEF IsRing, Ring
<1>5. \A k \in 0 .. n - 1 : Item(w, k) = Item(Ring, k + 1)
  <2> TAKE k \in 0 .. n - 1
  <2>1. k \in 0 .. N - 1 /\ k + 1 \in 0 .. N - 1
    BY <1>c
  <2>2. Offset(w, k) = IF k + z < N THEN k + z ELSE k + z - N
    BY <2>1, <1>2, <1>3, <1>4, RingPlaces
  <2>3. Offset(Ring, k + 1) = IF k + 1 + s < N THEN k + 1 + s ELSE k + 1 + s - N
    BY <2>1, <1>b, <1>c, <1>d, RingPlaces DEF Ring
  <2>4. Offset(w, k) = Offset(Ring, k + 1)
    BY ONLY <2>1, <2>2, <2>3, <1>1, N \in Nat \ {0}, s \in 0 .. N - 1
  <2> QED
    BY <2>4, <1>2 DEF Item, Ring
<1>6. /\ Elements(w, n) = L!RemoveAt(Elements(Ring, n + 1), 0 + 1)
      /\ Elements(Ring, n + 1)[0 + 1] = Item(Ring, 0)
  <2>1. n + 1 <= Capacity(Ring) /\ n <= Capacity(w) /\ 0 \in 0 .. n
    BY <1>c, <1>3
  <2>2. \A k \in 0 .. 0 - 1 : Item(w, k) = Item(Ring, k)
    OBVIOUS
  <2> QED
    BY ONLY <2>1, <2>2, <1>5, <1>4, <1>b, n \in Nat, ElementsDeleted
<1>7. num_elements' = n /\ out' = Item(Ring, 0) /\ UNCHANGED fresh
  BY <1>a DEF Pop, Item, Ring
<1>8. Content = Elements(Ring, n + 1) /\ Content' = Elements(w, n)
  BY ContentIs, <1>a, <1>h, <1>7
<1>9. Content' = L!RemoveAt(Content, 0 + 1) /\ out' = Content[0 + 1]
  BY ONLY <1>6, <1>7, <1>8
<1>10. ArrayInv'
  <2>1. num_elements' \in 0 .. Capacity(w)
    BY <1>3, <1>7, <1>c
  <2> QED
    BY <2>1, <1>b, <1>4, <1>7, <1>h DEF ArrayInv, IsRing, Capacity
<1> QED
  BY <1>7, <1>9, <1>10 DEF L!Delete

\* set() replaces an element.
LEMMA SetStep ==
  ASSUME ArrayInv, NEW i \in 0 .. num_elements - 1, Set(i, fresh), fresh' = fresh + 1
  PROVE  ArrayInv' /\ L!Replace(i)
<1>a. PICK n \in Nat : num_elements = n /\ i \in Nat /\ i < n
  BY DEF ArrayInv, IsRing
<1>e. PICK N \in Nat : N = Capacity(Ring) /\ n <= N
  BY <1>a DEF ArrayInv, IsRing
<1>b. IsRing(Ring) /\ fresh \in Nat
  BY DEF ArrayInv
<1>f. PICK f : f = [j \in 0 .. N - 1 |-> IF j = i THEN fresh ELSE Item(Ring, j)]
  OBVIOUS
<1>1. f \in [0 .. Capacity(Ring) - 1 -> Cells]
  <2>1. \A j \in 0 .. N - 1 : Item(Ring, j) \in Cells
    BY <1>b, <1>e, ItemAt
  <2>2. fresh \in Cells
    BY <1>b DEF Cells
  <2> QED
    BY <2>1, <2>2, <1>e, <1>f
<1>2. cells' = [k \in DOMAIN cells |-> f[IndexAt(Ring, k)]]
  <2>1. i \in 0 .. Capacity(Ring) - 1
    BY <1>a, <1>e
  <2>2. DOMAIN cells = 0 .. Capacity(Ring) - 1
    BY <1>b DEF IsRing, Ring
  <2>3. ASSUME NEW k \in DOMAIN cells
        PROVE  f[IndexAt(Ring, k)] = IF k = Offset(Ring, i) THEN fresh ELSE cells[k]
    <3>1. /\ IndexAt(Ring, k) \in 0 .. N - 1 /\ Ring.cells[k] = Item(Ring, IndexAt(Ring, k))
          /\ Offset(Ring, IndexAt(Ring, k)) = k /\ IndexAt(Ring, Offset(Ring, i)) = i
      BY <2>1, <2>2, <1>b, <1>e, RingPlaces, ItemAt
    <3>2. Ring.cells[k] = cells[k]
      BY DEF Ring
    <3>3. k = Offset(Ring, i) <=> IndexAt(Ring, k) = i
      BY <3>1
    <3>4. f[IndexAt(Ring, k)] =
            IF IndexAt(Ring, k) = i THEN fresh ELSE Item(Ring, IndexAt(Ring, k))
      BY ONLY <3>1, <1>f
    <3> QED
      BY ONLY <3>1, <3>2, <3>3, <3>4
  <2>4. cells' = [cells EXCEPT ![Offset(Ring, i)] = fresh]
    BY DEF Set
  <2>5. cells' = [k \in DOMAIN cells |-> IF k = Offset(Ring, i) THEN fresh ELSE cells[k]]
    BY ONLY <2>4
  <2> QED
    BY ONLY <2>3, <2>5
<1>h. PICK w : w = Ring'
  OBVIOUS
<1>4. IsRing(w) /\ Capacity(w) = N /\ \A j \in 0 .. N - 1 : Item(w, j) = f[j]
  <2>1. PICK r : r = Ring
    OBVIOUS
  <2>2. IsRing(r) /\ f \in [0 .. Capacity(r) - 1 -> Cells]
    BY <2>1, <1>b, <1>1
  <2>3. w = [chunks |-> r.chunks, start |-> r.start, cells |-> cells'] /\ r.cells = cells
    BY <2>1, <1>h DEF Ring, Set
  <2>4. IsEdited(w, r, f)
    BY ONLY <2>1, <2>3, <1>2 DEF IsEdited
  <2>5. /\ IsRing(w) /\ Capacity(w) = Capacity(r)
        /\ \A j \in 0 .. Capacity(r) - 1 : Item(w, j) = f[j]
    BY ONLY <2>2, <2>4, EditedRing
  <2> QED
    BY ONLY <2>1, <2>5, <1>e
<1>5. num_elements' = n /\ out' = Item(Ring, i)
  BY <1>a DEF Set, Item, Ring
<1>6. ArrayInv'
  <2>1. num_elements' \in 0 .. Capacity(w)
    BY <1>4, <1>5, <1>e
  <2> QED
    BY <2>1, <1>b, <1>4, <1>h DEF ArrayInv, IsRing, Capacity
<1>7. Elements(w, n) = [Elements(Ring, n) EXCEPT ![i + 1] = fresh]
  <2>1. \A j \in 1 .. n : Item(w, j - 1) = IF j = i + 1 THEN fresh ELSE Item(Ring, j - 1)
    <3> TAKE j \in 1 .. n
    <3>1. PICK h \in 0 .. N - 1 : h = j - 1 /\ (h = i <=> j = i + 1)
      BY <1>a, <1>e
    <3>2. Item(w, h) = IF h = i THEN fresh ELSE Item(Ring, h)
      BY ONLY <3>1, <1>4, <1>f, h \in 0 .. N - 1
    <3> QED
      BY ONLY <3>1, <3>2
  <2> QED
    BY <2>1 DEF Elements
<1>8. Elements(Ring, n)[i + 1] = Item(Ring, i)
  <2>1. i + 1 \in 1 .. n /\ (i + 1) - 1 = i
    BY <1>a
  <2> QED
    BY <2>1 DEF Elements
<1>9. Content = Elements(Ring, n) /\ Content' = Elements(w, n)
  BY ContentIs, <1>a, <1>h, <1>5
<1>10. Content' = [Content EXCEPT ![i + 1] = fresh] /\ out' = Content[i + 1]
  BY ONLY <1>5, <1>7, <1>8, <1>9
<1> QED
  BY <1>6, <1>10 DEF L!Replace

LEMMA ClearStep == ASSUME ArrayInv, Clear, UNCHANGED fresh PROVE ArrayInv' /\ L!Erase
<1>1. Ring' = Ring /\ num_elements' = 0 /\ out' = None
  BY DEF Clear, Ring
<1>2. Content' = <<>>
  BY <1>1 DEF Content
<1>3. ArrayInv'
  <2>1. PICK N \in Nat : N = Capacity(Ring)
    BY DEF ArrayInv, IsRing
  <2>2. num_elements' \in 0 .. Capacity(Ring)
    BY <2>1, <1>1
  <2> QED
    BY <2>2, <1>1 DEF ArrayInv, IsRing, Capacity
<1> QED
  BY <1>1, <1>2, <1>3 DEF L!Erase

LEMMA ArrayStays ==
  ASSUME ~ Inside, ArrayInv, Next \/ UNCHANGED vars
  PROVE  ArrayInv' /\ (L!Next \/ UNCHANGED L!vars)
<1>a. num_elements \in Nat /\ Len(Content) = num_elements
  <2>1. num_elements \in Nat
    BY DEF ArrayInv, IsRing
  <2> QED
    BY <2>1, ContentIs, ElementsAre DEF ArrayInv
<1>1. CASE Push
  <2>1. num_elements \in 0 .. num_elements /\ Add(num_elements, fresh) /\ fresh' = fresh + 1
    BY <1>1, <1>a DEF Push, Use
  <2>2. ArrayInv' /\ L!Insert(num_elements, 1)
    BY <2>1, AddStep
  <2> QED
    BY <2>1, <2>2, <1>a DEF L!Next
<1>2. CASE Concat
  <2>1. PICK m \in Lengths : AddAll(num_elements, Values(m)) /\ fresh' = fresh + m
    BY <1>2 DEF Concat, Use
  <2>2. m \in Nat
    BY LengthsAssumption
  <2>3. ArrayInv' /\ L!Insert(num_elements, m)
    BY <2>1, <2>2, AddAllStep
  <2> QED
    BY <2>3, <1>a DEF L!Next
<1>3. CASE Change
  <2>1. \/ \E i \in 0 .. num_elements - 1 :
             \/ Add(i, fresh) /\ fresh' = fresh + 1
             \/ Set(i, fresh) /\ fresh' = fresh + 1
             \/ Remove(i) /\ UNCHANGED fresh
        \/ Clear /\ UNCHANGED fresh
    BY <1>3 DEF Change, Use
  <2>2. ASSUME NEW i \in 0 .. num_elements - 1, Add(i, fresh), fresh' = fresh + 1
        PROVE  ArrayInv' /\ L!Next
    <3>1. i \in 0 .. num_elements
      BY <1>a
    <3>2. ArrayInv' /\ L!Insert(i, 1)
      BY <2>2, <3>1, AddStep
    <3> QED
      BY <3>1, <3>2, <1>a DEF L!Next
  <2>3. ASSUME NEW i \in 0 .. num_elements - 1, Set(i, fresh), fresh' = fresh + 1
        PROVE  ArrayInv' /\ L!Next
    BY <2>3, SetStep, <1>a DEF L!Next
  <2>4. ASSUME NEW i \in 0 .. num_elements - 1, Remove(i), UNCHANGED fresh
        PROVE  ArrayInv' /\ L!Next
    BY <2>4, RemoveStep, <1>a DEF L!Next
  <2>5. ASSUME Clear, UNCHANGED fresh PROVE ArrayInv' /\ L!Next
    BY <2>5, ClearStep DEF L!Next
  <2> QED
    BY ONLY <2>1, <2>2, <2>3, <2>4, <2>5
<1>4. CASE Pop
  <2>1. ArrayInv' /\ L!Delete(0)
    BY <1>4, PopStep
  <2>2. 0 \in 0 .. Len(Content) - 1
    BY <1>4, <1>a DEF Pop
  <2> QED
    BY <2>1, <2>2 DEF L!Next
<1>5. CASE UNCHANGED vars
  <2>1. Ring' = Ring /\ UNCHANGED <<num_elements, out, fresh>>
    BY <1>5 DEF vars, Ring
  <2>2. Content' = Content
    BY <2>1, ContentIs
  <2> QED
    BY <2>1, <2>2 DEF ArrayInv, IsRing, Capacity, L!vars
<1> QED
  BY <1>1, <1>2, <1>3, <1>4, <1>5 DEF Next

LEMMA EachOperationDone == ASSUME ~ Inside, ArrayInv PROVE EachOperation
<1>a. num_elements \in Nat
  BY DEF ArrayInv, IsRing
<1>1. Push => L!Insert(num_elements, 1)
  BY <1>a, AddStep DEF Push, Use
<1>2. ASSUME Concat PROVE \E n \in Lengths : L!Insert(num_elements, n)
  <2>1. PICK m \in Lengths : AddAll(num_elements, Values(m)) /\ fresh' = fresh + m
    BY <1>2 DEF Concat, Use
  <2> QED
    BY <2>1, AddAllStep, LengthsAssumption
<1>3. Pop => L!Delete(0)
  BY PopStep
<1>4. ASSUME NEW i \in 0 .. num_elements - 1
      PROVE  /\ Use(1) /\ Add(i, fresh) => L!Insert(i, 1)
             /\ Use(1) /\ Set(i, fresh) => L!Replace(i)
             /\ Remove(i) /\ UNCHANGED fresh => L!Delete(i)
  <2>1. i \in 0 .. num_elements
    BY <1>a
  <2>2. Use(1) => fresh' = fresh + 1
    BY DEF Use
  <2> QED
    BY <2>1, <2>2, AddStep, SetStep, RemoveStep
<1>5. Clear /\ UNCHANGED fresh => L!Erase
  BY ClearStep
<1> QED
  BY <1>1, <1>2, <1>3, <1>4, <1>5 DEF EachOperation

\* Whatever the size of the chunks and however often the ring has grown, turned and
\* shrunk, an array is the sequence that each of its operations says, if add_all() is
\* only used at the end.
THEOREM ListImplemented == ASSUME ~ Inside PROVE PartsSpec => ImplementsList
<1>1. Init => ArrayInv /\ L!Init
  <2> SUFFICES ASSUME Init PROVE ArrayInv /\ L!Init
    OBVIOUS
  <2>1. Capacity(Ring) = ChunkSize /\ ChunkSize \in Nat \ {0}
    BY ChunkSizeAssumption DEF Init, Capacity, Ring
  <2>2. IsRing(Ring)
    BY <2>1 DEF IsRing, Init, Ring, Cells
  <2>3. Content = <<>>
    BY DEF Content, Init
  <2> QED
    BY <2>1, <2>2, <2>3 DEF ArrayInv, Init, L!Init
<1>2. PartsInit => ArrayInv /\ L!Init
  BY <1>1 DEF PartsInit
<1>3. ArrayInv /\ [PartsNext]_partVars => ArrayInv' /\ (L!Next \/ UNCHANGED L!vars)
  BY ArrayStep, ArrayStays
<1>4. ASSUME ArrayInv, [PartsNext]_partVars PROVE EachOperation \/ UNCHANGED vars
  BY <1>4, EachOperationDone
<1> QED
  BY <1>2, <1>3, <1>4, PTL DEF PartsSpec, ImplementsList, L!Spec

-----------------------------------------------------------------------------
(***************************************************************************)
(* Writers of distributed frames                                           *)
(***************************************************************************)

LEMMA WriterStep == PartsNext \/ UNCHANGED partVars => Writer!Next \/ UNCHANGED writerVars
BY DEF PartsNext, partVars, UseArray, ReadWords, ReadLines, BuildString, UseMap, UseTable,
       WriteFrame, ReadFrame, MapInParallel

Kinds == {"missing", "bit", "int", "float", "text", "mixed", "numbered", "dotted"}
ColumnTypes == {"B", "I", "F", "S"}

LEMMA GreaterAndLess ==
  ASSUME NEW a \in Int, NEW b \in Int
  PROVE  /\ Writer!Max({a, b}) = IF a >= b THEN a ELSE b
         /\ Writer!Min({a, b}) = IF a <= b THEN a ELSE b
<1>1. \E x \in {a, b} : \A y \in {a, b} : x >= y
  OBVIOUS
<1>2. \E x \in {a, b} : \A y \in {a, b} : x <= y
  OBVIOUS
<1>3. Writer!Max({a, b}) \in {a, b} /\ \A y \in {a, b} : Writer!Max({a, b}) >= y
  BY <1>1 DEF Writer!Max
<1>4. Writer!Min({a, b}) \in {a, b} /\ \A y \in {a, b} : Writer!Min({a, b}) <= y
  BY <1>2 DEF Writer!Min
<1> QED
  BY <1>3, <1>4

\* The fields that a column of that type takes as they are.
Keeps(type) == Writer!Stays(type) \cup {"missing"}

LEMMA LooksLikeType == \A kind \in Kinds \ {"missing"} : Writer!Looks(kind) \in ColumnTypes
BY DEF Writer!Looks, ColumnTypes, Kinds

LEMMA GuessIsType ==
  ASSUME NEW type \in ColumnTypes, NEW kind \in Kinds
  PROVE  Writer!Guess(type, kind) \in ColumnTypes
<1>1. CASE kind = "missing" \/ type = "S"
  BY <1>1 DEF Writer!Guess
<1>2. CASE ~ (kind = "missing" \/ type = "S")
  <2>1. Writer!Looks(kind) \in ColumnTypes
    BY <1>2, LooksLikeType
  <2> QED
    BY <1>2, <2>1 DEF Writer!Guess, ColumnTypes
<1> QED
  BY <1>1, <1>2

LEMMA WhatStays ==
  /\ Writer!Stays("B") = {"bit"}
  /\ Writer!Stays("I") = {"bit", "int"}
  /\ Writer!Stays("F") = {"bit", "int", "float"}
  /\ Writer!Stays("S") = Kinds \ {"missing"}
BY DEF Writer!Stays, Writer!Texts, Kinds

LEMMA StringsKeepAll == \A type \in ColumnTypes : Writer!Stays(type) \subseteq Writer!Stays("S")
BY WhatStays DEF ColumnTypes, Kinds

\* Another guess keeps what the one before did, and what the type keeps that the field
\* looks like.
LEMMA GuessKeeps ==
  ASSUME NEW type \in ColumnTypes, NEW kind \in Kinds
  PROVE  /\ Writer!Stays(type) \subseteq Writer!Stays(Writer!Guess(type, kind))
         /\ kind # "missing" =>
              Writer!Stays(Writer!Looks(kind)) \subseteq Writer!Stays(Writer!Guess(type, kind))
<1>1. CASE kind = "missing" \/ type = "S"
  <2>1. Writer!Guess(type, kind) = type
    BY <1>1 DEF Writer!Guess
  <2> QED
    BY <1>1, <2>1, LooksLikeType, StringsKeepAll
<1>2. CASE kind # "missing" /\ type # "S"
  <2> DEFINE looks == Writer!Looks(kind)
             new == Writer!Guess(type, kind)
  <2>1. looks \in ColumnTypes
    BY <1>2, LooksLikeType
  <2>2. new = CASE looks = "B" -> IF type \in {"I", "F"} THEN type ELSE "B"
                 [] looks = "I" -> IF type = "F" THEN "F" ELSE "I"
                 [] looks \in {"F", "S"} -> looks
    BY <1>2 DEF Writer!Guess
  <2> HIDE DEF looks, new
  <2>3. CASE looks = "B"
    <3>1. new = IF type \in {"I", "F"} THEN type ELSE "B"
      BY <2>2, <2>3
    <3> QED
      BY <1>2, <2>3, <3>1, WhatStays DEF looks, new, ColumnTypes
  <2>4. CASE looks = "I"
    <3>1. new = IF type = "F" THEN "F" ELSE "I"
      BY <2>2, <2>4
    <3> QED
      BY <1>2, <2>4, <3>1, WhatStays DEF looks, new, ColumnTypes
  <2>5. CASE looks = "F"
    <3>1. new = "F"
      BY <2>2, <2>5
    <3> QED
      BY <1>2, <2>5, <3>1, WhatStays DEF looks, new, ColumnTypes
  <2>6. CASE looks = "S"
    <3>1. new = "S"
      BY <2>2, <2>6
    <3> QED
      BY <2>6, <3>1, StringsKeepAll DEF looks, new
  <2> QED
    BY <2>1, <2>3, <2>4, <2>5, <2>6 DEF ColumnTypes
<1> QED
  BY <1>1, <1>2

\* What is stored for column c of line j.
Written(j, c) ==
  IF c <= Len(input[j]) THEN Writer!Value(guesses[c], input[j][c]) ELSE "missing"

Stored == Kinds \cup {Junk}

\* The chunk col of a column begins behind row b and has the first n rows of it.
IsColumn(col, c, b, n) ==
  Len(col) = n /\ \A i \in 1 .. n : col[i] = Written(b + i, c)

\* Chunk k has the rows that belong there, as far as there are.
ChunkRight(k) ==
  /\ ChunkSize * (k - 1) <= pos
  /\ \A c \in 1 .. width :
       IsColumn(stored[k][c], c, ChunkSize * (k - 1),
                IF ChunkSize * k <= pos THEN ChunkSize ELSE pos - ChunkSize * (k - 1))

WriterTypes ==
  /\ op \in {"array", "visitor", "file"}
  /\ pc \in {"count", "guess", "fill", "done"}
  /\ input \in Seq(Seq(Kinds))
  /\ pos \in 0 .. Len(input)
  /\ width \in Nat
  /\ stored \in Seq([1 .. width -> Seq(Stored)])
  /\ pc # "count" => width > 0 /\ guesses \in [1 .. width -> ColumnTypes]

\* The types keep what the fields of line k look like, or the fields themselves.
Kept(k) ==
  \A c \in 1 .. width :
    c <= Len(input[k]) /\ input[k][c] # "missing" =>
      Writer!Stays(Writer!Looks(input[k][c])) \subseteq Writer!Stays(guesses[c])
KeptItself(k) ==
  \A c \in 1 .. width : c <= Len(input[k]) => input[k][c] \in Keeps(guesses[c])

\* The columns are counted and their types guessed from the first lines, of which one
\* has a field.
GuessInv ==
  /\ op = "file" => \E k \in 1 .. Len(input) : k <= GuessLines /\ Len(input[k]) > 0
  /\ pc \in {"count", "guess"} => op = "file" /\ stored = <<>> /\ fHeight = 0 /\ pos <= GuessLines
  /\ pc = "count" => \A k \in 1 .. pos : Len(input[k]) <= width
  /\ pc = "guess" => \A k \in 1 .. pos : Kept(k)
  /\ pc \in {"fill", "done"} =>
       \A k \in 1 .. Len(input) : IF op # "file" THEN KeptItself(k) ELSE k <= GuessLines => Kept(k)

\* The columns in memory go on where the chunks in the store end.
FillInv ==
  /\ pc \in {"fill", "done"} => \A k \in 1 .. Len(stored) : ChunkRight(k)
  /\ pc = "fill" =>
       /\ pos - ChunkSize * Len(stored) \in 0 .. ChunkSize
       /\ fCols \in [1 .. width -> Seq(Stored)]
       /\ \A c \in 1 .. width :
            IsColumn(fCols[c], c, ChunkSize * Len(stored), pos - ChunkSize * Len(stored))
       /\ fHeight = IF op = "file" THEN ChunkSize * Len(stored) ELSE pos
  /\ pc = "done" =>
       pos = Len(input) /\ fHeight = Len(input) /\ pos <= ChunkSize * Len(stored)

WriterInv == WriterTypes /\ GuessInv /\ FillInv

LEMMA WriterBegins == Writer!Init => WriterInv
<1> SUFFICES ASSUME Writer!Init PROVE WriterInv
  OBVIOUS
<1>a. ChunkSize \in Nat \ {0} /\ GuessLines \in Nat \ {0} /\ MaxLines \in Nat
  BY ChunkSizeAssumption, LinesAssumption
<1>b. \A line \in SorLines : line \in Seq(Kinds)
  BY LinesAssumption DEF Kinds
<1>1. CASE op = "file"
  <2>1. input \in UNION {[1 .. n -> SorLines] : n \in 1 .. MaxLines} /\ Writer!Readable(input)
    BY <1>1 DEF Writer!Init
  <2>2. PICK n \in 1 .. MaxLines : input \in [1 .. n -> SorLines]
    BY <2>1
  <2>3. /\ input \in Seq(SorLines) /\ Len(input) = n /\ n \in Nat \ {0}
        /\ \A k \in 1 .. n : input[k] \in SorLines
    BY <2>2, <1>a
  <2>4. input \in Seq(Seq(Kinds)) /\ \A k \in 1 .. Len(input) : input[k] \in Seq(Kinds)
    BY <2>2, <2>3, <1>b
  <2>5. \E k \in 1 .. Len(input) : k <= GuessLines /\ Len(input[k]) > 0
    <3> SUFFICES ASSUME \A k \in 1 .. Len(input) : k <= GuessLines => ~ (Len(input[k]) > 0)
                 PROVE  FALSE
      OBVIOUS
    <3>1. Writer!Guessed(input) = 1 .. (IF GuessLines <= n THEN GuessLines ELSE n)
      <4>1. Writer!Guessed(input) = 1 .. Writer!Min({GuessLines, n})
        BY <2>3 DEF Writer!Guessed
      <4>2. Writer!Min({GuessLines, n}) = IF GuessLines <= n THEN GuessLines ELSE n
        <5>1. GuessLines \in Int /\ n \in Int
          BY <2>3, <1>a
        <5> QED
          BY ONLY <5>1, GreaterAndLess
      <4> QED
        BY <4>1, <4>2
    <3>2. \A k \in Writer!Guessed(input) : Len(input[k]) = 0
      BY <3>1, <2>3, <2>4, <1>a
    <3>3. 1 \in Writer!Guessed(input)
      BY <3>1, <2>3, <1>a
    <3>4. {Len(input[k]) : k \in Writer!Guessed(input)} = {0, 0}
      BY <3>2, <3>3
    <3>5. Writer!WidthOf(input) = 0
      BY <3>4, GreaterAndLess DEF Writer!WidthOf
    <3> QED
      BY <2>1, <3>5 DEF Writer!Readable
  <2>7. pc = "count" /\ width = 0 /\ stored = <<>> /\ fHeight = 0 /\ pos = 0
    BY <1>1 DEF Writer!Init
  <2> QED
    BY <1>1, <1>a, <2>3, <2>4, <2>5, <2>7 DEF WriterInv, WriterTypes, GuessInv, FillInv
<1>2. CASE op \in {"array", "visitor"}
  <2>1. PICK n \in 0 .. MaxLines + 1 : input = [k \in 1 .. n |-> <<"int">>]
    BY <1>2 DEF Writer!Init
  <2>2. /\ input \in Seq(Seq(Kinds)) /\ Len(input) = n /\ n \in Nat
        /\ \A k \in 1 .. n : input[k] = <<"int">>
    BY <2>1, <1>a DEF Kinds
  <2>3. /\ pc = "fill" /\ width = 1 /\ guesses = <<"I">> /\ pos = 0 /\ stored = <<>>
        /\ fHeight = 0 /\ fCols = [c \in 1 .. width |-> <<>>]
    BY <1>2 DEF Writer!Init, Writer!Empty
  <2>4. guesses \in [1 .. width -> ColumnTypes] /\ guesses[1] = "I"
    BY <2>3 DEF ColumnTypes
  <2>5. \A k \in 1 .. Len(input) : KeptItself(k)
    <3>1. \A k \in 1 .. n : Len(input[k]) = 1 /\ input[k][1] = "int"
      <4>1. Len(<<"int">>) = 1 /\ <<"int">>[1] = "int"
        OBVIOUS
      <4> QED
        BY <2>2, <4>1
    <3>2. "int" \in Keeps(guesses[1])
      BY <2>4, WhatStays DEF Keeps
    <3> QED
      BY <3>1, <3>2, <2>2, <2>3 DEF KeptItself
  <2>6. WriterTypes
    BY <1>2, <2>2, <2>3, <2>4 DEF WriterTypes
  <2>7. FillInv
    <3>1. Len(stored) = 0 /\ ChunkSize * 0 = 0
      BY <2>3, <1>a
    <3>2. fCols \in [1 .. width -> Seq(Stored)] /\ \A c \in 1 .. width : IsColumn(fCols[c], c, 0, 0)
      BY <2>3 DEF IsColumn
    <3> QED
      BY <1>a, <2>3, <3>1, <3>2 DEF FillInv
  <2> QED
    BY <1>2, <2>3, <2>5, <2>6, <2>7 DEF WriterInv, GuessInv
<1> QED
  BY <1>1, <1>2 DEF Writer!Init

-----------------------------------------------------------------------------
LEMMA WriterSizes ==
  /\ ChunkSize \in Nat \ {0} /\ GuessLines \in Nat \ {0}
BY ChunkSizeAssumption, LinesAssumption

\* A sequence of lines: its length, its lines and their fields.
LEMMA LinesAre ==
  ASSUME WriterTypes
  PROVE  /\ Len(input) \in Nat
         /\ \A k \in 1 .. Len(input) :
              /\ input[k] \in Seq(Kinds) /\ Len(input[k]) \in Nat
              /\ \A c \in 1 .. Len(input[k]) : input[k][c] \in Kinds
BY DEF WriterTypes

LEMMA LastGuessed ==
  ASSUME WriterTypes, pos <= GuessLines
  PROVE  /\ Writer!NoMoreLines =>
              \A k \in 1 .. Len(input) : k <= GuessLines => k \in 1 .. pos
         /\ ~ Writer!NoMoreLines => pos + 1 \in 1 .. Len(input) /\ pos + 1 <= GuessLines
<1>1. GuessLines \in Int /\ Len(input) \in Int /\ pos \in 0 .. Len(input)
  BY WriterSizes, LinesAre DEF WriterTypes
<1>2. Writer!NoMoreLines <=> pos = IF GuessLines <= Len(input) THEN GuessLines ELSE Len(input)
  BY <1>1, GreaterAndLess DEF Writer!NoMoreLines
<1> QED
  BY <1>1, <1>2

LEMMA CountStep == ASSUME WriterInv, Writer!CountFields PROVE WriterInv'
<1> USE DEF WriterInv
<1>1. /\ pc = "count" /\ op = "file" /\ stored = <<>> /\ fHeight = 0 /\ pos <= GuessLines
      /\ UNCHANGED <<op, input, fCols, stored, fHeight>>
      /\ \A k \in 1 .. pos : Len(input[k]) <= width
      /\ \E k \in 1 .. Len(input) : k <= GuessLines /\ Len(input[k]) > 0
  BY DEF Writer!CountFields, GuessInv
<1>2. CASE Writer!NoMoreLines
  <2>1. /\ pc' = "guess" /\ pos' = 0 /\ UNCHANGED width
        /\ guesses' = [c \in 1 .. width |-> "B"]
    BY <1>2 DEF Writer!CountFields
  <2>2. width > 0
    BY <1>1, <1>2, LastGuessed, LinesAre DEF WriterTypes
  <2>3. guesses' \in [1 .. width -> ColumnTypes]
    BY <2>1 DEF ColumnTypes
  <2>4. WriterTypes'
    <3>1. pos' \in 0 .. Len(input)
      BY <2>1, LinesAre
    <3>2. /\ op \in {"array", "visitor", "file"}
          /\ input \in Seq(Seq(Kinds)) /\ width \in Nat
      BY DEF WriterTypes
    <3>3. stored' \in Seq([1 .. width' -> Seq(Stored)])
      BY <1>1
    <3>4. pc' = "guess" /\ op' = op /\ input' = input /\ width' = width
      BY <1>1, <2>1
    <3> QED
      BY <2>2, <2>3, <3>1, <3>2, <3>3, <3>4 DEF WriterTypes
  <2>5. GuessInv'
    BY <1>1, <2>1, WriterSizes DEF GuessInv
  <2> QED
    BY <1>1, <2>1, <2>4, <2>5 DEF FillInv
<1>3. CASE ~ Writer!NoMoreLines
  <2>1. /\ pos' = pos + 1 /\ UNCHANGED <<pc, guesses>>
        /\ width' = Writer!Max({width, Len(input[pos + 1])})
    BY <1>3 DEF Writer!CountFields
  <2>2. pos + 1 \in 1 .. Len(input) /\ pos + 1 <= GuessLines
    BY <1>1, <1>3, LastGuessed
  <2>3. width \in Nat /\ Len(input[pos + 1]) \in Nat
    BY <2>2, LinesAre DEF WriterTypes
  <2>4. width' \in Nat /\ width' >= width /\ width' >= Len(input[pos + 1])
    BY <2>1, <2>3, GreaterAndLess
  <2>5. \A k \in 1 .. pos + 1 : Len(input[k]) <= width'
    BY <1>1, <2>2, <2>3, <2>4, LinesAre DEF WriterTypes
  <2>6. stored' \in Seq([1 .. width' -> Seq(Stored)])
    BY <1>1
  <2>7. WriterTypes'
    <3>1. pos' \in 0 .. Len(input)
      BY <2>1, <2>2, LinesAre DEF WriterTypes
    <3>2. /\ op \in {"array", "visitor", "file"}
          /\ input \in Seq(Seq(Kinds))
      BY DEF WriterTypes
    <3>3. pc' = "count" /\ op' = op /\ input' = input
      BY <1>1, <2>1
    <3> QED
      BY <2>4, <2>6, <3>1, <3>2, <3>3 DEF WriterTypes
  <2>8. GuessInv'
    BY <1>1, <2>1, <2>2, <2>5 DEF GuessInv
  <2> QED
    BY <1>1, <2>1, <2>7, <2>8 DEF FillInv
<1> QED
  BY <1>2, <1>3

LEMMA GuessStep == ASSUME WriterInv, Writer!GuessTypes PROVE WriterInv'
<1> USE DEF WriterInv
<1>1. /\ pc = "guess" /\ op = "file" /\ stored = <<>> /\ fHeight = 0 /\ pos <= GuessLines
      /\ UNCHANGED <<op, input, width, stored, fHeight>>
      /\ \A k \in 1 .. pos : Kept(k)
      /\ \E k \in 1 .. Len(input) : k <= GuessLines /\ Len(input[k]) > 0
      /\ width \in Nat /\ width > 0 /\ guesses \in [1 .. width -> ColumnTypes]
  BY DEF Writer!GuessTypes, GuessInv, WriterTypes
<1>2. CASE Writer!NoMoreLines
  <2>1. pc' = "fill" /\ pos' = 0 /\ fCols' = [c \in 1 .. width |-> <<>>] /\ UNCHANGED guesses
    BY <1>2 DEF Writer!GuessTypes, Writer!Empty
  <2>2. \A k \in 1 .. Len(input) : k <= GuessLines => Kept(k)
    BY <1>1, <1>2, LastGuessed
  <2>3. WriterTypes'
    BY <1>1, <2>1, LinesAre DEF WriterTypes
  <2>4. GuessInv'
    BY <1>1, <2>1, <2>2 DEF GuessInv, Kept
  <2>5. FillInv'
    <3>1. Len(stored) = 0 /\ ChunkSize * 0 = 0 /\ 0 - ChunkSize * 0 = 0
      BY <1>1, WriterSizes
    <3>2. fCols' \in [1 .. width -> Seq(Stored)] /\ \A c \in 1 .. width : fCols'[c] = <<>>
      BY <2>1
    <3>3. \A c \in 1 .. width : IsColumn(fCols[c], c, 0, 0)'
      BY <3>2 DEF IsColumn
    <3> QED
      BY <1>1, <2>1, <3>1, <3>2, <3>3, WriterSizes DEF FillInv
  <2> QED
    BY <2>3, <2>4, <2>5
<1>3. CASE ~ Writer!NoMoreLines
  <2>1. /\ pos' = pos + 1 /\ UNCHANGED <<pc, fCols>>
        /\ guesses' = [c \in 1 .. width |->
             IF c <= Len(input[pos + 1]) THEN Writer!Guess(guesses[c], input[pos + 1][c])
             ELSE guesses[c]]
    BY <1>3 DEF Writer!GuessTypes
  <2>2. pos + 1 \in 1 .. Len(input) /\ pos + 1 <= GuessLines
    BY <1>1, <1>3, LastGuessed
  <2>3. /\ Len(input[pos + 1]) \in Nat
        /\ \A c \in 1 .. Len(input[pos + 1]) : input[pos + 1][c] \in Kinds
    BY <2>2, LinesAre
  <2>4. \A c \in 1 .. width : guesses'[c] \in ColumnTypes
    BY <1>1, <2>1, <2>3, GuessIsType
  <2>5. WriterTypes'
    BY <1>1, <2>1, <2>2, <2>4 DEF WriterTypes
  <2>6. ASSUME NEW k \in 1 .. pos + 1 PROVE Kept(k)'
    <3> SUFFICES ASSUME NEW c \in 1 .. width, c <= Len(input[k]), input[k][c] # "missing"
                 PROVE  Writer!Stays(Writer!Looks(input[k][c])) \subseteq Writer!Stays(guesses'[c])
      BY <1>1 DEF Kept
    <3>1. guesses[c] \in ColumnTypes
      BY <1>1
    <3>2. Writer!Stays(guesses[c]) \subseteq Writer!Stays(guesses'[c])
      BY <1>1, <2>1, <2>3, <3>1, GuessKeeps
    <3>3. CASE k = pos + 1
      BY <1>1, <2>1, <2>3, <3>1, <3>3, GuessKeeps
    <3>4. CASE k # pos + 1
      <4>1. pos \in Int
        BY LinesAre DEF WriterTypes
      <4>2. Kept(k)
        BY <1>1, <2>6, <3>4, <4>1
      <4> QED
        BY <3>2, <4>2 DEF Kept
    <3> QED
      BY <3>3, <3>4
  <2>7. GuessInv'
    BY <1>1, <2>1, <2>2, <2>6 DEF GuessInv
  <2> QED
    BY <1>1, <2>1, <2>5, <2>7 DEF FillInv
<1> QED
  BY <1>2, <1>3

LEMMA WrittenIsStored ==
  ASSUME WriterTypes, pc # "count", NEW j \in 1 .. Len(input), NEW c \in 1 .. width
  PROVE  Written(j, c) \in Stored
<1>1. Len(input[j]) \in Nat /\ \A d \in 1 .. Len(input[j]) : input[j][d] \in Kinds
  BY LinesAre
<1>2. "missing" \in Stored
  BY DEF Stored, Kinds
<1> QED
  BY <1>1, <1>2 DEF Written, Writer!Value, Stored

\* While the columns are filled, the chunks before are full.
LEMMA FullBefore ==
  ASSUME WriterInv, pc = "fill", NEW k \in 1 .. Len(stored)
  PROVE  ChunkSize * k <= pos /\ ChunkSize * (k - 1) <= pos
<1>1. Len(stored) \in Nat /\ pos \in Nat
  BY LinesAre DEF WriterInv, WriterTypes
<1>2. ChunkSize * Len(stored) <= pos
  <2>1. pos - ChunkSize * Len(stored) \in 0 .. ChunkSize
    BY DEF WriterInv, FillInv
  <2>2. ChunkSize * Len(stored) \in Nat
    BY <1>1, WriterSizes
  <2> QED
    BY <2>1, <2>2, <1>1, WriterSizes
<1>3. /\ ChunkSize * k <= ChunkSize * Len(stored) /\ ChunkSize * (k - 1) <= ChunkSize * k
      /\ ChunkSize * k \in Nat /\ ChunkSize * (k - 1) \in Nat
      /\ ChunkSize * Len(stored) \in Nat
  BY <1>1, WriterSizes
<1> QED
  BY <1>1, <1>2, <1>3

\* What is in memory, and how much.
LEMMA InMemoryIs ==
  ASSUME WriterInv, pc = "fill"
  PROVE  /\ ChunkSize * Len(stored) \in Nat /\ pos \in Nat
         /\ pos - ChunkSize * Len(stored) \in 0 .. ChunkSize
         /\ Len(fCols[1]) = pos - ChunkSize * Len(stored)
         /\ width \in Nat /\ width > 0
<1>1. Len(stored) \in Nat /\ pos \in Nat /\ width \in Nat /\ width > 0
  BY LinesAre DEF WriterInv, WriterTypes
<1>2. ChunkSize * Len(stored) \in Nat
  BY <1>1, WriterSizes
<1>3. 1 \in 1 .. width
  BY <1>1
<1> QED
  BY <1>1, <1>2, <1>3 DEF WriterInv, FillInv, IsColumn

LEMMA FillStep == ASSUME WriterInv, Writer!Fill PROVE WriterInv'
<1> DEFINE b == ChunkSize * Len(stored)
           line == input[pos + 1]
<1>1. /\ pc = "fill" /\ pos # Len(input) /\ Len(fCols[1]) # ChunkSize
      /\ pos' = pos + 1 /\ fHeight' = (IF op = "file" THEN fHeight ELSE fHeight + 1)
      /\ UNCHANGED <<op, input, pc, width, guesses, stored>>
      /\ fCols' = [c \in 1 .. width |-> fCols[c] \o Writer!RowOf(line)[c]]
  BY DEF Writer!Fill, Writer!ChunkEnds
<1>2. /\ b \in Nat /\ pos \in Nat /\ pos - b \in 0 .. ChunkSize /\ Len(fCols[1]) = pos - b
      /\ width \in Nat /\ width > 0 /\ ChunkSize \in Nat
  BY <1>1, InMemoryIs, WriterSizes
<1>3. pos + 1 \in 1 .. Len(input) /\ Len(input) \in Nat
  BY <1>1, <1>2, LinesAre DEF WriterInv, WriterTypes
<1>4. pos' - b \in 0 .. ChunkSize
  BY <1>1, <1>2
<1>5. WriterTypes'
  BY <1>1, <1>3 DEF WriterInv, WriterTypes
<1>6. GuessInv'
  BY <1>1 DEF WriterInv, GuessInv, Kept, KeptItself
<1>7. \A k \in 1 .. Len(stored) : ChunkRight(k)'
  <2> SUFFICES ASSUME NEW k \in 1 .. Len(stored) PROVE ChunkRight(k)'
    OBVIOUS
  <2>1. ChunkSize * k <= pos /\ ChunkSize * (k - 1) <= pos /\ ChunkRight(k)
    BY <1>1, FullBefore DEF WriterInv, FillInv
  <2>2. ChunkSize * k \in Int /\ ChunkSize * (k - 1) \in Int
    BY <1>2
  <2>3. ChunkSize * k <= pos' /\ ChunkSize * (k - 1) <= pos'
    BY <1>1, <1>2, <2>1, <2>2
  <2> QED
    BY <2>1, <2>3, <1>1 DEF ChunkRight, IsColumn, Written
<1>8. ASSUME NEW c \in 1 .. width
      PROVE  fCols'[c] \in Seq(Stored) /\ IsColumn(fCols[c], c, b, pos - b)'
  <2>1. fCols[c] \in Seq(Stored) /\ IsColumn(fCols[c], c, b, pos - b)
    BY <1>1 DEF WriterInv, FillInv
  <2>2. fCols'[c] = Append(fCols[c], Written(pos + 1, c))
    <3>1. Writer!RowOf(line)[c] = <<Written(pos + 1, c)>>
      BY DEF Writer!RowOf, Written
    <3> HIDE DEF line
    <3>2. fCols'[c] = fCols[c] \o <<Written(pos + 1, c)>>
      BY <1>1, <3>1
    <3> QED
      BY <2>1, <3>2
  <2>3. Written(pos + 1, c) \in Stored
    BY <1>1, <1>3, WrittenIsStored DEF WriterInv
  <2>4. fCols'[c] \in Seq(Stored) /\ Len(fCols'[c]) = pos' - b
    <3>1. Len(fCols[c]) = pos - b
      BY <2>1 DEF IsColumn
    <3>2. fCols'[c] \in Seq(Stored) /\ Len(fCols'[c]) = Len(fCols[c]) + 1
      BY <2>1, <2>2, <2>3
    <3> HIDE DEF b
    <3>3. (pos - b) + 1 = pos' - b
      BY <1>1, <1>2
    <3> QED
      BY <3>1, <3>2, <3>3
  <2>5. ASSUME NEW i \in 1 .. pos' - b PROVE fCols'[c][i] = Written(b + i, c)
    <3>1. Len(fCols[c]) = pos - b /\ \A j \in 1 .. pos - b : fCols[c][j] = Written(b + j, c)
      BY <2>1 DEF IsColumn
    <3> HIDE DEF b
    <3>2. CASE i = pos' - b
      <4>1. b + i = pos + 1 /\ i = Len(fCols[c]) + 1
        BY <3>1, <3>2, <1>1, <1>2
      <4> QED
        BY <2>1, <2>2, <4>1
    <3>3. CASE i # pos' - b
      <4>1. i \in 1 .. pos - b
        BY <2>5, <3>3, <1>1, <1>2
      <4> QED
        BY <2>1, <2>2, <3>1, <4>1
    <3> QED
      BY <3>2, <3>3
  <2> QED
    BY <2>4, <2>5, <1>1 DEF IsColumn, Written
<1>9. fHeight' = IF op' = "file" THEN b ELSE pos'
  BY <1>1, <1>2 DEF WriterInv, FillInv
<1>10. fCols' \in [1 .. width -> Seq(Stored)]
  BY <1>1, <1>8
<1>11. FillInv'
  BY <1>1, <1>4, <1>7, <1>8, <1>9, <1>10 DEF FillInv
<1> QED
  BY <1>5, <1>6, <1>11 DEF WriterInv

LEMMA DistributeStep == ASSUME WriterInv, Writer!Distribute PROVE WriterInv'
<1> DEFINE m == Len(stored)
           b == ChunkSize * m
<1>1. /\ pc = "fill" /\ (pos = Len(input) \/ Len(fCols[1]) = ChunkSize)
      /\ UNCHANGED <<op, input, pos, width, guesses>>
      /\ fCols' = [c \in 1 .. width |-> <<>>] /\ stored' = Append(stored, fCols)
      /\ pc' = (IF Len(fCols[1]) < ChunkSize THEN "done" ELSE "fill")
      /\ fHeight' = (IF op = "file" THEN fHeight + Len(fCols[1]) ELSE fHeight)
  BY DEF Writer!Distribute, Writer!ChunkEnds, Writer!Empty
<1>2. /\ b \in Nat /\ pos \in Nat /\ pos - b \in 0 .. ChunkSize /\ Len(fCols[1]) = pos - b
      /\ width \in Nat /\ width > 0 /\ ChunkSize \in Nat
  BY <1>1, InMemoryIs, WriterSizes
<1>3. fCols \in [1 .. width -> Seq(Stored)] /\ fHeight = (IF op = "file" THEN b ELSE pos)
  BY <1>1 DEF WriterInv, FillInv
<1>4. /\ stored \in Seq([1 .. width -> Seq(Stored)]) /\ m \in Nat
      /\ stored' \in Seq([1 .. width -> Seq(Stored)]) /\ Len(stored') = m + 1
      /\ stored'[m + 1] = fCols /\ \A k \in 1 .. m : stored'[k] = stored[k]
  BY <1>1, <1>3 DEF WriterInv, WriterTypes
<1>5. ChunkSize * (m + 1) = b + ChunkSize
  BY <1>2, <1>4
<1>6. WriterTypes'
  BY <1>1, <1>4 DEF WriterInv, WriterTypes
<1>7. GuessInv'
  BY <1>1 DEF WriterInv, GuessInv, Kept, KeptItself
<1>8. ASSUME NEW k \in 1 .. Len(stored') PROVE ChunkRight(k)'
  <2>1. CASE k = m + 1
    <3>1. ChunkSize * (k - 1) = b /\ ChunkSize * k = b + ChunkSize
      BY <2>1, <1>4, <1>5
    <3>2. b <= pos /\ pos - b = IF b + ChunkSize <= pos THEN ChunkSize ELSE pos - b
      <4> HIDE DEF b
      <4> QED
        BY <1>2
    <3>3. \A c \in 1 .. width : IsColumn(fCols[c], c, b, pos - b)
      BY <1>1 DEF WriterInv, FillInv
    <3>4. \A c \in 1 .. width :
            /\ Len(stored'[k][c]) = pos - b
            /\ \A i \in 1 .. pos - b : stored'[k][c][i] = Written(b + i, c)
      BY <2>1, <3>3, <1>4 DEF IsColumn
    <3> HIDE DEF b
    <3> QED
      BY <3>1, <3>2, <3>4, <1>1 DEF ChunkRight, IsColumn, Written
  <2>2. CASE k \in 1 .. m
    <3>1. ChunkRight(k) /\ stored'[k] = stored[k]
      BY <1>1, <1>4, <2>2 DEF WriterInv, FillInv
    <3> QED
      BY <3>1, <1>1 DEF ChunkRight, IsColumn, Written
  <2> QED
    BY <2>1, <2>2, <1>4
<1>9. CASE Len(fCols[1]) < ChunkSize
  <2>1. pc' = "done" /\ pos = Len(input)
    BY <1>1, <1>2, <1>9
  <2>2. fHeight' = pos /\ pos <= b + ChunkSize
    <3> HIDE DEF b
    <3> QED
      BY <1>1, <1>2, <1>3, <1>9
  <2> QED
    BY <2>1, <2>2, <1>1, <1>4, <1>5, <1>6, <1>7, <1>8 DEF WriterInv, FillInv
<1>10. CASE ~ (Len(fCols[1]) < ChunkSize)
  <2>1. pc' = "fill" /\ pos = b + ChunkSize
    <3> HIDE DEF b
    <3> QED
      BY <1>1, <1>2, <1>10
  <2>2. ChunkSize * Len(stored') = b + ChunkSize /\ pos' = pos
    BY <1>1, <1>4, <1>5
  <2>3. pos' - ChunkSize * Len(stored') = 0
    <3> HIDE DEF b
    <3> QED
      BY <2>1, <2>2, <1>2
  <2>4. fHeight' = IF op' = "file" THEN ChunkSize * Len(stored') ELSE pos'
    <3> HIDE DEF b
    <3> QED
      BY <1>1, <1>2, <1>3, <2>1, <2>2
  <2>5. /\ fCols' \in [1 .. width' -> Seq(Stored)]
        /\ \A c \in 1 .. width' : fCols'[c] = <<>>
    BY <1>1
  <2>6. \A c \in 1 .. width' : IsColumn(fCols[c], c, ChunkSize * Len(stored), 0)'
    BY <2>5 DEF IsColumn
  <2>7. pos' - ChunkSize * Len(stored') \in 0 .. ChunkSize
    BY <2>3, <1>2
  <2> QED
    BY <2>1, <2>3, <2>4, <2>5, <2>6, <2>7, <1>6, <1>7, <1>8 DEF WriterInv, FillInv
<1> QED
  BY <1>9, <1>10

LEMMA EndStep == ASSUME WriterInv, Writer!WriterEnds PROVE WriterInv'
<1>1. /\ pc = "fill" /\ op = "visitor" /\ pos = Len(input) /\ fCols[1] = <<>> /\ pc' = "done"
      /\ UNCHANGED <<op, input, pos, width, guesses, fCols, stored, fHeight>>
  BY DEF Writer!WriterEnds, Writer!WriterIsDone
<1>2. fHeight = pos /\ pos <= ChunkSize * Len(stored)
  <2>1. Len(fCols[1]) = 0
    BY <1>1
  <2> QED
    BY <1>1, <2>1, InMemoryIs DEF WriterInv, FillInv
<1>3. WriterTypes'
  BY <1>1 DEF WriterInv, WriterTypes
<1>4. GuessInv'
  BY <1>1 DEF WriterInv, GuessInv, Kept, KeptItself
<1>5. \A k \in 1 .. Len(stored) : ChunkRight(k)'
  <2>1. \A k \in 1 .. Len(stored) : ChunkRight(k)' <=> ChunkRight(k)
    BY <1>1 DEF ChunkRight, IsColumn, Written
  <2> QED
    BY <1>1, <2>1 DEF WriterInv, FillInv
<1> QED
  BY <1>1, <1>2, <1>3, <1>4, <1>5 DEF WriterInv, FillInv

LEMMA WriterStays == ASSUME WriterInv, UNCHANGED writerVars PROVE WriterInv'
<1>1. UNCHANGED <<op, input, pc, pos, width, guesses, fCols, stored, fHeight>>
  BY DEF writerVars
<1>2. \A k \in 1 .. Len(stored) : ChunkRight(k)' <=> ChunkRight(k)
  BY <1>1 DEF ChunkRight, IsColumn, Written
<1>3. \A c \in 1 .. width :
        IsColumn(fCols[c], c, ChunkSize * Len(stored), pos - ChunkSize * Len(stored))'
        <=> IsColumn(fCols[c], c, ChunkSize * Len(stored), pos - ChunkSize * Len(stored))
  BY <1>1 DEF IsColumn, Written
<1>4. WriterTypes' /\ GuessInv'
  BY <1>1 DEF WriterInv, WriterTypes, GuessInv, Kept, KeptItself
<1>5. FillInv'
  BY <1>1, <1>2, <1>3 DEF WriterInv, FillInv
<1> QED
  BY <1>4, <1>5 DEF WriterInv

LEMMA WriterInvariant == PartsSpec => []WriterInv
<1>1. PartsInit => WriterInv
  BY WriterBegins DEF PartsInit
<1>2. WriterInv /\ [PartsNext]_partVars => WriterInv'
  BY WriterStep, CountStep, GuessStep, FillStep, DistributeStep, EndStep, WriterStays
     DEF Writer!Next
<1> QED
  BY <1>1, <1>2, PTL DEF PartsSpec

-----------------------------------------------------------------------------
\* Whatever is written and however long, the length in the schema is that of the input
\* and every chunk but the last is full.
THEOREM ChunksAlignedCorrect == PartsSpec => []ChunksAligned
<1>1. WriterInv => ChunksAligned
  <2> SUFFICES ASSUME WriterInv, pc = "done"
               PROVE  /\ fHeight = Len(input) /\ fHeight <= ChunkSize * Len(stored)
                      /\ \A k \in DOMAIN stored : \A c \in 1 .. width :
                           Len(stored[k][c]) =
                             Writer!Max({0, Writer!Min({ChunkSize, fHeight + ChunkSize - k * ChunkSize})})
    BY DEF ChunksAligned, Writer!ChunksAligned
  <2>1. /\ fHeight = Len(input) /\ fHeight <= ChunkSize * Len(stored) /\ fHeight = pos
        /\ fHeight \in Nat /\ ChunkSize \in Nat
    BY WriterSizes, LinesAre DEF WriterInv, FillInv
  <2>2. ASSUME NEW k \in DOMAIN stored, NEW c \in 1 .. width
        PROVE  Len(stored[k][c]) =
                 Writer!Max({0, Writer!Min({ChunkSize, fHeight + ChunkSize - k * ChunkSize})})
    <3>1. k \in 1 .. Len(stored) /\ k \in Nat /\ ChunkRight(k)
      BY DEF WriterInv, WriterTypes, FillInv
    <3> DEFINE d == k * ChunkSize
               r == ChunkSize - d
               rest == fHeight + (ChunkSize - d)
    <3>2. d \in Nat /\ ChunkSize * k = d /\ ChunkSize * (k - 1) = d - ChunkSize
      BY <2>1, <3>1
    <3>3. /\ d - ChunkSize <= fHeight
          /\ Len(stored[k][c]) = IF d <= fHeight THEN ChunkSize ELSE fHeight - (d - ChunkSize)
      BY <2>1, <3>1, <3>2 DEF ChunkRight, IsColumn
    <3> HIDE DEF d
    <3>4. rest \in Int
      BY <2>1, <3>2
    <3>5. Writer!Min({ChunkSize, rest}) = IF ChunkSize <= rest THEN ChunkSize ELSE rest
      <4>1. ChunkSize \in Int
        BY <2>1
      <4> HIDE DEF rest
      <4> QED
        BY ONLY <3>4, <4>1, GreaterAndLess
    <3>6. Writer!Min({ChunkSize, rest}) >= 0 /\ Writer!Min({ChunkSize, rest}) \in Int
      BY <2>1, <3>2, <3>3, <3>5
    <3>7. Writer!Max({0, Writer!Min({ChunkSize, rest})}) = Writer!Min({ChunkSize, rest})
      <4> DEFINE e == Writer!Min({ChunkSize, rest})
      <4>1. e \in Int /\ 0 \in Int /\ e >= 0
        BY <3>6
      <4> HIDE DEF e
      <4>2. Writer!Max({0, e}) = IF 0 >= e THEN 0 ELSE e
        BY ONLY <4>1, GreaterAndLess
      <4>3. Writer!Max({0, e}) = e
        BY <4>1, <4>2
      <4> QED
        BY <4>3 DEF e
    <3>8. Len(stored[k][c]) = Writer!Min({ChunkSize, rest})
      BY <2>1, <3>2, <3>3, <3>5
    <3> QED
      BY <3>7, <3>8 DEF d
  <2> QED
    BY <2>1, <2>2
<1> QED
  BY <1>1, WriterInvariant, PTL

LEMMA RowInChunk ==
  ASSUME WriterInv, pc = "done", NEW k \in 1 .. Len(input), NEW c \in 1 .. width
  PROVE  Writer!RowInStore(k)[c] = Written(k, c)
<1> DEFINE q == (k - 1) \div ChunkSize
           r == (k - 1) % ChunkSize
<1>1. /\ k \in Nat \ {0} /\ k <= pos /\ pos \in Nat /\ pos <= ChunkSize * Len(stored)
      /\ Len(stored) \in Nat /\ ChunkSize \in Nat \ {0}
  BY WriterSizes, LinesAre DEF WriterInv, WriterTypes, FillInv
<1>2. q \in Nat /\ r \in 0 .. ChunkSize - 1 /\ k - 1 = ChunkSize * q + r
  <2>1. k - 1 \in Nat
    BY <1>1
  <2> QED
    <3> DEFINE x == k - 1
    <3>1. x \in Nat /\ ChunkSize \in Nat \ {0}
      BY <1>1, <2>1
    <3> HIDE DEF x
    <3>2. PICK d \in Nat, j \in 0 .. ChunkSize - 1 :
            x = ChunkSize * d + j /\ x \div ChunkSize = d /\ x % ChunkSize = j
      BY ONLY <3>1, Quotient
    <3> QED
      BY <3>2 DEF x
<1>3. Writer!RowInStore(k)[c] = stored[q + 1][c][r + 1]
  BY DEF Writer!RowInStore
<1> HIDE DEF q, r
<1>4. ChunkSize * (q + 1) = ChunkSize * q + ChunkSize /\ ChunkSize * q \in Nat
  BY <1>1, <1>2
<1>5. q + 1 \in 1 .. Len(stored)
  <2>1. ~ (Len(stored) <= q)
    <3> SUFFICES ASSUME Len(stored) <= q PROVE FALSE
      OBVIOUS
    <3>1. ChunkSize * Len(stored) <= ChunkSize * q /\ ChunkSize * Len(stored) \in Nat
      BY <1>1, <1>2
    <3> QED
      BY <3>1, <1>1, <1>2, <1>4
  <2> QED
    BY <2>1, <1>1, <1>2
<1>6. ChunkRight(q + 1)
  BY <1>5 DEF WriterInv, FillInv
<1>7. (q + 1) - 1 = q
  BY <1>2
<1>8. IsColumn(stored[q + 1][c], c, ChunkSize * q,
               IF ChunkSize * (q + 1) <= pos THEN ChunkSize ELSE pos - ChunkSize * q)
  BY <1>6, <1>7 DEF ChunkRight
<1>9. r + 1 \in 1 .. (IF ChunkSize * (q + 1) <= pos THEN ChunkSize ELSE pos - ChunkSize * q)
  BY <1>1, <1>2, <1>4
<1>10. stored[q + 1][c][r + 1] = Written(ChunkSize * q + (r + 1), c)
  BY <1>8, <1>9 DEF IsColumn
<1>11. ChunkSize * q + (r + 1) = k
  BY <1>1, <1>2, <1>4
<1> QED
  BY <1>3, <1>10, <1>11

\* Every line is in the row of its number, field by field, whatever texts there are.
\* A value is another one only if no field that the type of its column was guessed from
\* looks like a type that keeps it; the rows of an array and those of a Writer are all
\* as they were.
THEOREM RowsAreLinesCorrect == PartsSpec => []RowsAreLines
<1>1. WriterInv => RowsAreLines
  <2> SUFFICES ASSUME WriterInv, pc = "done", NEW k \in 1 .. Len(input), NEW c \in 1 .. width
               PROVE  \/ Writer!RowInStore(k)[c] = Writer!FieldOf(k, c)
                      \/ /\ op = "file" /\ Writer!RowInStore(k)[c] = Junk
                         /\ \A g \in Writer!Guessed(input) :
                              Writer!FieldOf(g, c) # "missing" =>
                                Writer!FieldOf(k, c) \notin
                                  Writer!Stays(Writer!Looks(Writer!FieldOf(g, c)))
    BY DEF RowsAreLines, Writer!RowsAreLines
  <2>1. Writer!RowInStore(k)[c] = Written(k, c)
    BY RowInChunk
  <2>2. CASE c <= Len(input[k]) /\ input[k][c] \notin Keeps(guesses[c])
    <3>1. Writer!FieldOf(k, c) = input[k][c] /\ input[k][c] \notin Writer!Stays(guesses[c])
      BY <2>2 DEF Writer!FieldOf, Keeps
    <3>2. Written(k, c) = Junk
      BY <2>2 DEF Written, Writer!Value, Keeps
    <3>3. op = "file"
      BY <2>2 DEF WriterInv, GuessInv, KeptItself
    <3>4. ASSUME NEW g \in Writer!Guessed(input), Writer!FieldOf(g, c) # "missing"
          PROVE  input[k][c] \notin Writer!Stays(Writer!Looks(Writer!FieldOf(g, c)))
      <4>1. g \in 1 .. Len(input) /\ g <= GuessLines
        <5>1. GuessLines \in Int /\ Len(input) \in Int
          BY WriterSizes, LinesAre DEF WriterInv
        <5>2. g \in 1 .. Writer!Min({GuessLines, Len(input)})
          BY DEF Writer!Guessed
        <5>3. Writer!Min({GuessLines, Len(input)}) =
                IF GuessLines <= Len(input) THEN GuessLines ELSE Len(input)
          BY <5>1, GreaterAndLess
        <5> QED
          BY <5>1, <5>2, <5>3
      <4>2. c <= Len(input[g]) /\ Writer!FieldOf(g, c) = input[g][c]
        BY <3>4 DEF Writer!FieldOf
      <4>3. Kept(g)
        BY <3>3, <4>1 DEF WriterInv, GuessInv
      <4> QED
        BY <3>1, <3>4, <4>2, <4>3 DEF Kept
    <3> QED
      BY <2>1, <3>1, <3>2, <3>3, <3>4
  <2>3. CASE c <= Len(input[k]) /\ input[k][c] \in Keeps(guesses[c])
    <3>1. Written(k, c) = input[k][c]
      BY <2>3 DEF Written, Writer!Value, Keeps
    <3> QED
      BY <2>1, <2>3, <3>1 DEF Writer!FieldOf
  <2>4. CASE ~ (c <= Len(input[k]))
    BY <2>1, <2>4 DEF Written, Writer!FieldOf
  <2> QED
    BY <2>2, <2>3, <2>4
<1> QED
  BY <1>1, WriterInvariant, PTL

-----------------------------------------------------------------------------
(***************************************************************************)
(* Frames in memory                                                        *)
(***************************************************************************)
Fields == InMemory!Columns

\* A column of n cells for the column c of the frame.  nullptr is flagged.
Fits(col, c, n) ==
  /\ col \in [vals : Seq(InMemory!Takes(c)), missing : Seq(BOOLEAN)]
  /\ Len(col.vals) = n /\ Len(col.missing) = n
  /\ \A i \in 1 .. n : col.vals[i] = None => col.missing[i]

\* In the columns of a frame, but not in a row that was used, nothing else is flagged
\* among the strings: clone() goes by nullptr.
FlagsExact(col, c) ==
  Types[c] = "S" => \A i \in 1 .. Len(col.vals) : col.missing[i] => col.vals[i] = None

InFrame(cs, n) ==
  /\ cs = [c \in Fields |-> cs[c]]
  /\ n \in Nat
  /\ \A c \in Fields : Fits(cs[c], c, n) /\ FlagsExact(cs[c], c)

InHand(r) == r = [c \in Fields |-> r[c]] /\ \A c \in Fields : Fits(r[c], c, 1)

TableInv == InFrame(cols, height) /\ InHand(row)

LEMMA TypesAre ==
  /\ 1 \in Fields
  /\ \A c \in Fields : /\ Types[c] \in {"S", "I"}
                       /\ InMemory!Dummy(Types[c]) \in InMemory!Takes(c)
                       /\ Types[c] # "S" => None \notin InMemory!Takes(c)
<1>1. Types \in Seq({"S", "I"}) /\ Types # <<>>
  BY TypesAssumption
<1>2. Fields = 1 .. Len(Types) /\ Len(Types) \in Nat \ {0}
  BY <1>1 DEF Fields, InMemory!Columns
<1>3. \A c \in Fields : Types[c] \in {"S", "I"}
  BY <1>1, <1>2
<1> QED
  BY <1>2, <1>3, TypesAssumption DEF InMemory!Dummy, InMemory!Takes

Pushed(col, v, m) == [vals |-> Append(col.vals, v), missing |-> Append(col.missing, m)]

LEMMA PushFits ==
  ASSUME NEW c \in Fields, NEW n \in Nat, NEW col, Fits(col, c, n),
         NEW v \in InMemory!Takes(c), NEW m \in BOOLEAN, v = None => m = TRUE
  PROVE  /\ Fits(Pushed(col, v, m), c, n + 1)
         /\ FlagsExact(col, c) /\ (Types[c] = "S" /\ m = TRUE => v = None)
              => FlagsExact(Pushed(col, v, m), c)
<1>0. PICK new : new = Pushed(col, v, m)
  OBVIOUS
<1>1. col.vals \in Seq(InMemory!Takes(c)) /\ col.missing \in Seq(BOOLEAN)
      /\ Len(col.vals) = n /\ Len(col.missing) = n
  BY DEF Fits
<1>2. new.vals \in Seq(InMemory!Takes(c)) /\ new.missing \in Seq(BOOLEAN)
      /\ Len(new.vals) = n + 1 /\ Len(new.missing) = n + 1
  <2>1. new.vals = Append(col.vals, v) /\ new.missing = Append(col.missing, m)
    BY <1>0 DEF Pushed
  <2> QED
    BY <1>1, <2>1
<1>3. \A i \in 1 .. n : new.vals[i] = col.vals[i] /\ new.missing[i] = col.missing[i]
  <2>1. new.vals = Append(col.vals, v) /\ new.missing = Append(col.missing, m)
    BY <1>0 DEF Pushed
  <2> QED
    BY <1>1, <2>1
<1>4. new.vals[n + 1] = v /\ new.missing[n + 1] = m
  <2>1. new.vals = Append(col.vals, v) /\ new.missing = Append(col.missing, m)
    BY <1>0 DEF Pushed
  <2> QED
    BY <1>1, <2>1
<1>5. \A i \in 1 .. n + 1 : i \in 1 .. n \/ i = n + 1
  OBVIOUS
<1>6. Fits(new, c, n + 1)
  <2>1. \A i \in 1 .. n + 1 : new.vals[i] = None => new.missing[i]
    BY <1>3, <1>4, <1>5 DEF Fits
  <2>2. new \in [vals : Seq(InMemory!Takes(c)), missing : Seq(BOOLEAN)]
    BY <1>0, <1>2 DEF Pushed
  <2> QED
    BY <1>2, <2>1, <2>2 DEF Fits
<1>7. FlagsExact(col, c) /\ (Types[c] = "S" /\ m = TRUE => v = None) => FlagsExact(new, c)
  BY <1>1, <1>2, <1>3, <1>4, <1>5 DEF FlagsExact
<1> QED
  BY <1>0, <1>6, <1>7

\* The column `new` is `col` with one more cell, which reads as x.
Grows(new, col, c, n, x) ==
  /\ Fits(new, c, n + 1)
  /\ \A i \in 1 .. n : InMemory!Cell(new, i) = InMemory!Cell(col, i)
  /\ InMemory!Cell(new, n + 1) = x
  /\ FlagsExact(col, c) => FlagsExact(new, c)

LEMMA PushedGap ==
  ASSUME NEW c \in Fields, NEW n \in Nat, NEW col, Fits(col, c, n),
         NEW v \in InMemory!Takes(c), Types[c] = "S" => v = None
  PROVE  Grows(Pushed(col, v, TRUE), col, c, n, None)
<1>1. /\ col.missing \in Seq(BOOLEAN) /\ Len(col.missing) = n
      /\ col.vals \in Seq(InMemory!Takes(c)) /\ Len(col.vals) = n
  BY DEF Fits
<1>2. /\ \A i \in 1 .. n : Append(col.missing, TRUE)[i] <=> col.missing[i]
      /\ Append(col.missing, TRUE)[n + 1] <=> TRUE
  BY <1>1
<1>3. /\ \A i \in 1 .. n : Append(col.vals, v)[i] = col.vals[i]
      /\ Append(col.vals, v)[n + 1] = v
  BY <1>1
<1>4. Pushed(col, v, TRUE).vals = Append(col.vals, v)
      /\ Pushed(col, v, TRUE).missing = Append(col.missing, TRUE)
  BY DEF Pushed
<1>5. /\ \A i \in 1 .. n : InMemory!Cell(Pushed(col, v, TRUE), i) = InMemory!Cell(col, i)
      /\ InMemory!Cell(Pushed(col, v, TRUE), n + 1) = None
  BY <1>2, <1>3, <1>4 DEF InMemory!Cell
<1>6. Fits(Pushed(col, v, TRUE), c, n + 1)
  BY PushFits
<1>7. FlagsExact(col, c) => FlagsExact(Pushed(col, v, TRUE), c)
  BY PushFits
<1> QED
  BY <1>5, <1>6, <1>7 DEF Grows

LEMMA PushedValue ==
  ASSUME NEW c \in Fields, NEW n \in Nat, NEW col, Fits(col, c, n),
         NEW v \in InMemory!Takes(c), v # None
  PROVE  Grows(Pushed(col, v, FALSE), col, c, n, v)
<1>1. /\ col.missing \in Seq(BOOLEAN) /\ Len(col.missing) = n
      /\ col.vals \in Seq(InMemory!Takes(c)) /\ Len(col.vals) = n
  BY DEF Fits
<1>2. /\ \A i \in 1 .. n : Append(col.missing, FALSE)[i] <=> col.missing[i]
      /\ Append(col.missing, FALSE)[n + 1] <=> FALSE
  BY <1>1
<1>3. /\ \A i \in 1 .. n : Append(col.vals, v)[i] = col.vals[i]
      /\ Append(col.vals, v)[n + 1] = v
  BY <1>1
<1>4. Pushed(col, v, FALSE).vals = Append(col.vals, v)
      /\ Pushed(col, v, FALSE).missing = Append(col.missing, FALSE)
  BY DEF Pushed
<1>5. /\ \A i \in 1 .. n : InMemory!Cell(Pushed(col, v, FALSE), i) = InMemory!Cell(col, i)
      /\ InMemory!Cell(Pushed(col, v, FALSE), n + 1) = v
  BY <1>2, <1>3, <1>4 DEF InMemory!Cell
<1>6. Fits(Pushed(col, v, FALSE), c, n + 1)
  BY PushFits
<1>7. FlagsExact(col, c) => FlagsExact(Pushed(col, v, FALSE), c)
  BY PushFits
<1> QED
  BY <1>5, <1>6, <1>7 DEF Grows

\* What push_back() and push_back_missing() append is what is read back.
LEMMA PushBackGrows ==
  ASSUME NEW c \in Fields, NEW n \in Nat, NEW col, Fits(col, c, n), NEW v \in InMemory!Takes(c)
  PROVE  Grows(InMemory!PushBack(col, Types[c], v), col, c, n, v)
<1>1. CASE Types[c] = "S" /\ v = None
  <2>1. InMemory!PushBack(col, Types[c], v) = Pushed(col, v, TRUE)
    BY <1>1 DEF InMemory!PushBack, InMemory!PushMissing, InMemory!Dummy, Pushed
  <2> QED
    BY <1>1, <2>1, PushedGap
<1>2. CASE ~ (Types[c] = "S" /\ v = None)
  <2>1. InMemory!PushBack(col, Types[c], v) = Pushed(col, v, FALSE)
    BY <1>2 DEF InMemory!PushBack, Pushed
  <2>2. v # None
    BY <1>2, TypesAre
  <2> QED
    BY <2>1, <2>2, PushedValue
<1> QED
  BY <1>1, <1>2

LEMMA PushMissingGrows ==
  ASSUME NEW c \in Fields, NEW n \in Nat, NEW col, Fits(col, c, n)
  PROVE  Grows(InMemory!PushMissing(col, Types[c]), col, c, n, None)
<1> DEFINE v == InMemory!Dummy(Types[c])
<1>1. InMemory!PushMissing(col, Types[c]) = Pushed(col, v, TRUE)
  BY DEF InMemory!PushMissing, Pushed
<1>2. v \in InMemory!Takes(c) /\ (Types[c] = "S" => v = None)
  BY TypesAre DEF InMemory!Dummy
<1> HIDE DEF v
<1> QED
  BY <1>1, <1>2, PushedGap

\* set() and set_missing()
\* The cell i of `col` now reads as x.
Writes(new, col, c, n, i, x) ==
  /\ Fits(new, c, n)
  /\ \A j \in 1 .. n : InMemory!Cell(new, j) = IF j = i THEN x ELSE InMemory!Cell(col, j)

LEMMA SetWrites ==
  ASSUME NEW c \in Fields, NEW n \in Nat, NEW col, Fits(col, c, n), NEW v \in InMemory!Takes(c),
         NEW i \in 1 .. n, NEW new, new = InMemory!Set(col, Types[c], i, v)
  PROVE  /\ Writes(new, col, c, n, i, v)
         /\ FlagsExact(col, c) => FlagsExact(new, c)
<1> DEFINE m == Types[c] = "S" /\ v = None
<1>1. col.vals \in Seq(InMemory!Takes(c)) /\ col.missing \in Seq(BOOLEAN)
      /\ Len(col.vals) = n /\ Len(col.missing) = n
  BY DEF Fits
<1>2. m \in BOOLEAN /\ (v = None <=> m)
  BY TypesAre
<1>3. new.vals = [col.vals EXCEPT ![i] = v] /\ new.missing = [col.missing EXCEPT ![i] = m]
      /\ new = [vals |-> new.vals, missing |-> new.missing]
  BY DEF InMemory!Set
<1> HIDE DEF m
<1>4. /\ new.vals \in Seq(InMemory!Takes(c)) /\ Len(new.vals) = n
      /\ \A j \in 1 .. n : new.vals[j] = IF j = i THEN v ELSE col.vals[j]
  BY <1>1, <1>3
<1>5. /\ new.missing \in Seq(BOOLEAN) /\ Len(new.missing) = n
      /\ \A j \in 1 .. n : new.missing[j] = IF j = i THEN m ELSE col.missing[j]
  BY <1>1, <1>2, <1>3
<1>6. Fits(new, c, n)
  <2>1. new \in [vals : Seq(InMemory!Takes(c)), missing : Seq(BOOLEAN)]
    BY <1>3, <1>4, <1>5
  <2>2. \A j \in 1 .. n : new.vals[j] = None => new.missing[j]
    BY <1>2, <1>4, <1>5 DEF Fits
  <2> QED
    BY <1>4, <1>5, <2>1, <2>2 DEF Fits
<1>7. \A j \in 1 .. n : InMemory!Cell(new, j) = IF j = i THEN v ELSE InMemory!Cell(col, j)
  BY <1>2, <1>4, <1>5 DEF InMemory!Cell
<1>8. FlagsExact(col, c) => FlagsExact(new, c)
  BY <1>1, <1>2, <1>4, <1>5 DEF FlagsExact
<1> QED
  BY <1>6, <1>7, <1>8 DEF Writes

LEMMA SetMissingWrites ==
  ASSUME NEW c \in Fields, NEW n \in Nat, NEW col, Fits(col, c, n),
         NEW i \in 1 .. n, NEW new, new = InMemory!SetMissing(col, i)
  PROVE  Writes(new, col, c, n, i, None)
<1>1. col.vals \in Seq(InMemory!Takes(c)) /\ col.missing \in Seq(BOOLEAN)
      /\ Len(col.vals) = n /\ Len(col.missing) = n
      /\ col \in [vals : Seq(InMemory!Takes(c)), missing : Seq(BOOLEAN)]
  BY DEF Fits
<1>3. new.vals = col.vals /\ new.missing = [col.missing EXCEPT ![i] = TRUE]
      /\ new = [vals |-> new.vals, missing |-> new.missing]
  BY <1>1 DEF InMemory!SetMissing
<1>5. /\ new.missing \in Seq(BOOLEAN) /\ Len(new.missing) = n
      /\ new.missing[i] = TRUE
      /\ \A j \in 1 .. n : j # i => new.missing[j] = col.missing[j]
  BY <1>1, <1>3
<1>6. Fits(new, c, n)
  <2>1. new \in [vals : Seq(InMemory!Takes(c)), missing : Seq(BOOLEAN)]
    BY <1>1, <1>3, <1>5
  <2>2. \A j \in 1 .. n : new.vals[j] = None => new.missing[j]
    BY <1>1, <1>3, <1>5 DEF Fits
  <2> QED
    BY <1>1, <1>3, <1>5, <2>1, <2>2 DEF Fits
<1>7. \A j \in 1 .. n : InMemory!Cell(new, j) = IF j = i THEN None ELSE InMemory!Cell(col, j)
  BY <1>3, <1>5 DEF InMemory!Cell
<1> QED
  BY <1>6, <1>7 DEF Writes

\* The frame and the row as a table sees them.
TableOf(cs, n) == [i \in 1 .. n |-> [c \in Fields |-> InMemory!Cell(cs[c], i)]]
HandOf(r) == [c \in Fields |-> InMemory!Cell(r[c], 1)]

LEMMA AddRowGrows ==
  ASSUME NEW cs, NEW n, InFrame(cs, n), NEW r, InHand(r)
  PROVE  /\ InFrame(InMemory!AddRow(cs, r), n + 1)
         /\ TableOf(InMemory!AddRow(cs, r), n + 1) = Append(TableOf(cs, n), HandOf(r))
<1> DEFINE new == InMemory!AddRow(cs, r)
<1>1. n \in Nat /\ n + 1 \in Nat /\ \A i \in 1 .. n + 1 : i \in 1 .. n \/ i = n + 1
  BY DEF InFrame
<1>2. new = [c \in Fields |-> new[c]]
  BY DEF InMemory!AddRow, Fields
<1>3. ASSUME NEW c \in Fields PROVE Grows(new[c], cs[c], c, n, InMemory!Cell(r[c], 1))
  <2>1. Fits(cs[c], c, n) /\ Fits(r[c], c, 1)
    BY DEF InFrame, InHand
  <2>2. r[c].vals[1] \in InMemory!Takes(c)
    <3>1. r[c].vals \in Seq(InMemory!Takes(c)) /\ Len(r[c].vals) = 1
      BY <2>1 DEF Fits
    <3> QED
      BY <3>1
  <2>3. CASE r[c].missing[1]
    <3>1. new[c] = InMemory!PushMissing(cs[c], Types[c]) /\ InMemory!Cell(r[c], 1) = None
      BY <2>3 DEF InMemory!AddRow, InMemory!Cell, Fields
    <3> QED
      BY <1>1, <2>1, <3>1, PushMissingGrows
  <2>4. CASE ~ r[c].missing[1]
    <3>1. /\ new[c] = InMemory!PushBack(cs[c], Types[c], r[c].vals[1])
          /\ InMemory!Cell(r[c], 1) = r[c].vals[1]
      BY <2>4 DEF InMemory!AddRow, InMemory!Cell, Fields
    <3> QED
      BY <1>1, <2>1, <2>2, <3>1, PushBackGrows
  <2> QED
    BY <2>3, <2>4
<1> HIDE DEF new
<1>4. InFrame(new, n + 1)
  BY <1>1, <1>2, <1>3 DEF InFrame, Grows
<1>5. \A i \in 1 .. n : TableOf(new, n + 1)[i] = TableOf(cs, n)[i]
  BY <1>1, <1>3 DEF TableOf, Grows
<1>6. TableOf(new, n + 1)[n + 1] = HandOf(r)
  BY <1>1, <1>3 DEF TableOf, HandOf, Grows
<1>7. TableOf(new, n + 1) = Append(TableOf(cs, n), HandOf(r))
  <2> DEFINE t == TableOf(new, n + 1)
             u == TableOf(cs, n)
             h == HandOf(r)
             S == {u[i] : i \in 1 .. n} \cup {h}
  <2>1. DOMAIN t = 1 .. n + 1 /\ t = [i \in 1 .. n + 1 |-> t[i]]
    BY DEF TableOf
  <2>2. DOMAIN u = 1 .. n /\ u = [i \in 1 .. n |-> u[i]]
    BY DEF TableOf
  <2> HIDE DEF t, u, h
  <2>3. u \in Seq(S) /\ Len(u) = n /\ h \in S
    BY <1>1, <2>2
  <2>4. \A i \in 1 .. n : t[i] = u[i]
    BY <1>5 DEF t, u
  <2>5. t[n + 1] = h
    BY <1>6 DEF t, h
  <2> HIDE DEF S
  <2>6. /\ Append(u, h) \in Seq(S) /\ Len(Append(u, h)) = n + 1
        /\ \A i \in 1 .. n : Append(u, h)[i] = u[i]
        /\ Append(u, h)[n + 1] = h
    BY <2>3, AppendProperties
  <2>7. Append(u, h) \in [1 .. n + 1 -> S]
    BY <2>6, LenProperties
  <2>8. Append(u, h) = [i \in 1 .. n + 1 |-> Append(u, h)[i]]
    BY <2>7
  <2>9. \A i \in 1 .. n + 1 : Append(u, h)[i] = t[i]
    BY <1>1, <2>4, <2>5, <2>6
  <2>10. t = Append(u, h)
    BY <2>1, <2>8, <2>9
  <2> QED
    BY <2>10 DEF t, u, h
<1> QED
  BY <1>4, <1>7 DEF new

\* What was in the row before does not matter.
LEMMA FillRowReads ==
  ASSUME TableInv, NEW r, InHand(r), NEW i \in 1 .. height
  PROVE  InHand(InMemory!FillRow(r, i)) /\ HandOf(InMemory!FillRow(r, i)) = TableOf(cols, height)[i]
<1> DEFINE new == InMemory!FillRow(r, i)
<1>1. new = [c \in Fields |-> new[c]]
  BY DEF InMemory!FillRow, Fields
<1>2. ASSUME NEW c \in Fields PROVE Writes(new[c], r[c], c, 1, 1, InMemory!Cell(cols[c], i))
  <2>1. Fits(cols[c], c, height) /\ Fits(r[c], c, 1)
    BY DEF TableInv, InFrame, InHand
  <2>2. cols[c].vals[i] \in InMemory!Takes(c)
    <3>1. cols[c].vals \in Seq(InMemory!Takes(c)) /\ Len(cols[c].vals) = height
      BY <2>1 DEF Fits
    <3> QED
      BY <3>1
  <2>3. CASE cols[c].missing[i]
    <3>1. new[c] = InMemory!SetMissing(r[c], 1) /\ InMemory!Cell(cols[c], i) = None
      BY <2>3 DEF InMemory!FillRow, InMemory!Cell, Fields
    <3> QED
      BY <2>1, <3>1, SetMissingWrites
  <2>4. CASE ~ cols[c].missing[i]
    <3>1. /\ new[c] = InMemory!Set(r[c], Types[c], 1, cols[c].vals[i])
          /\ InMemory!Cell(cols[c], i) = cols[c].vals[i]
      BY <2>4 DEF InMemory!FillRow, InMemory!Cell, Fields
    <3> QED
      BY <2>1, <2>2, <3>1, SetWrites
  <2> QED
    BY <2>3, <2>4
<1> HIDE DEF new
<1>3. InHand(new)
  BY <1>1, <1>2 DEF InHand, Writes
<1>4. \A c \in Fields : InMemory!Cell(new[c], 1) = InMemory!Cell(cols[c], i)
  BY <1>2 DEF Writes
<1>5. HandOf(new) = TableOf(cols, height)[i]
  BY <1>4 DEF HandOf, TableOf
<1> QED
  BY <1>3, <1>5 DEF new

-----------------------------------------------------------------------------
\* Filters

LEMMA NoCellsFit ==
  ASSUME NEW c \in Fields
  PROVE  Fits(InMemory!NoCells, c, 0) /\ FlagsExact(InMemory!NoCells, c)
BY DEF Fits, FlagsExact, InMemory!NoCells

LEMMA EmptyFrame ==
  /\ InFrame([c \in Fields |-> InMemory!NoCells], 0)
  /\ \A cs : TableOf(cs, 0) = <<>>
<1> DEFINE cs == [c \in Fields |-> InMemory!NoCells]
<1>1. \A c \in Fields : Fits(cs[c], c, 0) /\ FlagsExact(cs[c], c)
  BY NoCellsFit
<1>2. cs = [c \in Fields |-> cs[c]]
  OBVIOUS
<1>3. \A ds : TableOf(ds, 0) = <<>>
  BY DEF TableOf
<1> HIDE DEF cs
<1> QED
  BY <1>1, <1>2, <1>3 DEF InFrame, cs

LEMMA NewRowIsEmpty ==
  InHand(InMemory!NewRow) /\ HandOf(InMemory!NewRow) = [c \in Fields |-> None]
<1> DEFINE r == InMemory!NewRow
<1>1. r = [c \in Fields |-> r[c]]
  BY DEF InMemory!NewRow, Fields
<1>2. ASSUME NEW c \in Fields PROVE Fits(r[c], c, 1) /\ InMemory!Cell(r[c], 1) = None
  <2>1. r[c] = InMemory!PushMissing(InMemory!NoCells, Types[c])
    BY DEF InMemory!NewRow, Fields
  <2>2. Grows(InMemory!PushMissing(InMemory!NoCells, Types[c]), InMemory!NoCells, c, 0, None)
    BY NoCellsFit, PushMissingGrows
  <2>3. 0 + 1 = 1
    OBVIOUS
  <2> QED
    BY <2>1, <2>2, <2>3 DEF Grows
<1> HIDE DEF r
<1>3. InHand(r) /\ HandOf(r) = [c \in Fields |-> None]
  BY <1>1, <1>2 DEF InHand, HandOf
<1> QED
  BY <1>3 DEF r
\* The function that filter() computes with, and the one of a table that keeps rows.
FilteredBy(f, S, n) ==
  f = [i \in 0 .. n |->
         IF i = 0 THEN [row |-> InMemory!NewRow, cols |-> [c \in Fields |-> InMemory!NoCells],
                        height |-> 0]
         ELSE IF i \in S
              THEN [row |-> InMemory!FillRow(f[i - 1].row, i),
                    cols |-> InMemory!AddRow(f[i - 1].cols, InMemory!FillRow(f[i - 1].row, i)),
                    height |-> f[i - 1].height + 1]
              ELSE [f[i - 1] EXCEPT !.row = InMemory!FillRow(f[i - 1].row, i)]]

RowsKeptBy(f, S, t) ==
  f = [i \in 0 .. Len(t) |->
         IF i = 0 THEN <<>>
         ELSE IF i \in S THEN Append(f[i - 1], t[i]) ELSE f[i - 1]]

FilterIs(S, F) ==
  /\ cols' = F[height].cols
  /\ height' = F[height].height
  /\ UNCHANGED row

LEMMA FilterStep ==
  ASSUME NEW S
  PROVE  InMemory!Filter(S) <=> FilterIs(S, CHOOSE f : FilteredBy(f, S, height))
BY DEF InMemory!Filter, FilterIs, FilteredBy, Fields

LEMMA KeepStep ==
  ASSUME NEW S
  PROVE  InMemory!T!Keep(S) <=>
           /\ TableOf(cols, height)' =
                (CHOOSE f : RowsKeptBy(f, S, TableOf(cols, height)))[Len(TableOf(cols, height))]
           /\ HandOf(row)' = HandOf(row)
BY DEF InMemory!T!Keep, RowsKeptBy, TableOf, HandOf, Fields
\* What filter() has gathered is a frame.
AnyColumn == UNION {[vals : Seq(InMemory!Takes(c)), missing : Seq(BOOLEAN)] : c \in Fields}
Gathered ==
  {k \in [row : [Fields -> AnyColumn], cols : [Fields -> AnyColumn], height : Nat] :
     InHand(k.row) /\ InFrame(k.cols, k.height)}

LEMMA IsGathered ==
  ASSUME NEW r, InHand(r), NEW cs, NEW n, InFrame(cs, n)
  PROVE  [row |-> r, cols |-> cs, height |-> n] \in Gathered
<1>1. r \in [Fields -> AnyColumn]
  <2>1. \A c \in Fields : r[c] \in AnyColumn
    BY DEF InHand, Fits, AnyColumn
  <2>2. r = [c \in Fields |-> r[c]]
    BY DEF InHand
  <2> QED
    BY <2>1, <2>2
<1>2. cs \in [Fields -> AnyColumn]
  <2>1. \A c \in Fields : cs[c] \in AnyColumn
    BY DEF InFrame, Fits, AnyColumn
  <2>2. cs = [c \in Fields |-> cs[c]]
    BY DEF InFrame
  <2> QED
    BY <2>1, <2>2
<1>3. n \in Nat
  BY DEF InFrame
<1> QED
  BY <1>1, <1>2, <1>3 DEF Gathered

KeepOn(k, S, i) ==
  IF i \in S
  THEN [row |-> InMemory!FillRow(k.row, i),
        cols |-> InMemory!AddRow(k.cols, InMemory!FillRow(k.row, i)),
        height |-> k.height + 1]
  ELSE [k EXCEPT !.row = InMemory!FillRow(k.row, i)]

LEMMA KeepsOn ==
  ASSUME TableInv, NEW S, NEW k \in Gathered, NEW i \in 1 .. height
  PROVE  /\ KeepOn(k, S, i) \in Gathered
         /\ TableOf(KeepOn(k, S, i).cols, KeepOn(k, S, i).height) =
              IF i \in S
              THEN Append(TableOf(k.cols, k.height), TableOf(cols, height)[i])
              ELSE TableOf(k.cols, k.height)
<1> DEFINE r == InMemory!FillRow(k.row, i)
           cs == InMemory!AddRow(k.cols, r)
<1>1. InHand(k.row) /\ InFrame(k.cols, k.height)
      /\ k = [row |-> k.row, cols |-> k.cols, height |-> k.height]
  BY DEF Gathered
<1>2. InHand(r) /\ HandOf(r) = TableOf(cols, height)[i]
  BY <1>1, FillRowReads
<1>3. KeepOn(k, S, i) = IF i \in S THEN [row |-> r, cols |-> cs, height |-> k.height + 1]
                        ELSE [row |-> r, cols |-> k.cols, height |-> k.height]
  <2>1. [k EXCEPT !.row = r] = [row |-> r, cols |-> k.cols, height |-> k.height]
    <3> HIDE DEF r
    <3> QED
      BY <1>1
  <2> QED
    BY <2>1 DEF KeepOn
<1> HIDE DEF r
<1>4. InFrame(cs, k.height + 1)
      /\ TableOf(cs, k.height + 1) = Append(TableOf(k.cols, k.height), HandOf(r))
  BY <1>1, <1>2, AddRowGrows
<1> HIDE DEF cs
<1>5. CASE i \in S
  <2>1. KeepOn(k, S, i) = [row |-> r, cols |-> cs, height |-> k.height + 1]
    BY <1>3, <1>5
  <2>2. KeepOn(k, S, i) \in Gathered
    BY <1>2, <1>4, <2>1, IsGathered
  <2> QED
    BY <1>2, <1>4, <1>5, <2>1, <2>2
<1>6. CASE i \notin S
  <2>1. KeepOn(k, S, i) = [row |-> r, cols |-> k.cols, height |-> k.height]
    BY <1>3, <1>6
  <2>2. KeepOn(k, S, i) \in Gathered
    BY <1>1, <1>2, <2>1, IsGathered
  <2> QED
    BY <1>6, <2>1, <2>2
<1> QED
  BY <1>5, <1>6

Nothing == [row |-> InMemory!NewRow, cols |-> [c \in Fields |-> InMemory!NoCells], height |-> 0]

LEMMA FilteredIs ==
  ASSUME TableInv, NEW S, NEW f, FilteredBy(f, S, height)
  PROVE  f[0] = Nothing /\ \A i \in 1 .. height : f[i] = KeepOn(f[i - 1], S, i)
<1> DEFINE Value(i) == IF i = 0 THEN Nothing ELSE KeepOn(f[i - 1], S, i)
<1>1. height \in Nat
  BY DEF TableInv, InFrame
<1>2. f = [i \in 0 .. height |-> Value(i)]
  BY DEF FilteredBy, KeepOn, Nothing
<1> HIDE DEF Value
<1>3. \A i \in 0 .. height : f[i] = Value(i)
  BY <1>2
<1> QED
  BY <1>1, <1>3 DEF Value

LEMMA FilteredByExists == ASSUME TableInv, NEW S PROVE \E f : FilteredBy(f, S, height)
<1>1. height \in Nat
  BY DEF TableInv, InFrame
<1>2. Nothing \in Gathered
  BY EmptyFrame, NewRowIsEmpty, IsGathered DEF Nothing
<1> DEFINE G == [p \in Gathered \X (1 .. height) |-> KeepOn(p[1], S, p[2])]
<1>3. G \in [Gathered \X (1 .. height) -> Gathered]
  BY KeepsOn
<1>8. \A k \in Gathered, i \in 1 .. height : G[<<k, i>>] = KeepOn(k, S, i)
  OBVIOUS
<1> HIDE DEF G
<1>9. PICK f : Recursive(f, height, Gathered, Nothing, G)
  BY <1>1, <1>2, <1>3, Recursion
<1>4. /\ f \in [0 .. height -> Gathered] /\ f[0] = Nothing
      /\ \A i \in 1 .. height : f[i] = G[<<f[i - 1], i>>]
  BY <1>9 DEF Recursive
<1>5. \A i \in 1 .. height : f[i] = KeepOn(f[i - 1], S, i)
  <2> SUFFICES ASSUME NEW i \in 1 .. height PROVE f[i] = KeepOn(f[i - 1], S, i)
    OBVIOUS
  <2>1. i - 1 \in 0 .. height
    BY <1>1
  <2> QED
    BY <1>4, <1>8, <2>1
<1> DEFINE Value(i) == IF i = 0 THEN Nothing ELSE KeepOn(f[i - 1], S, i)
<1>6. \A i \in 0 .. height : f[i] = Value(i)
  BY <1>1, <1>4, <1>5
<1> HIDE DEF Value
<1>7. f = [i \in 0 .. height |-> Value(i)]
  BY <1>4, <1>6
<1> QED
  BY <1>7 DEF FilteredBy, KeepOn, Nothing, Value
RowOn(u, S, t, i) == IF i \in S THEN Append(u, t[i]) ELSE u

LEMMA RowsKeptIs ==
  ASSUME NEW n \in Nat, NEW t, Len(t) = n, NEW S, NEW f, RowsKeptBy(f, S, t)
  PROVE  f[0] = <<>> /\ \A i \in 1 .. n : f[i] = RowOn(f[i - 1], S, t, i)
<1> DEFINE Value(i) == IF i = 0 THEN <<>> ELSE RowOn(f[i - 1], S, t, i)
<1>2. f = [i \in 0 .. n |-> Value(i)]
  BY DEF RowsKeptBy, RowOn
<1> HIDE DEF Value
<1>3. \A i \in 0 .. n : f[i] = Value(i)
  BY <1>2
<1> QED
  BY <1>3 DEF Value

LEMMA RowsKeptExist ==
  ASSUME NEW X, NEW t \in Seq(X), NEW S
  PROVE  \E f : RowsKeptBy(f, S, t)
<1> DEFINE n == Len(t)
           G == [p \in Seq(X) \X (1 .. n) |-> RowOn(p[1], S, t, p[2])]
<1>1. n \in Nat /\ <<>> \in Seq(X) /\ \A i \in 1 .. n : t[i] \in X
  OBVIOUS
<1> HIDE DEF n
<1>2. \A u \in Seq(X), i \in 1 .. n : RowOn(u, S, t, i) \in Seq(X)
  BY <1>1 DEF RowOn
<1>3. G \in [Seq(X) \X (1 .. n) -> Seq(X)]
  BY <1>2
<1>4. \A u \in Seq(X), i \in 1 .. n : G[<<u, i>>] = RowOn(u, S, t, i)
  OBVIOUS
<1> HIDE DEF G
<1>5. PICK f : Recursive(f, n, Seq(X), <<>>, G)
  BY <1>1, <1>3, Recursion
<1>6. /\ f \in [0 .. n -> Seq(X)] /\ f[0] = <<>>
      /\ \A i \in 1 .. n : f[i] = G[<<f[i - 1], i>>]
  BY <1>5 DEF Recursive
<1>7. \A i \in 1 .. n : f[i] = RowOn(f[i - 1], S, t, i)
  <2> SUFFICES ASSUME NEW i \in 1 .. n PROVE f[i] = RowOn(f[i - 1], S, t, i)
    OBVIOUS
  <2>1. i - 1 \in 0 .. n
    BY <1>1
  <2> QED
    BY <1>4, <1>6, <2>1
<1> DEFINE Value(i) == IF i = 0 THEN <<>> ELSE RowOn(f[i - 1], S, t, i)
<1>8. \A i \in 0 .. n : f[i] = Value(i)
  BY <1>1, <1>6, <1>7
<1> HIDE DEF Value
<1>9. f = [i \in 0 .. n |-> Value(i)]
  BY <1>6, <1>8
<1> QED
  BY <1>9 DEF RowsKeptBy, RowOn, Value, n

\* filter() keeps the rows of a table that it is told to keep, although one row is
\* filled again and again.
LEMMA FilterKeeps ==
  ASSUME TableInv, NEW S, InMemory!Filter(S)
  PROVE  TableInv' /\ InMemory!T!Keep(S)
<1> DEFINE t == TableOf(cols, height)
           X == {t[i] : i \in 1 .. height}
           F == CHOOSE f : FilteredBy(f, S, height)
           U == CHOOSE f : RowsKeptBy(f, S, t)
<1>1. height \in Nat
  BY DEF TableInv, InFrame
<1>2. t \in Seq(X) /\ Len(t) = height
  BY <1>1 DEF TableOf
<1>3. F[0] = Nothing /\ \A i \in 1 .. height : F[i] = KeepOn(F[i - 1], S, i)
  BY FilteredByExists, FilteredIs
<1>4. U[0] = <<>> /\ \A i \in 1 .. height : U[i] = RowOn(U[i - 1], S, t, i)
  <2> HIDE DEF t, X
  <2>1. \E f : RowsKeptBy(f, S, t)
    BY <1>2, RowsKeptExist
  <2> QED
    BY <1>1, <1>2, <2>1, RowsKeptIs
<1>5. FilterIs(S, F)
  BY FilterStep
<1> HIDE DEF F, U
<1> DEFINE Good(i) == F[i] \in Gathered /\ TableOf(F[i].cols, F[i].height) = U[i]
           I == {i \in Nat : i <= height => Good(i)}
<1>6. 0 \in I
  <2>1. Nothing \in Gathered
    BY EmptyFrame, NewRowIsEmpty, IsGathered DEF Nothing
  <2>2. TableOf(Nothing.cols, Nothing.height) = <<>>
    BY EmptyFrame DEF Nothing
  <2> QED
    BY <1>3, <1>4, <2>1, <2>2
<1>7. ASSUME NEW i \in Nat, i \in I PROVE i + 1 \in I
  <2> SUFFICES ASSUME i + 1 <= height PROVE Good(i + 1)
    OBVIOUS
  <2>1. i + 1 \in 1 .. height /\ (i + 1) - 1 = i /\ i <= height
    BY <1>1
  <2>2. Good(i)
    BY <1>7, <2>1
  <2>3. F[i + 1] = KeepOn(F[i], S, i + 1) /\ U[i + 1] = RowOn(U[i], S, t, i + 1)
    BY <1>3, <1>4, <2>1
  <2> HIDE DEF t
  <2>4. /\ KeepOn(F[i], S, i + 1) \in Gathered
        /\ TableOf(KeepOn(F[i], S, i + 1).cols, KeepOn(F[i], S, i + 1).height) =
             IF i + 1 \in S
             THEN Append(TableOf(F[i].cols, F[i].height), TableOf(cols, height)[i + 1])
             ELSE TableOf(F[i].cols, F[i].height)
    BY <2>1, <2>2, KeepsOn
  <2> QED
    BY <2>2, <2>3, <2>4 DEF RowOn, t
<1> HIDE DEF I
<1>8. height \in I
  BY <1>1, <1>6, <1>7, SetInduction
<1>9. F[height] \in Gathered /\ TableOf(F[height].cols, F[height].height) = U[height]
  BY <1>1, <1>8 DEF I
<1>10. TableInv'
  BY <1>5, <1>9 DEF FilterIs, Gathered, TableInv
<1>11. TableOf(cols', height') = U[height] /\ HandOf(row') = HandOf(row)
  BY <1>5, <1>9 DEF FilterIs
<1>12. InMemory!T!Keep(S)
  <2>1. TableOf(cols, height)' = TableOf(cols', height') /\ HandOf(row)' = HandOf(row')
    BY DEF TableOf, HandOf
  <2> QED
    BY <1>2, <1>11, <2>1, KeepStep DEF U
<1> QED
  BY <1>10, <1>12
-----------------------------------------------------------------------------
\* Columns that travel and columns that are cloned

\* The column `new` is one of a frame and reads as `col` does.
Same(new, col, c, n) ==
  /\ Fits(new, c, n) /\ FlagsExact(new, c)
  /\ \A i \in 1 .. n : InMemory!Cell(new, i) = InMemory!Cell(col, i)

WriteOn(w, col, i) == IF col.missing[i] THEN w ELSE Append(w, col.vals[i])
WrittenBy(f, col) ==
  f = [i \in 0 .. Len(col.vals) |->
         IF i = 0 THEN <<>>
         ELSE IF col.missing[i] THEN f[i - 1] ELSE Append(f[i - 1], col.vals[i])]

ReadOn(r, wire, t, i) ==
  IF wire.flags[i] THEN [r EXCEPT !.col = InMemory!PushMissing(@, t)]
  ELSE [col |-> [vals |-> Append(r.col.vals, wire.values[r.used + 1]),
                 missing |-> Append(r.col.missing, FALSE)],
        used |-> r.used + 1]
ReadBy(f, wire, t) ==
  f = [i \in 0 .. Len(wire.flags) |->
         IF i = 0 THEN [col |-> InMemory!NoCells, used |-> 0]
         ELSE IF wire.flags[i] THEN [f[i - 1] EXCEPT !.col = InMemory!PushMissing(@, t)]
              ELSE [col |-> [vals |-> Append(f[i - 1].col.vals, wire.values[f[i - 1].used + 1]),
                             missing |-> Append(f[i - 1].col.missing, FALSE)],
                    used |-> f[i - 1].used + 1]]

CopiedBy(f, col, t) ==
  f = [i \in 0 .. Len(col.vals) |->
         IF i = 0 THEN InMemory!NoCells ELSE InMemory!PushBack(f[i - 1], t, col.vals[i])]

Writing(col) == CHOOSE f : WrittenBy(f, col)
Reading(wire, t) == CHOOSE f : ReadBy(f, wire, t)
Copying(col, t) == CHOOSE f : CopiedBy(f, col, t)

LEMMA SerializedIs ==
  ASSUME NEW col
  PROVE  InMemory!Serialized(col) =
           [flags |-> col.missing, values |-> Writing(col)[Len(col.vals)]]
BY DEF InMemory!Serialized, WrittenBy, Writing

LEMMA DeserializedIs ==
  ASSUME NEW wire, NEW t
  PROVE  InMemory!Deserialized(wire, t) = Reading(wire, t)[Len(wire.flags)].col
BY DEF InMemory!Deserialized, ReadBy, Reading

LEMMA CloneIs ==
  ASSUME NEW col, NEW t
  PROVE  InMemory!Clone(col, t) =
           IF t = "S" THEN Copying(col, t)[Len(col.vals)]
           ELSE [col EXCEPT !.missing = [i \in DOMAIN col.vals |-> FALSE]]
BY DEF InMemory!Clone, CopiedBy, Copying
\* What is written: the values that are not missing, each behind those before it.
LEMMA WrittenIs ==
  ASSUME NEW c \in Fields, NEW n \in Nat, NEW col, Fits(col, c, n),
         NEW W, W = Writing(col)
  PROVE  /\ W[0] = <<>> /\ \A i \in 1 .. n : W[i] = WriteOn(W[i - 1], col, i)
         /\ \A i \in 0 .. n : W[i] \in Seq(InMemory!Takes(c))
<1> DEFINE X == InMemory!Takes(c)
<1>1. /\ Len(col.vals) = n
      /\ \A i \in 1 .. n : col.vals[i] \in X
  <2>1. col.vals \in Seq(X) /\ Len(col.vals) = n
    BY DEF Fits
  <2> QED
    BY <2>1
<1> HIDE DEF X
<1> DEFINE G == [p \in Seq(X) \X (1 .. n) |-> WriteOn(p[1], col, p[2])]
<1>2. \A u \in Seq(X), i \in 1 .. n : WriteOn(u, col, i) \in Seq(X)
  BY <1>1 DEF WriteOn
<1>3. G \in [Seq(X) \X (1 .. n) -> Seq(X)]
  BY <1>2
<1>4. \A u \in Seq(X), i \in 1 .. n : G[<<u, i>>] = WriteOn(u, col, i)
  OBVIOUS
<1> HIDE DEF G
<1>5. <<>> \in Seq(X)
  OBVIOUS
<1>6. PICK f : Recursive(f, n, Seq(X), <<>>, G)
  BY <1>3, <1>5, Recursion
<1>7. /\ f \in [0 .. n -> Seq(X)] /\ f[0] = <<>>
      /\ \A i \in 1 .. n : f[i] = G[<<f[i - 1], i>>]
  BY <1>6 DEF Recursive
<1>8. \A i \in 1 .. n : f[i] = WriteOn(f[i - 1], col, i)
  <2> SUFFICES ASSUME NEW i \in 1 .. n PROVE f[i] = WriteOn(f[i - 1], col, i)
    OBVIOUS
  <2>1. i - 1 \in 0 .. n
    OBVIOUS
  <2> QED
    BY <1>4, <1>7, <2>1
<1> DEFINE Value(g, i) == IF i = 0 THEN <<>> ELSE WriteOn(g[i - 1], col, i)
<1>9. \A i \in 0 .. n : f[i] = Value(f, i)
  BY <1>7, <1>8
<1>10. WrittenBy(f, col)
  <2> HIDE DEF Value
  <2>1. f = [i \in 0 .. n |-> Value(f, i)]
    BY <1>7, <1>9
  <2> QED
    BY <1>1, <2>1 DEF WrittenBy, WriteOn, Value
<1>11. W = [i \in 0 .. n |-> Value(W, i)]
  <2>1. WrittenBy(W, col)
    BY <1>10 DEF Writing
  <2> QED
    BY <1>1, <2>1 DEF WrittenBy, WriteOn
<1>12. W[0] = <<>> /\ \A i \in 1 .. n : W[i] = WriteOn(W[i - 1], col, i)
  <2> HIDE DEF Value
  <2>1. \A i \in 0 .. n : W[i] = Value(W, i)
    BY <1>11
  <2> QED
    BY <2>1 DEF Value
<1> DEFINE I == {i \in Nat : i <= n => W[i] \in Seq(X)}
<1>13. 0 \in I
  BY <1>5, <1>12
<1>14. ASSUME NEW i \in Nat, i \in I PROVE i + 1 \in I
  <2> SUFFICES ASSUME i + 1 <= n PROVE W[i + 1] \in Seq(X)
    OBVIOUS
  <2>1. i + 1 \in 1 .. n /\ (i + 1) - 1 = i /\ i <= n
    OBVIOUS
  <2> QED
    BY <1>2, <1>12, <1>14, <2>1
<1> HIDE DEF I
<1>15. Nat \subseteq I
  BY <1>13, <1>14, SetInduction
<1>16. \A i \in 0 .. n : W[i] \in Seq(X)
  BY <1>15 DEF I
<1> QED
  BY <1>12, <1>16 DEF X

LEMMA WrittenInOrder ==
  ASSUME NEW c \in Fields, NEW n \in Nat, NEW col, Fits(col, c, n),
         NEW W, W = Writing(col)
  PROVE  \A i \in 0 .. n : /\ Len(W[i]) <= Len(W[n])
                           /\ \A k \in 1 .. Len(W[i]) : W[n][k] = W[i][k]
<1> DEFINE X == InMemory!Takes(c)
           Before(i, j) == /\ Len(W[i]) <= Len(W[j])
                           /\ \A k \in 1 .. Len(W[i]) : W[j][k] = W[i][k]
           I == {j \in Nat : j <= n => \A i \in 0 .. j : Before(i, j)}
<1>1. /\ W[0] = <<>> /\ \A i \in 1 .. n : W[i] = WriteOn(W[i - 1], col, i)
      /\ \A i \in 0 .. n : W[i] \in Seq(X)
  BY WrittenIs
<1>2. \A i \in 1 .. n : col.vals[i] \in X
  <2>1. col.vals \in Seq(X) /\ Len(col.vals) = n
    BY DEF Fits
  <2> QED
    BY <2>1
<1> HIDE DEF X
<1>3. \A i \in 0 .. n : Before(i, i)
  <2> SUFFICES ASSUME NEW i \in 0 .. n PROVE Before(i, i)
    OBVIOUS
  <2>1. Len(W[i]) \in Nat
    BY <1>1
  <2> QED
    BY <2>1
<1>4. 0 \in I
  BY <1>3
<1>5. ASSUME NEW j \in Nat, j \in I PROVE j + 1 \in I
  <2> SUFFICES ASSUME j + 1 <= n, NEW i \in 0 .. j + 1 PROVE Before(i, j + 1)
    OBVIOUS
  <2>1. j + 1 \in 1 .. n /\ (j + 1) - 1 = j /\ j <= n /\ j \in 0 .. n
    OBVIOUS
  <2>2. CASE i = j + 1
    BY <1>3, <2>1, <2>2
  <2>3. CASE i # j + 1
    <3>1. i \in 0 .. j /\ i \in 0 .. n
      BY <2>1, <2>3
    <3>2. Before(i, j)
      BY <1>5, <2>1, <3>1
    <3>3. W[j + 1] = W[j] \/ W[j + 1] = Append(W[j], col.vals[j + 1])
      BY <1>1, <2>1 DEF WriteOn
    <3>4. W[j] \in Seq(X) /\ W[i] \in Seq(X) /\ col.vals[j + 1] \in X
      BY <1>1, <1>2, <2>1, <3>1
    <3> DEFINE u == W[i]
               v == W[j]
               w == W[j + 1]
               x == col.vals[j + 1]
    <3>5. /\ Len(u) <= Len(v) /\ \A k \in 1 .. Len(u) : v[k] = u[k]
          /\ v \in Seq(X) /\ u \in Seq(X) /\ x \in X /\ (w = v \/ w = Append(v, x))
      BY <3>2, <3>3, <3>4
    <3> HIDE DEF u, v, w, x
    <3>6. Len(v) <= Len(w) /\ \A k \in 1 .. Len(v) : w[k] = v[k]
      <4>1. CASE w = v
        BY <3>5, <4>1
      <4>2. CASE w = Append(v, x)
        <5>1. /\ Len(v) <= Len(Append(v, x))
              /\ \A k \in 1 .. Len(v) : Append(v, x)[k] = v[k]
          BY <3>5
        <5> QED
          BY <4>2, <5>1
      <4> QED
        BY <3>5, <4>1, <4>2
    <3>7. Len(u) \in Nat /\ Len(v) \in Nat /\ Len(w) \in Nat
      BY <3>5
    <3>8. Len(u) <= Len(w) /\ \A k \in 1 .. Len(u) : w[k] = u[k]
      BY <3>5, <3>6, <3>7
    <3> QED
      BY <3>8 DEF u, w
  <2> QED
    BY <2>2, <2>3
<1> HIDE DEF I
<1>6. Nat \subseteq I
  BY <1>4, <1>5, SetInduction
<1> QED
  BY <1>6 DEF I
LEMMA ReadIs ==
  ASSUME NEW n \in Nat, NEW wire, NEW t,
         wire.flags \in Seq(BOOLEAN), Len(wire.flags) = n,
         NEW R, R = Reading(wire, t)
  PROVE  /\ R[0] = [col |-> InMemory!NoCells, used |-> 0]
         /\ \A i \in 1 .. n : R[i] = ReadOn(R[i - 1], wire, t, i)
<1> DEFINE V == {wire.values[k] : k \in Nat} \cup {InMemory!Dummy(t)}
           T == [col : [vals : Seq(V), missing : Seq(BOOLEAN)], used : Nat]
           a == [col |-> InMemory!NoCells, used |-> 0]
           G == [p \in T \X (1 .. n) |-> ReadOn(p[1], wire, t, p[2])]
<1>1. a \in T
  BY DEF InMemory!NoCells
<1>2. ASSUME NEW r \in T, NEW i \in 1 .. n PROVE ReadOn(r, wire, t, i) \in T
  <2>1. /\ r.col.vals \in Seq(V) /\ r.col.missing \in Seq(BOOLEAN) /\ r.used \in Nat
        /\ r = [col |-> r.col, used |-> r.used]
    OBVIOUS
  <2>2. InMemory!Dummy(t) \in V /\ wire.values[r.used + 1] \in V
    BY <2>1
  <2> HIDE DEF V
  <2>3. CASE wire.flags[i]
    <3>1. ReadOn(r, wire, t, i) = [col |-> InMemory!PushMissing(r.col, t), used |-> r.used]
      BY <2>1, <2>3 DEF ReadOn
    <3>2. InMemory!PushMissing(r.col, t) \in [vals : Seq(V), missing : Seq(BOOLEAN)]
      BY <2>1, <2>2 DEF InMemory!PushMissing
    <3> QED
      BY <2>1, <3>1, <3>2
  <2>4. CASE ~ wire.flags[i]
    BY <2>1, <2>2, <2>4 DEF ReadOn
  <2> QED
    BY <2>3, <2>4
<1> HIDE DEF T, a
<1>3. G \in [T \X (1 .. n) -> T]
  BY <1>2
<1>4. \A r \in T, i \in 1 .. n : G[<<r, i>>] = ReadOn(r, wire, t, i)
  OBVIOUS
<1> HIDE DEF G
<1>6. PICK f : Recursive(f, n, T, a, G)
  BY <1>1, <1>3, Recursion
<1>7. /\ f \in [0 .. n -> T] /\ f[0] = a
      /\ \A i \in 1 .. n : f[i] = G[<<f[i - 1], i>>]
  BY <1>6 DEF Recursive
<1>8. \A i \in 1 .. n : f[i] = ReadOn(f[i - 1], wire, t, i)
  <2> SUFFICES ASSUME NEW i \in 1 .. n PROVE f[i] = ReadOn(f[i - 1], wire, t, i)
    OBVIOUS
  <2>1. i - 1 \in 0 .. n
    OBVIOUS
  <2> QED
    BY <1>4, <1>7, <2>1
<1> DEFINE Value(g, i) == IF i = 0 THEN a ELSE ReadOn(g[i - 1], wire, t, i)
<1>9. \A i \in 0 .. n : f[i] = Value(f, i)
  BY <1>7, <1>8
<1>10. ReadBy(f, wire, t)
  <2> HIDE DEF Value
  <2>1. f = [i \in 0 .. n |-> Value(f, i)]
    BY <1>7, <1>9
  <2> QED
    BY <2>1 DEF ReadBy, ReadOn, Value, a
<1>11. R = [i \in 0 .. n |-> Value(R, i)]
  <2>1. ReadBy(R, wire, t)
    BY <1>10 DEF Reading
  <2> QED
    BY <2>1 DEF ReadBy, ReadOn, a
<1> HIDE DEF Value
<1>12. \A i \in 0 .. n : R[i] = Value(R, i)
  BY <1>11
<1> QED
  BY <1>12 DEF Value, a

\* What was serialized is read back, missing values as the dummy of their type.
LEMMA RoundTrip ==
  ASSUME NEW c \in Fields, NEW n \in Nat, NEW col, Fits(col, c, n)
  PROVE  Same(InMemory!Deserialized(InMemory!Serialized(col), Types[c]), col, c, n)
<1> DEFINE W == Writing(col)
           wire == InMemory!Serialized(col)
           R == Reading(wire, Types[c])
           X == InMemory!Takes(c)
<1>0. W = Writing(col)
  OBVIOUS
<1> HIDE DEF W
<1>1. /\ W[0] = <<>> /\ \A i \in 1 .. n : W[i] = WriteOn(W[i - 1], col, i)
      /\ \A i \in 0 .. n : W[i] \in Seq(X)
  BY <1>0, WrittenIs
<1>2. \A i \in 0 .. n : /\ Len(W[i]) <= Len(W[n])
                        /\ \A k \in 1 .. Len(W[i]) : W[n][k] = W[i][k]
  BY <1>0, WrittenInOrder
<1>3. col.missing \in Seq(BOOLEAN) /\ Len(col.vals) = n /\ Len(col.missing) = n
      /\ \A i \in 1 .. n : col.vals[i] \in X /\ (col.vals[i] = None => col.missing[i])
  <2>1. col.vals \in Seq(X) /\ col.missing \in Seq(BOOLEAN)
        /\ Len(col.vals) = n /\ Len(col.missing) = n
        /\ \A i \in 1 .. n : col.vals[i] = None => col.missing[i]
    BY DEF Fits
  <2>2. \A i \in 1 .. n : col.vals[i] \in X
    BY <2>1
  <2> QED
    BY <2>1, <2>2
<1>4. wire.flags = col.missing /\ wire.values = W[n]
  BY <1>0, <1>3, SerializedIs
<1>5. InMemory!Deserialized(wire, Types[c]) = R[n].col
  BY <1>3, <1>4, DeserializedIs
<1> HIDE DEF wire, X
<1>6. /\ R[0] = [col |-> InMemory!NoCells, used |-> 0]
      /\ \A i \in 1 .. n : R[i] = ReadOn(R[i - 1], wire, Types[c], i)
  <2>1. wire.flags \in Seq(BOOLEAN) /\ Len(wire.flags) = n
    BY <1>3, <1>4
  <2>2. R = Reading(wire, Types[c])
    OBVIOUS
  <2> HIDE DEF R
  <2> QED
    BY <2>1, <2>2, ReadIs
<1> HIDE DEF R
<1> DEFINE Good(i) == Same(R[i].col, col, c, i) /\ R[i].used = Len(W[i])
           I == {i \in Nat : i <= n => Good(i)}
<1>7. 0 \in I
  <2>1. R[0].col = InMemory!NoCells /\ R[0].used = 0 /\ Len(W[0]) = 0
    BY <1>1, <1>6
  <2> QED
    BY <2>1, NoCellsFit DEF Same
<1>8. ASSUME NEW i \in Nat, i \in I PROVE i + 1 \in I
  <2> SUFFICES ASSUME i + 1 <= n PROVE Good(i + 1)
    OBVIOUS
  <2>1. i + 1 \in 1 .. n /\ (i + 1) - 1 = i /\ i <= n /\ i \in 0 .. n /\ i + 1 \in 0 .. n
    OBVIOUS
  <2>2. Good(i)
    BY <1>8, <2>1
  <2>3. R[i + 1] = ReadOn(R[i], wire, Types[c], i + 1)
        /\ W[i + 1] = WriteOn(W[i], col, i + 1)
    BY <1>1, <1>6, <2>1
  <2> DEFINE x == InMemory!Cell(col, i + 1)
  <2>4. Grows(R[i + 1].col, R[i].col, c, i, x) /\ R[i + 1].used = Len(W[i + 1])
    <3>1. CASE col.missing[i + 1]
      <4>1. W[i + 1] = W[i] /\ x = None
        BY <2>3, <3>1 DEF WriteOn, InMemory!Cell
      <4>2. R[i + 1] = [R[i] EXCEPT !.col = InMemory!PushMissing(@, Types[c])]
        BY <1>4, <2>3, <3>1 DEF ReadOn
      <4> QED
        BY <2>2, <4>1, <4>2, PushMissingGrows DEF Same
    <3>2. CASE ~ col.missing[i + 1]
      <4> DEFINE v == col.vals[i + 1]
      <4>1. W[i + 1] = Append(W[i], v) /\ x = v
        BY <2>3, <3>2 DEF WriteOn, InMemory!Cell
      <4>2. v \in X /\ v # None
        BY <1>3, <2>1, <3>2
      <4> HIDE DEF v, x
      <4>3. /\ Len(W[i]) \in Nat /\ Len(W[i + 1]) = Len(W[i]) + 1
            /\ W[i + 1][Len(W[i]) + 1] = v
        BY <1>1, <2>1, <4>1, <4>2
      <4>4. W[n][Len(W[i]) + 1] = v
        BY <1>2, <2>1, <4>3
      <4>5. /\ R[i + 1].col = Pushed(R[i].col, v, FALSE)
            /\ R[i + 1].used = Len(W[i]) + 1
        BY <1>4, <2>2, <2>3, <3>2, <4>4 DEF ReadOn, Pushed
      <4>6. Grows(Pushed(R[i].col, v, FALSE), R[i].col, c, i, v)
        BY <2>2, <4>2, PushedValue DEF Same, X
      <4> QED
        BY <4>1, <4>3, <4>5, <4>6
    <3> QED
      BY <3>1, <3>2
  <2> HIDE DEF x
  <2>5. \A j \in 1 .. i + 1 : j \in 1 .. i \/ j = i + 1
    OBVIOUS
  <2>6. Same(R[i + 1].col, col, c, i + 1)
    BY <2>2, <2>4, <2>5 DEF Same, Grows, x
  <2> QED
    BY <2>4, <2>6
<1> HIDE DEF I
<1>9. Nat \subseteq I
  BY <1>7, <1>8, SetInduction
<1>10. Same(R[n].col, col, c, n)
  BY <1>9 DEF I
<1> QED
  BY <1>5, <1>10 DEF wire
\* clone() of strings goes by nullptr: it copies the gaps of a column whose flags are
\* exact.
LEMMA CopiedIs ==
  ASSUME NEW c \in Fields, NEW n \in Nat, NEW col, Fits(col, c, n),
         NEW R, R = Copying(col, Types[c])
  PROVE  \A i \in 0 .. n : /\ Fits(R[i], c, i) /\ FlagsExact(R[i], c)
                           /\ \A j \in 1 .. i : InMemory!Cell(R[i], j) = col.vals[j]
<1> DEFINE X == InMemory!Takes(c)
           T == [vals : Seq(X), missing : Seq(BOOLEAN)]
           CopyOn(r, i) == InMemory!PushBack(r, Types[c], col.vals[i])
           G == [p \in T \X (1 .. n) |-> CopyOn(p[1], p[2])]
           a == InMemory!NoCells
<1>1. Len(col.vals) = n /\ \A i \in 1 .. n : col.vals[i] \in X
  <2>1. col.vals \in Seq(X) /\ Len(col.vals) = n
    BY DEF Fits
  <2> QED
    BY <2>1
<1>2. a \in T
  BY DEF InMemory!NoCells
<1>3. ASSUME NEW r \in T, NEW i \in 1 .. n PROVE CopyOn(r, i) \in T
  <2>1. r.vals \in Seq(X) /\ r.missing \in Seq(BOOLEAN) /\ col.vals[i] \in X
    BY <1>1
  <2>2. InMemory!Dummy(Types[c]) \in X
    BY TypesAre
  <2> HIDE DEF X
  <2> QED
    BY <2>1, <2>2 DEF InMemory!PushBack, InMemory!PushMissing
<1> HIDE DEF T, a, CopyOn
<1>4. G \in [T \X (1 .. n) -> T]
  BY <1>3
<1>5. \A r \in T, i \in 1 .. n : G[<<r, i>>] = CopyOn(r, i)
  OBVIOUS
<1> HIDE DEF G
<1>6. PICK f : Recursive(f, n, T, a, G)
  BY <1>2, <1>4, Recursion
<1>7. /\ f \in [0 .. n -> T] /\ f[0] = a
      /\ \A i \in 1 .. n : f[i] = G[<<f[i - 1], i>>]
  BY <1>6 DEF Recursive
<1>8. \A i \in 1 .. n : f[i] = CopyOn(f[i - 1], i)
  <2> SUFFICES ASSUME NEW i \in 1 .. n PROVE f[i] = CopyOn(f[i - 1], i)
    OBVIOUS
  <2>1. i - 1 \in 0 .. n
    OBVIOUS
  <2> QED
    BY <1>5, <1>7, <2>1
<1> DEFINE Value(g, i) == IF i = 0 THEN a ELSE CopyOn(g[i - 1], i)
<1>9. \A i \in 0 .. n : f[i] = Value(f, i)
  BY <1>7, <1>8
<1>10. CopiedBy(f, col, Types[c])
  <2> HIDE DEF Value
  <2>1. f = [i \in 0 .. n |-> Value(f, i)]
    BY <1>7, <1>9
  <2> QED
    BY <1>1, <2>1 DEF CopiedBy, CopyOn, Value, a
<1>11. R = [i \in 0 .. n |-> Value(R, i)]
  <2>1. CopiedBy(R, col, Types[c])
    BY <1>10 DEF Copying
  <2> QED
    BY <1>1, <2>1 DEF CopiedBy, CopyOn, a
<1> HIDE DEF Value
<1>12. \A i \in 0 .. n : R[i] = Value(R, i)
  BY <1>11
<1>13. R[0] = a /\ \A i \in 1 .. n : R[i] = CopyOn(R[i - 1], i)
  BY <1>12 DEF Value
<1> DEFINE Good(i) == /\ Fits(R[i], c, i) /\ FlagsExact(R[i], c)
                      /\ \A j \in 1 .. i : InMemory!Cell(R[i], j) = col.vals[j]
           I == {i \in Nat : i <= n => Good(i)}
<1>14. 0 \in I
  BY <1>13, NoCellsFit DEF a
<1>15. ASSUME NEW i \in Nat, i \in I PROVE i + 1 \in I
  <2> SUFFICES ASSUME i + 1 <= n PROVE Good(i + 1)
    OBVIOUS
  <2>1. i + 1 \in 1 .. n /\ (i + 1) - 1 = i /\ i <= n
    OBVIOUS
  <2>2. Good(i)
    BY <1>15, <2>1
  <2>3. R[i + 1] = InMemory!PushBack(R[i], Types[c], col.vals[i + 1])
    BY <1>13, <2>1 DEF CopyOn
  <2>4. Grows(R[i + 1], R[i], c, i, col.vals[i + 1])
    BY <1>1, <2>1, <2>2, <2>3, PushBackGrows
  <2>5. \A j \in 1 .. i + 1 : j \in 1 .. i \/ j = i + 1
    OBVIOUS
  <2> QED
    BY <2>2, <2>4, <2>5 DEF Grows
<1> HIDE DEF I
<1>16. Nat \subseteq I
  BY <1>14, <1>15, SetInduction
<1> QED
  BY <1>16 DEF I

LEMMA CloneFits ==
  ASSUME NEW c \in Fields, NEW n \in Nat, NEW col, Fits(col, c, n), FlagsExact(col, c)
  PROVE  /\ Fits(InMemory!Clone(col, Types[c]), c, n)
         /\ FlagsExact(InMemory!Clone(col, Types[c]), c)
         /\ (Types[c] = "S" \/ \A i \in 1 .. n : ~ col.missing[i])
              => Same(InMemory!Clone(col, Types[c]), col, c, n)
<1> DEFINE new == InMemory!Clone(col, Types[c])
<1>1. /\ col.vals \in Seq(InMemory!Takes(c)) /\ Len(col.vals) = n
      /\ col.missing \in Seq(BOOLEAN) /\ Len(col.missing) = n
      /\ col = [vals |-> col.vals, missing |-> col.missing]
      /\ \A i \in 1 .. n : col.vals[i] = None => col.missing[i]
  BY DEF Fits
<1>2. CASE Types[c] = "S"
  <2> DEFINE R == Copying(col, Types[c])
  <2>1. new = R[n]
    BY <1>1, <1>2, CloneIs
  <2>2. R = Copying(col, Types[c])
    OBVIOUS
  <2> HIDE DEF R, new
  <2>3. \A i \in 0 .. n : /\ Fits(R[i], c, i) /\ FlagsExact(R[i], c)
                          /\ \A j \in 1 .. i : InMemory!Cell(R[i], j) = col.vals[j]
    BY <2>2, CopiedIs
  <2>4. n \in 0 .. n
    OBVIOUS
  <2>5. \A i \in 1 .. n : InMemory!Cell(col, i) = col.vals[i]
    BY <1>1, <1>2 DEF FlagsExact, InMemory!Cell
  <2>6. Same(new, col, c, n)
    BY <2>1, <2>3, <2>4, <2>5 DEF Same
  <2> QED
    BY <2>6 DEF Same, new
<1>3. CASE Types[c] # "S"
  <2> DEFINE flags == [i \in 1 .. n |-> FALSE]
  <2>1. new = [vals |-> col.vals, missing |-> flags]
    <3>1. DOMAIN col.vals = 1 .. n
      BY <1>1
    <3>2. new = [col EXCEPT !.missing = flags]
      BY <1>3, <3>1, CloneIs
    <3> HIDE DEF flags, new
    <3>3. [col EXCEPT !.missing = flags] = [vals |-> col.vals, missing |-> flags]
      BY <1>1
    <3> QED
      BY <3>2, <3>3
  <2>2. flags \in Seq(BOOLEAN) /\ Len(flags) = n /\ \A i \in 1 .. n : ~ flags[i]
    OBVIOUS
  <2>3. None \notin InMemory!Takes(c)
    BY <1>3, TypesAre
  <2>4. \A i \in 1 .. n : col.vals[i] # None
    <3>1. \A i \in 1 .. n : col.vals[i] \in InMemory!Takes(c)
      BY <1>1
    <3> QED
      BY <2>3, <3>1
  <2> HIDE DEF flags, new
  <2>5. new.vals = col.vals /\ new.missing = flags
        /\ new \in [vals : Seq(InMemory!Takes(c)), missing : Seq(BOOLEAN)]
    BY <1>1, <2>1, <2>2
  <2>6. Fits(new, c, n) /\ FlagsExact(new, c)
    BY <1>1, <1>3, <2>2, <2>4, <2>5 DEF Fits, FlagsExact
  <2>7. (\A i \in 1 .. n : ~ col.missing[i]) => Same(new, col, c, n)
    BY <2>2, <2>5, <2>6 DEF Same, InMemory!Cell
  <2> QED
    BY <1>3, <2>6, <2>7 DEF new
<1> QED
  BY <1>2, <1>3
-----------------------------------------------------------------------------
\* Each operation is that of a table.

LEMMA FrameStates ==
  /\ TableOf(cols, height)' = TableOf(cols', height')
  /\ HandOf(row)' = HandOf(row')
BY DEF TableOf, HandOf

LEMMA TableActions ==
  /\ \A c, v : InMemory!T!Write(c, v) <=>
       /\ HandOf(row)' = [HandOf(row) EXCEPT ![c] = v]
       /\ UNCHANGED TableOf(cols, height)
  /\ InMemory!T!AppendHand <=>
       /\ TableOf(cols, height)' = Append(TableOf(cols, height), HandOf(row))
       /\ UNCHANGED HandOf(row)
  /\ \A i : InMemory!T!Look(i) <=>
       HandOf(row)' = TableOf(cols, height)[i] /\ UNCHANGED TableOf(cols, height)
  /\ \A c, i, v : InMemory!T!Replace(c, i, v) <=>
       /\ TableOf(cols, height)' = [TableOf(cols, height) EXCEPT ![i][c] = v]
       /\ UNCHANGED HandOf(row)
  /\ UNCHANGED InMemory!T!vars <=> UNCHANGED <<TableOf(cols, height), HandOf(row)>>
  /\ InMemory!T!Init <=> TableOf(cols, height) = <<>> /\ HandOf(row) = [c \in Fields |-> None]
BY DEF InMemory!T!Write, InMemory!T!AppendHand, InMemory!T!Look, InMemory!T!Replace,
       InMemory!T!vars, InMemory!T!Init, TableOf, HandOf, Fields
Wrote(s, r, c, x) == InHand(s) /\ HandOf(s) = [HandOf(r) EXCEPT ![c] = x]

LEMMA FieldWrites ==
  ASSUME NEW r, InHand(r), NEW c \in Fields, NEW x,
         NEW s, s = [r EXCEPT ![c] = s[c]], Writes(s[c], r[c], c, 1, 1, x)
  PROVE  Wrote(s, r, c, x)
<1> DEFINE new == s[c]
<1> HIDE DEF new
<1>1. r = [d \in Fields |-> r[d]] /\ \A d \in Fields : Fits(r[d], d, 1)
  BY DEF InHand
<1>2. s = [d \in Fields |-> IF d = c THEN new ELSE r[d]]
  BY <1>1 DEF new
<1>3. Fits(new, c, 1) /\ InMemory!Cell(new, 1) = x
  BY DEF Writes, new
<1>4. InHand(s)
  BY <1>1, <1>2, <1>3 DEF InHand
<1>5. \A d \in Fields : InMemory!Cell(s[d], 1) = IF d = c THEN x ELSE InMemory!Cell(r[d], 1)
  BY <1>2, <1>3
<1>6. HandOf(s) = [HandOf(r) EXCEPT ![c] = x]
  BY <1>5 DEF HandOf
<1> QED
  BY <1>4, <1>6 DEF Wrote

LEMMA SetFieldIsWrite ==
  ASSUME TableInv, NEW c \in Fields, NEW v \in InMemory!Takes(c), InMemory!SetField(c, v)
  PROVE  TableInv' /\ InMemory!T!Write(c, v)
<1>1. InFrame(cols, height) /\ InHand(row) /\ Fits(row[c], c, 1)
  BY DEF TableInv, InHand
<1> DEFINE new == InMemory!Set(row[c], Types[c], 1, v)
<1>2. /\ row' = [row EXCEPT ![c] = new]
      /\ cols' = cols /\ height' = height
  BY DEF InMemory!SetField
<1>3. Writes(new, row[c], c, 1, 1, v)
  BY <1>1, SetWrites
<1> HIDE DEF new
<1>4. row'[c] = new /\ row' = [row EXCEPT ![c] = row'[c]]
  BY <1>1, <1>2 DEF InHand
<1>5. Wrote(row', row, c, v)
  BY <1>1, <1>3, <1>4, FieldWrites
<1>6. InHand(row') /\ HandOf(row') = [HandOf(row) EXCEPT ![c] = v]
  BY <1>5 DEF Wrote
<1> QED
  BY <1>1, <1>2, <1>6, FrameStates, TableActions DEF TableInv

LEMMA SetFieldMissingIsWrite ==
  ASSUME TableInv, NEW c \in Fields, InMemory!SetFieldMissing(c)
  PROVE  TableInv' /\ InMemory!T!Write(c, None)
<1>1. InFrame(cols, height) /\ InHand(row) /\ Fits(row[c], c, 1)
  BY DEF TableInv, InHand
<1> DEFINE new == InMemory!SetMissing(row[c], 1)
<1>2. /\ row' = [row EXCEPT ![c] = new]
      /\ cols' = cols /\ height' = height
  BY DEF InMemory!SetFieldMissing
<1>3. Writes(new, row[c], c, 1, 1, None)
  BY <1>1, SetMissingWrites
<1> HIDE DEF new
<1>4. row'[c] = new /\ row' = [row EXCEPT ![c] = row'[c]]
  BY <1>1, <1>2 DEF InHand
<1>5. Wrote(row', row, c, None)
  BY <1>1, <1>3, <1>4, FieldWrites
<1>6. InHand(row') /\ HandOf(row') = [HandOf(row) EXCEPT ![c] = None]
  BY <1>5 DEF Wrote
<1> QED
  BY <1>1, <1>2, <1>6, FrameStates, TableActions DEF TableInv

LEMMA AddRowIsAppend ==
  ASSUME TableInv, InMemory!DfAddRow
  PROVE  TableInv' /\ InMemory!T!AppendHand
<1>1. /\ cols' = InMemory!AddRow(cols, row) /\ height' = height + 1 /\ row' = row
  BY DEF InMemory!DfAddRow
<1>2. /\ InFrame(cols', height')
      /\ TableOf(cols', height') = Append(TableOf(cols, height), HandOf(row))
  BY <1>1, AddRowGrows DEF TableInv
<1> QED
  BY <1>1, <1>2, FrameStates, TableActions DEF TableInv

LEMMA FillRowIsLook ==
  ASSUME TableInv, NEW i \in 1 .. height, InMemory!DfFillRow(i)
  PROVE  TableInv' /\ InMemory!T!Look(i)
<1>1. row' = InMemory!FillRow(row, i) /\ cols' = cols /\ height' = height
  BY DEF InMemory!DfFillRow
<1>2. InHand(row') /\ HandOf(row') = TableOf(cols, height)[i]
  BY <1>1, FillRowReads DEF TableInv
<1> QED
  BY <1>1, <1>2, FrameStates, TableActions DEF TableInv

LEMMA DfSetIsReplace ==
  ASSUME TableInv, NEW c \in Fields, NEW v \in InMemory!Takes(c), NEW i \in 1 .. height,
         InMemory!DfSet(c, i, v)
  PROVE  TableInv' /\ InMemory!T!Replace(c, i, v)
<1> DEFINE new == InMemory!Set(cols[c], Types[c], i, v)
<1>1. /\ cols = [d \in Fields |-> cols[d]] /\ height \in Nat
      /\ \A d \in Fields : Fits(cols[d], d, height) /\ FlagsExact(cols[d], d)
  BY DEF TableInv, InFrame
<1>2. /\ cols' = [cols EXCEPT ![c] = new] /\ height' = height /\ row' = row
  BY DEF InMemory!DfSet
<1>3. Writes(new, cols[c], c, height, i, v) /\ FlagsExact(new, c)
  BY <1>1, SetWrites
<1> HIDE DEF new
<1>4. cols' = [d \in Fields |-> IF d = c THEN new ELSE cols[d]]
  BY <1>1, <1>2
<1>5. InFrame(cols', height')
  BY <1>1, <1>2, <1>3, <1>4 DEF InFrame, Writes
<1>6. \A d \in Fields, j \in 1 .. height :
        InMemory!Cell(cols'[d], j) =
          IF d = c /\ j = i THEN v ELSE InMemory!Cell(cols[d], j)
  BY <1>3, <1>4 DEF Writes
<1>7. TableOf(cols', height) = [TableOf(cols, height) EXCEPT ![i][c] = v]
  BY <1>6 DEF TableOf
<1>8. TableInv'
  BY <1>2, <1>5 DEF TableInv
<1>9. InMemory!T!Replace(c, i, v)
  BY <1>2, <1>7 DEF InMemory!T!Replace, TableOf, HandOf, Fields
<1> QED
  BY <1>8, <1>9

LEMMA SameFrame ==
  ASSUME TableInv, NEW cs, cs = [c \in Fields |-> cs[c]],
         \A c \in Fields : Same(cs[c], cols[c], c, height)
  PROVE  InFrame(cs, height) /\ TableOf(cs, height) = TableOf(cols, height)
BY DEF TableInv, InFrame, Same, TableOf

LEMMA TransferIsNothing ==
  ASSUME TableInv, InMemory!Transfer
  PROVE  TableInv' /\ UNCHANGED InMemory!T!vars
<1>1. /\ cols' = [c \in Fields |->
                    InMemory!Deserialized(InMemory!Serialized(cols[c]), Types[c])]
      /\ height' = height /\ row' = row
  BY DEF InMemory!Transfer, Fields
<1>2. \A c \in Fields : Same(cols'[c], cols[c], c, height)
  BY <1>1, RoundTrip DEF TableInv, InFrame
<1>3. cols' = [c \in Fields |-> cols'[c]]
  BY <1>1
<1>4. InFrame(cols', height) /\ TableOf(cols', height) = TableOf(cols, height)
  BY <1>2, <1>3, SameFrame
<1> QED
  BY <1>1, <1>4, FrameStates, TableActions DEF TableInv

LEMMA CloneIsNothing ==
  ASSUME TableInv, InMemory!DfClone
  PROVE  TableInv' /\ (~ Gaps => UNCHANGED InMemory!T!vars)
<1>1. /\ cols' = [c \in Fields |-> InMemory!Clone(cols[c], Types[c])]
      /\ height' = Len(cols[1].vals) /\ row' = row
      /\ Gaps \/ \A c \in Fields, i \in 1 .. height : cols[c].missing[i] => Types[c] = "S"
  BY DEF InMemory!DfClone, Fields
<1>2. height' = height
  BY <1>1, TypesAre DEF TableInv, InFrame, Fits
<1>3. \A c \in Fields : /\ Fits(cols[c], c, height) /\ FlagsExact(cols[c], c)
                        /\ height \in Nat
  BY DEF TableInv, InFrame
<1>4. cols' = [c \in Fields |-> cols'[c]]
  BY <1>1
<1>5. \A c \in Fields : Fits(cols'[c], c, height) /\ FlagsExact(cols'[c], c)
  BY <1>1, <1>3, CloneFits
<1>6. InFrame(cols', height)
  BY <1>4, <1>5 DEF TableInv, InFrame
<1>7. ASSUME ~ Gaps PROVE TableOf(cols', height) = TableOf(cols, height)
  <2>1. ASSUME NEW c \in Fields PROVE Same(cols'[c], cols[c], c, height)
    <3>1. Types[c] = "S" \/ \A i \in 1 .. height : ~ cols[c].missing[i]
      BY <1>1, <1>7
    <3>2. cols'[c] = InMemory!Clone(cols[c], Types[c])
      BY <1>1
    <3> QED
      BY <1>3, <3>1, <3>2, CloneFits
  <2> QED
    BY <1>4, <2>1, SameFrame
<1> QED
  BY <1>1, <1>2, <1>6, <1>7, FrameStates, TableActions DEF TableInv
\* Every step keeps the frame a frame.
LEMMA TableStays == TableInv /\ (InMemory!Next \/ UNCHANGED tableVars) => TableInv'
<1> SUFFICES ASSUME TableInv, InMemory!Next \/ UNCHANGED tableVars PROVE TableInv'
  OBVIOUS
<1>1. ASSUME NEW c \in Fields, NEW v \in InMemory!Takes(c), InMemory!SetField(c, v)
      PROVE  TableInv'
  BY <1>1, SetFieldIsWrite
<1>2. ASSUME NEW c \in Fields, NEW v \in InMemory!Takes(c), NEW i \in 1 .. height,
             InMemory!DfSet(c, i, v)
      PROVE  TableInv'
  BY <1>2, DfSetIsReplace
<1>3. ASSUME NEW c \in Fields, InMemory!SetFieldMissing(c) PROVE TableInv'
  BY <1>3, SetFieldMissingIsWrite
<1>4. CASE InMemory!DfAddRow
  BY <1>4, AddRowIsAppend
<1>5. ASSUME NEW i \in 1 .. height, InMemory!DfFillRow(i) PROVE TableInv'
  BY <1>5, FillRowIsLook
<1>6. ASSUME NEW S, InMemory!Filter(S) PROVE TableInv'
  BY <1>6, FilterKeeps
<1>7. CASE InMemory!Transfer
  BY <1>7, TransferIsNothing
<1>8. CASE InMemory!DfClone
  BY <1>8, CloneIsNothing
<1>9. CASE UNCHANGED tableVars
  <2>1. cols' = cols /\ height' = height /\ row' = row
    BY <1>9 DEF tableVars
  <2> QED
    BY <2>1 DEF TableInv
<1> QED
  BY <1>1, <1>2, <1>3, <1>4, <1>5, <1>6, <1>7, <1>8, <1>9 DEF InMemory!Next, Fields

LEMMA TableBegins == InMemory!Init => TableInv /\ InMemory!T!Init
<1> SUFFICES ASSUME InMemory!Init PROVE TableInv /\ InMemory!T!Init
  OBVIOUS
<1>1. /\ cols = [c \in Fields |-> InMemory!NoCells] /\ height = 0 /\ row = InMemory!NewRow
  BY DEF InMemory!Init, Fields
<1> QED
  BY <1>1, EmptyFrame, NewRowIsEmpty, TableActions DEF TableInv

\* nullptr is flagged in every column and in the row, whatever was set, filled, filtered,
\* sent or cloned.
THEOREM NullIsFlaggedCorrect == PartsSpec => []NullIsFlagged
<1>1. PartsInit => TableInv
  BY TableBegins DEF PartsInit
<1>2. TableInv /\ [PartsNext]_partVars => TableInv'
  BY TableStep, TableStays
<1>3. TableInv => NullIsFlagged
  <2> SUFFICES ASSUME TableInv, NEW c \in Fields, NEW col \in {cols[c], row[c]},
                      NEW i \in DOMAIN col.vals, col.vals[i] = None
               PROVE  col.missing[i]
    BY DEF NullIsFlagged, InMemory!NullIsFlagged, Fields
  <2>1. PICK n \in Nat : Fits(col, c, n)
    BY DEF TableInv, InFrame, InHand
  <2>2. col.vals \in Seq(InMemory!Takes(c)) /\ Len(col.vals) = n
    BY <2>1 DEF Fits
  <2>3. DOMAIN col.vals = 1 .. n
    BY <2>2
  <2> QED
    BY <2>1, <2>3 DEF Fits
<1> QED
  BY <1>1, <1>2, <1>3, PTL DEF PartsSpec

\* Each operation on a frame is the one on a table.
LEMMA EachIsOfTable ==
  ASSUME TableInv, ~ Gaps
  PROVE  /\ InMemory!EachOperation
         /\ InMemory!Next \/ UNCHANGED tableVars
              => InMemory!T!Next \/ UNCHANGED InMemory!T!vars
<1>1. ASSUME NEW c \in Fields, NEW v \in InMemory!Takes(c), InMemory!SetField(c, v)
      PROVE  InMemory!T!Write(c, v)
  BY <1>1, SetFieldIsWrite
<1>2. ASSUME NEW c \in Fields, NEW v \in InMemory!Takes(c), NEW i \in 1 .. height,
             InMemory!DfSet(c, i, v)
      PROVE  InMemory!T!Replace(c, i, v)
  BY <1>2, DfSetIsReplace
<1>3. ASSUME NEW c \in Fields, InMemory!SetFieldMissing(c) PROVE InMemory!T!Write(c, None)
  BY <1>3, SetFieldMissingIsWrite
<1>4. InMemory!DfAddRow => InMemory!T!AppendHand
  BY AddRowIsAppend
<1>5. ASSUME NEW i \in 1 .. height, InMemory!DfFillRow(i) PROVE InMemory!T!Look(i)
  BY <1>5, FillRowIsLook
<1>6. ASSUME NEW S, InMemory!Filter(S) PROVE InMemory!T!Keep(S)
  BY <1>6, FilterKeeps
<1>7. InMemory!Transfer \/ InMemory!DfClone => UNCHANGED InMemory!T!vars
  BY TransferIsNothing, CloneIsNothing
<1>8. InMemory!EachOperation
  BY <1>1, <1>2, <1>3, <1>4, <1>5, <1>6, <1>7 DEF InMemory!EachOperation, Fields
<1>9. Len(TableOf(cols, height)) = height
  BY DEF TableInv, InFrame, TableOf
<1> DEFINE Vals == [c \in Fields |-> IF Types[c] = "S" THEN Strings ELSE Numbers]
<1>10. InMemory!T!Next <=>
         \/ \E c \in Fields : \E v \in Vals[c] \cup {None} :
              \/ InMemory!T!Write(c, v)
              \/ \E i \in 1 .. Len(TableOf(cols, height)) : InMemory!T!Replace(c, i, v)
         \/ InMemory!T!AppendHand
         \/ \E i \in 1 .. Len(TableOf(cols, height)) : InMemory!T!Look(i)
         \/ \E S \in SUBSET (1 .. Len(TableOf(cols, height))) : InMemory!T!Keep(S)
  BY DEF InMemory!T!Next, TableOf, Fields
<1>11. \A c \in Fields : InMemory!Takes(c) \subseteq Vals[c] \cup {None} /\ None \in Vals[c] \cup {None}
  BY DEF InMemory!Takes
<1> HIDE DEF Vals
<1>12. ASSUME InMemory!Next PROVE InMemory!T!Next \/ UNCHANGED InMemory!T!vars
  <2>1. ASSUME NEW c \in Fields, NEW v \in InMemory!Takes(c), InMemory!SetField(c, v)
        PROVE  InMemory!T!Next
    BY <1>1, <1>10, <1>11, <2>1
  <2>2. ASSUME NEW c \in Fields, NEW v \in InMemory!Takes(c), NEW i \in 1 .. height,
               InMemory!DfSet(c, i, v)
        PROVE  InMemory!T!Next
    BY <1>2, <1>9, <1>10, <1>11, <2>2
  <2>3. ASSUME NEW c \in Fields, InMemory!SetFieldMissing(c) PROVE InMemory!T!Next
    BY <1>3, <1>10, <1>11, <2>3
  <2>4. CASE InMemory!DfAddRow
    BY <1>4, <1>10, <2>4
  <2>5. ASSUME NEW i \in 1 .. height, InMemory!DfFillRow(i) PROVE InMemory!T!Next
    BY <1>5, <1>9, <1>10, <2>5
  <2>6. ASSUME NEW S \in SUBSET (1 .. height), InMemory!Filter(S) PROVE InMemory!T!Next
    BY <1>6, <1>9, <1>10, <2>6
  <2> QED
    BY <1>7, <1>12, <2>1, <2>2, <2>3, <2>4, <2>5, <2>6 DEF InMemory!Next, Fields
<1>13. UNCHANGED tableVars => UNCHANGED InMemory!T!vars
  BY TableActions, FrameStates DEF tableVars
<1> QED
  BY <1>8, <1>12, <1>13

\* A frame in memory is a table, as long as no column of numbers with gaps is cloned.
THEOREM ImplementsTableCorrect == ASSUME ~ Gaps PROVE PartsSpec => ImplementsTable
<1>1. PartsInit => TableInv /\ InMemory!T!Init
  BY TableBegins DEF PartsInit
<1>2. TableInv /\ [PartsNext]_partVars => TableInv'
  BY TableStep, TableStays
<1>3. TableInv /\ [PartsNext]_partVars =>
        [part = "table" => /\ [InMemory!T!Next]_(InMemory!T!vars)
                           /\ InMemory!EachOperation]_partVars
  BY TableStep, EachIsOfTable
<1> QED
  BY <1>1, <1>2, <1>3, PTL DEF PartsSpec, ImplementsTable

-----------------------------------------------------------------------------
(***************************************************************************)
(* The local map                                                           *)
(***************************************************************************)

\* An array of chains whose links lead to keys.
Linked(a) == a.next \in [Keys -> Keys \cup {None}]

\* The chain from k on is the least set that has k and that no link leads out of.
LEMMA ChainLeast ==
  ASSUME NEW a, NEW k, NEW S \in SUBSET Keys, k # None => k \in S,
         \A y \in S : a.next[y] # None => a.next[y] \in S
  PROVE  LocalMap!Chain(a, k) \subseteq S
BY DEF LocalMap!Chain

LEMMA ChainClosed ==
  ASSUME NEW a, Linked(a), NEW k \in Keys \cup {None}
  PROVE  /\ LocalMap!Chain(a, k) \subseteq Keys
         /\ k # None => k \in LocalMap!Chain(a, k)
         /\ k = None => LocalMap!Chain(a, k) = {}
         /\ \A y \in LocalMap!Chain(a, k) :
              a.next[y] # None => a.next[y] \in LocalMap!Chain(a, k)
<1>1. LocalMap!Chain(a, k) \subseteq Keys
  BY DEF LocalMap!Chain
<1>2. k # None => k \in LocalMap!Chain(a, k)
  BY DEF LocalMap!Chain
<1>3. k = None => LocalMap!Chain(a, k) = {}
  <2> DEFINE S == {}
  <2>1. S \in SUBSET Keys /\ \A y \in S : a.next[y] # None => a.next[y] \in S
    OBVIOUS
  <2>2. k = None => LocalMap!Chain(a, k) \subseteq S
    <3> HIDE DEF S
    <3> QED
      BY <2>1, ChainLeast
  <2> QED
    BY <2>2
<1>4. ASSUME NEW y \in LocalMap!Chain(a, k), a.next[y] # None
      PROVE  a.next[y] \in LocalMap!Chain(a, k)
  <2>1. a.next[y] \in Keys
    BY <1>1, <1>4 DEF Linked
  <2> QED
    BY <1>4, <2>1 DEF LocalMap!Chain
<1> QED
  BY <1>1, <1>2, <1>3, <1>4

\* What is behind a key of a chain is in the chain.
LEMMA ChainBehind ==
  ASSUME NEW a, Linked(a), NEW k \in Keys \cup {None}, NEW y \in Keys \cup {None},
         y # None => y \in LocalMap!Chain(a, k)
  PROVE  LocalMap!Chain(a, y) \subseteq LocalMap!Chain(a, k)
<1>1. /\ LocalMap!Chain(a, k) \subseteq Keys
      /\ \A z \in LocalMap!Chain(a, k) :
           a.next[z] # None => a.next[z] \in LocalMap!Chain(a, k)
  BY ChainClosed
<1> QED
  BY <1>1, ChainLeast

\* A chain is its first key and the chain behind it.
LEMMA ChainSplit ==
  ASSUME NEW a, Linked(a), NEW k \in Keys
  PROVE  LocalMap!Chain(a, k) = {k} \cup LocalMap!Chain(a, a.next[k])
<1> DEFINE n == a.next[k]
           C == LocalMap!Chain(a, n)
<1>1. n \in Keys \cup {None}
  BY DEF Linked
<1>2. C \subseteq LocalMap!Chain(a, k) /\ k \in LocalMap!Chain(a, k)
  <2>1. k \in LocalMap!Chain(a, k) /\ (n # None => n \in LocalMap!Chain(a, k))
    BY ChainClosed, MapAssumption
  <2> QED
    BY <1>1, <2>1, ChainBehind
<1>3. LocalMap!Chain(a, k) \subseteq {k} \cup C
  <2>1. /\ C \subseteq Keys /\ (n # None => n \in C)
        /\ \A y \in C : a.next[y] # None => a.next[y] \in C
    BY <1>1, ChainClosed
  <2> HIDE DEF C
  <2> DEFINE S == {k} \cup C
  <2>2. S \in SUBSET Keys /\ k \in S
    BY <2>1
  <2>3. \A y \in S : a.next[y] # None => a.next[y] \in S
    BY <2>1
  <2> HIDE DEF S
  <2>4. LocalMap!Chain(a, k) \subseteq S
    BY <2>2, <2>3, ChainLeast
  <2> QED
    BY <2>4 DEF S
<1> QED
  BY <1>2, <1>3

\* A chain is the same in an array with the same links along it.
LEMMA ChainSame ==
  ASSUME NEW a, Linked(a), NEW c, Linked(c), NEW k \in Keys \cup {None},
         \A y \in LocalMap!Chain(a, k) : c.next[y] = a.next[y]
  PROVE  LocalMap!Chain(c, k) = LocalMap!Chain(a, k)
<1> DEFINE A == LocalMap!Chain(a, k)
           C == LocalMap!Chain(c, k)
<1>1. /\ A \subseteq Keys /\ (k # None => k \in A)
      /\ \A y \in A : a.next[y] # None => a.next[y] \in A
  BY ChainClosed
<1>2. /\ C \subseteq Keys /\ (k # None => k \in C)
      /\ \A y \in C : c.next[y] # None => c.next[y] \in C
  BY ChainClosed
<1>3. C \subseteq A
  <2>1. \A y \in A : c.next[y] # None => c.next[y] \in A
    BY <1>1
  <2> QED
    BY <1>1, <2>1, ChainLeast
<1>4. A \subseteq C
  <2>1. \A y \in C : a.next[y] # None => a.next[y] \in C
    BY <1>2, <1>3
  <2> QED
    BY <1>2, <2>1, ChainLeast
<1> QED
  BY <1>3, <1>4

\* An array: its cells may be unwritten.  What it has, with how many cells.
ArrayOfMap ==
  [cells : UNION {[0 .. n - 1 -> Keys \cup {None, Junk}] : n \in Nat},
   next : [Keys -> Keys \cup {None}], value : [Keys -> 1 .. Puts \cup {None}],
   freed : SUBSET Keys, live : BOOLEAN]

SizeOf(a) == Cardinality(DOMAIN a.cells)
ChainOf(a, b) == LocalMap!Chain(a, a.cells[b])
PlaceOf(a, k) == LocalMap!Bucket(k, SizeOf(a))

\* Every key that has a value is in the chain of its bucket, and in no other, and no
\* chain comes back to a key.
ChainsRight(a) ==
  /\ a \in ArrayOfMap
  /\ SizeOf(a) \in Nat \ {0} /\ DOMAIN a.cells = 0 .. SizeOf(a) - 1
  /\ \A b \in 0 .. SizeOf(a) - 1 :
       /\ a.cells[b] \in Keys \cup {None}
       /\ \A k \in ChainOf(a, b) :
            PlaceOf(a, k) = b /\ k \notin LocalMap!Chain(a, a.next[k])
  /\ \A k \in Keys : LocalMap!Holds(a, k) <=> a.value[k] # None

LEMMA ArrayHas ==
  ASSUME NEW a \in ArrayOfMap
  PROVE  /\ Linked(a) /\ a.freed \in SUBSET Keys
         /\ a.value \in [Keys -> 1 .. Puts \cup {None}]
BY DEF ArrayOfMap, Linked

LEMMA HoldsIs ==
  ASSUME NEW a, NEW k
  PROVE  LocalMap!Holds(a, k) <=> k \in ChainOf(a, PlaceOf(a, k))
BY DEF LocalMap!Holds, LocalMap!Cardinality, Cardinality, ChainOf, PlaceOf, SizeOf

LEMMA SizeIs ==
  ASSUME NEW n \in Nat, NEW a, DOMAIN a.cells = 0 .. n - 1
  PROVE  SizeOf(a) = n
<1>1. 0 \in Int /\ n - 1 \in Int
  OBVIOUS
<1>2. Cardinality(0 .. n - 1) = IF 0 > n - 1 THEN 0 ELSE (n - 1) - 0 + 1
  BY <1>1, FS_Interval
<1> QED
  BY <1>2 DEF SizeOf

LEMMA PlaceIs ==
  ASSUME NEW n \in Nat \ {0}, NEW k \in Keys
  PROVE  LocalMap!Bucket(k, n) \in 0 .. n - 1
<1>1. PICK h \in Nat : h = Hash[k]
  BY MapAssumption
<1>2. h % n \in 0 .. n - 1
  OBVIOUS
<1> QED
  BY <1>1, <1>2 DEF LocalMap!Bucket

\* c is the array a with the value v of the key k put in.
PutIn(c, a, k, v) ==
  /\ ChainsRight(c) /\ SizeOf(c) = SizeOf(a)
  /\ c.freed = a.freed /\ c.live = a.live
  /\ c.value = [a.value EXCEPT ![k] = v]
  /\ \A x \in Keys : LocalMap!Holds(c, x) <=> LocalMap!Holds(a, x) \/ x = k
  /\ \A b \in 0 .. SizeOf(a) - 1 :
       /\ ChainOf(a, b) \subseteq ChainOf(c, b)
       /\ \A x \in ChainOf(a, b) : LocalMap!Chain(c, x) = LocalMap!Chain(a, x)

LEMMA PutInFront ==
  ASSUME NEW a, ChainsRight(a), SizeOf(a) = numNodes, NEW k \in Keys,
         ~ LocalMap!Holds(a, k), NEW v \in 1 .. Puts
  PROVE  PutIn(LocalMap!InFront(a, k, v), a, k, v)
<1> DEFINE n == SizeOf(a)
           c == LocalMap!InFront(a, k, v)
           b == PlaceOf(a, k)
<1>1. /\ a \in ArrayOfMap /\ n \in Nat \ {0} /\ DOMAIN a.cells = 0 .. n - 1
      /\ \A d \in 0 .. n - 1 : a.cells[d] \in Keys \cup {None}
      /\ \A d \in 0 .. n - 1 : \A x \in ChainOf(a, d) :
           PlaceOf(a, x) = d /\ x \notin LocalMap!Chain(a, a.next[x])
      /\ \A x \in Keys : LocalMap!Holds(a, x) <=> a.value[x] # None
  BY DEF ChainsRight
<1>2. b \in 0 .. n - 1
  BY <1>1, PlaceIs DEF PlaceOf
<1>3. c = [a EXCEPT !.next[k] = a.cells[b], !.value[k] = v, !.cells[b] = k]
  BY DEF LocalMap!InFront, PlaceOf
<1>4. Linked(a)
  BY <1>1, ArrayHas
<1> HIDE DEF n, c, b
<1>5. /\ c.next = [a.next EXCEPT ![k] = a.cells[b]]
      /\ c.value = [a.value EXCEPT ![k] = v]
      /\ c.cells = [a.cells EXCEPT ![b] = k]
      /\ c.freed = a.freed /\ c.live = a.live
  BY <1>1, <1>3 DEF ArrayOfMap
<1>6. c \in ArrayOfMap /\ Linked(c)
  <2>1. a.cells[b] \in Keys \cup {None}
    BY <1>1, <1>2
  <2>2. c.next \in [Keys -> Keys \cup {None}]
    BY <1>4, <1>5, <2>1 DEF Linked
  <2>3. c.value \in [Keys -> 1 .. Puts \cup {None}]
    BY <1>1, <1>5, ArrayHas
  <2>4. c.cells \in UNION {[0 .. m - 1 -> Keys \cup {None, Junk}] : m \in Nat}
    <3>1. PICK m \in Nat : a.cells \in [0 .. m - 1 -> Keys \cup {None, Junk}]
      BY <1>1 DEF ArrayOfMap
    <3>2. c.cells \in [0 .. m - 1 -> Keys \cup {None, Junk}]
      BY <1>5, <3>1
    <3> QED
      BY <3>2
  <2>5. c = [cells |-> c.cells, next |-> c.next, value |-> c.value, freed |-> c.freed,
             live |-> c.live]
    BY <1>1, <1>3 DEF ArrayOfMap
  <2>6. c.freed \in SUBSET Keys /\ c.live \in BOOLEAN
    BY <1>1, <1>5 DEF ArrayOfMap
  <2> QED
    BY <2>2, <2>3, <2>4, <2>5, <2>6 DEF ArrayOfMap, Linked
<1>7. /\ DOMAIN c.cells = 0 .. n - 1 /\ SizeOf(c) = n
      /\ \A x : PlaceOf(c, x) = PlaceOf(a, x)
  <2>1. DOMAIN c.cells = 0 .. n - 1
    BY <1>1, <1>5
  <2>2. SizeOf(c) = n
    BY <1>1, <2>1, SizeIs
  <2> QED
    BY <2>1, <2>2 DEF PlaceOf, n
<1>8. ASSUME NEW d \in 0 .. n - 1
      PROVE  /\ k \notin ChainOf(a, d) /\ ChainOf(a, d) \subseteq Keys
             /\ LocalMap!Chain(c, a.cells[d]) = ChainOf(a, d)
             /\ \A x \in ChainOf(a, d) : /\ LocalMap!Chain(c, x) = LocalMap!Chain(a, x)
                                         /\ c.next[x] = a.next[x]
                                         /\ x \notin LocalMap!Chain(c, c.next[x])
  <2>1. k \notin ChainOf(a, d)
    <3>1. k \in ChainOf(a, d) => PlaceOf(a, k) = d
      BY <1>1
    <3> QED
      BY <3>1, HoldsIs
  <2>2. a.cells[d] \in Keys \cup {None}
    BY <1>1
  <2>3. /\ ChainOf(a, d) \subseteq Keys
        /\ \A x \in ChainOf(a, d) : a.next[x] # None => a.next[x] \in ChainOf(a, d)
    BY <1>4, <2>2, ChainClosed DEF ChainOf
  <2>4. \A x \in ChainOf(a, d) : c.next[x] = a.next[x]
    BY <1>4, <1>5, <2>1, <2>3 DEF Linked
  <2>5. LocalMap!Chain(c, a.cells[d]) = ChainOf(a, d)
    BY <1>4, <1>6, <2>2, <2>4, ChainSame DEF ChainOf
  <2>6. ASSUME NEW y \in Keys \cup {None}, y # None => y \in ChainOf(a, d)
        PROVE  LocalMap!Chain(c, y) = LocalMap!Chain(a, y)
    <3>1. LocalMap!Chain(a, y) \subseteq ChainOf(a, d)
      BY <1>4, <2>2, <2>6, ChainBehind DEF ChainOf
    <3> QED
      BY <1>4, <1>6, <2>4, <3>1, ChainSame
  <2>7. ASSUME NEW x \in ChainOf(a, d)
        PROVE  /\ LocalMap!Chain(c, x) = LocalMap!Chain(a, x)
               /\ x \notin LocalMap!Chain(c, c.next[x])
    <3>1. x \in Keys /\ a.next[x] \in Keys \cup {None}
      BY <1>4, <2>3 DEF Linked
    <3>2. LocalMap!Chain(c, x) = LocalMap!Chain(a, x)
      BY <2>6, <3>1
    <3>3. LocalMap!Chain(c, a.next[x]) = LocalMap!Chain(a, a.next[x])
      BY <2>3, <2>6, <3>1
    <3> QED
      BY <1>1, <2>4, <3>2, <3>3
  <2> QED
    BY <2>1, <2>3, <2>4, <2>5, <2>7
<1>9. /\ ChainOf(c, b) = {k} \cup ChainOf(a, b)
      /\ k \notin LocalMap!Chain(c, c.next[k])
  <2>1. c.cells[b] = k /\ c.next[k] = a.cells[b]
    BY <1>1, <1>2, <1>4, <1>5 DEF Linked
  <2>2. LocalMap!Chain(c, k) = {k} \cup LocalMap!Chain(c, c.next[k])
    BY <1>6, ChainSplit
  <2> QED
    BY <1>2, <1>8, <2>1, <2>2 DEF ChainOf
<1>10. \A d \in 0 .. n - 1 : d # b => ChainOf(c, d) = ChainOf(a, d) /\ c.cells[d] = a.cells[d]
  <2>1. \A d \in 0 .. n - 1 : d # b => c.cells[d] = a.cells[d]
    BY <1>1, <1>5
  <2> QED
    BY <1>8, <2>1 DEF ChainOf
<1>11. PlaceOf(a, k) = b /\ c.cells[b] = k
  BY <1>1, <1>2, <1>5 DEF b
<1>12. \A x \in Keys : LocalMap!Holds(c, x) <=> LocalMap!Holds(a, x) \/ x = k
  <2> SUFFICES ASSUME NEW x \in Keys
               PROVE  LocalMap!Holds(c, x) <=> LocalMap!Holds(a, x) \/ x = k
    OBVIOUS
  <2>1. PlaceOf(a, x) \in 0 .. n - 1 /\ PlaceOf(c, x) = PlaceOf(a, x)
    BY <1>1, <1>7, PlaceIs DEF PlaceOf, n
  <2>2. /\ LocalMap!Holds(a, x) <=> x \in ChainOf(a, PlaceOf(a, x))
        /\ LocalMap!Holds(c, x) <=> x \in ChainOf(c, PlaceOf(a, x))
    BY <2>1, HoldsIs
  <2>3. CASE PlaceOf(a, x) = b
    BY <1>9, <1>11, <2>2, <2>3
  <2>4. CASE PlaceOf(a, x) # b
    BY <1>10, <1>11, <2>1, <2>2, <2>4
  <2> QED
    BY <2>3, <2>4
<1>13. ChainsRight(c)
  <2>1. \A d \in 0 .. n - 1 : c.cells[d] \in Keys \cup {None}
    BY <1>1, <1>10, <1>11
  <2>2. ASSUME NEW d \in 0 .. n - 1, NEW x \in ChainOf(c, d)
        PROVE  PlaceOf(c, x) = d /\ x \notin LocalMap!Chain(c, c.next[x])
    <3>1. x \in ChainOf(a, d) \/ (d = b /\ x = k)
      BY <1>9, <1>10
    <3> QED
      BY <1>1, <1>7, <1>8, <1>9, <1>11, <3>1
  <2>3. \A x \in Keys : LocalMap!Holds(c, x) <=> c.value[x] # None
    <3>1. v # None
      BY MapAssumption
    <3>2. \A x \in Keys : c.value[x] = IF x = k THEN v ELSE a.value[x]
      BY <1>1, <1>5, ArrayHas
    <3> QED
      BY <1>1, <1>12, <3>1, <3>2
  <2> QED
    BY <1>1, <1>6, <1>7, <2>1, <2>2, <2>3 DEF ChainsRight
<1>14. \A d \in 0 .. n - 1 :
         /\ ChainOf(a, d) \subseteq ChainOf(c, d)
         /\ \A x \in ChainOf(a, d) : LocalMap!Chain(c, x) = LocalMap!Chain(a, x)
  BY <1>8, <1>9, <1>10
<1> QED
  BY <1>5, <1>7, <1>12, <1>13, <1>14 DEF PutIn, n, c

\* c is the array a without the key k.
TakenFrom(c, a, k) ==
  /\ ChainsRight(c) /\ SizeOf(c) = SizeOf(a)
  /\ c.freed = a.freed /\ c.live = a.live
  /\ c.value = [a.value EXCEPT ![k] = None]

\* What remove() does to the links of an array.
Behind(a, k, b) == {p \in LocalMap!Chain(a, a.cells[b]) : a.next[p] = k}
Without(a, k, b) ==
  IF Behind(a, k, b) = {} THEN [a EXCEPT !.cells[b] = a.next[k]]
  ELSE [a EXCEPT !.next = [p \in Keys |-> IF p \in Behind(a, k, b) THEN a.next[k] ELSE @[p]]]
Removed(a, k, b) == [Without(a, k, b) EXCEPT !.next[k] = None, !.value[k] = None]

\* Only the link to the key changes, or the cell when the key is the first.
Unlinked(c, a, k, b) ==
  /\ b \in 0 .. SizeOf(a) - 1 /\ k \in ChainOf(a, b)
  /\ a.next[k] # k /\ (a.next[k] # None => a.next[k] \in ChainOf(a, b))
  /\ c \in ArrayOfMap
  /\ c.freed = a.freed /\ c.live = a.live
  /\ c.value = [a.value EXCEPT ![k] = None]
  /\ \A y \in Keys : c.next[y] = IF y = k THEN None
                                 ELSE IF y \in ChainOf(a, b) /\ a.next[y] = k THEN a.next[k]
                                 ELSE a.next[y]
  /\ c.cells = [a.cells EXCEPT ![b] = IF a.cells[b] = k THEN a.next[k] ELSE a.cells[b]]

LEMMA RemovedIs ==
  ASSUME NEW a, ChainsRight(a), NEW k \in Keys, LocalMap!Holds(a, k),
         NEW b, b = PlaceOf(a, k)
  PROVE  Unlinked(Removed(a, k, b), a, k, b)
<1> DEFINE n == SizeOf(a)
           c == Removed(a, k, b)
           w == Without(a, k, b)
           B == Behind(a, k, b)
<1>1. /\ a \in ArrayOfMap /\ n \in Nat \ {0} /\ DOMAIN a.cells = 0 .. n - 1
      /\ Linked(a) /\ a.value \in [Keys -> 1 .. Puts \cup {None}]
  BY ArrayHas DEF ChainsRight
<1>2. b \in 0 .. n - 1 /\ k \in ChainOf(a, b)
  BY <1>1, PlaceIs, HoldsIs DEF PlaceOf
<1>3. a.cells[b] \in Keys \cup {None} /\ k \notin LocalMap!Chain(a, a.next[k])
  BY <1>2 DEF ChainsRight
<1>4. /\ ChainOf(a, b) \subseteq Keys /\ (a.cells[b] # None => a.cells[b] \in ChainOf(a, b))
      /\ \A y \in ChainOf(a, b) : a.next[y] # None => a.next[y] \in ChainOf(a, b)
  BY <1>1, <1>3, ChainClosed DEF ChainOf
<1>5. k # None /\ a.next[k] \in Keys \cup {None}
  BY <1>1, MapAssumption DEF Linked
<1>6. a.next[k] # k
  <2>1. a.next[k] # None => a.next[k] \in LocalMap!Chain(a, a.next[k])
    BY <1>1, <1>5, ChainClosed
  <2> QED
    BY <1>3, <1>5, <2>1
<1>7. B \subseteq Keys /\ k \notin B
      /\ \A y : y \in B <=> y \in ChainOf(a, b) /\ a.next[y] = k
  BY <1>4, <1>6 DEF Behind, ChainOf
<1>8. B = {} <=> a.cells[b] = k
  <2>1. ASSUME a.cells[b] = k, NEW p \in B PROVE FALSE
    <3>1. p \in LocalMap!Chain(a, k) /\ a.next[p] = k /\ p # k
      BY <1>7, <2>1 DEF ChainOf
    <3>2. p \in LocalMap!Chain(a, a.next[k])
      BY <1>1, <3>1, ChainSplit
    <3>3. k \in LocalMap!Chain(a, a.next[k])
      BY <1>1, <1>5, <3>1, <3>2, ChainClosed
    <3> QED
      BY <1>3, <3>3
  <2>2. ASSUME a.cells[b] # k, B = {} PROVE FALSE
    <3> DEFINE S == ChainOf(a, b) \ {k}
    <3>1. S \in SUBSET Keys /\ (a.cells[b] # None => a.cells[b] \in S)
      BY <1>4, <2>2
    <3>2. \A y \in S : a.next[y] # None => a.next[y] \in S
      BY <1>4, <1>7, <2>2
    <3>3. k \notin S
      OBVIOUS
    <3> HIDE DEF S
    <3>4. ChainOf(a, b) \subseteq S
      BY <3>1, <3>2, ChainLeast DEF ChainOf
    <3> QED
      BY <1>2, <3>3, <3>4
  <2> QED
    BY <2>1, <2>2
<1> HIDE DEF B
<1>9. w = IF B = {} THEN [a EXCEPT !.cells[b] = a.next[k]]
          ELSE [a EXCEPT !.next = [p \in Keys |-> IF p \in B THEN a.next[k] ELSE a.next[p]]]
  BY DEF Without, B
<1> HIDE DEF w
<1>10. /\ w.cells = [a.cells EXCEPT ![b] = IF a.cells[b] = k THEN a.next[k] ELSE a.cells[b]]
       /\ w.next = [p \in Keys |-> IF p \in B THEN a.next[k] ELSE a.next[p]]
       /\ w.value = a.value /\ w.freed = a.freed /\ w.live = a.live
       /\ w = [cells |-> w.cells, next |-> w.next, value |-> w.value, freed |-> w.freed,
               live |-> w.live]
  <2>1. a.next = [p \in Keys |-> a.next[p]]
    BY <1>1 DEF Linked
  <2>2. a.cells = [d \in 0 .. n - 1 |-> a.cells[d]]
    <3>1. PICK m \in Nat : a.cells \in [0 .. m - 1 -> Keys \cup {None, Junk}]
      BY <1>1 DEF ArrayOfMap
    <3> QED
      BY <1>1, <3>1
  <2>3. CASE B = {}
    <3>1. w = [a EXCEPT !.cells[b] = a.next[k]] /\ a.cells[b] = k
      BY <1>8, <1>9, <2>3
    <3>2. a.next = [p \in Keys |-> IF p \in B THEN a.next[k] ELSE a.next[p]]
      BY <2>1, <2>3
    <3> QED
      BY <1>1, <3>1, <3>2 DEF ArrayOfMap
  <2>4. CASE B # {}
    <3>1. a.cells[b] # k
          /\ w = [a EXCEPT !.next = [p \in Keys |-> IF p \in B THEN a.next[k] ELSE a.next[p]]]
      BY <1>8, <1>9, <2>4
    <3>2. a.cells = [a.cells EXCEPT ![b] = a.cells[b]]
      BY <2>2
    <3> QED
      BY <1>1, <3>1, <3>2 DEF ArrayOfMap
  <2> QED
    BY <2>3, <2>4
<1>11. c = [w EXCEPT !.next[k] = None, !.value[k] = None]
  BY DEF Removed, w
<1> HIDE DEF c
<1>12. /\ c.cells = w.cells /\ c.freed = a.freed /\ c.live = a.live
       /\ c.next = [w.next EXCEPT ![k] = None] /\ c.value = [a.value EXCEPT ![k] = None]
       /\ c = [cells |-> c.cells, next |-> c.next, value |-> c.value, freed |-> c.freed,
               live |-> c.live]
  BY <1>10, <1>11
<1>13. \A y \in Keys : c.next[y] = IF y = k THEN None
                                   ELSE IF y \in ChainOf(a, b) /\ a.next[y] = k THEN a.next[k]
                                   ELSE a.next[y]
  BY <1>7, <1>10, <1>12
<1>14. c \in ArrayOfMap
  <2>1. c.next \in [Keys -> Keys \cup {None}]
    BY <1>1, <1>5, <1>10, <1>12 DEF Linked
  <2>2. c.value \in [Keys -> 1 .. Puts \cup {None}]
    BY <1>1, <1>12
  <2>3. c.cells \in UNION {[0 .. m - 1 -> Keys \cup {None, Junk}] : m \in Nat}
    <3>1. PICK m \in Nat : a.cells \in [0 .. m - 1 -> Keys \cup {None, Junk}]
      BY <1>1 DEF ArrayOfMap
    <3>2. c.cells \in [0 .. m - 1 -> Keys \cup {None, Junk}]
      <4> DEFINE x == IF a.cells[b] = k THEN a.next[k] ELSE a.cells[b]
      <4>1. x \in Keys \cup {None, Junk} /\ c.cells = [a.cells EXCEPT ![b] = x]
        BY <1>3, <1>5, <1>10, <1>12
      <4> HIDE DEF x
      <4> QED
        BY <3>1, <4>1
    <3> QED
      BY <3>2
  <2>4. c.freed \in SUBSET Keys /\ c.live \in BOOLEAN
    BY <1>1, <1>12 DEF ArrayOfMap
  <2> QED
    BY <1>12, <2>1, <2>2, <2>3, <2>4 DEF ArrayOfMap
<1> QED
  BY <1>2, <1>4, <1>6, <1>10, <1>12, <1>13, <1>14 DEF Unlinked, c, n

LEMMA RemoveTakesOut ==
  ASSUME NEW a, ChainsRight(a), NEW k \in Keys, LocalMap!Holds(a, k),
         NEW b, b = PlaceOf(a, k)
  PROVE  TakenFrom(Removed(a, k, b), a, k)
<1> DEFINE n == SizeOf(a)
           c == Removed(a, k, b)
           C == ChainOf(a, b)
<1>1. /\ b \in 0 .. n - 1 /\ k \in C
      /\ a.next[k] # k /\ (a.next[k] # None => a.next[k] \in C)
      /\ c \in ArrayOfMap
      /\ c.freed = a.freed /\ c.live = a.live
      /\ c.value = [a.value EXCEPT ![k] = None]
      /\ \A y \in Keys : c.next[y] = IF y = k THEN None
                                     ELSE IF y \in C /\ a.next[y] = k THEN a.next[k]
                                     ELSE a.next[y]
      /\ c.cells = [a.cells EXCEPT ![b] = IF a.cells[b] = k THEN a.next[k] ELSE a.cells[b]]
  <2>1. Unlinked(c, a, k, b)
    BY RemovedIs
  <2> HIDE DEF c
  <2> QED
    BY <2>1 DEF Unlinked
<1>2. /\ a \in ArrayOfMap /\ n \in Nat \ {0} /\ DOMAIN a.cells = 0 .. n - 1
      /\ Linked(a) /\ a.value \in [Keys -> 1 .. Puts \cup {None}]
      /\ \A d \in 0 .. n - 1 :
           /\ a.cells[d] \in Keys \cup {None}
           /\ \A x \in ChainOf(a, d) :
                PlaceOf(a, x) = d /\ x \notin LocalMap!Chain(a, a.next[x])
      /\ \A x \in Keys : LocalMap!Holds(a, x) <=> a.value[x] # None
  BY ArrayHas DEF ChainsRight
<1> HIDE DEF c
<1>3. Linked(c)
  BY <1>1, ArrayHas
<1>4. /\ DOMAIN c.cells = 0 .. n - 1 /\ SizeOf(c) = n
      /\ \A x : PlaceOf(c, x) = PlaceOf(a, x)
  <2>1. DOMAIN c.cells = 0 .. n - 1
    BY <1>1, <1>2
  <2>2. SizeOf(c) = n
    BY <1>2, <2>1, SizeIs
  <2> QED
    BY <2>1, <2>2 DEF PlaceOf
<1>5. k # None /\ a.next[k] \in Keys \cup {None}
  BY <1>2, MapAssumption DEF Linked
<1>6. /\ C \subseteq Keys /\ (a.cells[b] # None => a.cells[b] \in C)
      /\ \A y \in C : a.next[y] # None => a.next[y] \in C
      /\ a.cells[b] \in Keys \cup {None}
  BY <1>1, <1>2, ChainClosed DEF ChainOf
<1>7. \A d \in 0 .. n - 1 : \A y \in ChainOf(a, d) : d # b => y # k /\ y \notin C
  BY <1>1, <1>2
<1> HIDE DEF C
\* The chains of other buckets stay.
<1>8. ASSUME NEW d \in 0 .. n - 1, d # b
      PROVE  /\ c.cells[d] = a.cells[d] /\ ChainOf(c, d) = ChainOf(a, d)
             /\ \A x \in ChainOf(c, d) : x \notin LocalMap!Chain(c, c.next[x])
  <2>1. c.cells[d] = a.cells[d] /\ a.cells[d] \in Keys \cup {None}
    BY <1>1, <1>2, <1>8
  <2>2. /\ ChainOf(a, d) \subseteq Keys
        /\ \A x \in ChainOf(a, d) : a.next[x] # None => a.next[x] \in ChainOf(a, d)
    BY <1>2, <2>1, ChainClosed DEF ChainOf
  <2>3. \A y \in ChainOf(a, d) : c.next[y] = a.next[y]
    BY <1>1, <1>7, <1>8, <2>2
  <2>4. LocalMap!Chain(c, a.cells[d]) = LocalMap!Chain(a, a.cells[d])
    BY <1>2, <1>3, <2>1, <2>3, ChainSame DEF ChainOf
  <2>5. ASSUME NEW x \in ChainOf(a, d) PROVE x \notin LocalMap!Chain(c, c.next[x])
    <3>1. a.next[x] \in Keys \cup {None} /\ (a.next[x] # None => a.next[x] \in ChainOf(a, d))
      BY <1>2, <2>2 DEF Linked
    <3>2. LocalMap!Chain(a, a.next[x]) \subseteq ChainOf(a, d)
      BY <1>2, <2>1, <3>1, ChainBehind DEF ChainOf
    <3>3. LocalMap!Chain(c, a.next[x]) = LocalMap!Chain(a, a.next[x])
      BY <1>2, <1>3, <2>3, <3>1, <3>2, ChainSame
    <3> QED
      BY <1>2, <2>3, <3>3
  <2> QED
    BY <2>1, <2>4, <2>5 DEF ChainOf
\* Behind a key of its own bucket there is nothing new, and the key is no more.
<1>9. ASSUME NEW x \in Keys \cup {None}, x # None => x \in C, x # k
      PROVE  LocalMap!Chain(c, x) \subseteq LocalMap!Chain(a, x) \ {k}
  <2> DEFINE S == LocalMap!Chain(a, x) \ {k}
  <2>1. LocalMap!Chain(a, x) \subseteq C
    BY <1>2, <1>6, <1>9, ChainBehind DEF ChainOf, C
  <2>2. /\ LocalMap!Chain(a, x) \subseteq Keys
        /\ (x # None => x \in LocalMap!Chain(a, x))
        /\ \A y \in LocalMap!Chain(a, x) :
             a.next[y] # None => a.next[y] \in LocalMap!Chain(a, x)
    BY <1>2, ChainClosed
  <2>3. ASSUME NEW y \in S, c.next[y] # None PROVE c.next[y] \in S
    <3>1. y \in C /\ y \in Keys /\ y # k /\ y \in LocalMap!Chain(a, x)
      BY <2>1, <2>2
    <3>2. CASE a.next[y] = k
      <4>1. c.next[y] = a.next[k] /\ k \in LocalMap!Chain(a, x)
        BY <1>1, <1>5, <2>2, <3>1, <3>2
      <4> QED
        BY <1>1, <2>2, <2>3, <4>1
    <3>3. CASE a.next[y] # k
      <4>1. c.next[y] = a.next[y]
        BY <1>1, <3>1, <3>3
      <4> QED
        BY <2>2, <2>3, <3>1, <3>3, <4>1
    <3> QED
      BY <3>2, <3>3
  <2>4. S \in SUBSET Keys /\ (x # None => x \in S)
    BY <1>9, <2>2
  <2> HIDE DEF S
  <2>5. LocalMap!Chain(c, x) \subseteq S
    BY <2>3, <2>4, ChainLeast
  <2> QED
    BY <2>5 DEF S
<1> DEFINE h == c.cells[b]
<1>10. /\ h = IF a.cells[b] = k THEN a.next[k] ELSE a.cells[b]
       /\ h \in Keys \cup {None} /\ (h # None => h \in C) /\ h # k
  BY <1>1, <1>2, <1>5, <1>6
<1>11. ChainOf(c, b) = C \ {k}
  <2> DEFINE S == LocalMap!Chain(c, h)
  <2>1. S \subseteq C \ {k}
    <3>1. LocalMap!Chain(a, h) \subseteq C
      BY <1>2, <1>6, <1>10, ChainBehind DEF ChainOf, C
    <3> QED
      BY <1>9, <1>10, <3>1
  <2>2. /\ (h # None => h \in S)
        /\ \A y \in S : c.next[y] # None => c.next[y] \in S
    BY <1>3, <1>10, ChainClosed
  <2> HIDE DEF S, h
  <2>3. \A y \in S : y \in Keys /\ y # k /\ y \in C
    BY <1>6, <2>1
  <2>4. C \subseteq S \cup {k}
    <3>1. ASSUME a.next[k] # None => a.next[k] \in S PROVE C \subseteq S \cup {k}
      <4> DEFINE Q == S \cup {k}
      <4>1. Q \in SUBSET Keys
        BY <2>3
      <4>2. a.cells[b] # None => a.cells[b] \in Q
        BY <1>10, <2>2
      <4>3. ASSUME NEW y \in Q, a.next[y] # None PROVE a.next[y] \in Q
        <5>1. CASE y = k
          BY <3>1, <4>3, <5>1
        <5>2. CASE y # k
          <6>1. y \in S /\ y \in Keys
            BY <2>3, <5>2
          <6>2. a.next[y] # k => c.next[y] = a.next[y]
            BY <1>1, <5>2, <6>1
          <6> QED
            BY <2>2, <4>3, <6>1, <6>2
        <5> QED
          BY <5>1, <5>2
      <4> HIDE DEF Q
      <4>4. C \subseteq Q
        BY <4>1, <4>2, <4>3, ChainLeast DEF C, ChainOf
      <4> QED
        BY <4>4 DEF Q
    <3>2. a.next[k] # None => a.next[k] \in S
      <4>1. CASE a.cells[b] = k
        BY <1>10, <2>2, <4>1
      <4>2. CASE a.cells[b] # k
        <5>1. PICK p \in S : a.next[p] = k
          <6> SUFFICES ASSUME \A p \in S : a.next[p] # k PROVE FALSE
            OBVIOUS
          <6>1. \A y \in S : c.next[y] = a.next[y]
            BY <1>1, <2>3
          <6>2. S \in SUBSET Keys /\ (a.cells[b] # None => a.cells[b] \in S)
            BY <1>10, <2>2, <2>3, <4>2
          <6>3. \A y \in S : a.next[y] # None => a.next[y] \in S
            BY <2>2, <6>1
          <6>4. C \subseteq S
            BY <6>2, <6>3, ChainLeast DEF C, ChainOf
          <6> QED
            BY <1>1, <2>3, <6>4
        <5>2. c.next[p] = a.next[k]
          BY <1>1, <2>3, <5>1
        <5> QED
          BY <2>2, <5>1, <5>2
      <4> QED
        BY <4>1, <4>2
    <3> QED
      BY <3>1, <3>2
  <2>5. ChainOf(c, b) = S
    BY DEF ChainOf, S, h
  <2> QED
    BY <2>1, <2>4, <2>5
<1>12. ASSUME NEW x \in C, x # k PROVE x \notin LocalMap!Chain(c, c.next[x])
  <2>1. x \in Keys /\ x \notin LocalMap!Chain(a, a.next[x])
        /\ a.next[x] \in Keys \cup {None}
    BY <1>1, <1>2, <1>6 DEF C, Linked
  <2>2. CASE a.next[x] = k
    <3>1. c.next[x] = a.next[k]
      BY <1>1, <1>12, <2>1, <2>2
    <3>2. LocalMap!Chain(c, a.next[k]) \subseteq LocalMap!Chain(a, a.next[k])
      BY <1>1, <1>5, <1>9
    <3>3. LocalMap!Chain(a, k) = {k} \cup LocalMap!Chain(a, a.next[k])
      BY <1>2, ChainSplit
    <3> QED
      BY <2>1, <2>2, <3>1, <3>2, <3>3
  <2>3. CASE a.next[x] # k
    <3>1. c.next[x] = a.next[x] /\ (a.next[x] # None => a.next[x] \in C)
      BY <1>1, <1>6, <1>12, <2>1, <2>3
    <3>2. LocalMap!Chain(c, a.next[x]) \subseteq LocalMap!Chain(a, a.next[x])
      BY <1>9, <2>1, <2>3, <3>1
    <3> QED
      BY <2>1, <3>1, <3>2
  <2> QED
    BY <2>2, <2>3
<1> HIDE DEF h
<1>13. \A x \in Keys : LocalMap!Holds(c, x) <=> LocalMap!Holds(a, x) /\ x # k
  <2> SUFFICES ASSUME NEW x \in Keys
               PROVE  LocalMap!Holds(c, x) <=> LocalMap!Holds(a, x) /\ x # k
    OBVIOUS
  <2>1. PlaceOf(a, x) \in 0 .. n - 1 /\ PlaceOf(c, x) = PlaceOf(a, x)
    BY <1>2, <1>4, PlaceIs DEF PlaceOf
  <2>2. /\ LocalMap!Holds(a, x) <=> x \in ChainOf(a, PlaceOf(a, x))
        /\ LocalMap!Holds(c, x) <=> x \in ChainOf(c, PlaceOf(a, x))
    BY <2>1, HoldsIs
  <2>3. CASE PlaceOf(a, x) = b
    BY <1>11, <2>2, <2>3 DEF C
  <2>4. CASE PlaceOf(a, x) # b
    <3>1. ChainOf(c, PlaceOf(a, x)) = ChainOf(a, PlaceOf(a, x))
      BY <1>8, <2>1, <2>4
    <3>2. x # k
      BY <2>4
    <3> QED
      BY <2>2, <3>1, <3>2
  <2> QED
    BY <2>3, <2>4
<1>14. ChainsRight(c)
  <2>1. \A d \in 0 .. n - 1 : c.cells[d] \in Keys \cup {None}
    BY <1>2, <1>8, <1>10 DEF h
  <2>2. ASSUME NEW d \in 0 .. n - 1, NEW x \in ChainOf(c, d)
        PROVE  PlaceOf(c, x) = d /\ x \notin LocalMap!Chain(c, c.next[x])
    <3>1. CASE d = b
      <4>1. x \in C /\ x # k
        BY <1>11, <3>1
      <4> QED
        BY <1>1, <1>2, <1>4, <1>12, <3>1, <4>1 DEF C
    <3>2. CASE d # b
      <4>1. x \in ChainOf(a, d)
        BY <1>8, <3>2
      <4> QED
        BY <1>2, <1>4, <1>8, <3>2, <4>1
    <3> QED
      BY <3>1, <3>2
  <2>3. \A x \in Keys : LocalMap!Holds(c, x) <=> c.value[x] # None
    <3>1. \A x \in Keys : c.value[x] = IF x = k THEN None ELSE a.value[x]
      BY <1>1, <1>2
    <3> QED
      BY <1>2, <1>13, <3>1
  <2> QED
    BY <1>1, <1>2, <1>4, <2>1, <2>2, <2>3 DEF ChainsRight
<1> QED
  BY <1>1, <1>4, <1>14 DEF TakenFrom, c

-----------------------------------------------------------------------------
\* What the thread under the lock is about.
Jobs ==
  [pc : {"put", "allocate", "clear", "resize", "move", "delete", "unlock"},
   key : Keys, value : 1 .. Puts, bucket : Nat, node : Keys \cup {None}]

Cur == arrays[nodes]
Prev == arrays[nodes - 1]

MapTypes ==
  /\ nodes \in Nat \ {0} /\ arrays \in Seq(ArrayOfMap) /\ Len(arrays) = nodes
  /\ numNodes \in Nat \ {0} /\ puts \in Nat
  /\ job # None => job \in Jobs
  /\ owner = None => job = None

InUse(a) == ChainsRight(a) /\ SizeOf(a) = numNodes /\ a.live /\ a.freed = {}

\* While the chains are moved: the new array has what was in the old one before the
\* node that comes next, and only nodes of chains that were moved are deleted.
Moving(old, a) ==
  /\ ChainsRight(old) /\ InUse(a)
  /\ job.bucket \in 0 .. SizeOf(old) - 1
  /\ job.node # None => job.node \in ChainOf(old, job.bucket)
  /\ \A k \in Keys :
       /\ LocalMap!Holds(a, k) <=>
            /\ LocalMap!Holds(old, k)
            /\ \/ PlaceOf(old, k) < job.bucket
               \/ PlaceOf(old, k) = job.bucket /\ k \notin LocalMap!Chain(old, job.node)
       /\ LocalMap!Holds(a, k) => a.value[k] = old.value[k]
       /\ k \in old.freed => LocalMap!Holds(old, k) /\ PlaceOf(old, k) < job.bucket

Moved(old, a) == ChainsRight(old) /\ InUse(a) /\ \A k \in Keys : a.value[k] = old.value[k]

MapPhase ==
  /\ ~ LocalMap!Growing => InUse(Cur)
  /\ LocalMap!Growing => nodes > 1
  /\ job # None /\ job.pc \in {"clear", "resize"} => InUse(Prev)
  /\ job # None /\ job.pc = "resize" => Cur = LocalMap!EmptyArray(2 * numNodes, None)
  /\ job # None /\ job.pc = "move" => Moving(Prev, Cur)
  /\ job # None /\ job.pc = "delete" => Moved(Prev, Cur)

MapInside == MapTypes /\ MapPhase

\* What the map has.
MapHas == IF LocalMap!Growing THEN Prev.value ELSE Cur.value

LEMMA ArraysAre ==
  ASSUME MapTypes
  PROVE  /\ Cur \in ArrayOfMap /\ (nodes > 1 => Prev \in ArrayOfMap)
         /\ (LocalMap!Growing => nodes > 1) => MapHas \in [Keys -> 1 .. Puts \cup {None}]
<1>1. nodes \in 1 .. Len(arrays) /\ (nodes > 1 => nodes - 1 \in 1 .. Len(arrays))
  BY DEF MapTypes
<1>2. Cur \in ArrayOfMap /\ (nodes > 1 => Prev \in ArrayOfMap)
  BY <1>1 DEF MapTypes, Cur, Prev
<1> QED
  BY <1>1, <1>2, ArrayHas DEF MapHas

\* Content is what the map has: while it grows, what the old array had.
LEMMA MapContentIs == MapInside => LocalMap!Content = MapHas
<1> SUFFICES ASSUME MapInside PROVE LocalMap!Content = MapHas
  OBVIOUS
<1>1. MapHas \in [Keys -> 1 .. Puts \cup {None}]
  BY ArraysAre DEF MapInside, MapPhase
<1>2. ASSUME NEW k \in Keys
      PROVE  MapHas[k] = IF job # None /\ job.pc \in {"clear", "resize"} THEN Prev.value[k]
                         ELSE IF LocalMap!Holds(Cur, k) THEN Cur.value[k]
                         ELSE IF LocalMap!Growing /\ k \notin Prev.freed THEN Prev.value[k]
                         ELSE None
  <2>1. CASE ~ LocalMap!Growing
    <3>1. LocalMap!Holds(Cur, k) <=> Cur.value[k] # None
      BY <2>1 DEF MapInside, MapPhase, InUse, ChainsRight
    <3> QED
      BY <2>1, <3>1 DEF MapHas, LocalMap!Growing
  <2>2. CASE job # None /\ job.pc \in {"clear", "resize"}
    BY <2>2 DEF MapHas, LocalMap!Growing
  <2>3. CASE job # None /\ job.pc = "move"
    <3>1. Moving(Prev, Cur) /\ LocalMap!Growing
      BY <2>3 DEF MapInside, MapPhase, LocalMap!Growing
    <3>2. LocalMap!Holds(Cur, k) => Cur.value[k] = Prev.value[k]
      BY <3>1 DEF Moving
    <3>3. ~ LocalMap!Holds(Cur, k) => k \notin Prev.freed
      BY <3>1 DEF Moving
    <3> QED
      BY <2>3, <3>1, <3>2, <3>3 DEF MapHas
  <2>4. CASE job # None /\ job.pc = "delete"
    <3>1. Moved(Prev, Cur) /\ LocalMap!Growing
      BY <2>4 DEF MapInside, MapPhase, LocalMap!Growing
    <3>2. Cur.value[k] = Prev.value[k] /\ (LocalMap!Holds(Cur, k) <=> Cur.value[k] # None)
      BY <3>1 DEF Moved, InUse, ChainsRight
    <3> QED
      BY <2>4, <3>1, <3>2 DEF MapHas
  <2> QED
    BY <2>1, <2>2, <2>3, <2>4 DEF LocalMap!Growing
<1> HIDE DEF MapHas
<1>3. LocalMap!Content = [k \in Keys |-> MapHas[k]]
  BY <1>2 DEF LocalMap!Content, LocalMap!Old, Cur, Prev
<1> QED
  BY <1>1, <1>3

-----------------------------------------------------------------------------
\* The links of two arrays are the same.
SameLinks(c, a) ==
  /\ SizeOf(c) = SizeOf(a)
  /\ \A k : LocalMap!Chain(c, k) = LocalMap!Chain(a, k)
  /\ \A b : ChainOf(c, b) = ChainOf(a, b)
  /\ \A k : PlaceOf(c, k) = PlaceOf(a, k)
  /\ \A k : LocalMap!Holds(c, k) <=> LocalMap!Holds(a, k)

LEMMA LinksStay ==
  ASSUME NEW a, NEW c, c.next = a.next, c.cells = a.cells
  PROVE  SameLinks(c, a)
<1>1. \A k : LocalMap!Chain(c, k) = LocalMap!Chain(a, k)
  BY DEF LocalMap!Chain
<1>2. SizeOf(c) = SizeOf(a)
  BY DEF SizeOf
<1>3. \A b : ChainOf(c, b) = ChainOf(a, b)
  BY <1>1 DEF ChainOf
<1>4. \A k : PlaceOf(c, k) = PlaceOf(a, k)
  BY <1>2 DEF PlaceOf
<1>5. \A k : LocalMap!Holds(c, k) <=> LocalMap!Holds(a, k)
  BY <1>3, <1>4, HoldsIs
<1> QED
  BY <1>1, <1>2, <1>3, <1>4, <1>5 DEF SameLinks

\* An array is as right as one with the same links, cells and values.
LEMMA RightStays ==
  ASSUME NEW a, ChainsRight(a), NEW c \in ArrayOfMap, c.next = a.next, c.cells = a.cells,
         \A k \in Keys : c.value[k] # None <=> a.value[k] # None
  PROVE  ChainsRight(c)
<1>1. SameLinks(c, a)
  BY LinksStay
<1> QED
  BY <1>1 DEF SameLinks, ChainsRight

LEMMA EmptyIsRight ==
  ASSUME NEW n \in Nat \ {0}
  PROVE  /\ LocalMap!EmptyArray(n, Junk) \in ArrayOfMap
         /\ ChainsRight(LocalMap!EmptyArray(n, None))
         /\ SizeOf(LocalMap!EmptyArray(n, None)) = n
         /\ \A k \in Keys : ~ LocalMap!Holds(LocalMap!EmptyArray(n, None), k)
<1>1. ASSUME NEW x \in {None, Junk} PROVE LocalMap!EmptyArray(n, x) \in ArrayOfMap
  <2>1. [b \in 0 .. n - 1 |-> x] \in [0 .. n - 1 -> Keys \cup {None, Junk}]
    OBVIOUS
  <2>2. [b \in 0 .. n - 1 |-> x] \in UNION {[0 .. m - 1 -> Keys \cup {None, Junk}] : m \in Nat}
    BY <2>1
  <2> QED
    BY <2>2 DEF LocalMap!EmptyArray, ArrayOfMap
<1> DEFINE a == LocalMap!EmptyArray(n, None)
<1>2. /\ DOMAIN a.cells = 0 .. n - 1 /\ \A b \in 0 .. n - 1 : a.cells[b] = None
      /\ \A k \in Keys : a.value[k] = None
  BY DEF LocalMap!EmptyArray
<1>3. a \in ArrayOfMap /\ Linked(a)
  BY <1>1, ArrayHas
<1> HIDE DEF a
<1>4. SizeOf(a) = n
  BY <1>2, SizeIs
<1>5. \A b \in 0 .. n - 1 : ChainOf(a, b) = {}
  <2>1. LocalMap!Chain(a, None) = {}
    BY <1>3, ChainClosed
  <2> QED
    BY <1>2, <2>1 DEF ChainOf
<1>6. ASSUME NEW k \in Keys PROVE ~ LocalMap!Holds(a, k)
  <2>1. PlaceOf(a, k) \in 0 .. n - 1
    BY <1>4, PlaceIs DEF PlaceOf
  <2> QED
    BY <1>5, <2>1, HoldsIs
<1>7. ChainsRight(a)
  BY <1>2, <1>3, <1>4, <1>5, <1>6 DEF ChainsRight
<1> QED
  BY <1>1, <1>4, <1>6, <1>7 DEF a

-----------------------------------------------------------------------------
\* An array among the others is changed.
Changed(new, i, x) ==
  /\ new \in Seq(ArrayOfMap) /\ Len(new) = nodes /\ new[i] = x
  /\ \A j \in 1 .. nodes : j # i => new[j] = arrays[j]

LEMMA ArrayChanges ==
  ASSUME MapTypes, NEW i \in 1 .. nodes, NEW x \in ArrayOfMap
  PROVE  Changed([arrays EXCEPT ![i] = x], i, x)
BY DEF MapTypes, Changed

LEMMA NoneIsNoJob == None \notin Jobs
BY MapAssumption DEF Jobs

LEMMA GoesOn ==
  ASSUME MapTypes, job # None, NEW p \in {"allocate", "clear", "resize", "move", "delete", "unlock"},
         LocalMap!GoOn(p)
  PROVE  /\ job' \in Jobs /\ job' # None /\ job'.pc = p
         /\ job'.bucket = job.bucket /\ job'.node = job.node
         /\ job'.key = job.key /\ job'.value = job.value
<1>1. job \in Jobs
  BY DEF MapTypes
<1>2. job' = [job EXCEPT !.pc = p]
  BY DEF LocalMap!GoOn
<1>3. job' \in Jobs
  BY <1>1, <1>2 DEF Jobs
<1>4. job' # None
  BY <1>3, NoneIsNoJob
<1> QED
  BY <1>1, <1>2, <1>3, <1>4 DEF Jobs

LEMMA PutLockInside ==
  ASSUME MapInside, NEW t \in Putters, NEW k \in Keys, LocalMap!PutLock(t, k)
  PROVE  MapInside' /\ UNCHANGED MapHas /\ ~ LocalMap!Growing /\ ~ LocalMap!Growing'
<1>1. /\ job = None /\ t # None /\ puts < Puts /\ puts \in Nat
      /\ owner' = t /\ puts' = puts + 1
      /\ job' = [pc |-> "put", key |-> k, value |-> puts + 1, bucket |-> 0, node |-> None]
      /\ UNCHANGED <<arrays, nodes, numNodes>>
  BY MapAssumption DEF MapInside, MapTypes, LocalMap!PutLock
<1>2. job' \in Jobs /\ job'.pc = "put"
  BY <1>1, MapAssumption DEF Jobs
<1>3. ~ LocalMap!Growing /\ ~ LocalMap!Growing'
  BY <1>1, <1>2 DEF LocalMap!Growing
<1>4. MapHas' = MapHas
  BY <1>1, <1>3 DEF MapHas, Cur
<1>5. MapTypes'
  BY <1>1, <1>2 DEF MapInside, MapTypes
<1>6. InUse(Cur)'
  BY <1>1, <1>3 DEF MapInside, MapPhase, InUse, Cur
<1> QED
  BY <1>2, <1>3, <1>4, <1>5, <1>6 DEF MapInside, MapPhase

LEMMA UnlockInside ==
  ASSUME MapInside, LocalMap!Unlock
  PROVE  MapInside' /\ UNCHANGED MapHas /\ ~ LocalMap!Growing /\ ~ LocalMap!Growing'
<1>1. /\ job # None /\ job.pc = "unlock" /\ job' = None
      /\ UNCHANGED <<arrays, nodes, numNodes, puts>>
  BY DEF LocalMap!Unlock
<1>2. ~ LocalMap!Growing /\ ~ LocalMap!Growing'
  BY <1>1 DEF LocalMap!Growing
<1>3. MapHas' = MapHas
  BY <1>1, <1>2 DEF MapHas, Cur
<1>4. MapTypes'
  BY <1>1 DEF MapInside, MapTypes
<1>5. InUse(Cur)'
  BY <1>1, <1>2 DEF MapInside, MapPhase, InUse, Cur
<1> QED
  BY <1>1, <1>2, <1>3, <1>4, <1>5 DEF MapInside, MapPhase

\* A put of a key that the map has changes its value and no link.
LEMMA OverwriteInside ==
  ASSUME MapInside, LocalMap!Overwrite
  PROVE  /\ MapInside' /\ ~ LocalMap!Growing /\ ~ LocalMap!Growing'
         /\ MapHas' = [MapHas EXCEPT ![job.key] = job.value]
         /\ SameLinks(Cur', Cur) /\ job.key \in Keys /\ job.value \in 1 .. Puts
<1> DEFINE k == job.key
           x == [Cur EXCEPT !.value[k] = job.value]
<1>1. /\ job # None /\ job.pc = "put" /\ LocalMap!Holds(Cur, k)
      /\ arrays' = [arrays EXCEPT ![nodes].value[k] = job.value]
      /\ LocalMap!GoOn("unlock")
      /\ UNCHANGED <<nodes, numNodes, owner, puts>>
  BY DEF LocalMap!Overwrite, Cur
<1>2. MapTypes /\ job \in Jobs /\ k \in Keys /\ job.value \in 1 .. Puts
  BY <1>1 DEF MapInside, MapTypes, Jobs
<1>3. Cur \in ArrayOfMap /\ Cur.value \in [Keys -> 1 .. Puts \cup {None}]
  BY <1>2, ArraysAre, ArrayHas
<1>4. x \in ArrayOfMap /\ x.next = Cur.next /\ x.cells = Cur.cells /\ x.live = Cur.live
      /\ x.freed = Cur.freed /\ x.value = [Cur.value EXCEPT ![k] = job.value]
  BY <1>2, <1>3 DEF ArrayOfMap
<1>5. arrays' = [arrays EXCEPT ![nodes] = x]
  BY <1>1, <1>2 DEF MapTypes, Cur
<1> HIDE DEF x
<1>6. nodes \in 1 .. nodes
  BY <1>2 DEF MapTypes
<1>7. arrays' \in Seq(ArrayOfMap) /\ Len(arrays') = nodes /\ arrays'[nodes] = x
  BY <1>2, <1>4, <1>5, <1>6, ArrayChanges DEF Changed
<1>8. Cur' = x
  BY <1>1, <1>7 DEF Cur
<1>9. job' \in Jobs /\ job' # None /\ job'.pc = "unlock"
  BY <1>1, <1>2, GoesOn
<1>10. ~ LocalMap!Growing /\ ~ LocalMap!Growing'
  BY <1>1, <1>9 DEF LocalMap!Growing
<1>11. InUse(Cur)
  BY <1>10 DEF MapInside, MapPhase
<1>12. SameLinks(x, Cur)
  BY <1>4, LinksStay
<1>13. ChainsRight(x)
  <2>1. Cur.value[k] # None /\ job.value # None
    <3>1. LocalMap!Holds(Cur, k) <=> Cur.value[k] # None
      BY <1>2, <1>11 DEF InUse, ChainsRight
    <3> QED
      BY <1>1, <1>2, <3>1, MapAssumption
  <2>2. \A y \in Keys : x.value[y] # None <=> Cur.value[y] # None
    BY <1>3, <1>4, <2>1
  <2> QED
    BY <1>4, <1>11, <2>2, RightStays DEF InUse
<1>14. InUse(Cur)'
  BY <1>1, <1>4, <1>8, <1>11, <1>12, <1>13 DEF InUse, SameLinks
<1>15. MapTypes'
  BY <1>1, <1>2, <1>7, <1>9 DEF MapTypes
<1>16. MapHas' = [MapHas EXCEPT ![k] = job.value]
  BY <1>4, <1>8, <1>10 DEF MapHas
<1> QED
  BY <1>2, <1>8, <1>9, <1>10, <1>12, <1>14, <1>15, <1>16 DEF MapInside, MapPhase

\* A put of another key puts it in front of its chain.
LEMMA InsertInside ==
  ASSUME MapInside, LocalMap!Insert
  PROVE  /\ MapInside' /\ ~ LocalMap!Growing /\ ~ LocalMap!Growing'
         /\ MapHas' = [MapHas EXCEPT ![job.key] = job.value]
         /\ PutIn(Cur', Cur, job.key, job.value)
         /\ job.key \in Keys /\ job.value \in 1 .. Puts
<1> DEFINE k == job.key
           x == LocalMap!InFront(Cur, k, job.value)
<1>1. /\ job # None /\ job.pc = "put" /\ ~ LocalMap!Holds(Cur, k)
      /\ arrays' = [arrays EXCEPT ![nodes] = x]
      /\ LocalMap!GoOn(IF LocalMap!Overloaded(numElements + 1, numNodes) THEN "allocate"
                       ELSE "unlock")
      /\ UNCHANGED <<nodes, numNodes, owner, puts>>
  BY DEF LocalMap!Insert, LocalMap!InFront, Cur
<1>2. MapTypes /\ job \in Jobs /\ k \in Keys /\ job.value \in 1 .. Puts
  BY <1>1 DEF MapInside, MapTypes, Jobs
<1>3. ~ LocalMap!Growing
  BY <1>1 DEF LocalMap!Growing
<1>4. InUse(Cur)
  BY <1>3 DEF MapInside, MapPhase
<1>5. PutIn(x, Cur, k, job.value)
  BY <1>1, <1>2, <1>4, PutInFront DEF InUse
<1> HIDE DEF x
<1>6. x \in ArrayOfMap
  BY <1>5 DEF PutIn, ChainsRight
<1>7. nodes \in 1 .. nodes
  BY <1>2 DEF MapTypes
<1>8. arrays' \in Seq(ArrayOfMap) /\ Len(arrays') = nodes /\ arrays'[nodes] = x
  BY <1>1, <1>2, <1>6, <1>7, ArrayChanges DEF Changed
<1>9. Cur' = x
  BY <1>1, <1>8 DEF Cur
<1>10. job' \in Jobs /\ job' # None /\ job'.pc \in {"allocate", "unlock"}
  <2>1. CASE LocalMap!Overloaded(numElements + 1, numNodes)
    BY <1>1, <1>2, <2>1, GoesOn
  <2>2. CASE ~ LocalMap!Overloaded(numElements + 1, numNodes)
    BY <1>1, <1>2, <2>2, GoesOn
  <2> QED
    BY <2>1, <2>2
<1>11. ~ LocalMap!Growing'
  BY <1>10 DEF LocalMap!Growing
<1>12. InUse(Cur)'
  BY <1>1, <1>4, <1>5, <1>9 DEF InUse, PutIn
<1>13. MapTypes'
  BY <1>1, <1>2, <1>8, <1>10 DEF MapTypes
<1>14. MapHas' = [MapHas EXCEPT ![k] = job.value]
  BY <1>3, <1>5, <1>9, <1>11 DEF MapHas, PutIn
<1> QED
  BY <1>2, <1>3, <1>5, <1>9, <1>10, <1>11, <1>12, <1>13, <1>14 DEF MapInside, MapPhase

-----------------------------------------------------------------------------
\* rehash_() begins: the old array is what was in use.
LEMMA AllocateInside ==
  ASSUME MapInside, LocalMap!Allocate
  PROVE  MapInside' /\ UNCHANGED MapHas
<1> DEFINE x == LocalMap!EmptyArray(2 * numNodes, Junk)
<1>1. /\ job # None /\ job.pc = "allocate"
      /\ arrays' = Append(arrays, x) /\ nodes' = nodes + 1 /\ LocalMap!GoOn("clear")
      /\ UNCHANGED <<numNodes, owner, puts>>
  BY DEF LocalMap!Allocate
<1>2. /\ MapTypes /\ nodes \in Nat \ {0} /\ numNodes \in Nat \ {0}
      /\ arrays \in Seq(ArrayOfMap) /\ Len(arrays) = nodes
  BY DEF MapInside, MapTypes
<1>3. x \in ArrayOfMap
  <2>1. 2 * numNodes \in Nat \ {0}
    BY <1>2
  <2> QED
    BY <2>1, EmptyIsRight
<1> HIDE DEF x
<1>4. /\ arrays' \in Seq(ArrayOfMap) /\ Len(arrays') = nodes + 1
      /\ arrays'[nodes] = arrays[nodes]
  BY <1>1, <1>2, <1>3
<1>5. job' \in Jobs /\ job' # None /\ job'.pc = "clear"
  BY <1>1, <1>2, GoesOn
<1>6. ~ LocalMap!Growing /\ LocalMap!Growing' /\ InUse(Cur)
  BY <1>1, <1>5 DEF LocalMap!Growing, MapInside, MapPhase
<1>7. nodes' \in Nat \ {0} /\ nodes' > 1 /\ nodes' - 1 = nodes
  BY <1>1, <1>2
<1>8. Prev' = Cur
  BY <1>4, <1>7 DEF Prev, Cur
<1>9. InUse(Prev)'
  BY <1>1, <1>6, <1>8 DEF InUse
<1>10. MapTypes'
  BY <1>1, <1>2, <1>4, <1>5, <1>7 DEF MapTypes
<1>11. MapHas' = MapHas
  BY <1>6, <1>8 DEF MapHas
<1> QED
  BY <1>5, <1>6, <1>7, <1>9, <1>10, <1>11 DEF MapInside, MapPhase

LEMMA ClearCellsInside ==
  ASSUME MapInside, LocalMap!ClearCells
  PROVE  MapInside' /\ UNCHANGED MapHas
<1> DEFINE x == LocalMap!EmptyArray(2 * numNodes, None)
<1>1. /\ job # None /\ job.pc = "clear"
      /\ arrays' = [arrays EXCEPT ![nodes] = x] /\ LocalMap!GoOn("resize")
      /\ UNCHANGED <<nodes, numNodes, owner, puts>>
  BY DEF LocalMap!ClearCells
<1>2. /\ MapTypes /\ nodes \in Nat \ {0} /\ numNodes \in Nat \ {0}
  BY DEF MapInside, MapTypes
<1>3. x \in ArrayOfMap
  <2>1. 2 * numNodes \in Nat \ {0}
    BY <1>2
  <2>2. ChainsRight(x)
    BY <2>1, EmptyIsRight
  <2> QED
    BY <2>2 DEF ChainsRight
<1>4. LocalMap!Growing /\ nodes > 1 /\ InUse(Prev)
  BY <1>1 DEF LocalMap!Growing, MapInside, MapPhase
<1>5. job' \in Jobs /\ job' # None /\ job'.pc = "resize"
  BY <1>1, <1>2, GoesOn
<1>6. nodes \in 1 .. nodes /\ nodes - 1 \in 1 .. nodes /\ nodes - 1 # nodes
  BY <1>2, <1>4
<1> DEFINE y == x
<1>7. y \in ArrayOfMap /\ arrays' = [arrays EXCEPT ![nodes] = y]
  BY <1>1, <1>3
<1> HIDE DEF y
<1>8. /\ arrays' \in Seq(ArrayOfMap) /\ Len(arrays') = nodes /\ arrays'[nodes] = y
      /\ arrays'[nodes - 1] = arrays[nodes - 1]
  BY <1>2, <1>6, <1>7, ArrayChanges DEF Changed
<1>9. Cur' = y /\ Prev' = Prev
  BY <1>1, <1>8 DEF Cur, Prev
<1>10. Cur' = LocalMap!EmptyArray(2 * numNodes, None)'
  BY <1>1, <1>9 DEF y, LocalMap!EmptyArray
<1>11. InUse(Prev)'
  BY <1>1, <1>4, <1>9 DEF InUse
<1>12. LocalMap!Growing'
  BY <1>5 DEF LocalMap!Growing
<1>13. MapTypes'
  BY <1>1, <1>2, <1>5, <1>8 DEF MapTypes
<1>14. MapHas' = MapHas
  BY <1>4, <1>9, <1>12 DEF MapHas
<1> QED
  BY <1>1, <1>4, <1>5, <1>10, <1>11, <1>12, <1>13, <1>14 DEF MapInside, MapPhase

LEMMA ResizeInside ==
  ASSUME MapInside, LocalMap!Resize
  PROVE  MapInside' /\ UNCHANGED MapHas
<1>1. /\ job # None /\ job.pc = "resize"
      /\ numNodes' = 2 * numNodes
      /\ job' = [job EXCEPT !.pc = "move", !.bucket = 0, !.node = Prev.cells[0]]
      /\ UNCHANGED <<arrays, nodes, owner, puts>>
  BY DEF LocalMap!Resize, LocalMap!Old, Prev
<1>2. MapTypes /\ numNodes \in Nat \ {0} /\ job \in Jobs
  BY <1>1 DEF MapInside, MapTypes
<1>3. /\ LocalMap!Growing /\ nodes > 1 /\ InUse(Prev)
      /\ Cur = LocalMap!EmptyArray(2 * numNodes, None)
  BY <1>1 DEF LocalMap!Growing, MapInside, MapPhase
<1>4. ChainsRight(Prev) /\ Prev.freed = {} /\ 0 \in 0 .. SizeOf(Prev) - 1
      /\ Prev.cells[0] \in Keys \cup {None}
  <2>1. ChainsRight(Prev) /\ Prev.freed = {} /\ SizeOf(Prev) \in Nat \ {0}
    BY <1>3 DEF InUse, ChainsRight
  <2>2. 0 \in 0 .. SizeOf(Prev) - 1
    BY <2>1
  <2> QED
    BY <2>1, <2>2 DEF ChainsRight
<1>5. /\ job' \in Jobs /\ job' # None /\ job'.pc = "move"
      /\ job'.bucket = 0 /\ job'.node = Prev.cells[0]
  <2>1. job' \in Jobs
    BY <1>1, <1>2, <1>4 DEF Jobs
  <2> QED
    BY <1>1, <1>2, <2>1, NoneIsNoJob DEF Jobs
<1>6. numNodes' \in Nat \ {0}
  BY <1>1, <1>2
<1>7. /\ ChainsRight(Cur) /\ SizeOf(Cur) = numNodes' /\ Cur.live /\ Cur.freed = {}
      /\ \A k \in Keys : ~ LocalMap!Holds(Cur, k)
  <2>1. Cur.live /\ Cur.freed = {}
    BY <1>3 DEF LocalMap!EmptyArray
  <2> QED
    BY <1>1, <1>3, <1>6, <2>1, EmptyIsRight
<1>8. Cur' = Cur /\ Prev' = Prev
  BY <1>1 DEF Cur, Prev
<1>9. InUse(Cur)'
  BY <1>7, <1>8 DEF InUse
<1>10. Linked(Prev) /\ (Prev.cells[0] # None => Prev.cells[0] \in ChainOf(Prev, 0))
  <2>1. Linked(Prev)
    BY <1>4, ArrayHas DEF ChainsRight
  <2> QED
    BY <1>4, <2>1, ChainClosed DEF ChainOf
<1>11. ASSUME NEW k \in Keys
       PROVE  ~ (/\ LocalMap!Holds(Prev, k)
                 /\ \/ PlaceOf(Prev, k) < 0
                    \/ PlaceOf(Prev, k) = 0 /\ k \notin LocalMap!Chain(Prev, Prev.cells[0]))
  <2>1. PlaceOf(Prev, k) \in 0 .. SizeOf(Prev) - 1
    BY <1>4, PlaceIs DEF PlaceOf, ChainsRight
  <2>2. LocalMap!Holds(Prev, k) <=> k \in ChainOf(Prev, PlaceOf(Prev, k))
    BY HoldsIs
  <2> QED
    BY <2>1, <2>2 DEF ChainOf
<1>12. Moving(Prev, Cur)'
  BY <1>4, <1>5, <1>7, <1>8, <1>9, <1>10, <1>11 DEF Moving
<1>13. LocalMap!Growing' /\ MapTypes'
  BY <1>1, <1>2, <1>5, <1>6 DEF LocalMap!Growing, MapTypes
<1>14. MapHas' = MapHas
  BY <1>3, <1>8, <1>13 DEF MapHas
<1> QED
  BY <1>1, <1>3, <1>5, <1>12, <1>13, <1>14 DEF MapInside, MapPhase

LEMMA DeleteArrayInside ==
  ASSUME MapInside, LocalMap!DeleteArray
  PROVE  MapInside' /\ UNCHANGED MapHas
<1> DEFINE x == [Prev EXCEPT !.live = FALSE]
<1>1. /\ job # None /\ job.pc = "delete"
      /\ arrays' = [arrays EXCEPT ![nodes - 1].live = FALSE] /\ LocalMap!GoOn("unlock")
      /\ UNCHANGED <<nodes, numNodes, owner, puts>>
  BY DEF LocalMap!DeleteArray
<1>2. MapTypes /\ nodes \in Nat \ {0}
  BY DEF MapInside, MapTypes
<1>3. LocalMap!Growing /\ nodes > 1 /\ Moved(Prev, Cur)
  BY <1>1 DEF LocalMap!Growing, MapInside, MapPhase
<1>4. nodes \in 1 .. nodes /\ nodes - 1 \in 1 .. nodes /\ nodes # nodes - 1
  BY <1>2, <1>3
<1>5. Prev \in ArrayOfMap /\ Cur \in ArrayOfMap
  BY <1>2, <1>3, ArraysAre
<1>6. x \in ArrayOfMap
  BY <1>5 DEF ArrayOfMap
<1>7. arrays' = [arrays EXCEPT ![nodes - 1] = x]
  BY <1>1, <1>2, <1>4 DEF MapTypes, Prev
<1> HIDE DEF x
<1>8. /\ arrays' \in Seq(ArrayOfMap) /\ Len(arrays') = nodes /\ arrays'[nodes] = arrays[nodes]
  BY <1>2, <1>4, <1>6, <1>7, ArrayChanges DEF Changed
<1>9. Cur' = Cur
  BY <1>1, <1>8 DEF Cur
<1>10. job' \in Jobs /\ job' # None /\ job'.pc = "unlock"
  BY <1>1, <1>2, GoesOn
<1>11. ~ LocalMap!Growing'
  BY <1>10 DEF LocalMap!Growing
<1>12. InUse(Cur)'
  BY <1>1, <1>3, <1>9 DEF Moved, InUse
<1>13. MapTypes'
  BY <1>1, <1>2, <1>8, <1>10 DEF MapTypes
<1>14. MapHas' = MapHas
  <2>1. Cur.value \in [Keys -> 1 .. Puts \cup {None}] /\ Prev.value \in [Keys -> 1 .. Puts \cup {None}]
    BY <1>5, ArrayHas
  <2>2. \A k \in Keys : Cur.value[k] = Prev.value[k]
    BY <1>3 DEF Moved
  <2>3. Cur.value = Prev.value
    BY <2>1, <2>2
  <2> QED
    BY <1>3, <1>9, <1>11, <2>3 DEF MapHas
<1> QED
  BY <1>10, <1>11, <1>12, <1>13, <1>14 DEF MapInside, MapPhase

\* A node of an old chain is put in front of a new one.
LEMMA MovingOn ==
  ASSUME NEW old, NEW a, NEW c, job \in Jobs, Moving(old, a), job.node # None,
         PutIn(c, a, job.node, old.value[job.node])
  PROVE  LET n == job.node
             b == job.bucket
         IN  /\ old.next[n] \in Keys \cup {None}
             /\ old.next[n] # None => old.next[n] \in ChainOf(old, b)
             /\ \A k \in Keys :
                  /\ LocalMap!Holds(c, k) <=>
                       /\ LocalMap!Holds(old, k)
                       /\ \/ PlaceOf(old, k) < b
                          \/ PlaceOf(old, k) = b /\ k \notin LocalMap!Chain(old, old.next[n])
                  /\ LocalMap!Holds(c, k) => c.value[k] = old.value[k]
<1> DEFINE n == job.node
           b == job.bucket
<1>1. /\ ChainsRight(old) /\ ChainsRight(a) /\ b \in 0 .. SizeOf(old) - 1
      /\ n \in ChainOf(old, b) /\ n \in Keys
  BY DEF Moving, InUse, Jobs
<1>2. /\ Linked(old) /\ old.cells[b] \in Keys \cup {None}
      /\ a.value \in [Keys -> 1 .. Puts \cup {None}]
      /\ PlaceOf(old, n) = b /\ n \notin LocalMap!Chain(old, old.next[n])
  BY <1>1, ArrayHas DEF ChainsRight
<1>3. old.next[n] \in Keys \cup {None} /\ (old.next[n] # None => old.next[n] \in ChainOf(old, b))
  <2>1. \A y \in ChainOf(old, b) : old.next[y] # None => old.next[y] \in ChainOf(old, b)
    BY <1>2, ChainClosed DEF ChainOf
  <2> QED
    BY <1>1, <1>2, <2>1 DEF Linked
<1>4. LocalMap!Chain(old, n) = {n} \cup LocalMap!Chain(old, old.next[n])
  BY <1>1, <1>2, ChainSplit
<1>5. LocalMap!Holds(old, n)
  BY <1>1, <1>2, HoldsIs
<1>6. /\ c.value = [a.value EXCEPT ![n] = old.value[n]]
      /\ \A x \in Keys : LocalMap!Holds(c, x) <=> LocalMap!Holds(a, x) \/ x = n
  BY DEF PutIn
<1>7. \A k \in Keys :
        /\ LocalMap!Holds(a, k) <=>
             /\ LocalMap!Holds(old, k)
             /\ \/ PlaceOf(old, k) < b
                \/ PlaceOf(old, k) = b /\ k \notin LocalMap!Chain(old, n)
        /\ LocalMap!Holds(a, k) => a.value[k] = old.value[k]
  BY DEF Moving
<1> HIDE DEF n, b
<1>8. ASSUME NEW k \in Keys
      PROVE  /\ LocalMap!Holds(c, k) <=>
                  /\ LocalMap!Holds(old, k)
                  /\ \/ PlaceOf(old, k) < b
                     \/ PlaceOf(old, k) = b /\ k \notin LocalMap!Chain(old, old.next[n])
             /\ LocalMap!Holds(c, k) => c.value[k] = old.value[k]
  <2>1. CASE k = n
    BY <1>1, <1>2, <1>5, <1>6, <2>1
  <2>2. CASE k # n
    <3>1. c.value[k] = a.value[k]
      BY <1>2, <1>6, <2>2
    <3> QED
      BY <1>4, <1>6, <1>7, <2>2, <3>1
  <2> QED
    BY <2>1, <2>2
<1> QED
  BY <1>3, <1>8 DEF n, b

LEMMA MoveInside ==
  ASSUME MapInside, LocalMap!Move
  PROVE  MapInside' /\ UNCHANGED MapHas
<1> DEFINE n == job.node
           v == Prev.value[n]
           x == LocalMap!InFront(Cur, n, v)
<1>1. /\ job # None /\ job.pc = "move" /\ n # None
      /\ arrays' = [arrays EXCEPT ![nodes] = x]
      /\ job' = [job EXCEPT !.node = Prev.next[n]]
      /\ UNCHANGED <<nodes, numNodes, owner, puts>>
  BY DEF LocalMap!Move, LocalMap!Old, LocalMap!InFront, Cur, Prev
<1>2. MapTypes /\ job \in Jobs /\ nodes \in Nat \ {0}
  BY <1>1 DEF MapInside, MapTypes
<1>3. LocalMap!Growing /\ nodes > 1 /\ Moving(Prev, Cur)
  BY <1>1 DEF LocalMap!Growing, MapInside, MapPhase
<1>4. /\ ChainsRight(Prev) /\ InUse(Cur) /\ n \in Keys
      /\ n \in ChainOf(Prev, job.bucket) /\ job.bucket \in 0 .. SizeOf(Prev) - 1
  BY <1>1, <1>2, <1>3 DEF Moving, Jobs
<1>5. Linked(Prev) /\ PlaceOf(Prev, n) = job.bucket /\ v \in 1 .. Puts
      /\ n \in LocalMap!Chain(Prev, n)
  <2>1. Linked(Prev) /\ PlaceOf(Prev, n) = job.bucket /\ Prev.value \in [Keys -> 1 .. Puts \cup {None}]
    BY <1>4, ArrayHas DEF ChainsRight
  <2>2. LocalMap!Holds(Prev, n)
    BY <1>4, <2>1, HoldsIs
  <2>3. v # None
    BY <1>4, <2>2 DEF ChainsRight
  <2>4. n \in LocalMap!Chain(Prev, n)
    BY <1>1, <1>4, <2>1, ChainClosed
  <2> QED
    BY <1>4, <2>1, <2>3, <2>4
<1>6. ~ LocalMap!Holds(Cur, n)
  <2>1. LocalMap!Holds(Cur, n) =>
          \/ PlaceOf(Prev, n) < job.bucket
          \/ PlaceOf(Prev, n) = job.bucket /\ n \notin LocalMap!Chain(Prev, n)
    BY <1>3, <1>4 DEF Moving
  <2> QED
    BY <1>4, <1>5, <2>1
<1>7. PutIn(x, Cur, n, v)
  BY <1>4, <1>5, <1>6, PutInFront DEF InUse
<1> HIDE DEF x
<1>8. x \in ArrayOfMap
  BY <1>7 DEF PutIn, ChainsRight
<1>9. nodes \in 1 .. nodes /\ nodes - 1 \in 1 .. nodes /\ nodes # nodes - 1
  BY <1>2, <1>3
<1>10. /\ arrays' \in Seq(ArrayOfMap) /\ Len(arrays') = nodes /\ arrays'[nodes] = x
       /\ arrays'[nodes - 1] = arrays[nodes - 1]
  BY <1>1, <1>2, <1>8, <1>9, ArrayChanges DEF Changed
<1>11. Cur' = x /\ Prev' = Prev
  BY <1>1, <1>10 DEF Cur, Prev
<1>12. /\ Prev.next[n] \in Keys \cup {None}
       /\ Prev.next[n] # None => Prev.next[n] \in ChainOf(Prev, job.bucket)
       /\ \A k \in Keys :
            /\ LocalMap!Holds(x, k) <=>
                 /\ LocalMap!Holds(Prev, k)
                 /\ \/ PlaceOf(Prev, k) < job.bucket
                    \/ PlaceOf(Prev, k) = job.bucket /\ k \notin LocalMap!Chain(Prev, Prev.next[n])
            /\ LocalMap!Holds(x, k) => x.value[k] = Prev.value[k]
  BY <1>1, <1>2, <1>3, <1>7, MovingOn
<1>13. /\ job' \in Jobs /\ job' # None /\ job'.pc = "move"
       /\ job'.bucket = job.bucket /\ job'.node = Prev.next[n]
  <2>1. job' \in Jobs
    BY <1>1, <1>2, <1>12 DEF Jobs
  <2> QED
    BY <1>1, <1>2, <2>1, NoneIsNoJob DEF Jobs
<1>14. InUse(Cur)'
  BY <1>1, <1>4, <1>7, <1>11 DEF InUse, PutIn
<1>15. \A k \in Keys : k \in Prev.freed => LocalMap!Holds(Prev, k) /\ PlaceOf(Prev, k) < job.bucket
  BY <1>3 DEF Moving
<1>16. Moving(Prev, Cur)'
  BY <1>4, <1>11, <1>12, <1>13, <1>14, <1>15 DEF Moving
<1>17. LocalMap!Growing' /\ MapTypes'
  BY <1>1, <1>2, <1>10, <1>13 DEF LocalMap!Growing, MapTypes
<1>18. MapHas' = MapHas
  BY <1>3, <1>11, <1>17 DEF MapHas
<1> QED
  BY <1>1, <1>3, <1>13, <1>16, <1>17, <1>18 DEF MapInside, MapPhase

\* The nodes of a chain that was moved are deleted.
LEMMA DeleteChainInside ==
  ASSUME MapInside, LocalMap!DeleteChain
  PROVE  MapInside' /\ UNCHANGED MapHas
<1> DEFINE b == job.bucket
           x == [Prev EXCEPT !.freed = @ \cup ChainOf(Prev, b)]
           last == b + 1 \notin DOMAIN Prev.cells
<1>1. /\ job # None /\ job.pc = "move" /\ job.node = None
      /\ arrays' = [arrays EXCEPT ![nodes - 1].freed = @ \cup ChainOf(Prev, b)]
      /\ job' = [job EXCEPT !.pc = IF last THEN "delete" ELSE "move",
                            !.bucket = b + 1,
                            !.node = IF last THEN None ELSE Prev.cells[b + 1]]
      /\ UNCHANGED <<nodes, numNodes, owner, puts>>
  BY DEF LocalMap!DeleteChain, LocalMap!Old, Prev, ChainOf
<1>2. MapTypes /\ job \in Jobs /\ nodes \in Nat \ {0}
  BY <1>1 DEF MapInside, MapTypes
<1>3. LocalMap!Growing /\ nodes > 1 /\ Moving(Prev, Cur)
  BY <1>1 DEF LocalMap!Growing, MapInside, MapPhase
<1>4. ChainsRight(Prev) /\ InUse(Cur) /\ b \in 0 .. SizeOf(Prev) - 1
  BY <1>3 DEF Moving
<1>5. /\ Linked(Prev) /\ Prev \in ArrayOfMap /\ Cur \in ArrayOfMap
      /\ SizeOf(Prev) \in Nat \ {0} /\ DOMAIN Prev.cells = 0 .. SizeOf(Prev) - 1
      /\ \A d \in 0 .. SizeOf(Prev) - 1 :
           Prev.cells[d] \in Keys \cup {None} /\ \A k \in ChainOf(Prev, d) : PlaceOf(Prev, k) = d
  BY <1>4, ArrayHas DEF InUse, ChainsRight
<1>6. nodes \in 1 .. nodes /\ nodes - 1 \in 1 .. nodes /\ nodes # nodes - 1
  BY <1>2, <1>3
<1>7. ChainOf(Prev, b) \subseteq Keys
  BY <1>4, <1>5, ChainClosed DEF ChainOf
<1>8. /\ x \in ArrayOfMap /\ x.next = Prev.next /\ x.cells = Prev.cells /\ x.value = Prev.value
      /\ x.freed = Prev.freed \cup ChainOf(Prev, b)
  BY <1>5, <1>7 DEF ArrayOfMap
<1>9. arrays' = [arrays EXCEPT ![nodes - 1] = x]
  BY <1>1, <1>2, <1>6 DEF MapTypes, Prev
<1> HIDE DEF x
<1>10. /\ arrays' \in Seq(ArrayOfMap) /\ Len(arrays') = nodes /\ arrays'[nodes - 1] = x
       /\ arrays'[nodes] = arrays[nodes]
  BY <1>2, <1>6, <1>8, <1>9, ArrayChanges DEF Changed
<1>11. Cur' = Cur /\ Prev' = x
  BY <1>1, <1>10 DEF Cur, Prev
<1>12. ChainsRight(x) /\ SameLinks(x, Prev)
  BY <1>4, <1>8, LinksStay, RightStays
<1>13. InUse(Cur)'
  BY <1>1, <1>4, <1>11 DEF InUse
<1>14. ASSUME NEW k \in Keys
       PROVE  /\ LocalMap!Holds(Cur, k) <=> LocalMap!Holds(Prev, k) /\ PlaceOf(Prev, k) < b + 1
              /\ LocalMap!Holds(Cur, k) => Cur.value[k] = Prev.value[k]
              /\ k \in x.freed => LocalMap!Holds(Prev, k) /\ PlaceOf(Prev, k) < b + 1
              /\ PlaceOf(Prev, k) \in 0 .. SizeOf(Prev) - 1
              /\ LocalMap!Holds(Prev, k) <=> k \in ChainOf(Prev, PlaceOf(Prev, k))
  <2>1. PlaceOf(Prev, k) \in 0 .. SizeOf(Prev) - 1
    BY <1>5, PlaceIs DEF PlaceOf
  <2>2. LocalMap!Holds(Prev, k) <=> k \in ChainOf(Prev, PlaceOf(Prev, k))
    BY HoldsIs
  <2>3. k \notin LocalMap!Chain(Prev, job.node)
    BY <1>1, <1>5, ChainClosed
  <2>4. /\ LocalMap!Holds(Cur, k) <=>
             LocalMap!Holds(Prev, k) /\ (PlaceOf(Prev, k) < b \/ PlaceOf(Prev, k) = b)
        /\ LocalMap!Holds(Cur, k) => Cur.value[k] = Prev.value[k]
        /\ k \in Prev.freed => LocalMap!Holds(Prev, k) /\ PlaceOf(Prev, k) < b
    BY <1>3, <2>3 DEF Moving
  <2>5. k \in ChainOf(Prev, b) => PlaceOf(Prev, k) = b
    BY <1>4, <1>5
  <2> HIDE DEF b
  <2>6. /\ PlaceOf(Prev, k) < b \/ PlaceOf(Prev, k) = b <=> PlaceOf(Prev, k) < b + 1
        /\ PlaceOf(Prev, k) < b => PlaceOf(Prev, k) < b + 1
    BY <1>4, <1>5, <2>1
  <2> QED
    BY <1>8, <2>1, <2>2, <2>4, <2>5, <2>6
<1>15. b + 1 \in Nat
  BY <1>2 DEF Jobs
<1>16. CASE last
  <2>1. /\ job' \in Jobs /\ job' # None /\ job'.pc = "delete"
    <3>1. job' = [job EXCEPT !.pc = "delete", !.bucket = b + 1, !.node = None]
      BY <1>1, <1>16
    <3>2. job' \in Jobs
      BY <1>2, <1>15, <3>1 DEF Jobs
    <3> QED
      BY <1>2, <3>1, <3>2, NoneIsNoJob DEF Jobs
  <2>2. \A k \in Keys : PlaceOf(Prev, k) < b + 1
    <3>1. b + 1 = SizeOf(Prev)
      BY <1>4, <1>5, <1>16
    <3> HIDE DEF b
    <3> QED
      BY <1>5, <1>14, <3>1
  <2>3. ASSUME NEW k \in Keys PROVE Cur.value[k] = Prev.value[k]
    <3>1. LocalMap!Holds(Cur, k) <=> LocalMap!Holds(Prev, k)
      BY <1>14, <2>2
    <3>2. /\ LocalMap!Holds(Cur, k) <=> Cur.value[k] # None
          /\ LocalMap!Holds(Prev, k) <=> Prev.value[k] # None
      BY <1>4 DEF InUse, ChainsRight
    <3> QED
      BY <1>14, <3>1, <3>2
  <2>4. Moved(Prev, Cur)'
    BY <1>8, <1>11, <1>12, <1>13, <2>3 DEF Moved
  <2>5. LocalMap!Growing' /\ MapTypes'
    BY <1>1, <1>2, <1>10, <2>1 DEF LocalMap!Growing, MapTypes
  <2>6. MapHas' = MapHas
    BY <1>3, <1>8, <1>11, <2>5 DEF MapHas
  <2> QED
    BY <1>1, <1>3, <2>1, <2>4, <2>5, <2>6 DEF MapInside, MapPhase
<1>17. CASE ~ last
  <2> DEFINE d == b + 1
  <2>1. d \in 0 .. SizeOf(Prev) - 1 /\ Prev.cells[d] \in Keys \cup {None}
    BY <1>5, <1>17
  <2>2. /\ job' \in Jobs /\ job' # None /\ job'.pc = "move"
        /\ job'.bucket = d /\ job'.node = Prev.cells[d]
    <3>1. job' = [job EXCEPT !.pc = "move", !.bucket = d, !.node = Prev.cells[d]]
      BY <1>1, <1>17
    <3> HIDE DEF d, b
    <3>2. job' \in Jobs
      BY <1>2, <1>15, <2>1, <3>1 DEF Jobs, d
    <3> QED
      BY <1>2, <3>1, <3>2, NoneIsNoJob DEF Jobs
  <2>3. Prev.cells[d] # None => Prev.cells[d] \in ChainOf(Prev, d)
    BY <1>5, <2>1, ChainClosed DEF ChainOf
  <2>4. ASSUME NEW k \in Keys
        PROVE  /\ LocalMap!Holds(Cur, k) <=>
                    /\ LocalMap!Holds(Prev, k)
                    /\ \/ PlaceOf(Prev, k) < d
                       \/ PlaceOf(Prev, k) = d /\ k \notin LocalMap!Chain(Prev, Prev.cells[d])
               /\ LocalMap!Holds(Cur, k) => Cur.value[k] = Prev.value[k]
               /\ k \in x.freed => LocalMap!Holds(Prev, k) /\ PlaceOf(Prev, k) < d
    BY <1>14 DEF ChainOf
  <2> HIDE DEF d
  <2>5. Moving(Prev, Cur)'
    <3>1. /\ SizeOf(x) = SizeOf(Prev) /\ ChainOf(x, d) = ChainOf(Prev, d)
          /\ \A k : PlaceOf(x, k) = PlaceOf(Prev, k)
          /\ \A k : LocalMap!Holds(x, k) <=> LocalMap!Holds(Prev, k)
          /\ LocalMap!Chain(x, Prev.cells[d]) = LocalMap!Chain(Prev, Prev.cells[d])
      BY <1>12 DEF SameLinks
    <3> QED
      BY <1>8, <1>11, <1>12, <1>13, <2>1, <2>2, <2>3, <2>4, <3>1 DEF Moving
  <2>6. LocalMap!Growing' /\ MapTypes'
    BY <1>1, <1>2, <1>10, <2>2 DEF LocalMap!Growing, MapTypes
  <2>7. MapHas' = MapHas
    BY <1>3, <1>8, <1>11, <2>6 DEF MapHas
  <2> QED
    BY <1>1, <1>3, <2>2, <2>5, <2>6, <2>7 DEF MapInside, MapPhase
<1> QED
  BY <1>16, <1>17

\* remove() takes a key out, and nobody looks anything up meanwhile.
LEMMA RemoveInside ==
  ASSUME MapInside, NEW k \in Keys, LocalMap!Remove(k)
  PROVE  /\ MapInside' /\ MapHas' = [MapHas EXCEPT ![k] = None] /\ MapHas[k] # None
         /\ seek' = [s \in Seekers |-> LocalMap!NoSeek]
<1> DEFINE b == PlaceOf(Cur, k)
           x == Removed(Cur, k, b)
<1>1. /\ owner = None /\ LocalMap!Holds(Cur, k)
      /\ seek' = [s \in Seekers |-> LocalMap!NoSeek]
      /\ UNCHANGED <<nodes, numNodes, owner, job, puts>>
  BY DEF LocalMap!Remove, Cur
<1>2. MapTypes /\ job = None /\ nodes \in Nat \ {0} /\ ~ LocalMap!Growing
  BY <1>1 DEF MapInside, MapTypes, LocalMap!Growing
<1>3. InUse(Cur)
  BY <1>2 DEF MapInside, MapPhase
<1>4. arrays' = [arrays EXCEPT ![nodes] = x]
  BY <1>3 DEF LocalMap!Remove, InUse, PlaceOf, Cur, Removed, Without, Behind
<1>5. TakenFrom(x, Cur, k)
  BY <1>1, <1>3, RemoveTakesOut DEF InUse
<1> HIDE DEF x
<1>6. x \in ArrayOfMap
  BY <1>5 DEF TakenFrom, ChainsRight
<1>7. nodes \in 1 .. nodes
  BY <1>2
<1>8. arrays' \in Seq(ArrayOfMap) /\ Len(arrays') = nodes /\ arrays'[nodes] = x
  BY <1>2, <1>4, <1>6, <1>7, ArrayChanges DEF Changed
<1>9. Cur' = x
  BY <1>1, <1>8 DEF Cur
<1>10. InUse(Cur)'
  BY <1>1, <1>3, <1>5, <1>9 DEF InUse, TakenFrom
<1>11. MapTypes' /\ ~ LocalMap!Growing'
  BY <1>1, <1>2, <1>8 DEF MapTypes, LocalMap!Growing
<1>12. MapHas = Cur.value /\ MapHas' = [MapHas EXCEPT ![k] = None]
  BY <1>2, <1>5, <1>9, <1>11 DEF MapHas, TakenFrom
<1>13. Cur.value[k] # None
  BY <1>1, <1>3 DEF InUse, ChainsRight
<1> QED
  BY <1>1, <1>2, <1>10, <1>11, <1>12, <1>13 DEF MapInside, MapPhase

-----------------------------------------------------------------------------
LEMMA MapBegins ==
  LocalMap!Init => MapInside /\ MapHas = [k \in Keys |-> None] /\ ~ LocalMap!Growing
<1> SUFFICES ASSUME LocalMap!Init
             PROVE  MapInside /\ MapHas = [k \in Keys |-> None] /\ ~ LocalMap!Growing
  OBVIOUS
<1> DEFINE x == LocalMap!EmptyArray(Buckets, None)
<1>1. /\ arrays = <<x>> /\ nodes = 1 /\ numNodes = Buckets /\ job = None /\ puts = 0
  BY DEF LocalMap!Init
<1>2. /\ Buckets \in Nat \ {0} /\ ChainsRight(x) /\ SizeOf(x) = Buckets
  BY MapAssumption, EmptyIsRight
<1>3. /\ x.live /\ x.freed = {} /\ x.value = [k \in Keys |-> None]
  BY DEF LocalMap!EmptyArray
<1> HIDE DEF x
<1>4. x \in ArrayOfMap
  BY <1>2 DEF ChainsRight
<1>5. Cur = x /\ arrays \in Seq(ArrayOfMap) /\ Len(arrays) = 1
  BY <1>1, <1>4 DEF Cur
<1>6. ~ LocalMap!Growing
  BY <1>1 DEF LocalMap!Growing
<1>7. MapTypes
  BY <1>1, <1>2, <1>5 DEF MapTypes
<1>8. InUse(Cur)
  BY <1>1, <1>2, <1>3, <1>5 DEF InUse
<1> QED
  BY <1>1, <1>3, <1>5, <1>6, <1>7, <1>8 DEF MapInside, MapPhase, MapHas

\* A look-up.
IsLookUp(r) ==
  /\ DOMAIN r = {"pc", "key", "bucket", "array", "node", "there", "grew", "result"}
  /\ r.pc \in {"out", "array", "cell", "node"} /\ r.grew \in BOOLEAN

\* Where a look-up is whose key was there when it began, that is before its key.
OnItsWay(r) ==
  /\ ~ LocalMap!Growing
  /\ r.key \in Keys /\ r.bucket = LocalMap!Bucket(r.key, numNodes)
  /\ r.there => LocalMap!Holds(Cur, r.key)
  /\ r.pc \in {"cell", "node"} => r.array = nodes
  /\ r.pc = "node" =>
       /\ r.node \in ChainOf(Cur, r.bucket)
       /\ r.there => r.key \in LocalMap!Chain(Cur, r.node)
Answered(r) ==
  /\ r.result # "broken"
  /\ r.result = "absent" => ~ r.there
  /\ r.result = "found" => r.key \in Keys /\ MapHas[r.key] # None
SeekRight(r) ==
  ~ r.grew => (r.pc = "out" => Answered(r)) /\ (r.pc # "out" => OnItsWay(r))

SeeksRight ==
  /\ seek = [s \in Seekers |-> seek[s]]
  /\ \A s \in Seekers : IsLookUp(seek[s]) /\ SeekRight(seek[s])

\* A look-up under way when the array grows is told.
LEMMA GrowthSteps ==
  ASSUME SeeksRight, LocalMap!NoteGrowth, UNCHANGED MapHas
  PROVE  SeeksRight'
<1>1. seek' = [s \in Seekers |-> [seek[s] EXCEPT !.grew = @ \/ seek[s].pc # "out"]]
  BY DEF LocalMap!NoteGrowth
<1>2. ASSUME NEW s \in Seekers PROVE IsLookUp(seek[s])' /\ SeekRight(seek[s])'
  <2> DEFINE r == seek[s]
             q == [r EXCEPT !.grew = @ \/ r.pc # "out"]
  <2>1. IsLookUp(r) /\ seek'[s] = q /\ SeekRight(r)
    BY <1>1 DEF SeeksRight
  <2> HIDE DEF r
  <2>2. IsLookUp(q) /\ q.pc = r.pc /\ q.key = r.key /\ q.result = r.result
        /\ q.there = r.there /\ (q.grew <=> r.grew \/ r.pc # "out")
    BY <2>1 DEF IsLookUp
  <2> HIDE DEF q
  <2>3. IsLookUp(seek[s])'
    BY <2>1, <2>2 DEF IsLookUp
  <2>4. SeekRight(seek[s])'
    BY <2>1, <2>2 DEF SeekRight, Answered
  <2> QED
    BY <2>3, <2>4
<1>3. seek' = [s \in Seekers |-> seek'[s]]
  BY <1>1
<1> QED
  BY <1>2, <1>3 DEF SeeksRight

\* A step under the lock that keeps what the map has, and each chain behind a key.
KeepsChains ==
  /\ ~ LocalMap!Growing' /\ UNCHANGED <<nodes, numNodes, seek>>
  /\ \A k \in Keys : LocalMap!Holds(Cur, k) => LocalMap!Holds(Cur', k)
  /\ \A k \in Keys : MapHas[k] # None => MapHas'[k] # None
  /\ \A b \in 0 .. numNodes - 1 :
       /\ ChainOf(Cur, b) \subseteq ChainOf(Cur', b)
       /\ \A x \in ChainOf(Cur, b) : LocalMap!Chain(Cur', x) = LocalMap!Chain(Cur, x)

LEMMA OtherSteps ==
  ASSUME MapTypes, SeeksRight, KeepsChains
  PROVE  SeeksRight'
<1>1. ASSUME NEW s \in Seekers PROVE SeekRight(seek[s])'
  <2> DEFINE r == seek[s]
  <2>1. SeekRight(r) /\ r' = r
    BY DEF SeeksRight, KeepsChains
  <2> HIDE DEF r
  <2>2. CASE r.pc = "out" /\ ~ r.grew
    <3>1. Answered(r)
      BY <2>1, <2>2 DEF SeekRight
    <3>2. Answered(r)'
      BY <2>1, <3>1 DEF Answered, KeepsChains
    <3> QED
      BY <2>1, <2>2, <3>2 DEF SeekRight, r
  <2>3. CASE r.pc # "out" /\ ~ r.grew
    <3>1. OnItsWay(r)
      BY <2>1, <2>3 DEF SeekRight
    <3>2. r.bucket \in 0 .. numNodes - 1
      BY <3>1, PlaceIs DEF OnItsWay, MapTypes
    <3>3. LocalMap!Bucket(r.key, numNodes)' = LocalMap!Bucket(r.key, numNodes)
      BY <2>1 DEF KeepsChains, LocalMap!Bucket
    <3>4. OnItsWay(r)'
      BY <2>1, <3>1, <3>2, <3>3 DEF OnItsWay, KeepsChains
    <3> QED
      BY <2>1, <2>3, <3>4 DEF SeekRight, r
  <2>4. CASE r.grew
    BY <2>1, <2>4 DEF SeekRight, r
  <2> QED
    BY <2>2, <2>3, <2>4
<1> QED
  BY <1>1 DEF SeeksRight, KeepsChains, IsLookUp

\* A step of a look-up.
LEMMA SeekerSteps ==
  ASSUME SeeksRight, UNCHANGED LocalMap!mapVars, NEW s \in Seekers, NEW q, IsLookUp(q),
         seek' = [seek EXCEPT ![s] = q], SeekRight(q)
  PROVE  SeeksRight'
<1>1. /\ seek' = [t \in Seekers |-> seek'[t]]
      /\ \A t \in Seekers : seek'[t] = IF t = s THEN q ELSE seek[t]
  BY DEF SeeksRight
<1>2. \A t \in Seekers : IsLookUp(seek'[t]) /\ SeekRight(seek'[t])
  BY <1>1 DEF SeeksRight
<1>3. /\ MapHas' = MapHas /\ Cur' = Cur /\ LocalMap!Growing' = LocalMap!Growing
      /\ numNodes' = numNodes /\ nodes' = nodes
  BY DEF LocalMap!mapVars, MapHas, Cur, Prev, LocalMap!Growing
<1>4. ASSUME NEW t \in Seekers PROVE SeekRight(seek[t])'
  <2> DEFINE r == seek'[t]
  <2>1. SeekRight(r)
    BY <1>2
  <2>2. Answered(seek[t])' <=> Answered(r)
    BY <1>3 DEF Answered
  <2>3. OnItsWay(seek[t])' <=> OnItsWay(r)
    BY <1>3 DEF OnItsWay, LocalMap!Bucket
  <2> HIDE DEF r
  <2> QED
    BY <2>1, <2>2, <2>3 DEF SeekRight, r
<1>5. \A t \in Seekers : IsLookUp(seek[t])'
  BY <1>2 DEF IsLookUp
<1> QED
  BY <1>1, <1>4, <1>5 DEF SeeksRight

LEMMA SeekBucketRight ==
  ASSUME MapInside, SeeksRight, NEW s \in Seekers, NEW k \in Keys, LocalMap!SeekBucket(s, k)
  PROVE  SeeksRight'
<1> DEFINE g == LocalMap!Growing
           h == ~ LocalMap!Growing /\ LocalMap!Holds(Cur, k)
           p == LocalMap!Bucket(k, numNodes)
           q == [LocalMap!NoSeek EXCEPT !.pc = "array", !.key = k, !.bucket = p,
                                        !.grew = g, !.there = h]
<1>1. seek' = [seek EXCEPT ![s] = q] /\ UNCHANGED LocalMap!mapVars
  BY DEF LocalMap!SeekBucket, Cur
<1>2. g \in BOOLEAN /\ h \in BOOLEAN
  BY DEF LocalMap!Growing
<1> HIDE DEF g, h, p
<1>3. /\ q.pc = "array" /\ q.key = k /\ q.bucket = p /\ q.grew = g /\ q.there = h
      /\ IsLookUp(q)
  BY <1>2 DEF IsLookUp, LocalMap!NoSeek
<1> HIDE DEF q
<1>4. SeekRight(q)
  BY <1>3 DEF SeekRight, OnItsWay, g, h, p
<1> QED
  BY <1>1, <1>3, <1>4, SeekerSteps

LEMMA SeekArrayRight ==
  ASSUME MapInside, SeeksRight, NEW s \in Seekers, LocalMap!SeekArray(s)
  PROVE  SeeksRight'
<1> DEFINE r == seek[s]
           q == [r EXCEPT !.pc = "cell", !.array = nodes]
<1>1. r.pc = "array" /\ IsLookUp(r) /\ SeekRight(r)
  BY DEF LocalMap!SeekArray, LocalMap!Seeking, SeeksRight
<1>2. seek' = [seek EXCEPT ![s] = q] /\ UNCHANGED LocalMap!mapVars
  BY DEF LocalMap!SeekArray, SeeksRight, LocalMap!mapVars
<1> HIDE DEF r
<1>3. /\ q.pc = "cell" /\ q.array = nodes /\ q.key = r.key /\ q.bucket = r.bucket
      /\ q.there = r.there /\ q.grew = r.grew
      /\ IsLookUp(q)
  BY <1>1 DEF IsLookUp
<1> HIDE DEF q
<1>4. SeekRight(q)
  BY <1>1, <1>3 DEF SeekRight, OnItsWay
<1> QED
  BY <1>2, <1>3, <1>4, SeekerSteps

\* The bucket a look-up without growth looks into.
LEMMA LooksInside ==
  ASSUME MapInside, NEW r, OnItsWay(r)
  PROVE  /\ ChainsRight(Cur) /\ InUse(Cur) /\ Linked(Cur)
         /\ r.bucket \in 0 .. SizeOf(Cur) - 1
         /\ r.there => r.key \in ChainOf(Cur, r.bucket)
         /\ Cur.cells[r.bucket] \in Keys \cup {None}
         /\ ChainOf(Cur, r.bucket) \subseteq Keys
         /\ \A y \in ChainOf(Cur, r.bucket) :
              Cur.next[y] # None => Cur.next[y] \in ChainOf(Cur, r.bucket)
<1>1. InUse(Cur) /\ numNodes \in Nat \ {0}
  BY DEF MapInside, MapTypes, MapPhase, OnItsWay
<1>2. ChainsRight(Cur) /\ SizeOf(Cur) = numNodes /\ Linked(Cur)
  BY <1>1, ArrayHas DEF InUse, ChainsRight
<1>3. r.bucket \in 0 .. SizeOf(Cur) - 1 /\ r.bucket = PlaceOf(Cur, r.key)
  BY <1>1, <1>2, PlaceIs DEF OnItsWay, PlaceOf
<1>4. r.there => r.key \in ChainOf(Cur, r.bucket)
  BY <1>3, HoldsIs DEF OnItsWay
<1>5. Cur.cells[r.bucket] \in Keys \cup {None}
  BY <1>2, <1>3 DEF ChainsRight
<1> QED
  BY <1>1, <1>2, <1>3, <1>4, <1>5, ChainClosed DEF ChainOf

LEMMA SeekCellRight ==
  ASSUME MapInside, SeeksRight, NEW s \in Seekers, LocalMap!SeekCell(s)
  PROVE  SeeksRight'
<1> DEFINE r == seek[s]
           a == arrays[r.array]
           cell == a.cells[r.bucket]
           q == IF ~ a.live \/ cell = Junk
                THEN [r EXCEPT !.pc = "out", !.result = "broken"]
                ELSE IF cell = None THEN [r EXCEPT !.pc = "out", !.result = "absent"]
                ELSE [r EXCEPT !.pc = "node", !.node = cell]
<1>1. r.pc = "cell" /\ IsLookUp(r) /\ SeekRight(r)
  BY DEF LocalMap!SeekCell, LocalMap!Seeking, SeeksRight
<1>2. seek' = [seek EXCEPT ![s] = q] /\ UNCHANGED LocalMap!mapVars
  BY DEF LocalMap!SeekCell, LocalMap!Found, SeeksRight, LocalMap!mapVars
<1> HIDE DEF r
<1>3. IsLookUp(q) /\ q.grew = r.grew
  BY <1>1 DEF IsLookUp
<1>4. ASSUME ~ r.grew PROVE SeekRight(q)
  <2>1. OnItsWay(r) /\ r.array = nodes /\ a = Cur
    BY <1>1, <1>4 DEF SeekRight, OnItsWay, Cur
  <2>2. /\ InUse(Cur) /\ (r.there => r.key \in ChainOf(Cur, r.bucket))
        /\ cell \in Keys \cup {None} /\ a.live /\ Linked(Cur)
    BY <2>1, LooksInside DEF InUse
  <2>3. cell # Junk
    BY <2>2, MapAssumption
  <2>4. CASE cell = None
    <3>1. ~ r.there
      BY <2>1, <2>2, <2>4, ChainClosed DEF ChainOf
    <3>2. q = [r EXCEPT !.pc = "out", !.result = "absent"]
      BY <2>2, <2>3, <2>4
    <3>3. q.pc = "out" /\ q.result = "absent" /\ q.there = r.there
      BY <1>1, <3>2 DEF IsLookUp
    <3> HIDE DEF q
    <3> QED
      BY <3>1, <3>3 DEF SeekRight, Answered
  <2>5. CASE cell # None
    <3>1. cell \in ChainOf(Cur, r.bucket) /\ LocalMap!Chain(Cur, cell) = ChainOf(Cur, r.bucket)
      BY <2>1, <2>2, <2>5, ChainClosed DEF ChainOf
    <3>2. q = [r EXCEPT !.pc = "node", !.node = cell]
      BY <2>2, <2>3, <2>5
    <3>3. /\ q.pc = "node" /\ q.node = cell /\ q.there = r.there /\ q.key = r.key
          /\ q.bucket = r.bucket /\ q.array = r.array
      BY <1>1, <3>2 DEF IsLookUp
    <3> HIDE DEF q, cell
    <3> QED
      BY <2>1, <2>2, <3>1, <3>3 DEF SeekRight, OnItsWay
  <2> QED
    BY <2>4, <2>5
<1> HIDE DEF q
<1>5. SeekRight(q)
  BY <1>3, <1>4 DEF SeekRight
<1> QED
  BY <1>2, <1>3, <1>5, SeekerSteps

LEMMA SeekNodeRight ==
  ASSUME MapInside, SeeksRight, NEW s \in Seekers, LocalMap!SeekNode(s)
  PROVE  SeeksRight'
<1> DEFINE r == seek[s]
           a == arrays[r.array]
           k == r.node
           q == IF k \in a.freed THEN [r EXCEPT !.pc = "out", !.result = "broken"]
                ELSE IF k = r.key THEN [r EXCEPT !.pc = "out", !.result = "found"]
                ELSE IF a.next[k] = None THEN [r EXCEPT !.pc = "out", !.result = "absent"]
                ELSE [r EXCEPT !.node = a.next[k]]
<1>1. r.pc = "node" /\ IsLookUp(r) /\ SeekRight(r)
  BY DEF LocalMap!SeekNode, LocalMap!Seeking, SeeksRight
<1>2. seek' = [seek EXCEPT ![s] = q] /\ UNCHANGED LocalMap!mapVars
  BY DEF LocalMap!SeekNode, LocalMap!Found, SeeksRight, LocalMap!mapVars
<1> HIDE DEF r
<1>3. IsLookUp(q) /\ q.grew = r.grew
  BY <1>1 DEF IsLookUp
<1>4. ASSUME ~ r.grew PROVE SeekRight(q)
  <2>1. OnItsWay(r) /\ r.array = nodes /\ a = Cur /\ k \in ChainOf(Cur, r.bucket)
        /\ (r.there => r.key \in LocalMap!Chain(Cur, k)) /\ ~ LocalMap!Growing
    BY <1>1, <1>4 DEF SeekRight, OnItsWay, Cur
  <2>2. /\ InUse(Cur) /\ ChainsRight(Cur) /\ Linked(Cur) /\ k \notin a.freed /\ k \in Keys
        /\ r.bucket \in 0 .. SizeOf(Cur) - 1
        /\ Cur.next[k] # None => Cur.next[k] \in ChainOf(Cur, r.bucket)
    BY <2>1, LooksInside DEF InUse
  <2>3. LocalMap!Chain(Cur, k) = {k} \cup LocalMap!Chain(Cur, Cur.next[k])
    BY <2>2, ChainSplit
  <2>4. CASE k = r.key
    <3>1. PlaceOf(Cur, k) = r.bucket
      BY <2>1, <2>2 DEF ChainsRight
    <3>2. Cur.value[k] # None
      BY <2>1, <2>2, <3>1, HoldsIs DEF ChainsRight
    <3>3. MapHas[k] # None
      BY <2>1, <3>2 DEF MapHas
    <3>4. q = [r EXCEPT !.pc = "out", !.result = "found"]
      BY <2>2, <2>4
    <3>5. q.pc = "out" /\ q.result = "found" /\ q.key = r.key
      BY <1>1, <3>4 DEF IsLookUp
    <3> HIDE DEF q
    <3> QED
      BY <2>2, <2>4, <3>3, <3>5 DEF SeekRight, Answered
  <2>5. CASE k # r.key /\ Cur.next[k] = None
    <3>1. ~ r.there
      BY <2>1, <2>2, <2>3, <2>5, ChainClosed
    <3>2. q = [r EXCEPT !.pc = "out", !.result = "absent"]
      BY <2>1, <2>2, <2>5
    <3>3. q.pc = "out" /\ q.result = "absent" /\ q.there = r.there
      BY <1>1, <3>2 DEF IsLookUp
    <3> HIDE DEF q
    <3> QED
      BY <3>1, <3>3 DEF SeekRight, Answered
  <2>6. CASE k # r.key /\ Cur.next[k] # None
    <3> DEFINE n == Cur.next[k]
    <3>1. q = [r EXCEPT !.node = n]
      BY <2>1, <2>2, <2>6
    <3>2. n \in ChainOf(Cur, r.bucket) /\ (r.there => r.key \in LocalMap!Chain(Cur, n))
      BY <2>1, <2>2, <2>3, <2>6
    <3> HIDE DEF n
    <3>3. /\ q.pc = "node" /\ q.node = n /\ q.there = r.there /\ q.key = r.key
          /\ q.bucket = r.bucket /\ q.array = r.array
      BY <1>1, <3>1 DEF IsLookUp
    <3> HIDE DEF q
    <3> QED
      BY <2>1, <3>2, <3>3 DEF SeekRight, OnItsWay
  <2> QED
    BY <2>4, <2>5, <2>6
<1> HIDE DEF q
<1>5. SeekRight(q)
  BY <1>3, <1>4 DEF SeekRight
<1> QED
  BY <1>2, <1>3, <1>5, SeekerSteps

-----------------------------------------------------------------------------
\* The local map is in order, and so is each look-up.
LocalMapInv == MapInside /\ SeeksRight

LEMMA LocalMapBegins == LocalMap!Init => LocalMapInv
<1> SUFFICES ASSUME LocalMap!Init PROVE SeeksRight
  BY MapBegins DEF LocalMapInv
<1> DEFINE q == LocalMap!NoSeek
<1>1. seek = [s \in Seekers |-> q]
  BY DEF LocalMap!Init
<1>2. IsLookUp(q) /\ q.pc = "out" /\ q.result = None
  BY DEF IsLookUp, LocalMap!NoSeek
<1> HIDE DEF q
<1>3. SeekRight(q)
  BY <1>2, MapAssumption DEF SeekRight, Answered
<1> QED
  BY <1>1, <1>2, <1>3 DEF SeeksRight

LEMMA PutLockRight ==
  ASSUME LocalMapInv, NEW t \in Putters, NEW k \in Keys, LocalMap!PutLock(t, k)
  PROVE  LocalMapInv' /\ UNCHANGED MapHas
<1>1. MapInside' /\ UNCHANGED MapHas /\ ~ LocalMap!Growing'
  BY PutLockInside DEF LocalMapInv
<1>2. UNCHANGED <<arrays, nodes, numNodes, seek>>
  BY DEF LocalMap!PutLock, LocalMap!seekVars
<1>3. KeepsChains
  BY <1>1, <1>2 DEF KeepsChains, Cur
<1> QED
  BY <1>1, <1>3, OtherSteps DEF LocalMapInv, MapInside

LEMMA UnlockRight ==
  ASSUME LocalMapInv, LocalMap!Unlock
  PROVE  LocalMapInv' /\ UNCHANGED MapHas
<1>1. MapInside' /\ UNCHANGED MapHas /\ ~ LocalMap!Growing'
  BY UnlockInside DEF LocalMapInv
<1>2. UNCHANGED <<arrays, nodes, numNodes, seek>>
  BY DEF LocalMap!Unlock, LocalMap!seekVars
<1>3. KeepsChains
  BY <1>1, <1>2 DEF KeepsChains, Cur
<1> QED
  BY <1>1, <1>3, OtherSteps DEF LocalMapInv, MapInside

LEMMA OverwriteRight ==
  ASSUME LocalMapInv, LocalMap!Overwrite
  PROVE  LocalMapInv' /\ MapHas' = [MapHas EXCEPT ![job.key] = job.value]
<1>1. /\ MapInside' /\ ~ LocalMap!Growing /\ ~ LocalMap!Growing'
      /\ MapHas' = [MapHas EXCEPT ![job.key] = job.value]
      /\ SameLinks(Cur', Cur) /\ job.key \in Keys /\ job.value \in 1 .. Puts
  BY OverwriteInside DEF LocalMapInv
<1>2. UNCHANGED <<nodes, numNodes, seek>>
  BY DEF LocalMap!Overwrite, LocalMap!seekVars
<1>3. MapHas \in [Keys -> 1 .. Puts \cup {None}] /\ job.value # None
  BY <1>1, ArraysAre, MapAssumption DEF LocalMapInv, MapInside
<1>4. \A k \in Keys : MapHas[k] # None => MapHas'[k] # None
  BY <1>1, <1>3
<1>5. KeepsChains
  BY <1>1, <1>2, <1>4 DEF KeepsChains, SameLinks
<1> QED
  BY <1>1, <1>5, OtherSteps DEF LocalMapInv, MapInside

LEMMA InsertRight ==
  ASSUME LocalMapInv, LocalMap!Insert
  PROVE  LocalMapInv' /\ MapHas' = [MapHas EXCEPT ![job.key] = job.value]
<1>1. /\ MapInside' /\ ~ LocalMap!Growing /\ ~ LocalMap!Growing'
      /\ MapHas' = [MapHas EXCEPT ![job.key] = job.value]
      /\ PutIn(Cur', Cur, job.key, job.value) /\ job.key \in Keys /\ job.value \in 1 .. Puts
  BY InsertInside DEF LocalMapInv
<1>2. UNCHANGED <<nodes, numNodes, seek>>
  BY DEF LocalMap!Insert, LocalMap!seekVars
<1>3. MapHas \in [Keys -> 1 .. Puts \cup {None}] /\ job.value # None
  BY <1>1, ArraysAre, MapAssumption DEF LocalMapInv, MapInside
<1>4. \A k \in Keys : MapHas[k] # None => MapHas'[k] # None
  BY <1>1, <1>3
<1>5. SizeOf(Cur) = numNodes
  BY <1>1 DEF LocalMapInv, MapInside, MapPhase, InUse
<1>6. KeepsChains
  BY <1>1, <1>2, <1>4, <1>5 DEF KeepsChains, PutIn
<1> QED
  BY <1>1, <1>6, OtherSteps DEF LocalMapInv, MapInside

\* No step of rehash_() changes what the map has.
LEMMA RehashRight ==
  ASSUME LocalMapInv,
         \/ LocalMap!Allocate \/ LocalMap!ClearCells \/ LocalMap!Resize
         \/ LocalMap!Move \/ LocalMap!DeleteChain \/ LocalMap!DeleteArray
  PROVE  LocalMapInv' /\ UNCHANGED MapHas
<1>1. MapInside' /\ UNCHANGED MapHas
  BY AllocateInside, ClearCellsInside, ResizeInside, MoveInside, DeleteChainInside,
     DeleteArrayInside DEF LocalMapInv
<1>2. LocalMap!NoteGrowth
  BY DEF LocalMap!Allocate, LocalMap!ClearCells, LocalMap!Resize, LocalMap!Move,
         LocalMap!DeleteChain, LocalMap!DeleteArray
<1> QED
  BY <1>1, <1>2, GrowthSteps DEF LocalMapInv

LEMMA RemoveRight ==
  ASSUME LocalMapInv, NEW k \in Keys, LocalMap!Remove(k)
  PROVE  /\ LocalMapInv' /\ MapHas' = [MapHas EXCEPT ![k] = None] /\ MapHas[k] # None
<1>1. /\ MapInside' /\ MapHas' = [MapHas EXCEPT ![k] = None] /\ MapHas[k] # None
      /\ seek' = [s \in Seekers |-> LocalMap!NoSeek]
  BY RemoveInside DEF LocalMapInv
<1> DEFINE q == LocalMap!NoSeek
<1>2. seek' = [s \in Seekers |-> q] /\ IsLookUp(q) /\ q.pc = "out" /\ q.result = None
  BY <1>1 DEF IsLookUp, LocalMap!NoSeek
<1> HIDE DEF q
<1>3. SeeksRight'
  BY <1>2, MapAssumption DEF SeeksRight, SeekRight, Answered, IsLookUp
<1> QED
  BY <1>1, <1>3 DEF LocalMapInv

LEMMA MapIsLeft ==
  ASSUME MapInside, UNCHANGED LocalMap!mapVars
  PROVE  /\ MapInside' /\ UNCHANGED <<MapHas, Cur, nodes, numNodes>>
         /\ LocalMap!Growing' <=> LocalMap!Growing
<1>1. /\ arrays' = arrays /\ nodes' = nodes /\ numNodes' = numNodes /\ job' = job
      /\ puts' = puts /\ owner' = owner
  BY DEF LocalMap!mapVars
<1>2. Cur' = Cur /\ Prev' = Prev /\ (LocalMap!Growing' <=> LocalMap!Growing)
  BY <1>1 DEF Cur, Prev, LocalMap!Growing
<1>3. MapTypes'
  BY <1>1 DEF MapInside, MapTypes
<1>4. MapHas' = MapHas
  BY <1>2 DEF MapHas
<1>5. /\ InUse(Cur)' <=> InUse(Cur)
      /\ InUse(Prev)' <=> InUse(Prev)
      /\ Moving(Prev, Cur)' <=> Moving(Prev, Cur)
      /\ Moved(Prev, Cur)' <=> Moved(Prev, Cur)
  BY <1>1, <1>2 DEF InUse, Moving, Moved
<1>6. LocalMap!EmptyArray(2 * numNodes, None)' = LocalMap!EmptyArray(2 * numNodes, None)
  BY <1>1 DEF LocalMap!EmptyArray
<1>7. MapPhase'
  BY <1>1, <1>2, <1>5, <1>6 DEF MapInside, MapPhase
<1> QED
  BY <1>1, <1>2, <1>3, <1>4, <1>7 DEF MapInside

LEMMA LookUpRight ==
  ASSUME LocalMapInv, NEW s \in Seekers,
         (\E k \in Keys : LocalMap!SeekBucket(s, k)) \/ LocalMap!SeekSteps(s)
  PROVE  LocalMapInv' /\ UNCHANGED MapHas
<1>1. SeeksRight'
  BY SeekBucketRight, SeekArrayRight, SeekCellRight, SeekNodeRight
     DEF LocalMapInv, LocalMap!SeekSteps
<1>2. UNCHANGED LocalMap!mapVars
  BY DEF LocalMap!SeekBucket, LocalMap!SeekSteps, LocalMap!SeekArray, LocalMap!SeekCell,
         LocalMap!SeekNode, LocalMap!mapVars
<1>3. MapInside' /\ UNCHANGED MapHas
  BY <1>2, MapIsLeft DEF LocalMapInv
<1> QED
  BY <1>1, <1>3 DEF LocalMapInv

LEMMA LocalMapNext ==
  ASSUME LocalMapInv, LocalMap!Next
  PROVE  /\ LocalMapInv'
         /\ LocalMap!Overwrite \/ LocalMap!Insert \/ (\E k \in Keys : LocalMap!Remove(k))
            \/ UNCHANGED MapHas
<1>1. ASSUME NEW t \in Putters, NEW k \in Keys, LocalMap!PutLock(t, k)
      PROVE  LocalMapInv' /\ UNCHANGED MapHas
  BY <1>1, PutLockRight
<1>2. CASE LocalMap!PutSteps
  BY <1>2, OverwriteRight, InsertRight, RehashRight, UnlockRight DEF LocalMap!PutSteps
<1>3. ASSUME NEW k \in Keys, LocalMap!Remove(k) PROVE LocalMapInv'
  BY <1>3, RemoveRight
<1>4. ASSUME NEW s \in Seekers,
             (\E k \in Keys : LocalMap!SeekBucket(s, k)) \/ LocalMap!SeekSteps(s)
      PROVE  LocalMapInv' /\ UNCHANGED MapHas
  BY <1>4, LookUpRight
<1> QED
  BY <1>1, <1>2, <1>3, <1>4 DEF LocalMap!Next

LEMMA LocalMapStays ==
  ASSUME LocalMapInv, UNCHANGED mapVars
  PROVE  LocalMapInv' /\ UNCHANGED MapHas
<1>1. UNCHANGED LocalMap!mapVars /\ seek' = seek
  BY DEF mapVars, LocalMap!mapVars
<1>2. /\ MapInside' /\ UNCHANGED <<MapHas, Cur, nodes, numNodes>>
      /\ LocalMap!Growing' <=> LocalMap!Growing
  BY <1>1, MapIsLeft DEF LocalMapInv
<1>3. ASSUME NEW s \in Seekers
      PROVE  /\ Answered(seek[s])' <=> Answered(seek[s])
             /\ OnItsWay(seek[s])' <=> OnItsWay(seek[s])
             /\ IsLookUp(seek[s])' <=> IsLookUp(seek[s])
             /\ seek'[s] = seek[s]
  BY <1>1, <1>2 DEF Answered, OnItsWay, IsLookUp, LocalMap!Bucket
<1>4. \A s \in Seekers : SeekRight(seek[s])' <=> SeekRight(seek[s])
  BY <1>3 DEF SeekRight
<1>5. SeeksRight'
  BY <1>1, <1>3, <1>4 DEF LocalMapInv, SeeksRight
<1> QED
  BY <1>2, <1>5 DEF LocalMapInv

\* Each operation on the map is the one on a dictionary.
LEMMA EachIsOfDictionary ==
  ASSUME LocalMapInv, LocalMap!Next \/ UNCHANGED mapVars
  PROVE  /\ LocalMap!EachOperation
         /\ LocalMap!D!Next \/ UNCHANGED LocalMap!Content
<1>1. LocalMap!Content = MapHas /\ LocalMap!Content' = MapHas'
  <2>1. MapInside /\ MapInside'
    BY LocalMapNext, LocalMapStays DEF LocalMapInv
  <2>2. LocalMap!Content = MapHas
    BY <2>1, MapContentIs
  <2>3. MapInside' => (LocalMap!Content = MapHas)'
    BY MapContentIs, PTL
  <2> QED
    BY <2>1, <2>2, <2>3
<1>2. LocalMap!Overwrite \/ LocalMap!Insert =>
        LocalMap!D!Put(job.key, job.value) /\ job.key \in Keys /\ job.value \in 1 .. Puts
  BY <1>1, OverwriteRight, InsertRight, OverwriteInside, InsertInside
     DEF LocalMap!D!Put, LocalMapInv
<1>3. \A k \in Keys : LocalMap!Remove(k) => LocalMap!D!Remove(k)
  BY <1>1, RemoveRight DEF LocalMap!D!Remove
<1>4. \/ LocalMap!Overwrite \/ LocalMap!Insert \/ (\E k \in Keys : LocalMap!Remove(k))
      \/ UNCHANGED LocalMap!Content
  BY <1>1, LocalMapNext, LocalMapStays
<1>5. LocalMap!EachOperation
  BY <1>2, <1>3, <1>4 DEF LocalMap!EachOperation
<1>6. LocalMap!D!Next \/ UNCHANGED LocalMap!Content
  BY <1>2, <1>3, <1>4 DEF LocalMap!D!Next
<1> QED
  BY <1>5, <1>6

\* A look-up without the lock that the map does not grow under is right: the chain from
\* where it is on has the key that was there when it began.
THEOREM LookupRightCorrect == PartsSpec => []LookupRight
<1>1. PartsInit => LocalMapInv
  BY LocalMapBegins DEF PartsInit
<1>2. LocalMapInv /\ [PartsNext]_partVars => LocalMapInv'
  BY MapStep, LocalMapNext, LocalMapStays
<1>3. LocalMapInv => LookupRight
  <2> SUFFICES ASSUME LocalMapInv, NEW s \in Seekers, seek[s].pc = "out", ~ seek[s].grew
               PROVE  LocalMap!Right(s)
    BY DEF LookupRight, LocalMap!LookupRight, LocalMap!Seeking
  <2>1. Answered(seek[s])
    BY DEF LocalMapInv, SeeksRight, SeekRight
  <2>2. LocalMap!Content = MapHas
    BY MapContentIs DEF LocalMapInv
  <2> QED
    BY <2>1, <2>2 DEF Answered, LocalMap!Right
<1> QED
  BY <1>1, <1>2, <1>3, PTL DEF PartsSpec

\* The local map is a dictionary, also while it grows.
THEOREM ImplementsDictionaryCorrect == PartsSpec => ImplementsDictionary
<1>1. PartsInit => LocalMapInv /\ LocalMap!D!Init
  <2> SUFFICES ASSUME LocalMap!Init PROVE LocalMapInv /\ LocalMap!D!Init
    BY DEF PartsInit
  <2>1. MapInside /\ MapHas = [k \in Keys |-> None]
    BY MapBegins
  <2>2. LocalMap!Content = MapHas
    BY <2>1, MapContentIs
  <2> QED
    BY <2>1, <2>2, LocalMapBegins DEF LocalMap!D!Init
<1>2. LocalMapInv /\ [PartsNext]_partVars => LocalMapInv'
  BY MapStep, LocalMapNext, LocalMapStays
<1>3. LocalMapInv /\ [PartsNext]_partVars =>
        [part = "map" => /\ [LocalMap!D!Next]_(LocalMap!Content)
                         /\ LocalMap!EachOperation]_partVars
  BY MapStep, EachIsOfDictionary
<1> QED
  BY <1>1, <1>2, <1>3, PTL DEF PartsSpec, ImplementsDictionary

-----------------------------------------------------------------------------
(***************************************************************************)
(* The reader of lines                                                     *)
(***************************************************************************)

\* The part of a file that is read: within the file.
PartOfFile ==
  /\ rLength \in Nat /\ rNewlines \subseteq 1 .. rLength
  /\ rFirst \in 0 .. rLength /\ rLast \in rFirst .. rLength

\* The least of a set of places.
LEMMA LeastPlace ==
  ASSUME NEW A \in SUBSET Nat, A # {}
  PROVE  LineRead!Min(A) \in A /\ \A k \in A : LineRead!Min(A) <= k
BY LeastNatural DEF LineRead!Min

LEMMA LeastPlaceIs ==
  ASSUME NEW A \in SUBSET Nat, NEW m \in A, \A k \in A : m <= k
  PROVE  LineRead!Min(A) = m
<1>1. LineRead!Min(A) \in A /\ LineRead!Min(A) <= m
  BY LeastPlace
<1>2. LineRead!Min(A) \in Nat /\ m \in Nat /\ m <= LineRead!Min(A)
  BY <1>1
<1> QED
  BY <1>1, <1>2

\* Bytes that follow each other in the file.
LEMMA IntervalIs ==
  ASSUME NEW a \in Nat, NEW b \in Nat, a <= b
  PROVE  /\ LineRead!Interval(a, b) \in Seq(Nat)
         /\ Len(LineRead!Interval(a, b)) = b - a
         /\ \A k \in 1 .. b - a : LineRead!Interval(a, b)[k] = a + k
<1>1. PICK n \in Nat : n = b - a
  OBVIOUS
<1>2. LineRead!Interval(a, b) = [k \in 1 .. n |-> a + k]
  BY <1>1 DEF LineRead!Interval
<1>3. [k \in 1 .. n |-> a + k] \in Seq(Nat)
  OBVIOUS
<1> QED
  BY <1>1, <1>2, <1>3

IsPart(a, b, i, j) ==
  SubSeq(LineRead!Interval(a, b), i + 1, j) = LineRead!Interval(a + i, a + j)
LEMMA IntervalPart ==
  ASSUME NEW a \in Nat, NEW b \in Nat, NEW i \in Nat, NEW j \in Nat,
         a <= b, i <= j, j <= b - a
  PROVE  IsPart(a, b, i, j)
<1> DEFINE s == LineRead!Interval(a, b)
           u == SubSeq(s, i + 1, j)
           v == LineRead!Interval(a + i, a + j)
<1>1. /\ s \in Seq(Nat) /\ Len(s) = b - a
      /\ \A k \in 1 .. b - a : s[k] = a + k
  BY IntervalIs
<1>2. /\ v \in Seq(Nat) /\ Len(v) = (a + j) - (a + i)
      /\ \A k \in 1 .. (a + j) - (a + i) : v[k] = a + i + k
  <2>1. a + i \in Nat /\ a + j \in Nat /\ a + i <= a + j
    OBVIOUS
  <2> HIDE DEF v
  <2>2. PICK l, h : l = a + i /\ h = a + j
    OBVIOUS
  <2>3. v = LineRead!Interval(l, h)
    BY <2>2 DEF v
  <2>4. /\ v \in Seq(Nat) /\ Len(v) = h - l
        /\ \A k \in 1 .. h - l : v[k] = l + k
    BY <2>1, <2>2, <2>3, IntervalIs
  <2> QED
    BY <2>2, <2>4
<1>3. (a + j) - (a + i) = j - i
  OBVIOUS
<1> HIDE DEF s, v
<1>4. /\ u \in Seq(Nat) /\ Len(u) = j - i
      /\ \A k \in 1 .. j - i : u[k] = s[i + k]
  <2>1. \A k \in i + 1 .. j : k \in 1 .. Len(s)
    BY <1>1
  <2>2. \A k \in i + 1 .. j : s[k] \in Nat
    BY <1>1, <2>1
  <2>3. u = [k \in 1 .. j - i |-> s[i + k]]
    BY <1>1
  <2>4. \A k \in 1 .. j - i : i + k \in i + 1 .. j
    OBVIOUS
  <2>5. j - i \in Nat
    OBVIOUS
  <2> HIDE DEF u
  <2>6. u \in [1 .. j - i -> Nat]
    BY <2>2, <2>3, <2>4
  <2> QED
    BY <2>3, <2>5, <2>6
<1> HIDE DEF u
<1>5. \A k \in 1 .. j - i : u[k] = v[k]
  <2> SUFFICES ASSUME NEW k \in 1 .. j - i PROVE u[k] = v[k]
    OBVIOUS
  <2>1. i + k \in 1 .. b - a
    OBVIOUS
  <2> QED
    BY <1>1, <1>2, <1>3, <1>4, <2>1
<1>6. u = v
  BY <1>2, <1>3, <1>4, <1>5, SeqEqual
<1> QED
  BY <1>6 DEF IsPart, u, v, s

LEMMA IntervalsMeet ==
  ASSUME NEW a \in Nat, NEW b \in Nat, NEW c \in Nat, a <= b, b <= c
  PROVE  LineRead!Interval(a, b) \o LineRead!Interval(b, c) = LineRead!Interval(a, c)
<1> DEFINE s == LineRead!Interval(a, b)
           t == LineRead!Interval(b, c)
           u == s \o t
           v == LineRead!Interval(a, c)
<1>1. /\ s \in Seq(Nat) /\ Len(s) = b - a
      /\ \A k \in 1 .. b - a : s[k] = a + k
  BY IntervalIs
<1>2. /\ t \in Seq(Nat) /\ Len(t) = c - b
      /\ \A k \in 1 .. c - b : t[k] = b + k
  BY IntervalIs
<1>3. /\ v \in Seq(Nat) /\ Len(v) = c - a
      /\ \A k \in 1 .. c - a : v[k] = a + k
  BY IntervalIs
<1> HIDE DEF s, t, v
<1>4. /\ u \in Seq(Nat) /\ Len(u) = c - a
      /\ \A k \in 1 .. Len(u) : u[k] = IF k <= Len(s) THEN s[k] ELSE t[k - Len(s)]
  <2>1. /\ s \o t \in Seq(Nat) /\ Len(s \o t) = Len(s) + Len(t)
        /\ \A k \in 1 .. Len(s) + Len(t) :
             (s \o t)[k] = IF k <= Len(s) THEN s[k] ELSE t[k - Len(s)]
    BY <1>1, <1>2, ConcatProperties
  <2>2. Len(s) + Len(t) = c - a
    BY <1>1, <1>2
  <2> QED
    BY <2>1, <2>2
<1> HIDE DEF u
<1>5. \A k \in 1 .. c - a : u[k] = v[k]
  <2> SUFFICES ASSUME NEW k \in 1 .. c - a PROVE u[k] = v[k]
    OBVIOUS
  <2>1. CASE k <= b - a
    BY <1>1, <1>3, <1>4, <2>1
  <2>2. CASE k > b - a
    <3>1. k - (b - a) \in 1 .. c - b /\ b + (k - (b - a)) = a + k
      BY <2>2
    <3> QED
      BY <1>1, <1>2, <1>3, <1>4, <2>2, <3>1
  <2> QED
    BY <2>1, <2>2
<1>6. u = v
  BY <1>3, <1>4, <1>5, SeqEqual
<1> QED
  BY <1>6 DEF u, v, s, t

\* No newline is behind the byte a and up to the byte b.
NoNewline(a, b) == \A k \in rNewlines : ~(a < k /\ k <= b)

\* Where a line of the part starts, at the start of the file or behind a newline, or
\* where the part ends.
LineStart(a) ==
  /\ a \in rFirst .. rLast
  /\ IF a = rFirst THEN rFirst = 0 ELSE a \in rNewlines \cup {rLast}

\* LinesTo as a function.
LineTable ==
  CHOOSE to :
    to = [q \in 0 .. rLast |->
           IF q = 0 THEN <<>>
           ELSE IF q - 1 \in LineRead!Starts /\ LineRead!Complete(q - 1)
                THEN Append(to[q - 1], LineRead!LineFrom(q - 1))
           ELSE to[q - 1]]

LineChosen == {q \in 1 .. rLast : q - 1 \in LineRead!Starts /\ LineRead!Complete(q - 1)}
LineItems == [q \in 1 .. rLast |-> LineRead!LineFrom(q - 1)]

LEMMA LinesToIs == \A p : LineRead!LinesTo(p) = LineTable[p]
BY DEF LineRead!LinesTo, LineTable

\* The line from a byte on ends before the next newline, or with the part.
LEMMA LineFromIs ==
  ASSUME PartOfFile, NEW a \in 0 .. rLast
  PROVE  /\ LineRead!LineFrom(a) \in Seq(Nat)
         /\ \A k \in rNewlines : a < k /\ k <= rLast /\ NoNewline(a, k - 1)
              => LineRead!LineFrom(a) = LineRead!Interval(a, k - 1)
         /\ NoNewline(a, rLast) => LineRead!LineFrom(a) = LineRead!Interval(a, rLast)
<1> DEFINE Ends == {k \in rNewlines : a < k /\ k <= rLast}
<1>1. /\ a \in Nat /\ rLast \in Nat /\ a <= rLast /\ Ends \in SUBSET Nat
      /\ \A k \in Ends : k \in Nat /\ a < k /\ k <= rLast
      /\ rNewlines \subseteq Nat
  <2>1. rLength \in Nat /\ rNewlines \subseteq 1 .. rLength /\ rLast \in 0 .. rLength
    BY DEF PartOfFile
  <2>2. rNewlines \subseteq Nat /\ a \in Nat /\ rLast \in Nat /\ a <= rLast
    BY <2>1
  <2>3. \A k \in Ends : k \in rNewlines /\ a < k /\ k <= rLast
    OBVIOUS
  <2> HIDE DEF Ends
  <2> QED
    BY <2>2, <2>3
<1>2. LineRead!LineFrom(a) =
        LineRead!Interval(a, IF Ends = {} THEN rLast ELSE LineRead!Min(Ends) - 1)
  BY DEF LineRead!LineFrom
<1>3. Ends # {} => LineRead!Min(Ends) \in Ends
  <2> HIDE DEF Ends
  <2> QED
    BY <1>1, LeastPlace
<1>4. LineRead!LineFrom(a) \in Seq(Nat)
  <2>1. PICK e : e = IF Ends = {} THEN rLast ELSE LineRead!Min(Ends) - 1
    OBVIOUS
  <2>2. e \in Nat /\ a <= e
    BY <1>1, <1>3, <2>1
  <2>3. LineRead!Interval(a, e) \in Seq(Nat)
    BY <1>1, <2>2, IntervalIs
  <2> QED
    BY <1>2, <2>1, <2>3
<1>5. ASSUME NEW k \in rNewlines, a < k, k <= rLast, NoNewline(a, k - 1)
      PROVE  LineRead!LineFrom(a) = LineRead!Interval(a, k - 1)
  <2>1. k \in Ends /\ \A j \in Ends : k <= j
    BY <1>1, <1>5 DEF NoNewline
  <2> HIDE DEF Ends
  <2>2. LineRead!Min(Ends) = k /\ Ends # {}
    BY <1>1, <2>1, LeastPlaceIs
  <2> QED
    BY <1>2, <2>2
<1>6. ASSUME NoNewline(a, rLast)
      PROVE  LineRead!LineFrom(a) = LineRead!Interval(a, rLast)
  <2>1. Ends = {}
    BY <1>6 DEF NoNewline
  <2> QED
    BY <1>2, <2>1
<1> QED
  BY <1>4, <1>5, <1>6

LEMMA LineTableGathers ==
  ASSUME PartOfFile
  PROVE  /\ rLast \in Nat
         /\ LineItems \in [1 .. rLast -> Seq(Nat)]
         /\ Collects(LineTable, rLast, LineChosen, LineItems)
<1> DEFINE Chosen(q) == q - 1 \in LineRead!Starts /\ LineRead!Complete(q - 1)
           ValueOfItem(q) == LineRead!LineFrom(q - 1)
           Value(f, q) == IF q = 0 THEN <<>>
                          ELSE IF Chosen(q) THEN Append(f[q - 1], ValueOfItem(q)) ELSE f[q - 1]
           IsTable(f) == f = [q \in 0 .. rLast |-> Value(f, q)]
           Collected(f, q) ==
             IF q = 0 THEN <<>>
             ELSE IF q \in LineChosen THEN Append(f[q - 1], LineItems[q]) ELSE f[q - 1]
<1>1. rLast \in Nat
  BY DEF PartOfFile
<1>2. LineItems \in [1 .. rLast -> Seq(Nat)]
  <2>1. \A q \in 1 .. rLast : q - 1 \in 0 .. rLast
    BY <1>1
  <2>2. \A q \in 1 .. rLast : LineRead!LineFrom(q - 1) \in Seq(Nat)
    BY <2>1, LineFromIs
  <2> QED
    BY <2>2 DEF LineItems
<1>3. ASSUME NEW f, NEW q \in 0 .. rLast PROVE Value(f, q) = Collected(f, q)
  <2>1. CASE q = 0
    BY <2>1
  <2>2. CASE q # 0
    <3>1. q \in 1 .. rLast
      BY <1>1, <2>2
    <3>2. (q \in LineChosen <=> Chosen(q)) /\ LineItems[q] = ValueOfItem(q)
      BY <3>1 DEF LineChosen, LineItems
    <3> HIDE DEF Chosen, ValueOfItem
    <3> QED
      BY <2>2, <3>2
  <2> QED
    BY <2>1, <2>2
<1>4. PICK f : Collects(f, rLast, LineChosen, LineItems)
  BY <1>1, <1>2, GatheringExists
<1>5. IsTable(f)
  <2>1. f = [q \in 0 .. rLast |-> Collected(f, q)]
    BY <1>4 DEF Collects
  <2> HIDE DEF Value, Collected
  <2>2. [q \in 0 .. rLast |-> Collected(f, q)] = [q \in 0 .. rLast |-> Value(f, q)]
    BY <1>3
  <2> QED
    BY <2>1, <2>2
<1>6. LineTable = CHOOSE to : IsTable(to)
  BY DEF LineTable
<1>7. IsTable(LineTable)
  <2> HIDE DEF IsTable
  <2> QED
    BY <1>5, <1>6
<1>8. LineTable = [q \in 0 .. rLast |-> Collected(LineTable, q)]
  <2> HIDE DEF Value, Collected
  <2>1. [q \in 0 .. rLast |-> Collected(LineTable, q)]
          = [q \in 0 .. rLast |-> Value(LineTable, q)]
    BY <1>3
  <2> QED
    BY <1>7, <2>1
<1>9. Collects(LineTable, rLast, LineChosen, LineItems)
  BY <1>8 DEF Collects
<1> QED
  BY <1>1, <1>2, <1>9

\* Before the first newline of a part that is not at the start of the file no line starts.
LEMMA NoLineBefore ==
  ASSUME PartOfFile, rFirst # 0, NEW k \in rNewlines, rFirst < k, k <= rLast,
         NoNewline(rFirst, k - 1)
  PROVE  LineTable[k] = <<>>
<1>1. /\ rLast \in Nat /\ rFirst \in Nat /\ k \in Nat
      /\ Collects(LineTable, rLast, LineChosen, LineItems)
  BY LineTableGathers DEF PartOfFile
<1>2. \A q \in 0 + 1 .. k : q \notin LineChosen
  <2> SUFFICES ASSUME NEW q \in 1 .. k, q \in LineChosen PROVE FALSE
    OBVIOUS
  <2>1. q - 1 \in LineRead!Starts /\ LineRead!Complete(q - 1)
    BY DEF LineChosen
  <2>2. q - 1 # rFirst
    BY <2>1 DEF LineRead!Complete
  <2>3. q - 1 \in rNewlines /\ rFirst < q - 1 /\ q - 1 <= k - 1
    BY <1>1, <2>1, <2>2 DEF LineRead!Starts
  <2> QED
    BY <2>3 DEF NoNewline
<1>3. LineTable[0] = <<>>
  BY <1>1, GatheringStep
<1>4. 0 \in 0 .. rLast /\ k \in 0 .. rLast /\ 0 <= k
  BY <1>1
<1> HIDE DEF LineTable
<1>5. LineTable[k] = LineTable[0]
  BY <1>1, <1>2, <1>4, NothingGathered
<1> QED
  BY <1>3, <1>5

\* No line starts between a start and the next newline, but at the start.
LEMMA OneStart ==
  ASSUME PartOfFile, NEW a, LineStart(a), NEW b \in Nat, a < b, b <= rLast,
         NoNewline(a, b - 1)
  PROVE  /\ a + 1 \in LineChosen => LineTable[b] = Append(LineTable[a], LineRead!LineFrom(a))
         /\ a + 1 \notin LineChosen => LineTable[b] = LineTable[a]
<1>1. /\ rLast \in Nat /\ rFirst \in Nat /\ a \in Nat /\ rFirst <= a
      /\ Collects(LineTable, rLast, LineChosen, LineItems)
  BY LineTableGathers DEF PartOfFile, LineStart
<1>2. \A q \in (a + 1) + 1 .. b : q \notin LineChosen
  <2> SUFFICES ASSUME NEW q \in (a + 1) + 1 .. b, q \in LineChosen PROVE FALSE
    OBVIOUS
  <2>1. q - 1 \in LineRead!Starts /\ a < q - 1 /\ q - 1 <= b - 1
    BY <1>1 DEF LineChosen
  <2>2. q - 1 \in rNewlines
    BY <1>1, <2>1 DEF LineRead!Starts
  <2> QED
    BY <2>1, <2>2 DEF NoNewline
<1>3. a + 1 \in 1 .. rLast /\ a + 1 \in 0 .. rLast /\ b \in 0 .. rLast /\ a + 1 <= b
      /\ (a + 1) - 1 = a
  BY <1>1
<1>4. LineItems[a + 1] = LineRead!LineFrom(a)
  BY <1>3 DEF LineItems
<1> HIDE DEF LineTable, LineItems, LineChosen
<1>5. LineTable[b] = LineTable[a + 1]
  BY <1>1, <1>2, <1>3, NothingGathered
<1>6. /\ a + 1 \in LineChosen => LineTable[a + 1] = Append(LineTable[a], LineItems[a + 1])
      /\ a + 1 \notin LineChosen => LineTable[a + 1] = LineTable[a]
  BY <1>1, <1>3, GatheringStep
<1> QED
  BY <1>4, <1>5, <1>6

\* A line that ends at a newline is one of the part.
LEMMA LineEnds ==
  ASSUME PartOfFile, NEW a, LineStart(a), NEW k \in rNewlines, a < k, k <= rLast,
         NoNewline(a, k - 1)
  PROVE  LineStart(k) /\ LineTable[k] = Append(LineTable[a], LineRead!Interval(a, k - 1))
<1>1. /\ rLast \in Nat /\ rFirst \in Nat /\ a \in Nat /\ rFirst <= a /\ k \in Nat
      /\ a \in 0 .. rLast
  BY DEF PartOfFile, LineStart
<1>2. a + 1 \in LineChosen
  <2>1. a + 1 \in 1 .. rLast /\ (a + 1) - 1 = a
    BY <1>1
  <2>2. a \in LineRead!Starts
    BY <1>1 DEF LineStart, LineRead!Starts
  <2>3. LineRead!Complete(a)
    BY DEF LineStart, LineRead!Complete
  <2> QED
    BY <2>1, <2>2, <2>3 DEF LineChosen
<1>3. LineTable[k] = Append(LineTable[a], LineRead!LineFrom(a))
  BY <1>1, <1>2, OneStart
<1>4. LineRead!LineFrom(a) = LineRead!Interval(a, k - 1)
  BY <1>1, LineFromIs
<1>5. LineStart(k)
  BY <1>1 DEF LineStart
<1> QED
  BY <1>3, <1>4, <1>5

\* What is behind the last newline is a line of the part if it ends with the file.
LEMMA LastLine ==
  ASSUME PartOfFile, NEW a, LineStart(a), a < rLast, NoNewline(a, rLast)
  PROVE  LineTable[rLast] = IF rLast = rLength
                              THEN Append(LineTable[a], LineRead!Interval(a, rLast))
                            ELSE LineTable[a]
<1>1. /\ rLast \in Nat /\ rFirst \in Nat /\ a \in Nat /\ rFirst <= a /\ a \in 0 .. rLast
      /\ rNewlines \subseteq Nat
  BY DEF PartOfFile, LineStart
<1>2. NoNewline(a, rLast - 1)
  BY <1>1 DEF NoNewline
<1>3. LineRead!LineFrom(a) = LineRead!Interval(a, rLast)
  BY <1>1, LineFromIs
<1>4. CASE rLast = rLength
  <2>1. a + 1 \in LineChosen
    <3>1. a + 1 \in 1 .. rLast /\ (a + 1) - 1 = a
      BY <1>1
    <3>2. a \in LineRead!Starts
      BY <1>1 DEF LineStart, LineRead!Starts
    <3>3. LineRead!Complete(a)
      BY <1>4 DEF LineStart, LineRead!Complete
    <3> QED
      BY <3>1, <3>2, <3>3 DEF LineChosen
  <2>2. LineTable[rLast] = Append(LineTable[a], LineRead!LineFrom(a))
    BY <1>1, <1>2, <2>1, OneStart
  <2> QED
    BY <1>3, <1>4, <2>2
<1>5. CASE rLast # rLength
  <2>1. a + 1 \notin LineChosen
    <3>1. (a + 1) - 1 = a
      BY <1>1
    <3>2. ~LineRead!Complete(a)
      BY <1>5 DEF NoNewline, LineRead!Complete
    <3> QED
      BY <3>1, <3>2 DEF LineChosen
  <2>2. LineTable[rLast] = LineTable[a]
    BY <1>1, <1>2, <2>1, OneStart
  <2> QED
    BY <1>5, <2>2
<1> QED
  BY <1>4, <1>5

\* How much of the file was read.
LineAt == rFirst + rReadSize

\* The buffer has what was read of the part behind the byte lo.
Buffered(lo) ==
  /\ rReadSize \in Nat /\ lo \in rFirst .. LineAt
  /\ rBuf = LineRead!Interval(lo, LineAt) /\ rPos \in 0 .. LineAt - lo

\* Nothing behind the part is read, and all buffers of a part that ends before the file
\* are of one size.
Steady ==
  /\ LineAt <= rLast
  /\ rEof => LineAt = rLast
  /\ rLast # rLength => \E j \in Nat : rReadSize = j * LineRead!ToRead

\* The first line of a part is thrown away and its newline was not found,
Skipping(lo) ==
  /\ rFirst # 0 /\ lines = <<>> /\ NoNewline(rFirst, lo + rPos)
  /\ rPc = "in" => rSkip
  /\ rPc = "out" => rReadSize = 0
  /\ rPc # "over"

\* or a line that starts behind the byte a is read, and those before it were returned,
InLine(lo, a) ==
  /\ LineStart(a) /\ a <= lo + rPos /\ NoNewline(a, lo + rPos)
  /\ lines = LineTable[a]
  /\ rPc = "in" => ~rSkip
  /\ rPc # "in" => rLine = None
  /\ rPc # "over"
  /\ rLine = None => a = lo + rPos
  /\ rLine # None => a < rLast /\ rLine = LineRead!Interval(a, lo + rPos)

\* or all lines were returned.
AllReturned == rPc = "over" /\ lines = LineTable[rLast]

LineWell(lo) ==
  /\ Buffered(lo) /\ Steady
  /\ Skipping(lo) \/ (\E a \in Nat : InLine(lo, a)) \/ AllReturned

LineInv ==
  /\ PartOfFile
  /\ LineRead!Orderly => \E lo \in Nat : LineWell(lo)

LEMMA NoneIsNoLine == \A s \in Seq(Nat) : s # None
BY ReadersAssumption

LEMMA FileKept ==
  ASSUME UNCHANGED LineRead!fileVars
  PROVE  /\ LineTable' = LineTable /\ LineRead!ToRead' = LineRead!ToRead
         /\ \A a, b : NoNewline(a, b)' <=> NoNewline(a, b)
         /\ \A a : LineStart(a)' <=> LineStart(a)
         /\ PartOfFile' <=> PartOfFile
         /\ LineRead!Orderly' <=> LineRead!Orderly
<1>1. /\ rLength' = rLength /\ rNewlines' = rNewlines /\ rFirst' = rFirst /\ rLast' = rLast
  BY DEF LineRead!fileVars
<1>2. LineTable' = LineTable
  BY <1>1 DEF LineTable, LineRead!Starts, LineRead!Complete, LineRead!LineFrom
<1>3. LineRead!ToRead' = LineRead!ToRead /\ (LineRead!Orderly' <=> LineRead!Orderly)
  BY <1>1 DEF LineRead!ToRead, LineRead!Orderly
<1>4. /\ \A a, b : NoNewline(a, b)' <=> NoNewline(a, b)
      /\ \A a : LineStart(a)' <=> LineStart(a)
      /\ PartOfFile' <=> PartOfFile
  BY <1>1 DEF NoNewline, LineStart, PartOfFile
<1> QED
  BY <1>2, <1>3, <1>4

LEMMA NoNewlineJoins ==
  ASSUME PartOfFile, NEW a \in Nat, NEW b \in Nat, NEW c \in Nat,
         NoNewline(a, b), NoNewline(b, c)
  PROVE  NoNewline(a, c)
<1>1. \A k \in rNewlines : k \in Nat
  BY DEF PartOfFile
<1> QED
  BY <1>1 DEF NoNewline

\* What the search of a newline in the buffer finds.
LEMMA BufferIs ==
  ASSUME PartOfFile, NEW lo \in Nat, Buffered(lo)
  PROVE  /\ LineAt \in Nat /\ lo <= LineAt /\ rFirst <= lo /\ rFirst \in Nat /\ rPos \in Nat
         /\ lo + rPos <= LineAt
         /\ Len(rBuf) = LineAt - lo
         /\ LineRead!NewlinesAhead = {k \in rPos + 1 .. LineAt - lo : lo + k \in rNewlines}
<1>1. LineAt \in Nat /\ lo <= LineAt /\ rFirst <= lo /\ rFirst \in Nat /\ rPos \in Nat
      /\ rPos <= LineAt - lo /\ rBuf = LineRead!Interval(lo, LineAt)
  BY DEF PartOfFile, Buffered, LineAt
<1>2. Len(rBuf) = LineAt - lo /\ \A k \in 1 .. LineAt - lo : rBuf[k] = lo + k
  BY <1>1, IntervalIs
<1>3. \A k \in rPos + 1 .. LineAt - lo : k \in 1 .. LineAt - lo
  BY <1>1
<1>4. LineRead!NewlinesAhead = {k \in rPos + 1 .. LineAt - lo : lo + k \in rNewlines}
  BY <1>2, <1>3 DEF LineRead!NewlinesAhead
<1> QED
  BY <1>1, <1>2, <1>4

LEMMA NextNewline ==
  ASSUME PartOfFile, NEW lo \in Nat, Buffered(lo),
         NEW A \in SUBSET LineRead!NewlinesAhead, A # {}
  PROVE  /\ LineRead!Min(A) \in A
         /\ LineRead!Min(A) \in Nat /\ rPos < LineRead!Min(A) /\ LineRead!Min(A) <= LineAt - lo
         /\ lo + LineRead!Min(A) \in rNewlines
         /\ \A k \in A : LineRead!Min(A) <= k
<1>1. /\ rPos \in Nat /\ LineAt \in Nat /\ lo <= LineAt
      /\ LineRead!NewlinesAhead = {k \in rPos + 1 .. LineAt - lo : lo + k \in rNewlines}
  BY BufferIs
<1>2. \A k \in A : k \in Nat /\ rPos < k /\ k <= LineAt - lo /\ lo + k \in rNewlines
  BY <1>1
<1>3. A \in SUBSET Nat
  BY <1>2
<1>4. LineRead!Min(A) \in A /\ \A k \in A : LineRead!Min(A) <= k
  BY <1>3, LeastPlace
<1> QED
  BY <1>2, <1>4

\* Where there is none.
LEMMA NoneBefore ==
  ASSUME PartOfFile, NEW lo \in Nat, Buffered(lo), NEW p \in Nat, rPos <= p,
         NEW e \in Nat, e <= LineAt - lo,
         \A k \in LineRead!NewlinesAhead : ~(p < k /\ k <= e)
  PROVE  NoNewline(lo + p, lo + e)
<1>1. /\ rPos \in Nat /\ LineAt \in Nat /\ lo <= LineAt
      /\ LineRead!NewlinesAhead = {k \in rPos + 1 .. LineAt - lo : lo + k \in rNewlines}
  BY BufferIs
<1> SUFFICES ASSUME NEW n \in rNewlines, lo + p < n, n <= lo + e PROVE FALSE
  BY DEF NoNewline
<1>2. n \in Nat
  BY DEF PartOfFile
<1>3. PICK k \in Nat : n = lo + k
  <2>1. n - lo \in Nat /\ n = lo + (n - lo)
    BY <1>2
  <2> QED
    BY <2>1
<1>4. k \in rPos + 1 .. LineAt - lo /\ p < k /\ k <= e
  BY <1>1, <1>3
<1>5. k \in LineRead!NewlinesAhead
  BY <1>1, <1>3, <1>4
<1> QED
  BY <1>4, <1>5

\* A reader that has read nothing, at first and after a reset.
LineBegins ==
  /\ rBuf = <<>> /\ rPos = 0 /\ rReadSize = 0 /\ rEof = FALSE
  /\ rLine = None /\ rPc = "out" /\ lines = <<>>

LEMMA BeginsWell ==
  ASSUME PartOfFile, LineBegins
  PROVE  rFirst \in Nat /\ LineWell(rFirst)
<1>1. /\ rFirst \in Nat /\ rLast \in Nat /\ rFirst <= rLast /\ LineAt = rFirst
  BY DEF PartOfFile, LineBegins, LineAt
<1>2. Buffered(rFirst)
  <2>1. LineRead!Interval(rFirst, rFirst) = <<>>
    <3>1. /\ LineRead!Interval(rFirst, rFirst) \in Seq(Nat)
          /\ Len(LineRead!Interval(rFirst, rFirst)) = 0
      BY <1>1, IntervalIs
    <3> QED
      BY <3>1
  <2> QED
    BY <1>1, <2>1 DEF Buffered, LineBegins
<1>3. Steady
  <2>1. LineRead!ToRead \in Int
    BY <1>1, ReadersAssumption DEF LineRead!ToRead
  <2>2. 0 = 0 * LineRead!ToRead
    BY <2>1
  <2> QED
    BY <1>1, <2>2 DEF Steady, LineBegins
<1>4. NoNewline(rFirst, rFirst)
  <2>1. \A k \in rNewlines : k \in Nat
    BY DEF PartOfFile
  <2> QED
    BY <1>1, <2>1 DEF NoNewline
<1>5. CASE rFirst # 0
  <2>1. Skipping(rFirst)
    BY <1>1, <1>4, <1>5 DEF Skipping, LineBegins
  <2> QED
    BY <1>1, <1>2, <1>3, <2>1 DEF LineWell
<1>6. CASE rFirst = 0
  <2>1. LineTable[0] = <<>>
    BY LineTableGathers, GatheringStep
  <2>2. InLine(rFirst, 0)
    BY <1>1, <1>4, <1>6, <2>1 DEF InLine, LineBegins, LineStart
  <2> QED
    BY <1>1, <1>2, <1>3, <2>2 DEF LineWell
<1> QED
  BY <1>5, <1>6

LEMMA ReadLineWell ==
  ASSUME PartOfFile, LineRead!Orderly, NEW lo \in Nat, LineWell(lo), LineRead!ReadLine
  PROVE  LineWell(lo)'
<1> USE DEF LineRead!ReadLine
<1>1. /\ UNCHANGED LineRead!fileVars
      /\ rReadSize' = rReadSize /\ rBuf' = rBuf /\ rPos' = rPos /\ rEof' = rEof
      /\ rFirst' = rFirst /\ rLast' = rLast /\ rLength' = rLength
      /\ rLine' = rLine /\ lines' = lines
      /\ rPc = "out" /\ rPc' = "in" /\ rSkip' = (rReadSize = 0 /\ rFirst # 0)
  BY DEF LineRead!fileVars
<1>2. Buffered(lo)' /\ Steady'
  BY <1>1, FileKept DEF LineWell, Buffered, Steady, LineAt
<1>3. CASE Skipping(lo)
  <2>1. Skipping(lo)'
    BY <1>1, <1>3, FileKept DEF Skipping
  <2> QED
    BY <1>2, <2>1 DEF LineWell
<1>4. ASSUME NEW a \in Nat, InLine(lo, a) PROVE InLine(lo, a)'
  <2>1. /\ LineAt \in Nat /\ rFirst \in Nat /\ lo + rPos <= LineAt /\ rPos \in Nat
    BY BufferIs DEF LineWell
  <2>2. rFirst # 0 => rReadSize # 0
    <3> SUFFICES ASSUME rFirst # 0 PROVE rReadSize # 0
      OBVIOUS
    <3>1. rFirst < a
      <4>1. a # rFirst /\ rFirst <= a
        BY <1>4, <2>1 DEF InLine, LineStart, PartOfFile
      <4> QED
        BY <2>1, <4>1
    <3> QED
      BY <1>4, <2>1, <3>1 DEF InLine, LineAt
  <2>3. ~rSkip'
    BY <1>1, <2>2
  <2> QED
    BY <1>1, <1>4, <2>3, FileKept DEF InLine
<1>5. ~AllReturned
  BY <1>1 DEF AllReturned
<1> QED
  BY <1>2, <1>3, <1>4, <1>5 DEF LineWell

LEMMA ReturnRestWell ==
  ASSUME PartOfFile, LineRead!Orderly, NEW lo \in Nat, LineWell(lo), LineRead!ReturnRest
  PROVE  LineWell(lo)'
<1> USE DEF LineRead!ReturnRest
<1> DEFINE l == IF rLast # rLength THEN None ELSE rLine
<1>1. /\ UNCHANGED LineRead!fileVars
      /\ rReadSize' = rReadSize /\ rBuf' = rBuf /\ rPos' = rPos /\ rEof' = rEof
      /\ rFirst' = rFirst /\ rLast' = rLast /\ rLength' = rLength /\ rSkip' = rSkip
      /\ lines' = (IF l = None THEN lines ELSE Append(lines, l))
      /\ rLine' = None
      /\ rPc' = (IF l = None THEN "over" ELSE "out")
      /\ rPc = "in"
  BY DEF LineRead!fileVars, LineRead!Return
<1>2. Buffered(lo)' /\ Steady'
  BY <1>1, FileKept DEF LineWell, Buffered, Steady, LineAt
<1>3. /\ LineAt \in Nat /\ rFirst \in Nat /\ lo + rPos <= LineAt /\ rPos \in Nat /\ lo <= LineAt
      /\ Len(rBuf) = LineAt - lo
  BY BufferIs DEF LineWell
<1>4. LineAt = rLast /\ lo + rPos = rLast
  <2>1. rPos >= Len(rBuf) /\ (rReadSize >= rLast - rFirst \/ rEof)
    BY DEF LineRead!FileIsOver
  <2>2. rLast \in Nat /\ rReadSize \in Nat /\ LineAt = rFirst + rReadSize /\ LineAt <= rLast
        /\ (rEof => LineAt = rLast)
    BY DEF PartOfFile, LineWell, Buffered, Steady, LineAt
  <2> HIDE DEF LineRead!ReturnRest
  <2> QED
    BY <1>3, <2>1, <2>2
<1> HIDE DEF LineRead!ReturnRest
<1>5. ~Skipping(lo)
  <2> SUFFICES ASSUME Skipping(lo) PROVE FALSE
    OBVIOUS
  <2>1. rFirst # 0 /\ NoNewline(rFirst, rLast)
    BY <1>4 DEF Skipping
  <2>2. PICK k \in rNewlines : rFirst < k /\ k < rLast
    BY <2>1 DEF LineRead!Orderly
  <2>3. k \in Nat /\ rLast \in Nat
    BY DEF PartOfFile
  <2> QED
    BY <2>1, <2>2, <2>3 DEF NoNewline
<1>6. ~AllReturned
  BY <1>1 DEF AllReturned
<1>7. PICK a \in Nat : InLine(lo, a)
  BY <1>5, <1>6 DEF LineWell
<1>8. /\ LineStart(a) /\ NoNewline(a, rLast) /\ lines = LineTable[a]
      /\ rLine = None => a = rLast
      /\ rLine # None => a < rLast /\ rLine = LineRead!Interval(a, rLast)
  BY <1>4, <1>7 DEF InLine
<1>9. CASE l = None
  <2>1. LineTable[rLast] = LineTable[a]
    <3>1. CASE a = rLast
      BY <3>1
    <3>2. CASE a # rLast
      <4>1. a < rLast
        BY <1>8, <3>2 DEF LineStart, PartOfFile
      <4>2. rLast # rLength
        BY <1>8, <1>9, <3>2
      <4> QED
        BY <1>8, <4>1, <4>2, LastLine
    <3> QED
      BY <3>1, <3>2
  <2>2. AllReturned'
    <3>1. rPc' = "over" /\ lines' = LineTable[rLast] /\ LineTable' = LineTable /\ rLast' = rLast
      BY <1>1, <1>8, <1>9, <2>1, FileKept
    <3> HIDE DEF LineTable
    <3> QED
      BY <3>1 DEF AllReturned
  <2> QED
    BY <1>2, <2>2 DEF LineWell
<1>10. CASE l # None
  <2>1. rLast = rLength /\ rLine # None /\ l = rLine
    BY <1>10
  <2>2. lines' = LineTable[rLast]
    <3>1. LineTable[rLast] = Append(LineTable[a], LineRead!Interval(a, rLast))
      BY <1>8, <2>1, LastLine
    <3> QED
      BY <1>1, <1>8, <1>10, <2>1, <3>1
  <2>3. PICK e \in Nat : e = rLast
    BY DEF PartOfFile
  <2>4. LineStart(e) /\ NoNewline(e, e)
    <3>1. rFirst <= rLast /\ a < rLast /\ rFirst <= a
      BY <1>8, <2>1 DEF PartOfFile, LineStart
    <3>2. LineStart(rLast)
      BY <1>3, <2>3, <3>1 DEF LineStart
    <3>3. \A k \in rNewlines : k \in Nat
      BY DEF PartOfFile
    <3> QED
      BY <2>3, <3>2, <3>3 DEF NoNewline
  <2>5. LineStart(e)' /\ NoNewline(e, e)' /\ LineTable' = LineTable
    BY <1>1, <2>4, FileKept
  <2>6. lines' = LineTable'[e] /\ rPc' = "out" /\ rLine' = None /\ lo + rPos' = e
    BY <1>1, <1>4, <1>10, <2>2, <2>3, <2>5
  <2>7. InLine(lo, e)'
    <3> HIDE DEF LineTable
    <3> QED
      BY <2>3, <2>5, <2>6 DEF InLine
  <2> QED
    BY <1>2, <2>7 DEF LineWell
<1> QED
  BY <1>9, <1>10

\* A product of a natural number is less than another one if the number is.
LEMMA MoreBuffers ==
  ASSUME NEW w \in Nat, NEW j \in Nat, NEW m \in Nat, j * w < m * w
  PROVE  j * w + w <= m * w /\ (j + 1) * w = j * w + w
<1>1. j < m
  <2> SUFFICES ASSUME m <= j PROVE FALSE
    OBVIOUS
  <2>1. PICK d \in Nat : j = m + d
    <3>1. j - m \in Nat /\ j = m + (j - m)
      OBVIOUS
    <3> QED
      BY <3>1
  <2>2. j * w = m * w + d * w /\ d * w \in Nat /\ m * w \in Nat
    BY <2>1
  <2> QED
    BY <2>2
<1>2. PICK d \in Nat : m = j + 1 + d
  <2>1. m - (j + 1) \in Nat /\ m = j + 1 + (m - (j + 1))
    BY <1>1
  <2> QED
    BY <2>1
<1>3. m * w = j * w + w + d * w /\ d * w \in Nat /\ j * w \in Nat
  BY <1>2
<1> QED
  BY <1>3

\* A buffer of an orderly part ends within the part, and a smaller one with the file.
LEMMA RefillFits ==
  ASSUME PartOfFile, LineRead!Orderly, rReadSize \in Nat, Steady, ~LineRead!FileIsOver,
         NEW n, n = LineRead!Min({LineRead!ToRead, rLength - LineAt})
  PROVE  /\ n \in Nat /\ LineAt + n <= rLast
         /\ n < LineRead!ToRead => LineAt + n = rLast
         /\ rLast # rLength => \E j \in Nat : rReadSize + n = j * LineRead!ToRead
<1>1. /\ rFirst \in Nat /\ rLast \in Nat /\ rLength \in Nat /\ rFirst <= rLast
      /\ rLast <= rLength /\ BufSize \in Nat \ {0}
  BY ReadersAssumption DEF PartOfFile
<1>2. rReadSize < rLast - rFirst
  BY <1>1 DEF LineRead!FileIsOver
<1>3. PICK w \in Nat : w = LineRead!ToRead
  <2>1. rLast - rFirst \in Nat
    BY <1>1
  <2> QED
    BY <1>1, <2>1 DEF LineRead!ToRead
<1>4. PICK r \in Nat : r = rLength - LineAt /\ LineAt = rFirst + rReadSize
  BY <1>1, <1>2 DEF LineAt
<1>5. n = IF w <= r THEN w ELSE r
  <2>1. {w, r} \in SUBSET Nat
    OBVIOUS
  <2>2. n = LineRead!Min({w, r})
    BY <1>3, <1>4
  <2>3. CASE w <= r
    <3>1. w \in {w, r} /\ \A k \in {w, r} : w <= k
      BY <2>3
    <3> QED
      BY <2>1, <2>2, <2>3, <3>1, LeastPlaceIs
  <2>4. CASE ~(w <= r)
    <3>1. r \in {w, r} /\ \A k \in {w, r} : r <= k
      BY <2>4
    <3> QED
      BY <2>1, <2>2, <2>4, <3>1, LeastPlaceIs
  <2> QED
    BY <2>3, <2>4
<1>6. CASE rLast = rLength
  BY <1>1, <1>3, <1>4, <1>5, <1>6
<1>7. CASE rLast # rLength
  <2>1. PICK j \in Nat : rReadSize = j * w
    BY <1>3, <1>7 DEF Steady
  <2>2. \E m \in Nat : rLast - rFirst = m * w
    <3>1. CASE rLast - rFirst <= BufSize
      <4>1. w = rLast - rFirst
        BY <1>1, <1>3, <3>1 DEF LineRead!ToRead
      <4>2. w = 1 * w
        OBVIOUS
      <4> QED
        BY <4>1, <4>2
    <3>2. CASE rLast - rFirst > BufSize
      <4>1. w = BufSize
        BY <1>1, <1>3, <3>2 DEF LineRead!ToRead
      <4>2. PICK d \in Nat : d = rLast - rFirst
        BY <1>1
      <4>3. (d % BufSize) = 0
        BY <1>1, <1>7, <3>2, <4>2 DEF LineRead!Orderly
      <4>4. PICK b \in Nat \ {0} : b = BufSize
        BY <1>1
      <4>5. d = b * (d \div b) + (d % b) /\ d \div b \in Nat
        OBVIOUS
      <4>6. PICK q \in Nat : q = d \div b
        BY <4>5
      <4>7. d = b * q
        BY <4>3, <4>4, <4>5, <4>6
      <4>8. b * q = q * b
        OBVIOUS
      <4> QED
        BY <4>1, <4>2, <4>4, <4>7, <4>8
    <3> QED
      BY <1>1, <3>1, <3>2
  <2>3. PICK m \in Nat : rLast - rFirst = m * w
    BY <2>2
  <2>4. j * w + w <= m * w /\ (j + 1) * w = j * w + w
    BY <1>2, <2>1, <2>3, MoreBuffers
  <2>5. rReadSize + w <= rLast - rFirst
    BY <2>1, <2>3, <2>4
  <2>6. w <= r
    BY <1>1, <1>4, <2>5
  <2>7. n = w /\ rReadSize + n = (j + 1) * w /\ j + 1 \in Nat
    BY <1>5, <2>1, <2>4, <2>6
  <2>8. \E i \in Nat : rReadSize + n = i * LineRead!ToRead
    BY <1>3, <2>7
  <2>9. LineAt + n <= rLast
    BY <1>1, <1>4, <2>5, <2>7
  <2>10. n \in Nat /\ ~(n < LineRead!ToRead)
    BY <1>3, <2>7
  <2> QED
    BY <2>8, <2>9, <2>10
<1> QED
  BY <1>6, <1>7

LEMMA RefillWell ==
  ASSUME PartOfFile, LineRead!Orderly, NEW lo \in Nat, LineWell(lo), LineRead!Refill
  PROVE  \E m \in Nat : LineWell(m)'
<1> DEFINE n == LineRead!Min({LineRead!ToRead, rLength - LineAt})
<1>1. /\ UNCHANGED LineRead!fileVars
      /\ rFirst' = rFirst /\ rLast' = rLast /\ rLength' = rLength /\ rSkip' = rSkip
      /\ lines' = lines /\ rLine' = rLine /\ rPc' = rPc /\ rPc = "in"
      /\ rBuf' = LineRead!Interval(LineAt, LineAt + n)
      /\ rReadSize' = rReadSize + n /\ rPos' = 0
      /\ rEof' = (n < LineRead!ToRead)
      /\ rPos >= Len(rBuf) /\ ~LineRead!FileIsOver
  BY DEF LineRead!fileVars, LineRead!Refill, LineAt
<1>2. /\ n \in Nat /\ LineAt + n <= rLast
      /\ n < LineRead!ToRead => LineAt + n = rLast
      /\ rLast # rLength => \E j \in Nat : rReadSize + n = j * LineRead!ToRead
  BY <1>1, RefillFits DEF LineWell, Buffered
<1>3. /\ LineAt \in Nat /\ rFirst \in Nat /\ lo + rPos <= LineAt /\ rPos \in Nat /\ lo <= LineAt
      /\ Len(rBuf) = LineAt - lo /\ rFirst <= lo
  BY BufferIs DEF LineWell
<1> HIDE DEF n
<1>4. PICK m \in Nat : m = LineAt
  BY <1>3
<1>5. LineAt' = m + n /\ LineAt = rFirst + rReadSize /\ rReadSize \in Nat
  BY <1>1, <1>2, <1>3, <1>4 DEF LineAt, LineWell, Buffered
<1>6. Buffered(m)'
  <2>1. rReadSize' \in Nat /\ m \in rFirst .. m + n /\ 0 \in 0 .. (m + n) - m
    BY <1>1, <1>2, <1>3, <1>4, <1>5
  <2> QED
    BY <1>1, <1>4, <1>5, <2>1 DEF Buffered
<1>7. Steady'
  <2>1. LineRead!ToRead' = LineRead!ToRead
    BY <1>1, FileKept
  <2> QED
    BY <1>1, <1>2, <1>4, <1>5, <2>1 DEF Steady
<1>8. lo + rPos = m /\ m + rPos' = m
  BY <1>1, <1>3, <1>4
<1>9. CASE Skipping(lo)
  <2>1. Skipping(m)'
    BY <1>1, <1>8, <1>9, FileKept DEF Skipping
  <2> QED
    BY <1>6, <1>7, <2>1 DEF LineWell
<1>10. ASSUME NEW a \in Nat, InLine(lo, a) PROVE InLine(m, a)'
  <2>1. LineTable' = LineTable /\ NoNewline(a, m)' /\ LineStart(a)'
    BY <1>1, <1>8, <1>10, FileKept DEF InLine
  <2> HIDE DEF LineTable
  <2> QED
    BY <1>1, <1>8, <1>10, <2>1 DEF InLine
<1>11. ~AllReturned
  BY <1>1 DEF AllReturned
<1> QED
  BY <1>6, <1>7, <1>9, <1>10, <1>11 DEF LineWell

LEMMA FindNoneWell ==
  ASSUME PartOfFile, LineRead!Orderly, NEW lo \in Nat, LineWell(lo), LineRead!FindNone
  PROVE  LineWell(lo)'
<1>1. /\ UNCHANGED LineRead!fileVars
      /\ rReadSize' = rReadSize /\ rBuf' = rBuf /\ rEof' = rEof
      /\ rFirst' = rFirst /\ rLast' = rLast /\ rLength' = rLength /\ rSkip' = rSkip
      /\ lines' = lines /\ rPc' = rPc /\ rPc = "in"
      /\ rPos < Len(rBuf) /\ LineRead!NewlinesAhead = {}
      /\ rLine' = LineRead!AppendCurrentLine(SubSeq(rBuf, rPos + 1, Len(rBuf)))
      /\ rPos' = Len(rBuf)
  BY DEF LineRead!fileVars, LineRead!FindNone
<1>2. /\ LineAt \in Nat /\ rFirst \in Nat /\ lo + rPos <= LineAt /\ rPos \in Nat /\ lo <= LineAt
      /\ Len(rBuf) = LineAt - lo /\ rFirst <= lo
  BY BufferIs DEF LineWell
<1>3. LineAt' = LineAt /\ LineAt <= rLast /\ rBuf = LineRead!Interval(lo, LineAt)
  BY <1>1 DEF LineAt, LineWell, Buffered, Steady
<1>4. PICK e \in Nat, p \in Nat : e = LineAt - lo /\ p = rPos /\ rPos' = e /\ p < e
  BY <1>1, <1>2
<1>5. Buffered(lo)' /\ Steady'
  <2>1. rPos' \in 0 .. LineAt - lo
    BY <1>4
  <2> QED
    BY <1>1, <1>3, <2>1, FileKept DEF LineWell, Buffered, Steady
<1>6. PICK t \in Nat : t = LineAt /\ lo + rPos' = t /\ lo + e = t
  BY <1>2, <1>4
<1>7. ASSUME NEW b \in Nat, NoNewline(b, lo + rPos) PROVE NoNewline(b, t)
  <2>1. NoNewline(lo + p, lo + e)
    <3>1. rPos <= p /\ e <= LineAt - lo /\ Buffered(lo)
          /\ \A k \in LineRead!NewlinesAhead : ~(p < k /\ k <= e)
      BY <1>1, <1>2, <1>4 DEF LineWell
    <3> QED
      BY <3>1, NoneBefore
  <2>2. lo + p \in Nat /\ lo + p = lo + rPos
    BY <1>4
  <2> QED
    BY <1>6, <1>7, <2>1, <2>2, NoNewlineJoins
<1>8. CASE Skipping(lo)
  <2>1. NoNewline(rFirst, t)
    BY <1>2, <1>7, <1>8 DEF Skipping
  <2>2. PICK f : f = rFirst
    OBVIOUS
  <2>3. NoNewline(f, t)'
    BY <1>1, <2>1, <2>2, FileKept
  <2>4. Skipping(lo)'
    BY <1>1, <1>6, <1>8, <2>2, <2>3 DEF Skipping
  <2> QED
    BY <1>5, <2>4 DEF LineWell
<1>9. ASSUME NEW a \in Nat, InLine(lo, a) PROVE InLine(lo, a)'
  <2>1. LineStart(a) /\ NoNewline(a, t) /\ a <= lo + rPos
    BY <1>7, <1>9 DEF InLine
  <2>2. a <= t /\ a < rLast
    <3>1. lo + rPos < t /\ t <= rLast /\ rLast \in Nat
      BY <1>3, <1>4, <1>6 DEF PartOfFile
    <3> QED
      BY <1>4, <2>1, <3>1
  <2>3. rLine' = LineRead!Interval(a, t)
    <3>1. SubSeq(rBuf, rPos + 1, Len(rBuf)) = LineRead!Interval(lo + rPos, t)
      <4>1. IsPart(lo, t, p, e)
        <5>1. p <= e /\ e <= t - lo /\ lo <= t
          BY <1>4, <1>6
        <5> QED
          BY <5>1, IntervalPart
      <4> QED
        BY <1>2, <1>3, <1>4, <1>6, <4>1 DEF IsPart
    <3>2. CASE rLine = None
      BY <1>1, <1>9, <3>1, <3>2 DEF InLine, LineRead!AppendCurrentLine
    <3>3. CASE rLine # None
      <4>1. rLine' = LineRead!Interval(a, lo + rPos) \o LineRead!Interval(lo + rPos, t)
        BY <1>1, <1>9, <3>1, <3>3 DEF InLine, LineRead!AppendCurrentLine
      <4>2. lo + rPos \in Nat /\ a <= lo + rPos /\ lo + rPos <= t
        BY <1>2, <1>6, <2>1
      <4> QED
        BY <4>1, <4>2, IntervalsMeet
    <3> QED
      BY <3>2, <3>3
  <2>4. rLine' # None
    <3>1. LineRead!Interval(a, t) \in Seq(Nat)
      BY <2>2, IntervalIs
    <3> QED
      BY <2>3, <3>1, NoneIsNoLine
  <2>5. LineTable' = LineTable /\ NoNewline(a, t)' /\ LineStart(a)'
    BY <1>1, <2>1, FileKept
  <2> HIDE DEF LineTable
  <2> QED
    BY <1>1, <1>6, <1>9, <2>1, <2>2, <2>3, <2>4, <2>5 DEF InLine
<1>10. ~AllReturned
  BY <1>1 DEF AllReturned
<1> QED
  BY <1>5, <1>8, <1>9, <1>10 DEF LineWell

\* The bytes of the buffer between two places of it are those of the file.
PieceOfFile(lo, i, j) == SubSeq(rBuf, i + 1, j) = LineRead!Interval(lo + i, lo + j)
LEMMA BufferPart ==
  ASSUME PartOfFile, NEW lo \in Nat, Buffered(lo), NEW i \in Nat, NEW j \in Nat,
         i <= j, j <= LineAt - lo
  PROVE  PieceOfFile(lo, i, j)
<1>1. PICK h \in Nat : h = LineAt /\ lo <= h
  BY BufferIs
<1>2. rBuf = LineRead!Interval(lo, h)
  BY <1>1 DEF Buffered
<1>3. j <= h - lo
  BY <1>1
<1>4. IsPart(lo, h, i, j)
  BY <1>1, <1>3, IntervalPart
<1> QED
  BY <1>2, <1>4 DEF IsPart, PieceOfFile

\* The next line begins behind the byte c.
LineDone(lo, c) ==
  /\ rPc' = "out" /\ rLine' = None /\ lo + rPos' = c /\ lines' = LineTable[c]
  /\ c \in Nat /\ LineStart(c)

LEMMA DoneIsInLine ==
  ASSUME PartOfFile, UNCHANGED LineRead!fileVars, NEW lo \in Nat, NEW c, LineDone(lo, c)
  PROVE  InLine(lo, c)'
<1>1. LineTable' = LineTable /\ LineStart(c)'
  BY FileKept DEF LineDone
<1>2. NoNewline(c, c)
  <2>1. \A k \in rNewlines : k \in Nat
    BY DEF PartOfFile
  <2> QED
    BY <2>1 DEF LineDone, NoNewline
<1>3. NoNewline(c, c)'
  BY <1>2, FileKept
<1> HIDE DEF LineTable
<1> QED
  BY <1>1, <1>3 DEF InLine, LineDone

LEMMA FindNewlineWell ==
  ASSUME PartOfFile, LineRead!Orderly, NEW lo \in Nat, LineWell(lo), LineRead!FindNewline
  PROVE  LineWell(lo)'
<1>1. PICK k : k = LineRead!Min(LineRead!NewlinesAhead)
  OBVIOUS
<1>2. /\ UNCHANGED LineRead!fileVars
      /\ rReadSize' = rReadSize /\ rBuf' = rBuf /\ rEof' = rEof
      /\ rFirst' = rFirst /\ rLast' = rLast /\ rLength' = rLength
      /\ rPc = "in" /\ ~rSkip /\ LineRead!NewlinesAhead # {}
      /\ LineRead!Return(LineRead!AppendCurrentLine(SubSeq(rBuf, rPos + 1, k - 1)))
      /\ rPos' = k
  BY <1>1 DEF LineRead!fileVars, LineRead!FindNewline
<1>3. /\ LineAt \in Nat /\ rFirst \in Nat /\ lo + rPos <= LineAt /\ rPos \in Nat /\ lo <= LineAt
      /\ rFirst <= lo /\ Buffered(lo)
  BY BufferIs DEF LineWell
<1>4. /\ k \in Nat /\ rPos < k /\ k <= LineAt - lo /\ lo + k \in rNewlines
      /\ \A j \in LineRead!NewlinesAhead : k <= j
  BY <1>1, <1>2, <1>3, NextNewline
<1>5. LineAt' = LineAt /\ LineAt <= rLast /\ rLast \in Nat
  BY <1>2 DEF LineAt, LineWell, Steady, PartOfFile
<1>6. Buffered(lo)' /\ Steady'
  <2>1. rPos' \in 0 .. LineAt - lo
    BY <1>2, <1>4
  <2> QED
    BY <1>2, <1>5, <2>1, FileKept DEF LineWell, Buffered, Steady
<1>7. PICK a \in Nat : InLine(lo, a)
  BY <1>2 DEF LineWell, Skipping, AllReturned
<1>8. PICK p \in Nat, c \in Nat : p = lo + rPos /\ c = lo + k
  BY <1>3, <1>4
<1>9. /\ LineStart(a) /\ a <= p /\ NoNewline(a, p) /\ lines = LineTable[a]
      /\ rLine = None => a = p
      /\ rLine # None => a < rLast /\ rLine = LineRead!Interval(a, p)
  BY <1>7, <1>8 DEF InLine
<1>10. c \in rNewlines /\ p <= c - 1 /\ a < c /\ c <= rLast /\ c - 1 \in Nat
  BY <1>3, <1>4, <1>5, <1>8, <1>9
<1>11. NoNewline(a, c - 1)
  <2>1. PICK q \in Nat, e \in Nat : q = rPos /\ e = k - 1
    BY <1>3, <1>4
  <2>2. rPos <= q /\ e <= LineAt - lo /\ \A j \in LineRead!NewlinesAhead : ~(q < j /\ j <= e)
    <3>1. \A j \in LineRead!NewlinesAhead : j \in Nat
      BY <1>3, BufferIs
    <3> QED
      BY <1>3, <1>4, <2>1, <3>1
  <2>3. NoNewline(lo + q, lo + e)
    BY <1>3, <2>2, NoneBefore
  <2>4. lo + q = p /\ lo + e = c - 1
    BY <1>4, <1>8, <2>1
  <2>5. NoNewline(p, c - 1)
    BY <2>3, <2>4
  <2> QED
    BY <1>9, <1>10, <2>5, NoNewlineJoins
<1>12. LineRead!AppendCurrentLine(SubSeq(rBuf, rPos + 1, k - 1)) = LineRead!Interval(a, c - 1)
  <2>1. SubSeq(rBuf, rPos + 1, k - 1) = LineRead!Interval(p, c - 1)
    <3>1. PICK e \in Nat : e = k - 1
      BY <1>3, <1>4
    <3>2. rPos <= e /\ e <= LineAt - lo /\ lo + e = c - 1
      BY <1>3, <1>4, <1>8, <3>1
    <3>3. PieceOfFile(lo, rPos, e)
      BY <1>3, <3>2, BufferPart
    <3> QED
      BY <1>8, <3>1, <3>2, <3>3 DEF PieceOfFile
  <2>2. CASE rLine = None
    BY <1>9, <2>1, <2>2 DEF LineRead!AppendCurrentLine
  <2>3. CASE rLine # None
    <3>1. LineRead!AppendCurrentLine(SubSeq(rBuf, rPos + 1, k - 1))
            = LineRead!Interval(a, p) \o LineRead!Interval(p, c - 1)
      BY <1>9, <2>1, <2>3 DEF LineRead!AppendCurrentLine
    <3> QED
      BY <1>9, <1>10, <3>1, IntervalsMeet
  <2> QED
    BY <2>2, <2>3
<1>13. LineStart(c) /\ LineTable[c] = Append(LineTable[a], LineRead!Interval(a, c - 1))
  BY <1>9, <1>10, <1>11, LineEnds
<1>14. PICK l : l = LineRead!Interval(a, c - 1) /\ l # None
  <2>1. LineRead!Interval(a, c - 1) \in Seq(Nat)
    <3>1. a <= c - 1
      BY <1>10
    <3> QED
      BY <1>10, <3>1, IntervalIs
  <2> QED
    BY <2>1, NoneIsNoLine
<1>15. LineDone(lo, c)
  <2>1. LineRead!Return(l)
    BY <1>2, <1>12, <1>14
  <2>2. lines' = Append(lines, l) /\ rLine' = None /\ rPc' = "out"
    BY <1>14, <2>1 DEF LineRead!Return
  <2> HIDE DEF LineTable
  <2> QED
    BY <1>2, <1>8, <1>9, <1>13, <1>14, <2>2 DEF LineDone
<1>16. InLine(lo, c)'
  BY <1>2, <1>15, DoneIsInLine
<1> QED
  BY <1>6, <1>16 DEF LineWell

LEMMA SkipLineWell ==
  ASSUME PartOfFile, LineRead!Orderly, NEW lo \in Nat, LineWell(lo), LineRead!SkipLine
  PROVE  LineWell(lo)'
<1>1. PICK k, more : /\ k = LineRead!Min(LineRead!NewlinesAhead)
                     /\ more = LineRead!NewlinesAhead \ {k}
  OBVIOUS
<1>2. /\ UNCHANGED LineRead!fileVars
      /\ rReadSize' = rReadSize /\ rBuf' = rBuf /\ rEof' = rEof
      /\ rFirst' = rFirst /\ rLast' = rLast /\ rLength' = rLength
      /\ rPc = "in" /\ rSkip /\ LineRead!NewlinesAhead # {} /\ rSkip' = FALSE
      /\ IF more # {}
           THEN /\ LineRead!Return(SubSeq(rBuf, k + 1, LineRead!Min(more) - 1))
                /\ rPos' = LineRead!Min(more)
           ELSE /\ rLine' = SubSeq(rBuf, k + 1, Len(rBuf))
                /\ rPos' = Len(rBuf)
                /\ lines' = lines /\ rPc' = rPc
  BY <1>1 DEF LineRead!fileVars, LineRead!SkipLine
<1>3. /\ LineAt \in Nat /\ rFirst \in Nat /\ lo + rPos <= LineAt /\ rPos \in Nat /\ lo <= LineAt
      /\ rFirst <= lo /\ Buffered(lo) /\ Len(rBuf) = LineAt - lo
      /\ \A j \in LineRead!NewlinesAhead : j \in Nat /\ j <= LineAt - lo
  BY BufferIs DEF LineWell
<1>4. /\ k \in Nat /\ rPos < k /\ k <= LineAt - lo /\ lo + k \in rNewlines
      /\ \A j \in LineRead!NewlinesAhead : k <= j
  BY <1>1, <1>2, <1>3, NextNewline
<1>5. LineAt' = LineAt /\ LineAt <= rLast /\ rLast \in Nat
  BY <1>2 DEF LineAt, LineWell, Steady, PartOfFile
<1>6. Steady'
  BY <1>2, <1>5, FileKept DEF LineWell, Steady
<1>7. /\ rFirst # 0 /\ lines = <<>> /\ NoNewline(rFirst, lo + rPos)
  BY <1>2 DEF LineWell, Skipping, InLine, AllReturned
<1>8. PICK p \in Nat, c \in Nat : p = lo + rPos /\ c = lo + k
  BY <1>3, <1>4
<1>9. c \in rNewlines /\ rFirst < c /\ p <= c - 1 /\ c - 1 \in Nat /\ c <= rLast
  BY <1>3, <1>4, <1>5, <1>8
<1>10. NoNewline(rFirst, c - 1)
  <2>1. PICK q \in Nat, e \in Nat : q = rPos /\ e = k - 1
    BY <1>3, <1>4
  <2>2. rPos <= q /\ e <= LineAt - lo /\ \A j \in LineRead!NewlinesAhead : ~(q < j /\ j <= e)
    BY <1>3, <1>4, <2>1
  <2>3. NoNewline(lo + q, lo + e)
    BY <1>3, <2>2, NoneBefore
  <2>4. lo + q = p /\ lo + e = c - 1
    BY <1>4, <1>8, <2>1
  <2>5. NoNewline(p, c - 1) /\ NoNewline(rFirst, p)
    BY <1>7, <1>8, <2>3, <2>4
  <2> QED
    BY <1>3, <1>9, <2>5, NoNewlineJoins
<1>11. c < rLast /\ LineStart(c) /\ LineTable[c] = <<>>
  <2>1. PICK n \in rNewlines : rFirst < n /\ n < rLast
    BY <1>7 DEF LineRead!Orderly
  <2>2. n \in Nat
    BY DEF PartOfFile
  <2>3. c <= n
    BY <1>9, <1>10, <2>1, <2>2 DEF NoNewline
  <2>4. c < rLast
    BY <1>5, <2>1, <2>2, <2>3
  <2>5. LineStart(c)
    BY <1>3, <1>5, <1>9 DEF LineStart
  <2>6. LineTable[c] = <<>>
    BY <1>7, <1>9, <1>10, NoLineBefore
  <2> QED
    BY <2>4, <2>5, <2>6
<1>12. CASE more = {}
  <2>1. PICK e \in Nat, t \in Nat : e = LineAt - lo /\ t = LineAt /\ lo + e = t /\ c <= t
    BY <1>3, <1>4, <1>8
  <2>2. /\ rLine' = SubSeq(rBuf, k + 1, e) /\ rPos' = e /\ lines' = <<>> /\ rPc' = "in"
    BY <1>2, <1>3, <1>7, <1>12, <2>1
  <2>3. Buffered(lo)'
    <3>1. rPos' \in 0 .. LineAt - lo
      BY <2>1, <2>2
    <3> QED
      BY <1>2, <1>3, <1>5, <3>1 DEF Buffered
  <2>4. NoNewline(c, t)
    <3>1. rPos <= k /\ e <= LineAt - lo /\ \A j \in LineRead!NewlinesAhead : ~(k < j /\ j <= e)
      BY <1>1, <1>3, <1>4, <1>12, <2>1
    <3>2. NoNewline(lo + k, lo + e)
      BY <1>3, <1>4, <3>1, NoneBefore
    <3> QED
      BY <1>8, <2>1, <3>2
  <2>5. rLine' = LineRead!Interval(c, t) /\ rLine' # None
    <3>1. k <= e /\ e <= LineAt - lo
      BY <1>4, <2>1
    <3>2. PieceOfFile(lo, k, e)
      BY <1>3, <1>4, <3>1, BufferPart
    <3>3. LineRead!Interval(c, t) \in Seq(Nat)
      BY <2>1, IntervalIs
    <3> QED
      BY <1>8, <2>1, <2>2, <3>2, <3>3, NoneIsNoLine DEF PieceOfFile
  <2>6. LineTable' = LineTable /\ NoNewline(c, t)' /\ LineStart(c)'
    BY <1>2, <1>11, <2>4, FileKept
  <2>7. InLine(lo, c)'
    <3> HIDE DEF LineTable
    <3> QED
      BY <1>2, <1>11, <2>1, <2>2, <2>5, <2>6 DEF InLine
  <2> QED
    BY <1>6, <2>3, <2>7 DEF LineWell
<1>13. CASE more # {}
  <2>1. PICK m : m = LineRead!Min(more)
    OBVIOUS
  <2>2. /\ m \in Nat /\ m <= LineAt - lo /\ lo + m \in rNewlines /\ m \in more
        /\ \A j \in more : m <= j
    BY <1>1, <1>3, <1>13, <2>1, NextNewline
  <2>3. k < m
    BY <1>1, <1>4, <2>2
  <2>4. PICK d \in Nat, e \in Nat :
          /\ d = lo + m /\ e = m - 1 /\ c < d /\ d <= rLast /\ lo + e = d - 1
          /\ k <= e /\ e <= LineAt - lo /\ d \in rNewlines
    BY <1>3, <1>4, <1>5, <1>8, <2>2, <2>3
  <2>5. Buffered(lo)'
    <3>1. rPos' \in 0 .. LineAt - lo
      BY <1>2, <1>13, <2>1, <2>2
    <3> QED
      BY <1>2, <1>3, <1>5, <3>1 DEF Buffered
  <2>6. NoNewline(c, d - 1)
    <3>1. rPos <= k /\ \A j \in LineRead!NewlinesAhead : ~(k < j /\ j <= e)
      BY <1>1, <1>3, <1>4, <2>2, <2>4
    <3>2. NoNewline(lo + k, lo + e)
      BY <1>3, <1>4, <2>4, <3>1, NoneBefore
    <3> QED
      BY <1>8, <2>4, <3>2
  <2>7. LineStart(d) /\ LineTable[d] = Append(<<>>, LineRead!Interval(c, d - 1))
    BY <1>11, <2>4, <2>6, LineEnds
  <2>8. PICK l : l = LineRead!Interval(c, d - 1) /\ l # None
    <3>1. d - 1 \in Nat /\ c <= d - 1
      BY <2>4
    <3>2. LineRead!Interval(c, d - 1) \in Seq(Nat)
      BY <3>1, IntervalIs
    <3> QED
      BY <3>2, NoneIsNoLine
  <2>9. SubSeq(rBuf, k + 1, LineRead!Min(more) - 1) = l
    <3>1. PieceOfFile(lo, k, e)
      BY <1>3, <1>4, <2>4, BufferPart
    <3> QED
      BY <1>8, <2>1, <2>4, <2>8, <3>1 DEF PieceOfFile
  <2>10. LineDone(lo, d)
    <3>1. LineRead!Return(l) /\ rPos' = m
      BY <1>2, <1>13, <2>1, <2>9
    <3>2. lines' = Append(<<>>, l) /\ rLine' = None /\ rPc' = "out"
      BY <1>7, <2>8, <3>1 DEF LineRead!Return
    <3> HIDE DEF LineTable
    <3> QED
      BY <2>4, <2>7, <2>8, <3>1, <3>2 DEF LineDone
  <2>11. InLine(lo, d)'
    BY <1>2, <2>10, DoneIsInLine
  <2> QED
    BY <1>6, <2>4, <2>5, <2>11 DEF LineWell
<1> QED
  BY <1>12, <1>13

LEMMA LinesBegin == PartsInit => LineInv
<1> SUFFICES ASSUME PartsInit PROVE LineInv
  OBVIOUS
<1>1. LineRead!Init
  BY DEF PartsInit
<1>2. PartOfFile /\ LineBegins
  BY <1>1, ReadersAssumption DEF LineRead!Init, PartOfFile, LineBegins
<1>3. rFirst \in Nat /\ LineWell(rFirst)
  BY <1>2, BeginsWell
<1> QED
  BY <1>2, <1>3 DEF LineInv

LEMMA LinesGoOn == LineInv /\ (LineRead!Next \/ UNCHANGED lineVars) => LineInv'
<1> SUFFICES ASSUME LineInv, LineRead!Next \/ UNCHANGED lineVars PROVE LineInv'
  OBVIOUS
<1>1. UNCHANGED LineRead!fileVars
  BY DEF LineRead!Next, LineRead!Step, LineRead!ReadLine, LineRead!ReturnRest, LineRead!Refill,
         LineRead!SkipLine, LineRead!FindNewline, LineRead!FindNone, LineRead!Reset,
         LineRead!fileVars, lineVars
<1>2. PartOfFile /\ PartOfFile' /\ (LineRead!Orderly' <=> LineRead!Orderly)
  BY <1>1, FileKept DEF LineInv
<1> SUFFICES ASSUME LineRead!Orderly PROVE \E m \in Nat : LineWell(m)'
  BY <1>2 DEF LineInv
<1>3. PICK lo \in Nat : LineWell(lo)
  BY DEF LineInv
<1>4. ASSUME LineRead!Reset PROVE \E m \in Nat : LineWell(m)'
  <2>1. LineBegins'
    BY <1>4 DEF LineRead!Reset, LineBegins
  <2>2. (rFirst \in Nat /\ LineWell(rFirst))'
    BY <1>2, <2>1, BeginsWell, PTL
  <2>3. PICK m : m = rFirst'
    OBVIOUS
  <2>4. m \in Nat /\ LineWell(m)'
    BY <2>2, <2>3
  <2> QED
    BY <2>4
<1>5. ASSUME UNCHANGED lineVars PROVE LineWell(lo)'
  <2>1. /\ rReadSize' = rReadSize /\ rBuf' = rBuf /\ rPos' = rPos /\ rEof' = rEof
        /\ rFirst' = rFirst /\ rLast' = rLast /\ rLength' = rLength /\ rSkip' = rSkip
        /\ rNewlines' = rNewlines /\ rLine' = rLine /\ rPc' = rPc /\ lines' = lines
    BY <1>5 DEF lineVars
  <2>2. LineTable' = LineTable
    BY <1>1, FileKept
  <2>3. Buffered(lo)' /\ Steady'
    BY <1>1, <1>3, <2>1, FileKept DEF LineWell, Buffered, Steady, LineAt
  <2>4. Skipping(lo) => Skipping(lo)'
    BY <2>1 DEF Skipping, NoNewline
  <2> HIDE DEF LineTable
  <2>5. AllReturned => AllReturned'
    BY <2>1, <2>2 DEF AllReturned
  <2>6. ASSUME NEW a \in Nat, InLine(lo, a) PROVE InLine(lo, a)'
    BY <2>1, <2>2, <2>6 DEF InLine, LineStart, NoNewline
  <2> QED
    BY <1>3, <2>3, <2>4, <2>5, <2>6 DEF LineWell
<1> QED
  BY <1>2, <1>3, <1>4, <1>5, ReadLineWell, ReturnRestWell, RefillWell, SkipLineWell,
     FindNewlineWell, FindNoneWell DEF LineRead!Next, LineRead!Step

\* However the lines of a part lie across the ends of the buffers, read_line() returns
\* each line once, whole and in order.
THEOREM LinesInTurnCorrect == PartsSpec => []LinesInTurn
<1>1. LineInv /\ [PartsNext]_partVars => LineInv'
  BY LineStep, LinesGoOn
<1>2. LineInv => LinesInTurn
  <2> SUFFICES ASSUME LineInv, LineRead!Orderly
               PROVE  /\ \E p \in 0 .. rLast : lines = LineRead!LinesTo(p)
                      /\ rPc = "over" => lines = LineRead!LinesOfPart
    BY DEF LinesInTurn, LineRead!LinesInTurn
  <2>1. rFirst \in Nat /\ rLast \in Nat /\ rFirst <= rLast
    BY DEF LineInv, PartOfFile
  <2>2. PICK lo \in Nat : LineWell(lo)
    BY DEF LineInv
  <2>3. \E p \in 0 .. rLast : lines = LineTable[p]
    <3>1. CASE Skipping(lo)
      <4>1. LineTable[0] = <<>>
        BY LineTableGathers, GatheringStep DEF LineInv
      <4>2. 0 \in 0 .. rLast
        BY <2>1
      <4> QED
        BY <3>1, <4>1, <4>2 DEF Skipping
    <3>2. ASSUME NEW a \in Nat, InLine(lo, a) PROVE \E p \in 0 .. rLast : lines = LineTable[p]
      <4>1. a \in 0 .. rLast /\ lines = LineTable[a]
        BY <2>1, <3>2 DEF InLine, LineStart
      <4> QED
        BY <4>1
    <3>3. CASE AllReturned
      <4>1. rLast \in 0 .. rLast
        BY <2>1
      <4> QED
        BY <3>3, <4>1 DEF AllReturned
    <3> QED
      BY <2>2, <3>1, <3>2, <3>3 DEF LineWell
  <2>4. rPc = "over" => lines = LineTable[rLast]
    BY <2>2 DEF LineWell, Skipping, InLine, AllReturned
  <2> QED
    BY <2>3, <2>4, LinesToIs DEF LineRead!LinesOfPart
<1> QED
  BY <1>1, <1>2, LinesBegin, PTL DEF PartsSpec

-----------------------------------------------------------------------------
(***************************************************************************)
(* The reader of words                                                     *)
(***************************************************************************)

\* A text with words and gaps that fit into the buffer.
TextFile ==
  /\ wLength \in Nat /\ wSpaces \subseteq 1 .. wLength
  /\ WordRead!Legible(wLength, wSpaces)

\* WordsTo as a function.
WordTable ==
  CHOOSE to :
    to = [q \in 0 .. wLength |->
           IF q = 0 THEN <<>>
           ELSE IF q \in WordRead!Begins THEN Append(to[q - 1], WordRead!WordAt(q))
           ELSE to[q - 1]]

WordItems == [q \in 1 .. wLength |-> WordRead!WordAt(q)]
WordSet == {WordRead!WordAt(q) : q \in 1 .. wLength}

LEMMA WordsToIs == \A p : WordRead!WordsTo(p) = WordTable[p]
BY DEF WordRead!WordsTo, WordTable

LEMMA WordTableGathers ==
  ASSUME TextFile
  PROVE  /\ wLength \in Nat
         /\ WordItems \in [1 .. wLength -> WordSet]
         /\ Collects(WordTable, wLength, WordRead!Begins, WordItems)
<1> DEFINE ValueOfItem(q) == WordRead!WordAt(q)
           Value(f, q) == IF q = 0 THEN <<>>
                          ELSE IF q \in WordRead!Begins THEN Append(f[q - 1], ValueOfItem(q))
                          ELSE f[q - 1]
           IsTable(f) == f = [q \in 0 .. wLength |-> Value(f, q)]
           Collected(f, q) ==
             IF q = 0 THEN <<>>
             ELSE IF q \in WordRead!Begins THEN Append(f[q - 1], WordItems[q]) ELSE f[q - 1]
<1>1. wLength \in Nat
  BY DEF TextFile
<1>2. WordItems \in [1 .. wLength -> WordSet]
  BY DEF WordItems, WordSet
<1>3. ASSUME NEW f, NEW q \in 0 .. wLength PROVE Value(f, q) = Collected(f, q)
  <2>1. CASE q = 0
    BY <2>1
  <2>2. CASE q # 0
    <3>1. q \in 1 .. wLength
      BY <1>1, <2>2
    <3>2. WordItems[q] = ValueOfItem(q)
      BY <3>1 DEF WordItems
    <3> HIDE DEF ValueOfItem
    <3> QED
      BY <2>2, <3>2
  <2> QED
    BY <2>1, <2>2
<1>4. PICK f : Collects(f, wLength, WordRead!Begins, WordItems)
  BY <1>1, <1>2, GatheringExists
<1>5. IsTable(f)
  <2>1. f = [q \in 0 .. wLength |-> Collected(f, q)]
    BY <1>4 DEF Collects
  <2> HIDE DEF Value, Collected
  <2>2. [q \in 0 .. wLength |-> Collected(f, q)] = [q \in 0 .. wLength |-> Value(f, q)]
    BY <1>3
  <2> QED
    BY <2>1, <2>2
<1>6. WordTable = CHOOSE to : IsTable(to)
  BY DEF WordTable
<1>7. IsTable(WordTable)
  <2> HIDE DEF IsTable
  <2> QED
    BY <1>5, <1>6
<1>8. WordTable = [q \in 0 .. wLength |-> Collected(WordTable, q)]
  <2> HIDE DEF Value, Collected
  <2>1. [q \in 0 .. wLength |-> Collected(WordTable, q)]
          = [q \in 0 .. wLength |-> Value(WordTable, q)]
    BY <1>3
  <2> QED
    BY <1>7, <2>1
<1>9. Collects(WordTable, wLength, WordRead!Begins, WordItems)
  BY <1>8 DEF Collects
<1> QED
  BY <1>1, <1>2, <1>9

\* A character is whitespace or a letter.
LEMMA LettersAre ==
  ASSUME TextFile
  PROVE  /\ wLength \in Nat
         /\ \A k : k \in WordRead!Letters <=> k \in 1 .. wLength /\ k \notin wSpaces
         /\ \A k : k \in WordRead!Begins
                     <=> k \in WordRead!Letters /\ k - 1 \notin WordRead!Letters
         /\ \A k \in WordRead!Letters : k \in Nat /\ 1 <= k /\ k <= wLength
         /\ \A k \in wSpaces : k \in Nat /\ 1 <= k /\ k <= wLength
BY DEF TextFile, WordRead!Letters, WordRead!Begins

\* Where no word begins, none is added.
LEMMA NoWordAdded ==
  ASSUME TextFile, NEW a \in Nat, NEW b \in Nat, a <= b, b <= wLength,
         \A k \in a + 1 .. b : k \notin WordRead!Begins
  PROVE  WordTable[b] = WordTable[a]
<1>1. /\ wLength \in Nat /\ Collects(WordTable, wLength, WordRead!Begins, WordItems)
      /\ a \in 0 .. wLength /\ b \in 0 .. wLength
  BY WordTableGathers
<1> HIDE DEF WordTable
<1> QED
  BY <1>1, NothingGathered

\* A word is added where it begins, up to the next one.
LEMMA WordAdded ==
  ASSUME TextFile, NEW b \in WordRead!Begins, NEW c \in Nat, b <= c, c <= wLength,
         \A k \in b .. c - 1 : k \in WordRead!Letters
  PROVE  WordTable[c] = Append(WordTable[b - 1], WordRead!WordAt(b))
<1>1. b \in Nat /\ 1 <= b /\ b <= wLength /\ wLength \in Nat
  BY LettersAre
<1>2. ASSUME NEW k \in b + 1 .. c PROVE k \notin WordRead!Begins
  <2>1. k - 1 \in b .. c - 1
    BY <1>1
  <2> QED
    BY <2>1, LettersAre
<1>3. WordTable[c] = WordTable[b]
  BY <1>1, <1>2, NoWordAdded
<1>4. b \in 1 .. wLength /\ WordItems[b] = WordRead!WordAt(b)
  BY <1>1 DEF WordItems
<1>5. Collects(WordTable, wLength, WordRead!Begins, WordItems)
  BY WordTableGathers
<1> HIDE DEF WordTable, WordItems
<1>6. WordTable[b] = Append(WordTable[b - 1], WordItems[b])
  BY <1>1, <1>4, <1>5, GatheringStep
<1> QED
  BY <1>3, <1>4, <1>6

\* The word that begins at a letter.
LEMMA WordAtIs ==
  ASSUME TextFile, NEW b \in Nat, NEW e \in WordRead!Letters, b <= e,
         \A k \in b .. e : k \in WordRead!Letters, e + 1 \notin WordRead!Letters
  PROVE  WordRead!WordAt(b) = [j \in 1 .. e - b + 1 |-> b + j - 1]
<1> DEFINE Ends(x) == x \in WordRead!Letters /\ b <= x /\ b .. x \subseteq WordRead!Letters
                      /\ x + 1 \notin WordRead!Letters
           y == CHOOSE x \in WordRead!Letters :
                  b <= x /\ b .. x \subseteq WordRead!Letters /\ x + 1 \notin WordRead!Letters
<1>1. Ends(e)
  OBVIOUS
<1>2. Ends(y)
  BY <1>1
<1>3. e \in Nat /\ y \in Nat
  BY <1>2, LettersAre
<1>4. WordRead!WordAt(b) = [j \in 1 .. y - b + 1 |-> b + j - 1]
  BY DEF WordRead!WordAt
<1> HIDE DEF y
<1>5. y = e
  <2>1. ~(y < e)
    <3> SUFFICES ASSUME y < e PROVE FALSE
      OBVIOUS
    <3>1. y + 1 \in b .. e
      BY <1>2, <1>3
    <3> QED
      BY <1>2, <3>1
  <2>2. ~(e < y)
    <3> SUFFICES ASSUME e < y PROVE FALSE
      OBVIOUS
    <3>1. e + 1 \in b .. y
      BY <1>1, <1>3
    <3> QED
      BY <1>1, <1>2, <3>1
  <2> QED
    BY <1>3, <2>1, <2>2
<1> QED
  BY <1>4, <1>5

\* A buffer's length of letters, or of whitespace, is nowhere in the text.
LEMMA WindowIsMixed ==
  ASSUME TextFile, NEW g \in Nat, g + BufSize <= wLength
  PROVE  /\ \E k \in 0 .. BufSize - 1 : g + k + 1 \in WordRead!Letters
         /\ \E k \in 0 .. BufSize - 1 : g + k + 1 \in wSpaces
<1>1. wLength \in Nat /\ BufSize \in Nat \ {0} /\ wSpaces \subseteq 1 .. wLength
  BY ReadersAssumption DEF TextFile
<1> DEFINE window == g + 1 .. g + BufSize
<1>2. g \in 0 .. wLength - BufSize
  BY <1>1
<1>3. window \cap wSpaces \notin {{}, window}
  BY <1>2 DEF TextFile, WordRead!Legible
<1>4. PICK s \in window : s \in wSpaces
  BY <1>3
<1>5. PICK l \in window : l \notin wSpaces
  BY <1>3
<1>6. l \in WordRead!Letters
  <2>1. l \in 1 .. wLength
    BY <1>1
  <2> QED
    BY <1>5, <2>1, LettersAre
<1>7. /\ s - g - 1 \in 0 .. BufSize - 1 /\ g + (s - g - 1) + 1 = s
      /\ l - g - 1 \in 0 .. BufSize - 1 /\ g + (l - g - 1) + 1 = l
  BY <1>1
<1> QED
  BY <1>4, <1>6, <1>7

\* The buffer has the characters of the text behind the first g of them; a terminator
\* was written only before the place lo.  It is full but at the end of the text.
Held(g, lo) ==
  /\ wEnd \in 0 .. BufSize /\ wPos = g + wEnd /\ wPos <= wLength
  /\ wEof \in BOOLEAN
  /\ wEof => wPos = wLength
  /\ ~wEof => wEnd = BufSize \/ wPos = 0
  /\ DOMAIN wBuf = 0 .. BufSize
  /\ \A k \in 0 .. wEnd - 1 : wBuf[k] = g + k + 1 \/ (k < lo /\ wBuf[k] = Zero)

\* Between words,
Between(g) ==
  /\ wPc = "skip"
  /\ Held(g, wI) /\ wI \in 0 .. wEnd
  /\ g + wI = 0 \/ g + wI \in wSpaces
  /\ words = WordTable[g + wI]

\* before a word,
BeforeWord(g) ==
  /\ wPc = "ready"
  /\ Held(g, wI) /\ wI \in 0 .. wEnd - 1
  /\ g + wI + 1 \in WordRead!Begins
  /\ words = WordTable[g + wI]

\* within one,
WithinWord(g) ==
  /\ wPc = "word"
  /\ Held(g, wStart) /\ wStart \in 0 .. wEnd - 1 /\ wI \in wStart .. wEnd
  /\ g + wStart + 1 \in WordRead!Begins
  /\ \A k \in g + wStart + 1 .. g + wI : k \in WordRead!Letters
  /\ words = WordTable[g + wStart]

\* and behind it.
BehindWord(g) ==
  /\ wPc = "take"
  /\ Held(g, wStart) /\ wStart \in 0 .. wEnd - 1 /\ wI \in wStart + 1 .. wEnd - 1
  /\ g + wStart + 1 \in WordRead!Begins
  /\ \A k \in g + wStart + 1 .. g + wI : k \in WordRead!Letters
  /\ g + wI + 1 \in wSpaces
  /\ words = WordTable[g + wStart]

\* All words were handed out,
AllTaken == wPc = "ready" /\ wI >= wEnd /\ wEof /\ words = WordTable[wLength]

\* or they were, and a letter that is left in the buffer is not yet reached,
LookingBehind ==
  /\ wPc = "skip"
  /\ wEof /\ wEnd = 0 /\ wI \in 1 .. BufSize
  /\ DOMAIN wBuf = 0 .. BufSize
  /\ \E k \in wI .. BufSize - 1 : wBuf[k] \notin wSpaces \cup {Junk}
  /\ words = WordTable[wLength]

\* or the text ended within a word, and all before it were handed out.
RightButLast(ws) ==
  /\ \E S : ws \in Seq(S)
  /\ Len(WordTable[wLength]) <= Len(ws) + 1
  /\ \A k \in 1 .. Len(ws) :
       k < Len(WordTable[wLength]) => ws[k] = WordTable[wLength][k]
EndedWithin == wLength \notin wSpaces /\ RightButLast(words)

WordState ==
  \/ \E g \in Nat : Between(g) \/ BeforeWord(g) \/ WithinWord(g) \/ BehindWord(g)
  \/ AllTaken \/ LookingBehind \/ EndedWithin

WordInv == TextFile /\ WordState

LEMMA TextKept ==
  ASSUME wLength' = wLength, wSpaces' = wSpaces
  PROVE  /\ WordTable' = WordTable
         /\ WordRead!Letters' = WordRead!Letters /\ WordRead!Begins' = WordRead!Begins
         /\ TextFile' <=> TextFile
<1>1. WordRead!Letters' = WordRead!Letters /\ WordRead!Begins' = WordRead!Begins
  BY DEF WordRead!Letters, WordRead!Begins
<1>2. WordTable' = WordTable
  BY DEF WordTable, WordRead!Begins, WordRead!WordAt, WordRead!Letters
<1>3. TextFile' <=> TextFile
  BY DEF TextFile
<1> QED
  BY <1>1, <1>2, <1>3

\* A character of the text is whitespace or is not.
LEMMA CharacterIs ==
  ASSUME NEW c, c # Junk
  PROVE  /\ TRUE \in WordRead!IsSpace(c) <=> c \in wSpaces
         /\ FALSE \in WordRead!IsSpace(c) <=> c \notin wSpaces
BY DEF WordRead!IsSpace

LEMMA NumberIsNoJunk == \A n \in Nat : n # Junk
BY RowsAssumption

LEMMA ZeroIsNoSpace ==
  ASSUME TextFile
  PROVE  Zero \notin wSpaces \cup {Junk}
<1>1. wSpaces \subseteq Nat
  BY LettersAre
<1> QED
  BY <1>1, ReadersAssumption

\* fillBuffer_() keeps what is in the buffer from a place on and reads behind it, if
\* there is more.
LEMMA FillHolds ==
  ASSUME TextFile, NEW g \in Nat, NEW from \in Nat, Held(g, from), from <= wEnd,
         WordRead!FillBuffer(from), wEnd - from < BufSize, wPos < wLength, ~wEof,
         wLength' = wLength
  PROVE  /\ Held(g + from, 0)'
         /\ wEnd - from < wEnd'
         /\ wBuf'[wEnd - from] = wPos + 1
<1>1. PICK n \in Nat, kept \in Nat :
        /\ kept = wEnd - from
        /\ n = IF BufSize - kept < wLength - wPos THEN BufSize - kept ELSE wLength - wPos
        /\ n > 0
  <2>1. /\ wLength \in Nat /\ BufSize \in Nat /\ wEnd \in Nat /\ wPos \in Nat
        /\ wEnd - from \in Nat /\ BufSize - (wEnd - from) \in Nat /\ wLength - wPos \in Nat
    BY ReadersAssumption DEF TextFile, Held
  <2> QED
    BY <2>1
<1>2. /\ wBuf' = [k \in DOMAIN wBuf |->
                   IF k < kept THEN wBuf[from + k]
                   ELSE IF k < kept + n THEN wPos + k - kept + 1
                   ELSE wBuf[k]]
      /\ wEnd' = kept + n /\ wPos' = wPos + n /\ wEof' = (wEof \/ n < BufSize - kept)
  BY <1>1 DEF WordRead!FillBuffer
<1>3. /\ wLength \in Nat /\ BufSize \in Nat /\ wEnd \in Nat /\ wPos = g + wEnd
      /\ wEnd <= BufSize /\ wPos < wLength /\ DOMAIN wBuf = 0 .. BufSize
      /\ \A k \in from .. wEnd - 1 : wBuf[k] = g + k + 1
  BY ReadersAssumption DEF TextFile, Held
<1>4. kept + n \in 0 .. BufSize /\ wPos + n <= wLength /\ wPos + n = g + from + (kept + n)
  BY <1>1, <1>3
<1>5. /\ wEof' \in BOOLEAN
      /\ wEof' => wPos + n = wLength
      /\ ~wEof' => kept + n = BufSize
  <2>1. wEof' \in BOOLEAN /\ (wEof' <=> n < BufSize - kept)
    <3>1. wEof' = (wEof \/ n < BufSize - kept)
      BY <1>2
    <3> QED
      BY <3>1, Zenon
  <2>2. n < BufSize - kept => wPos + n = wLength
    BY <1>1, <1>3
  <2>3. ~(n < BufSize - kept) => kept + n = BufSize
    BY <1>1, <1>3
  <2> QED
    BY <2>1, <2>2, <2>3, Zenon
<1>6. DOMAIN wBuf' = 0 .. BufSize
  BY <1>2, <1>3
<1>7. ASSUME NEW k \in 0 .. (kept + n) - 1 PROVE wBuf'[k] = (g + from) + k + 1
  <2>1. k \in DOMAIN wBuf
    BY <1>3, <1>4
  <2>2. CASE k < kept
    <3>1. from + k \in from .. wEnd - 1
      <4>1. k \in Nat /\ k < wEnd - from
        BY <1>1, <2>2
      <4> QED
        BY <1>3, <4>1
    <3>2. wBuf'[k] = wBuf[from + k]
      BY <1>2, <2>1, <2>2
    <3> QED
      BY <1>3, <3>1, <3>2
  <2>3. CASE ~(k < kept)
    <3>1. wBuf'[k] = wPos + k - kept + 1
      BY <1>2, <2>1, <2>3
    <3> QED
      BY <1>1, <1>3, <3>1
  <2> QED
    BY <2>2, <2>3
<1>8. Held(g + from, 0)'
  <2>1. \A k \in 0 .. wEnd' - 1 : wBuf'[k] = (g + from) + k + 1
    BY <1>2, <1>7
  <2> QED
    BY <1>2, <1>4, <1>5, <1>6, <2>1 DEF Held
<1>9. wBuf'[kept] = wPos + 1
  <2>1. kept \in 0 .. (kept + n) - 1 /\ (g + from) + kept + 1 = wPos + 1
    BY <1>1, <1>3
  <2> QED
    BY <1>7, <2>1
<1> QED
  BY <1>1, <1>2, <1>8, <1>9

\* Words that were handed out up to a character are the first ones of the text.
LEMMA WordsBefore ==
  ASSUME TextFile, NEW a \in Nat, a <= wLength
  PROVE  Prolongs(WordTable[wLength], WordTable[a], WordSet)
<1>1. /\ wLength \in Nat /\ WordItems \in [1 .. wLength -> WordSet]
      /\ Collects(WordTable, wLength, WordRead!Begins, WordItems)
      /\ a \in 0 .. wLength /\ wLength \in 0 .. wLength
  BY WordTableGathers
<1> HIDE DEF WordTable, WordItems, WordSet
<1> QED
  BY <1>1, GatheredBefore

\* A word that ends only with the text is the last one.
LEMMA LastWordCut ==
  ASSUME TextFile, NEW b \in WordRead!Begins, \A k \in b .. wLength : k \in WordRead!Letters
  PROVE  wLength \notin wSpaces /\ RightButLast(WordTable[b - 1])
<1>1. b \in Nat /\ 1 <= b /\ b <= wLength /\ wLength \in Nat
  BY LettersAre
<1>2. wLength \notin wSpaces
  <2>1. wLength \in b .. wLength
    BY <1>1
  <2> QED
    BY <2>1, LettersAre
<1>3. WordTable[wLength] = Append(WordTable[b - 1], WordRead!WordAt(b))
  <2>1. \A k \in b .. wLength - 1 : k \in b .. wLength
    BY <1>1
  <2> QED
    BY <1>1, <2>1, WordAdded
<1>4. WordTable[b - 1] \in Seq(WordSet) /\ WordRead!WordAt(b) \in WordSet
  <2>1. b - 1 \in Nat /\ b - 1 <= wLength
    BY <1>1
  <2>2. b \in 1 .. wLength
    BY <1>1
  <2> QED
    BY <2>1, <2>2, WordsBefore DEF WordSet, Prolongs
<1>5. PICK s, t, w : /\ s = WordTable[b - 1] /\ t = WordTable[wLength]
                     /\ w = WordRead!WordAt(b)
  OBVIOUS
<1>6. /\ t = Append(s, w) /\ s \in Seq(WordSet) /\ w \in WordSet
  BY <1>3, <1>4, <1>5
<1>7. Len(t) <= Len(s) + 1 /\ \A k \in 1 .. Len(s) : k < Len(t) => s[k] = t[k]
  BY <1>6
<1> HIDE DEF WordTable, WordSet
<1>8. RightButLast(s)
  BY <1>5, <1>6, <1>7 DEF RightButLast
<1> QED
  BY <1>2, <1>5, <1>8

LEMMA AllButLastStays ==
  ASSUME TextFile, NEW ws, RightButLast(ws), NEW x
  PROVE  RightButLast(Append(ws, x))
<1>1. PICK S : ws \in Seq(S)
  BY DEF RightButLast
<1>2. PICK V : V = S \cup {x}
  OBVIOUS
<1>3. ws \in Seq(V) /\ x \in V
  BY <1>1, <1>2
<1>4. /\ Append(ws, x) \in Seq(V) /\ Len(Append(ws, x)) = Len(ws) + 1 /\ Len(ws) \in Nat
      /\ \A k \in 1 .. Len(ws) : Append(ws, x)[k] = ws[k]
  BY <1>3
<1>5. PICK u : u = Append(ws, x)
  OBVIOUS
<1>6. PICK t : t = WordTable[wLength] /\ Len(t) \in Nat
  <2>1. wLength \in Nat /\ wLength <= wLength
    BY LettersAre
  <2>2. WordTable[wLength] \in Seq(WordSet)
    BY <2>1, WordsBefore DEF Prolongs
  <2> QED
    BY <2>2
<1>7. Len(t) <= Len(ws) + 1 /\ \A k \in 1 .. Len(ws) : k < Len(t) => ws[k] = t[k]
  BY <1>6 DEF RightButLast
<1>8. ASSUME NEW k \in 1 .. Len(u), k < Len(t) PROVE u[k] = t[k]
  <2>1. k \in 1 .. Len(ws)
    BY <1>4, <1>5, <1>6, <1>7, <1>8
  <2> QED
    BY <1>4, <1>5, <1>7, <1>8, <2>1
<1>9. Len(t) <= Len(u) + 1 /\ u \in Seq(V)
  BY <1>4, <1>5, <1>6, <1>7
<1> HIDE DEF WordTable
<1>10. RightButLast(u)
  BY <1>6, <1>8, <1>9 DEF RightButLast
<1> QED
  BY <1>5, <1>10

LEMMA EndedStays ==
  ASSUME TextFile, EndedWithin, wLength' = wLength, wSpaces' = wSpaces,
         words' = words \/ \E x : words' = Append(words, x)
  PROVE  EndedWithin'
<1>1. WordTable' = WordTable
  BY TextKept
<1> HIDE DEF WordTable
<1>2. PICK ws : ws = words' /\ RightButLast(ws)
  BY AllButLastStays DEF EndedWithin
<1>3. RightButLast(ws)'
  BY <1>1, <1>2 DEF RightButLast
<1> QED
  BY <1>2, <1>3 DEF EndedWithin

LEMMA SkipEndsState ==
  ASSUME TextFile, WordState, ~EndedWithin, WordRead!SkipEnds
  PROVE  WordState'
<1>1. /\ wPc = "skip" /\ wI = wEnd /\ wEof
      /\ wPc' = "ready" /\ wLength' = wLength /\ wSpaces' = wSpaces
      /\ wEnd' = wEnd /\ wI' = wI /\ wEof' = wEof /\ words' = words
  BY DEF WordRead!SkipEnds
<1>2. ~LookingBehind
  BY <1>1 DEF LookingBehind
<1>3. PICK g \in Nat : Between(g)
  BY <1>1, <1>2 DEF WordState, BeforeWord, WithinWord, BehindWord, AllTaken
<1>4. words = WordTable[wLength] /\ wEnd \in Nat
  <2>1. wPos = wLength /\ wPos = g + wEnd /\ wEnd \in 0 .. BufSize
    BY <1>1, <1>3 DEF Between, Held
  <2> QED
    BY <1>1, <1>3, <2>1, ReadersAssumption DEF Between
<1>5. WordTable' = WordTable
  BY <1>1, TextKept
<1> HIDE DEF WordTable
<1>6. AllTaken'
  BY <1>1, <1>4, <1>5 DEF AllTaken
<1> QED
  BY <1>6 DEF WordState

LEMMA BeginState ==
  ASSUME TextFile, WordState, ~EndedWithin, WordRead!Begin
  PROVE  WordState'
<1>1. /\ wPc = "ready" /\ ~(wI >= wEnd /\ wEof)
      /\ wPc' = (IF wI < wEnd /\ FALSE \in WordRead!IsSpace(wBuf[wI]) THEN "word" ELSE "broken")
      /\ wStart' = wI /\ wLength' = wLength /\ wSpaces' = wSpaces /\ wPos' = wPos
      /\ wEnd' = wEnd /\ wI' = wI /\ wEof' = wEof /\ wBuf' = wBuf /\ words' = words
  BY DEF WordRead!Begin, WordRead!Done
<1>2. PICK g \in Nat : BeforeWord(g)
  BY <1>1 DEF WordState, Between, WithinWord, BehindWord, AllTaken, LookingBehind
<1>3. /\ wI \in 0 .. wEnd - 1 /\ Held(g, wI) /\ g + wI + 1 \in WordRead!Begins
      /\ words = WordTable[g + wI] /\ wEnd \in Nat
  BY <1>2, ReadersAssumption DEF BeforeWord, Held
<1>4. wPc' = "word"
  <2>1. wBuf[wI] = g + wI + 1
    BY <1>3 DEF Held
  <2>2. wBuf[wI] # Junk /\ wBuf[wI] \notin wSpaces
    BY <1>3, <2>1, LettersAre, NumberIsNoJunk
  <2>3. FALSE \in WordRead!IsSpace(wBuf[wI])
    BY <2>2, CharacterIs
  <2> QED
    BY <1>1, <1>3, <2>3
<1>5. WordTable' = WordTable /\ WordRead!Begins' = WordRead!Begins
      /\ WordRead!Letters' = WordRead!Letters
  BY <1>1, TextKept
<1>6. PICK i \in Nat : i = wI
  BY <1>3
<1> HIDE DEF WordTable
<1>7. Held(g, i)'
  BY <1>1, <1>3, <1>6 DEF Held
<1>8. g + i + 1 .. g + i = {}
  OBVIOUS
<1>9. WithinWord(g)'
  <2>1. i \in 0 .. wEnd - 1 /\ i \in i .. wEnd /\ g + i + 1 \in WordRead!Begins
        /\ words = WordTable[g + i]
    BY <1>3, <1>6
  <2>2. wStart' = i /\ wI' = i /\ wEnd' = wEnd
    BY <1>1, <1>6
  <2> QED
    BY <1>1, <1>4, <1>5, <1>7, <1>8, <2>1, <2>2 DEF WithinWord
<1> QED
  BY <1>9 DEF WordState

LEMMA TakeState ==
  ASSUME TextFile, WordState, ~EndedWithin, WordRead!Take
  PROVE  WordState'
<1>1. /\ wPc = "take" /\ wLength' = wLength /\ wSpaces' = wSpaces
      /\ \/ wI \notin DOMAIN wBuf
         \/ /\ wBuf' = [wBuf EXCEPT ![wI] = Zero]
            /\ words' = Append(words, [k \in 1 .. wI - wStart |-> wBuf[wStart + k - 1]])
            /\ wI' = wI + 1 /\ wPc' = "skip"
            /\ wPos' = wPos /\ wEof' = wEof /\ wEnd' = wEnd /\ wStart' = wStart
  BY DEF WordRead!Take, WordRead!Break, WordRead!InBuffer
<1>2. PICK g \in Nat : BehindWord(g)
  BY <1>1 DEF WordState, Between, BeforeWord, WithinWord, AllTaken, LookingBehind
<1>3. /\ wEnd \in Nat /\ BufSize \in Nat /\ wEnd <= BufSize /\ wStart \in Nat /\ wI \in Nat
      /\ wStart < wI /\ wI < wEnd /\ Held(g, wStart) /\ wPos = g + wEnd /\ wPos <= wLength
      /\ DOMAIN wBuf = 0 .. BufSize /\ wLength \in Nat
      /\ g + wStart + 1 \in WordRead!Begins
      /\ \A k \in g + wStart + 1 .. g + wI : k \in WordRead!Letters
      /\ g + wI + 1 \in wSpaces
      /\ words = WordTable[g + wStart]
  BY <1>2, ReadersAssumption DEF BehindWord, Held, TextFile
<1>4. PICK i \in Nat, from \in Nat, b \in Nat, e \in Nat :
        i = wI /\ from = wStart /\ b = g + from + 1 /\ e = g + i
  BY <1>3
<1>5. /\ wBuf' = [wBuf EXCEPT ![i] = Zero]
      /\ words' = Append(words, [k \in 1 .. i - from |-> wBuf[from + k - 1]])
      /\ wI' = i + 1 /\ wPc' = "skip"
      /\ wPos' = wPos /\ wEof' = wEof /\ wEnd' = wEnd
  BY <1>1, <1>3, <1>4
<1>6. /\ b \in WordRead!Begins /\ \A k \in b .. e : k \in WordRead!Letters
      /\ e + 1 \in wSpaces /\ b <= e /\ e + 1 <= wLength /\ words = WordTable[b - 1]
  BY <1>3, <1>4
<1>7. [k \in 1 .. i - from |-> wBuf[from + k - 1]] = WordRead!WordAt(b)
  <2>1. e \in WordRead!Letters /\ e + 1 \notin WordRead!Letters
    <3>1. e \in b .. e
      BY <1>6
    <3> QED
      BY <1>6, <3>1, LettersAre
  <2>2. WordRead!WordAt(b) = [j \in 1 .. e - b + 1 |-> b + j - 1]
    BY <1>6, <2>1, WordAtIs
  <2>3. i - from = e - b + 1
    BY <1>4
  <2>4. ASSUME NEW k \in 1 .. i - from PROVE wBuf[from + k - 1] = b + k - 1
    <3>1. from + k - 1 \in 0 .. wEnd - 1 /\ ~(from + k - 1 < from)
      BY <1>3, <1>4
    <3>2. wBuf[from + k - 1] = g + (from + k - 1) + 1
      BY <1>3, <1>4, <3>1 DEF Held
    <3> QED
      BY <1>4, <3>2
  <2> QED
    BY <2>2, <2>3, <2>4
<1>8. words' = WordTable[e + 1]
  <2>1. \A k \in b .. (e + 1) - 1 : k \in WordRead!Letters
    BY <1>6
  <2>2. WordTable[e + 1] = Append(WordTable[b - 1], WordRead!WordAt(b))
    BY <1>6, <2>1, WordAdded
  <2> QED
    BY <1>5, <1>6, <1>7, <2>2
<1>9. Held(g, i + 1)'
  <2>1. DOMAIN wBuf' = 0 .. BufSize
    BY <1>3, <1>5
  <2>2. ASSUME NEW k \in 0 .. wEnd - 1
        PROVE  wBuf'[k] = g + k + 1 \/ (k < i + 1 /\ wBuf'[k] = Zero)
    <3>1. k \in DOMAIN wBuf
      BY <1>3
    <3>2. CASE k = i
      BY <1>5, <3>1, <3>2
    <3>3. CASE k # i
      <4>1. wBuf'[k] = wBuf[k]
        BY <1>5, <3>1, <3>3
      <4>2. wBuf[k] = g + k + 1 \/ (k < from /\ wBuf[k] = Zero)
        BY <1>3, <1>4 DEF Held
      <4>3. k < from => k < i + 1
        BY <1>3, <1>4
      <4> QED
        BY <4>1, <4>2, <4>3
    <3> QED
      BY <3>2, <3>3
  <2> QED
    BY <1>1, <1>3, <1>5, <2>1, <2>2 DEF Held
<1>10. WordTable' = WordTable
  BY <1>1, TextKept
<1> HIDE DEF WordTable
<1>11. Between(g)'
  <2>1. i + 1 \in 0 .. wEnd /\ g + (i + 1) = e + 1
    BY <1>3, <1>4
  <2> QED
    BY <1>1, <1>5, <1>6, <1>8, <1>9, <1>10, <2>1 DEF Between
<1> QED
  BY <1>11 DEF WordState

LEMMA ReadEndsState ==
  ASSUME TextFile, WordState, ~EndedWithin, WordRead!ReadEnds
  PROVE  WordState'
<1>1. /\ wPc = "word" /\ wI = wEnd /\ wEof
      /\ wLength' = wLength /\ wSpaces' = wSpaces /\ words' = words
  BY DEF WordRead!ReadEnds
<1>2. PICK g \in Nat : WithinWord(g)
  BY <1>1 DEF WordState, Between, BeforeWord, BehindWord, AllTaken, LookingBehind
<1>3. /\ g + wStart + 1 \in WordRead!Begins /\ g + wI = wLength /\ wStart \in Nat
      /\ \A k \in g + wStart + 1 .. g + wI : k \in WordRead!Letters
      /\ words = WordTable[g + wStart]
  BY <1>1, <1>2, ReadersAssumption DEF WithinWord, Held
<1>4. (g + wStart + 1) - 1 = g + wStart
  BY <1>3
<1>5. wLength \notin wSpaces /\ RightButLast(words)
  BY <1>3, <1>4, LastWordCut
<1>6. EndedWithin
  BY <1>5 DEF EndedWithin
<1> QED
  BY <1>6

\* The character that Skip and Read look at.
LEMMA CharacterRead ==
  ASSUME TextFile, NEW g \in Nat, NEW lo \in Nat, Held(g, lo),
         NEW i \in Nat, lo <= i, i < wEnd
  PROVE  /\ wBuf[i] = g + i + 1 /\ g + i + 1 \in 1 .. wLength
         /\ TRUE \in WordRead!IsSpace(wBuf[i]) => g + i + 1 \in wSpaces
         /\ FALSE \in WordRead!IsSpace(wBuf[i]) => g + i + 1 \in WordRead!Letters
<1>1. wEnd \in Nat /\ wPos = g + wEnd /\ wPos <= wLength /\ wLength \in Nat
  BY ReadersAssumption DEF Held, TextFile
<1>2. i \in 0 .. wEnd - 1 /\ ~(i < lo)
  BY <1>1
<1>3. wBuf[i] = g + i + 1
  BY <1>2 DEF Held
<1>4. g + i + 1 \in 1 .. wLength /\ g + i + 1 \in Nat
  BY <1>1
<1>5. wBuf[i] # Junk
  BY <1>3, <1>4, NumberIsNoJunk
<1> QED
  BY <1>3, <1>4, <1>5, CharacterIs, LettersAre

\* Skip ends behind the character it looks at, if that is whitespace, or before it.
LEMMA SkipIs ==
  ASSUME WordRead!Skip
  PROVE  /\ wPc = "skip" /\ ~(wI = wEnd /\ wEof)
         /\ wLength' = wLength /\ wSpaces' = wSpaces
         /\ wI \in DOMAIN wBuf =>
              /\ IF wI = wEnd THEN WordRead!FillBuffer(wI)
                 ELSE wBuf' = wBuf /\ wEnd' = wEnd /\ wPos' = wPos /\ wEof' = wEof
              /\ words' = words
              /\ \E at : /\ at = IF wI = wEnd THEN 0 ELSE wI
                         /\ \/ /\ TRUE \in WordRead!IsSpace(wBuf'[at])
                               /\ wI' = at + 1 /\ wPc' = "skip"
                            \/ /\ FALSE \in WordRead!IsSpace(wBuf'[at])
                               /\ wI' = at /\ wPc' = "ready"
BY DEF WordRead!Skip, WordRead!Break, WordRead!InBuffer, WordRead!NoFill

\* Behind whitespace, or at the start of the text, a letter begins a word.
LEMMA AfterSpace ==
  ASSUME TextFile, NEW p \in Nat, p = 0 \/ p \in wSpaces, p + 1 \in 1 .. wLength
  PROVE  /\ p + 1 \in WordRead!Letters => p + 1 \in WordRead!Begins
         /\ p + 1 \in wSpaces => WordTable[p + 1] = WordTable[p]
<1>1. (p + 1) - 1 = p /\ p \notin WordRead!Letters /\ wLength \in Nat
  BY LettersAre
<1>2. p + 1 \in WordRead!Letters => p + 1 \in WordRead!Begins
  BY <1>1, LettersAre
<1>3. ASSUME p + 1 \in wSpaces PROVE WordTable[p + 1] = WordTable[p]
  <2>1. \A k \in p + 1 .. p + 1 : k \notin WordRead!Begins
    BY <1>3, LettersAre
  <2>2. p + 1 \in Nat /\ p <= p + 1 /\ p + 1 <= wLength
    BY <1>1
  <2> QED
    BY <2>1, <2>2, NoWordAdded
<1> QED
  BY <1>2, <1>3

\* The next character of the text in the skipping of whitespace.
SkipLooksAt(at) ==
  \/ TRUE \in WordRead!IsSpace(wBuf[at]) /\ wI = at + 1 /\ wPc = "skip"
  \/ FALSE \in WordRead!IsSpace(wBuf[at]) /\ wI = at /\ wPc = "ready"
SkipsTo(g, at) ==
  /\ TextFile /\ Held(g, at) /\ at < wEnd
  /\ g + at = 0 \/ g + at \in wSpaces
  /\ words = WordTable[g + at]
  /\ SkipLooksAt(at)

LEMMA SkipGoesOn == \A g \in Nat, i \in Nat : SkipsTo(g, i) => WordState
<1> SUFFICES ASSUME NEW g \in Nat, NEW i \in Nat, SkipsTo(g, i) PROVE WordState
  OBVIOUS
<1>0. /\ TextFile /\ i < wEnd /\ Held(g, i) /\ (g + i = 0 \/ g + i \in wSpaces)
      /\ words = WordTable[g + i]
      /\ \/ TRUE \in WordRead!IsSpace(wBuf[i]) /\ wI = i + 1 /\ wPc = "skip"
         \/ FALSE \in WordRead!IsSpace(wBuf[i]) /\ wI = i /\ wPc = "ready"
  BY DEF SkipsTo, SkipLooksAt
<1>1. wEnd \in Nat /\ i <= i
  BY <1>0, ReadersAssumption DEF Held
<1>2. /\ g + i + 1 \in 1 .. wLength
      /\ TRUE \in WordRead!IsSpace(wBuf[i]) => g + i + 1 \in wSpaces
      /\ FALSE \in WordRead!IsSpace(wBuf[i]) => g + i + 1 \in WordRead!Letters
  BY <1>0, <1>1, CharacterRead
<1>3. PICK p \in Nat : p = g + i
  OBVIOUS
<1>4. /\ p + 1 \in WordRead!Letters => p + 1 \in WordRead!Begins
      /\ p + 1 \in wSpaces => WordTable[p + 1] = WordTable[p]
  BY <1>0, <1>2, <1>3, AfterSpace
<1>5. CASE TRUE \in WordRead!IsSpace(wBuf[i]) /\ wI = i + 1 /\ wPc = "skip"
  <2>1. Held(g, i + 1)
    <3>1. \A k \in 0 .. wEnd - 1 : k < i => k < i + 1
      BY <1>1
    <3> QED
      BY <1>0, <3>1 DEF Held
  <2>2. wI \in 0 .. wEnd /\ g + wI = p + 1
    BY <1>0, <1>1, <1>3, <1>5
  <2>3. p + 1 \in wSpaces /\ words = WordTable[p + 1]
    BY <1>0, <1>2, <1>3, <1>4, <1>5
  <2> HIDE DEF WordTable
  <2>4. Between(g)
    BY <1>5, <2>1, <2>2, <2>3 DEF Between
  <2> QED
    BY <2>4 DEF WordState
<1>6. CASE FALSE \in WordRead!IsSpace(wBuf[i]) /\ wI = i /\ wPc = "ready"
  <2>1. wI \in 0 .. wEnd - 1 /\ g + wI + 1 = p + 1 /\ g + wI = p
    BY <1>0, <1>1, <1>3, <1>6
  <2>2. g + wI + 1 \in WordRead!Begins /\ words = WordTable[g + wI]
    BY <1>0, <1>2, <1>3, <1>4, <1>6, <2>1
  <2>3. BeforeWord(g)
    BY <1>0, <1>6, <2>1, <2>2 DEF BeforeWord
  <2> QED
    BY <2>3 DEF WordState
<1> QED
  BY <1>0, <1>5, <1>6

\* A full buffer has a letter or a terminator.
LEMMA LetterIsLeft ==
  ASSUME TextFile, NEW g \in Nat, NEW lo \in Nat, Held(g, lo), wEnd = BufSize
  PROVE  \E k \in 0 .. BufSize - 1 : wBuf[k] \notin wSpaces \cup {Junk}
<1>1. g + BufSize <= wLength
  BY DEF Held
<1>2. PICK k \in 0 .. BufSize - 1 : g + k + 1 \in WordRead!Letters
  BY <1>1, WindowIsMixed
<1>3. k \in 0 .. wEnd - 1
  OBVIOUS
<1>4. wBuf[k] = g + k + 1 \/ wBuf[k] = Zero
  BY <1>3 DEF Held
<1>5. g + k + 1 \notin wSpaces \cup {Junk}
  BY <1>2, LettersAre, NumberIsNoJunk
<1> QED
  BY <1>4, <1>5, ZeroIsNoSpace

\* Behind the end of a text that was read to the end only what is left is looked at.
LooksBehindAt(at) ==
  /\ DOMAIN wBuf = 0 .. BufSize
  /\ \E k \in at .. BufSize - 1 : wBuf[k] \notin wSpaces \cup {Junk}
  /\ wEof /\ wEnd = 0
  /\ words = WordTable[wLength]
  /\ SkipLooksAt(at)

LEMMA LookingGoesOn == \A at \in Nat : LooksBehindAt(at) => WordState
<1> SUFFICES ASSUME NEW at \in Nat, LooksBehindAt(at) PROVE WordState
  OBVIOUS
<1>1. BufSize \in Nat
  BY ReadersAssumption
<1>2. PICK k \in at .. BufSize - 1 : wBuf[k] \notin wSpaces \cup {Junk}
  BY DEF LooksBehindAt
<1>3. CASE TRUE \in WordRead!IsSpace(wBuf[at]) /\ wI = at + 1 /\ wPc = "skip"
  <2>1. at # k
    BY <1>2, <1>3, CharacterIs
  <2>2. k \in at + 1 .. BufSize - 1 /\ at + 1 \in 1 .. BufSize
    BY <1>1, <1>2, <2>1
  <2> HIDE DEF WordTable
  <2>3. LookingBehind
    BY <1>2, <1>3, <2>2 DEF LooksBehindAt, LookingBehind
  <2> QED
    BY <2>3 DEF WordState
<1>4. CASE FALSE \in WordRead!IsSpace(wBuf[at]) /\ wI = at /\ wPc = "ready"
  <2>1. wI >= wEnd
    BY <1>4 DEF LooksBehindAt
  <2> HIDE DEF WordTable
  <2>2. AllTaken
    BY <1>4, <2>1 DEF LooksBehindAt, AllTaken
  <2> QED
    BY <2>2 DEF WordState
<1> QED
  BY <1>3, <1>4 DEF LooksBehindAt, SkipLooksAt

LEMMA SkipState ==
  ASSUME TextFile, WordState, ~EndedWithin, WordRead!Skip
  PROVE  WordState'
<1>1. /\ wPc = "skip" /\ ~(wI = wEnd /\ wEof)
      /\ wLength' = wLength /\ wSpaces' = wSpaces
      /\ wI \in DOMAIN wBuf =>
           /\ IF wI = wEnd THEN WordRead!FillBuffer(wI)
              ELSE wBuf' = wBuf /\ wEnd' = wEnd /\ wPos' = wPos /\ wEof' = wEof
           /\ words' = words
  BY SkipIs
<1>2. WordTable' = WordTable /\ TextFile'
  BY <1>1, TextKept
<1>3. BufSize \in Nat \ {0} /\ wLength \in Nat
  BY ReadersAssumption DEF TextFile
<1>4. ASSUME wI \in DOMAIN wBuf, NEW at, at = IF wI = wEnd THEN 0 ELSE wI
      PROVE  SkipLooksAt(at)'
  <2>1. WordRead!IsSpace(wBuf[at])' = WordRead!IsSpace(wBuf'[at])
    BY <1>1 DEF WordRead!IsSpace
  <2>2. \/ TRUE \in WordRead!IsSpace(wBuf'[at]) /\ wI' = at + 1 /\ wPc' = "skip"
        \/ FALSE \in WordRead!IsSpace(wBuf'[at]) /\ wI' = at /\ wPc' = "ready"
    BY <1>4, SkipIs
  <2> QED
    BY <2>1, <2>2 DEF SkipLooksAt
<1>5. (\A g \in Nat, i \in Nat : SkipsTo(g, i) => WordState)'
  BY SkipGoesOn, PTL
<1>6. (\A at \in Nat : LooksBehindAt(at) => WordState)'
  BY LookingGoesOn, PTL
<1> HIDE DEF WordTable
<1>7. CASE LookingBehind
  <2>1. PICK i \in Nat : i = wI /\ i # 0 /\ i \in DOMAIN wBuf
    BY <1>3, <1>7 DEF LookingBehind
  <2>2. i # wEnd
    BY <1>7, <2>1 DEF LookingBehind
  <2>3. LooksBehindAt(i)'
    <3>1. SkipLooksAt(i)'
      BY <1>4, <2>1, <2>2
    <3>2. wBuf' = wBuf /\ wEnd' = wEnd /\ wEof' = wEof /\ words' = words
      BY <1>1, <2>1, <2>2
    <3> QED
      BY <1>1, <1>2, <1>7, <2>1, <3>1, <3>2 DEF LooksBehindAt, LookingBehind
  <2> QED
    BY <1>6, <2>3
<1>8. CASE ~LookingBehind
  <2>1. PICK g \in Nat : Between(g)
    BY <1>1, <1>8 DEF WordState, BeforeWord, WithinWord, BehindWord, AllTaken
  <2>2. /\ wI \in 0 .. wEnd /\ wEnd \in 0 .. BufSize /\ Held(g, wI) /\ wPos = g + wEnd
        /\ DOMAIN wBuf = 0 .. BufSize /\ wPos <= wLength
        /\ g + wI = 0 \/ g + wI \in wSpaces
        /\ words = WordTable[g + wI]
    BY <2>1 DEF Between, Held
  <2>3. PICK i \in Nat, e \in Nat : i = wI /\ e = wEnd /\ i <= e /\ i \in DOMAIN wBuf
    BY <1>3, <2>2
  <2>4. words' = words
    BY <1>1, <2>3
  <2>5. CASE i # e
    <3>1. wBuf' = wBuf /\ wEnd' = wEnd /\ wPos' = wPos /\ wEof' = wEof
      BY <1>1, <2>3, <2>5
    <3>2. SkipLooksAt(i)'
      BY <1>4, <2>3, <2>5
    <3>3. Held(g, i)'
      BY <1>1, <2>2, <2>3, <3>1 DEF Held
    <3>4. SkipsTo(g, i)'
      BY <1>1, <1>2, <2>2, <2>3, <2>4, <2>5, <3>1, <3>2, <3>3 DEF SkipsTo
    <3> QED
      BY <1>5, <3>4
  <2>6. CASE i = e
    <3>1. WordRead!FillBuffer(i) /\ ~wEof /\ SkipLooksAt(0)'
      BY <1>1, <1>4, <2>3, <2>6
    <3>2. CASE wPos < wLength
      <4>1. Held(g + i, 0)' /\ 0 < wEnd'
        <5>1. Held(g, i) /\ i <= wEnd /\ wEnd - i < BufSize /\ wEnd - i = 0
          BY <1>3, <2>2, <2>3, <2>6
        <5>2. Held(g + i, 0)' /\ wEnd - i < wEnd'
          BY <1>1, <3>1, <3>2, <5>1, FillHolds
        <5> QED
          BY <5>1, <5>2
      <4>2. SkipsTo(g + i, 0)'
        <5>1. PICK h \in Nat : h = g + i
          OBVIOUS
        <5>2. Held(h, 0)' /\ (h + 0 = 0 \/ h + 0 \in wSpaces) /\ words' = WordTable[h + 0]
          BY <2>2, <2>3, <2>4, <4>1, <5>1
        <5>3. SkipsTo(h, 0)'
          BY <1>1, <1>2, <3>1, <4>1, <5>2 DEF SkipsTo
        <5> QED
          BY <5>1, <5>3
      <4>3. g + i \in Nat /\ 0 \in Nat
        OBVIOUS
      <4> QED
        BY <1>5, <4>2, <4>3
    <3>3. CASE ~(wPos < wLength)
      <4>1. wPos = wLength /\ g + wI = wLength
        BY <1>3, <2>2, <2>3, <2>6, <3>3
      <4>2. wEnd = BufSize
        <5>1. wLength # 0
          BY <1>3 DEF TextFile, WordRead!Legible
        <5> QED
          BY <2>2, <3>1, <4>1, <5>1 DEF Held
      <4>3. /\ DOMAIN wBuf' = 0 .. BufSize /\ wEnd' = 0 /\ wEof'
            /\ \A k \in 0 .. BufSize : wBuf'[k] = wBuf[k]
        <5>1. wEnd - i = 0 /\ wLength - wPos = 0 /\ BufSize - 0 = BufSize
              /\ ~(BufSize < 0) /\ 0 < BufSize
          BY <1>3, <2>3, <2>6, <4>1
        <5>2. /\ wEnd' = 0 /\ wEof' = (wEof \/ 0 < BufSize)
              /\ wBuf' = [k \in DOMAIN wBuf |->
                           IF k < 0 THEN wBuf[i + k]
                           ELSE IF k < 0 + 0 THEN wPos + k - 0 + 1
                           ELSE wBuf[k]]
          BY <3>1, <5>1 DEF WordRead!FillBuffer
        <5>3. DOMAIN wBuf' = 0 .. BufSize
          BY <2>2, <5>2
        <5>4. ASSUME NEW k \in 0 .. BufSize PROVE wBuf'[k] = wBuf[k]
          <6>1. ~(k < 0) /\ ~(k < 0 + 0) /\ k \in DOMAIN wBuf
            BY <1>3, <2>2
          <6> QED
            BY <5>2, <6>1
        <5> QED
          BY <5>1, <5>2, <5>3, <5>4
      <4>4. \E k \in 0 .. BufSize - 1 : wBuf[k] \notin wSpaces \cup {Junk}
        BY <2>2, <2>3, <4>2, LetterIsLeft
      <4>5. LooksBehindAt(0)'
        <5>1. PICK k \in 0 .. BufSize - 1 : wBuf[k] \notin wSpaces \cup {Junk}
          BY <4>4
        <5>2. wBuf'[k] \notin wSpaces \cup {Junk}
          BY <1>3, <4>3, <5>1
        <5>3. words' = WordTable[wLength]
          BY <2>2, <2>4, <4>1
        <5> QED
          BY <1>1, <1>2, <3>1, <4>3, <5>2, <5>3 DEF LooksBehindAt
      <4> QED
        BY <1>6, <4>5
    <3> QED
      BY <3>2, <3>3
  <2> QED
    BY <2>5, <2>6
<1> QED
  BY <1>7, <1>8

\* The next character of the text in the reading of a word.
ReadLooksAt(at) ==
  \/ TRUE \in WordRead!IsSpace(wBuf[at]) /\ wI = at /\ wPc = "take"
  \/ FALSE \in WordRead!IsSpace(wBuf[at]) /\ wI = at + 1 /\ wPc = "word"
ReadsTo(g, from, at) ==
  /\ TextFile /\ Held(g, from) /\ wStart = from /\ from <= at /\ at < wEnd
  /\ g + from + 1 \in WordRead!Begins
  /\ \A k \in g + from + 1 .. g + at : k \in WordRead!Letters
  /\ words = WordTable[g + from]
  /\ ReadLooksAt(at)

LEMMA ReadGoesOn == \A g \in Nat, from \in Nat, i \in Nat : ReadsTo(g, from, i) => WordState
<1> SUFFICES ASSUME NEW g \in Nat, NEW from \in Nat, NEW i \in Nat, ReadsTo(g, from, i)
             PROVE  WordState
  OBVIOUS
<1>1. /\ TextFile /\ from <= i /\ i < wEnd /\ Held(g, from) /\ wStart = from
      /\ g + from + 1 \in WordRead!Begins
      /\ \A k \in g + from + 1 .. g + i : k \in WordRead!Letters
      /\ words = WordTable[g + from]
      /\ \/ TRUE \in WordRead!IsSpace(wBuf[i]) /\ wI = i /\ wPc = "take"
         \/ FALSE \in WordRead!IsSpace(wBuf[i]) /\ wI = i + 1 /\ wPc = "word"
  BY DEF ReadsTo, ReadLooksAt
<1>2. wEnd \in Nat /\ from \in 0 .. wEnd - 1
  BY <1>1, ReadersAssumption DEF Held
<1>3. /\ g + i + 1 \in 1 .. wLength
      /\ TRUE \in WordRead!IsSpace(wBuf[i]) => g + i + 1 \in wSpaces
      /\ FALSE \in WordRead!IsSpace(wBuf[i]) => g + i + 1 \in WordRead!Letters
  BY <1>1, CharacterRead
<1>4. CASE TRUE \in WordRead!IsSpace(wBuf[i]) /\ wI = i /\ wPc = "take"
  <2>1. i # from
    BY <1>1, <1>3, <1>4, LettersAre
  <2>2. wI \in from + 1 .. wEnd - 1
    BY <1>1, <1>2, <1>4, <2>1
  <2> HIDE DEF WordTable
  <2>3. BehindWord(g)
    BY <1>1, <1>2, <1>3, <1>4, <2>2 DEF BehindWord
  <2> QED
    BY <2>3 DEF WordState
<1>5. CASE FALSE \in WordRead!IsSpace(wBuf[i]) /\ wI = i + 1 /\ wPc = "word"
  <2>1. wI \in from .. wEnd
    BY <1>1, <1>2, <1>5
  <2>2. ASSUME NEW k \in g + from + 1 .. g + wI PROVE k \in WordRead!Letters
    <3>1. k \in g + from + 1 .. g + i \/ k = g + i + 1
      BY <1>5
    <3> QED
      BY <1>1, <1>3, <1>5, <3>1
  <2> HIDE DEF WordTable
  <2>3. WithinWord(g)
    BY <1>1, <1>2, <1>5, <2>1, <2>2 DEF WithinWord
  <2> QED
    BY <2>3 DEF WordState
<1> QED
  BY <1>1, <1>4, <1>5

\* Read ends at the character it looks at, if that is whitespace, or behind it.
LEMMA WordReadIs ==
  ASSUME WordRead!Read
  PROVE  /\ wPc = "word" /\ ~(wI = wEnd /\ wEof)
         /\ wLength' = wLength /\ wSpaces' = wSpaces
         /\ wI \in DOMAIN wBuf =>
              /\ IF wI = wEnd /\ ~wEof
                 THEN WordRead!FillBuffer(wStart) /\ wStart' = 0
                 ELSE /\ wBuf' = wBuf /\ wEnd' = wEnd /\ wPos' = wPos /\ wEof' = wEof
                      /\ wStart' = wStart
              /\ words' = words
              /\ \E at : /\ at = IF wI = wEnd /\ ~wEof THEN wEnd - wStart ELSE wI
                         /\ \/ /\ TRUE \in WordRead!IsSpace(wBuf'[at])
                               /\ wI' = at /\ wPc' = "take"
                            \/ /\ FALSE \in WordRead!IsSpace(wBuf'[at])
                               /\ wI' = at + 1 /\ wPc' = "word"
BY DEF WordRead!Read, WordRead!Break, WordRead!InBuffer, WordRead!NoFill, WordRead!NeedsFill

\* A word does not fill the buffer.
LEMMA WordFits ==
  ASSUME TextFile, NEW g \in Nat, NEW from \in Nat, Held(g, from), from < wEnd,
         \A k \in g + from + 1 .. g + wEnd : k \in WordRead!Letters
  PROVE  wEnd - from < BufSize
<1>1. wEnd \in Nat /\ BufSize \in Nat /\ wEnd <= BufSize /\ g + wEnd <= wLength
  BY ReadersAssumption DEF Held
<1> SUFFICES ASSUME ~(wEnd - from < BufSize) PROVE FALSE
  OBVIOUS
<1>2. from = 0 /\ wEnd = BufSize
  BY <1>1
<1>3. PICK k \in 0 .. BufSize - 1 : g + k + 1 \in wSpaces
  BY <1>1, <1>2, WindowIsMixed
<1>4. g + k + 1 \in g + from + 1 .. g + wEnd
  BY <1>1, <1>2
<1> QED
  BY <1>3, <1>4, LettersAre

LEMMA ReadState ==
  ASSUME TextFile, WordState, ~EndedWithin, WordRead!Read
  PROVE  WordState'
<1>1. /\ wPc = "word" /\ ~(wI = wEnd /\ wEof)
      /\ wLength' = wLength /\ wSpaces' = wSpaces
      /\ wI \in DOMAIN wBuf =>
           /\ IF wI = wEnd /\ ~wEof
              THEN WordRead!FillBuffer(wStart) /\ wStart' = 0
              ELSE /\ wBuf' = wBuf /\ wEnd' = wEnd /\ wPos' = wPos /\ wEof' = wEof
                   /\ wStart' = wStart
           /\ words' = words
  BY WordReadIs
<1>2. WordTable' = WordTable /\ TextFile' /\ WordRead!Letters' = WordRead!Letters
      /\ WordRead!Begins' = WordRead!Begins
  BY <1>1, TextKept
<1>3. BufSize \in Nat \ {0} /\ wLength \in Nat
  BY ReadersAssumption DEF TextFile
<1>4. ASSUME wI \in DOMAIN wBuf, NEW at,
             at = IF wI = wEnd /\ ~wEof THEN wEnd - wStart ELSE wI
      PROVE  ReadLooksAt(at)'
  <2>1. WordRead!IsSpace(wBuf[at])' = WordRead!IsSpace(wBuf'[at])
    BY <1>1 DEF WordRead!IsSpace
  <2>2. \/ TRUE \in WordRead!IsSpace(wBuf'[at]) /\ wI' = at /\ wPc' = "take"
        \/ FALSE \in WordRead!IsSpace(wBuf'[at]) /\ wI' = at + 1 /\ wPc' = "word"
    BY <1>4, WordReadIs
  <2> QED
    BY <2>1, <2>2 DEF ReadLooksAt
<1>5. (\A g \in Nat, from \in Nat, i \in Nat : ReadsTo(g, from, i) => WordState)'
  BY ReadGoesOn, PTL
<1> HIDE DEF WordTable
<1>6. PICK g \in Nat : WithinWord(g)
  BY <1>1 DEF WordState, Between, BeforeWord, BehindWord, AllTaken, LookingBehind
<1>7. /\ wEnd \in 0 .. BufSize /\ wStart \in 0 .. wEnd - 1 /\ wI \in wStart .. wEnd
      /\ Held(g, wStart) /\ wPos = g + wEnd /\ wPos <= wLength
      /\ DOMAIN wBuf = 0 .. BufSize
      /\ g + wStart + 1 \in WordRead!Begins
      /\ \A k \in g + wStart + 1 .. g + wI : k \in WordRead!Letters
      /\ words = WordTable[g + wStart]
  BY <1>6 DEF WithinWord, Held
<1>8. PICK i \in Nat, from \in Nat, e \in Nat :
        /\ i = wI /\ from = wStart /\ e = wEnd /\ from <= i /\ i <= e /\ from < e
        /\ i \in DOMAIN wBuf
  BY <1>3, <1>7
<1>9. words' = words
  BY <1>1, <1>8
<1>10. CASE i # e
  <2>1. wBuf' = wBuf /\ wEnd' = wEnd /\ wPos' = wPos /\ wEof' = wEof /\ wStart' = wStart
    BY <1>1, <1>8, <1>10
  <2>2. ReadLooksAt(i)'
    BY <1>4, <1>8, <1>10
  <2>3. Held(g, from)'
    BY <1>1, <1>7, <1>8, <2>1 DEF Held
  <2>4. i < wEnd
    BY <1>8, <1>10
  <2>5. ReadsTo(g, from, i)'
    BY <1>1, <1>2, <1>7, <1>8, <1>9, <2>1, <2>2, <2>3, <2>4 DEF ReadsTo
  <2> QED
    BY <1>5, <2>5
<1>11. CASE i = e
  <2>1. ~wEof /\ WordRead!FillBuffer(from) /\ wStart' = 0 /\ ReadLooksAt(e - from)'
    BY <1>1, <1>4, <1>8, <1>11
  <2>2. /\ Held(g, from) /\ from < wEnd /\ from <= wEnd
        /\ \A k \in g + from + 1 .. g + wEnd : k \in WordRead!Letters
    BY <1>7, <1>8, <1>11
  <2>3. wEnd - from < BufSize
    BY <2>2, WordFits
  <2>4. CASE wPos < wLength
    <3>1. Held(g + from, 0)' /\ wEnd - from < wEnd'
      BY <1>1, <2>1, <2>2, <2>3, <2>4, FillHolds
    <3>2. PICK h \in Nat, k \in Nat : h = g + from /\ k = e - from
      BY <1>8
    <3>3. /\ h + 0 + 1 = g + from + 1 /\ h + k = g + i /\ 0 <= k /\ h + 0 = g + from
      BY <1>8, <1>11, <3>2
    <3>4. Held(h, 0)' /\ k < wEnd' /\ ReadLooksAt(k)'
      BY <1>8, <2>1, <3>1, <3>2
    <3>5. /\ h + 0 + 1 \in WordRead!Begins
          /\ \A j \in h + 0 + 1 .. h + k : j \in WordRead!Letters
          /\ words = WordTable[h + 0]
      BY <1>7, <1>8, <3>3
    <3>6. ReadsTo(h, 0, k)'
      BY <1>2, <1>9, <2>1, <3>3, <3>4, <3>5 DEF ReadsTo
    <3> QED
      BY <1>5, <3>6
  <2>5. CASE ~(wPos < wLength)
    <3>1. wPos = wLength /\ g + wEnd = wLength
      BY <1>3, <1>7, <2>5
    <3>2. /\ g + from + 1 \in WordRead!Begins
          /\ \A k \in g + from + 1 .. wLength : k \in WordRead!Letters
          /\ (g + from + 1) - 1 = g + from
          /\ words = WordTable[g + from]
      BY <1>7, <1>8, <2>2, <3>1
    <3>3. wLength \notin wSpaces /\ RightButLast(words)
      BY <3>2, LastWordCut
    <3> QED
      BY <3>3 DEF EndedWithin
  <2> QED
    BY <2>4, <2>5
<1> QED
  BY <1>10, <1>11

LEMMA WordsBegin == PartsInit => WordInv
<1> SUFFICES ASSUME PartsInit PROVE WordInv
  OBVIOUS
<1>1. WordRead!Init
  BY DEF PartsInit
<1>2. TextFile
  BY <1>1, ReadersAssumption DEF WordRead!Init, TextFile
<1>3. /\ wPc = "skip" /\ wI = 0 /\ wEnd = 0 /\ wPos = 0 /\ wEof = FALSE /\ words = <<>>
      /\ wBuf = [k \in 0 .. BufSize |-> Junk]
  BY <1>1 DEF WordRead!Init
<1>4. WordTable[0] = <<>>
  BY <1>2, WordTableGathers, GatheringStep
<1> HIDE DEF WordTable
<1>5. Held(0, wI)
  <2>1. wLength \in Nat /\ BufSize \in Nat
    BY <1>2, ReadersAssumption DEF TextFile
  <2>2. wEnd \in 0 .. BufSize /\ wPos = 0 + wEnd /\ wPos <= wLength /\ wPos = 0
    BY <1>3, <2>1
  <2>5. wEof \in BOOLEAN /\ ~wEof
    <3>1. wEof = FALSE
      BY <1>3, Zenon
    <3> QED
      BY <3>1, Zenon
  <2>3. DOMAIN wBuf = 0 .. BufSize
    BY <1>3
  <2>4. 0 .. wEnd - 1 = {}
    BY <1>3
  <2> QED
    BY <2>2, <2>3, <2>4, <2>5 DEF Held
<1>6. Between(0)
  BY <1>3, <1>4, <1>5 DEF Between
<1> QED
  BY <1>2, <1>6 DEF WordInv, WordState

LEMMA WordsGoOn == WordInv /\ (WordRead!Next \/ UNCHANGED wordVars) => WordInv'
<1> SUFFICES ASSUME WordInv, WordRead!Next \/ UNCHANGED wordVars PROVE WordInv'
  OBVIOUS
<1>1. TextFile /\ WordState
  BY DEF WordInv
<1>2. wLength' = wLength /\ wSpaces' = wSpaces
  BY DEF WordRead!Next, WordRead!SkipEnds, WordRead!Skip, WordRead!Begin, WordRead!Read,
         WordRead!ReadEnds, WordRead!Take, WordRead!Break, wordVars
<1>3. TextFile' /\ WordTable' = WordTable /\ WordRead!Letters' = WordRead!Letters
      /\ WordRead!Begins' = WordRead!Begins
  BY <1>1, <1>2, TextKept
<1>4. words' = words \/ \E x : words' = Append(words, x)
  BY DEF WordRead!Next, WordRead!SkipEnds, WordRead!Skip, WordRead!Begin, WordRead!Read,
         WordRead!ReadEnds, WordRead!Take, WordRead!Break, wordVars
<1>5. CASE EndedWithin
  <2>1. EndedWithin'
    BY <1>1, <1>2, <1>4, <1>5, EndedStays
  <2> QED
    BY <1>3, <2>1 DEF WordInv, WordState
<1>6. ASSUME ~EndedWithin, UNCHANGED wordVars PROVE WordState'
  <2>1. /\ wPos' = wPos /\ wEof' = wEof /\ wBuf' = wBuf /\ wEnd' = wEnd /\ wI' = wI
        /\ wStart' = wStart /\ wPc' = wPc /\ words' = words
    BY <1>6 DEF wordVars
  <2> HIDE DEF WordTable
  <2>2. ASSUME NEW g \in Nat, Between(g) PROVE Between(g)'
    BY <1>2, <1>3, <2>1, <2>2 DEF Between, Held
  <2>3. ASSUME NEW g \in Nat, BeforeWord(g) PROVE BeforeWord(g)'
    BY <1>2, <1>3, <2>1, <2>3 DEF BeforeWord, Held
  <2>4. ASSUME NEW g \in Nat, WithinWord(g) PROVE WithinWord(g)'
    BY <1>2, <1>3, <2>1, <2>4 DEF WithinWord, Held
  <2>5. ASSUME NEW g \in Nat, BehindWord(g) PROVE BehindWord(g)'
    BY <1>2, <1>3, <2>1, <2>5 DEF BehindWord, Held
  <2>6. AllTaken => AllTaken'
    BY <1>2, <1>3, <2>1 DEF AllTaken
  <2>7. LookingBehind => LookingBehind'
    BY <1>2, <1>3, <2>1 DEF LookingBehind
  <2> QED
    BY <1>1, <1>6, <2>2, <2>3, <2>4, <2>5, <2>6, <2>7 DEF WordState
<1>7. CASE ~EndedWithin
  <2>1. WordState'
    BY <1>1, <1>6, <1>7, SkipEndsState, SkipState, BeginState, ReadState, ReadEndsState,
       TakeState DEF WordRead!Next
  <2> QED
    BY <1>3, <2>1 DEF WordInv
<1> QED
  BY <1>5, <1>7

\* However the words of a text lie across the ends of the buffer, the FileReader hands
\* out those of the text, whole and in order, but for one that ends only with it.
THEOREM WordsInTurnCorrect == PartsSpec => []WordsInTurn
<1>1. WordInv /\ [PartsNext]_partVars => WordInv'
  BY WordStep, WordsGoOn
<1>2. WordInv => WordsInTurn
  <2> SUFFICES ASSUME TextFile, WordState
               PROVE  /\ \A k \in 1 .. Len(words) :
                           k < Len(WordTable[wLength]) => words[k] = WordTable[wLength][k]
                      /\ wLength \in wSpaces =>
                           wPc # "broken" /\ \E p \in 0 .. wLength : words = WordTable[p]
                      /\ wLength \in wSpaces /\ wPc = "ready" /\ wI >= wEnd /\ wEof =>
                           words = WordTable[wLength]
    BY WordsToIs DEF WordInv, WordsInTurn, WordRead!WordsInTurn, WordRead!WordsOfFile,
                     WordRead!EndsWithSpace, WordRead!Done
  <2> HIDE DEF WordTable
  <2>1. CASE EndedWithin
    <3>1. wLength \notin wSpaces
      BY <2>1 DEF EndedWithin
    <3>2. PICK ws : ws = words /\ RightButLast(ws)
      BY <2>1 DEF EndedWithin
    <3>3. \A k \in 1 .. Len(ws) :
            k < Len(WordTable[wLength]) => ws[k] = WordTable[wLength][k]
      BY <3>2 DEF RightButLast
    <3> QED
      BY <3>1, <3>2, <3>3
  <2>2. CASE ~EndedWithin
    <3>1. /\ wPc # "broken" /\ \E p \in 0 .. wLength : words = WordTable[p]
          /\ wPc = "ready" /\ wI >= wEnd /\ wEof => words = WordTable[wLength]
      <4>0. wLength \in Nat /\ BufSize \in Nat
        BY ReadersAssumption DEF TextFile
      <4>1. ASSUME NEW g \in Nat, Between(g)
            PROVE  wPc = "skip" /\ g + wI \in 0 .. wLength /\ words = WordTable[g + wI]
        BY <4>0, <4>1 DEF Between, Held
      <4>2. ASSUME NEW g \in Nat, BeforeWord(g)
            PROVE  /\ wPc = "ready" /\ ~(wI >= wEnd)
                   /\ g + wI \in 0 .. wLength /\ words = WordTable[g + wI]
        BY <4>0, <4>2 DEF BeforeWord, Held
      <4>3. ASSUME NEW g \in Nat, WithinWord(g)
            PROVE  wPc = "word" /\ g + wStart \in 0 .. wLength /\ words = WordTable[g + wStart]
        BY <4>0, <4>3 DEF WithinWord, Held
      <4>4. ASSUME NEW g \in Nat, BehindWord(g)
            PROVE  wPc = "take" /\ g + wStart \in 0 .. wLength /\ words = WordTable[g + wStart]
        BY <4>0, <4>4 DEF BehindWord, Held
      <4>5. AllTaken => wPc = "ready" /\ wLength \in 0 .. wLength /\ words = WordTable[wLength]
        BY <4>0 DEF AllTaken
      <4>6. LookingBehind =>
              wPc = "skip" /\ wLength \in 0 .. wLength /\ words = WordTable[wLength]
        BY <4>0 DEF LookingBehind
      <4>7. PICK g \in Nat : \/ Between(g) \/ BeforeWord(g) \/ WithinWord(g) \/ BehindWord(g)
                             \/ AllTaken \/ LookingBehind
        BY <2>2 DEF WordState
      <4>8. CASE Between(g)
        BY <4>1, <4>8
      <4>9. CASE BeforeWord(g)
        BY <4>2, <4>9
      <4>10. CASE WithinWord(g)
        BY <4>3, <4>10
      <4>11. CASE BehindWord(g)
        BY <4>4, <4>11
      <4>12. CASE AllTaken
        BY <4>5, <4>12
      <4>13. CASE LookingBehind
        BY <4>6, <4>13
      <4> QED
        BY <4>7, <4>8, <4>9, <4>10, <4>11, <4>12, <4>13
    <3>2. PICK p \in 0 .. wLength : words = WordTable[p]
      BY <3>1
    <3>3. p \in Nat /\ p <= wLength
      BY DEF TextFile
    <3>4. Prolongs(WordTable[wLength], WordTable[p], WordSet)
      BY <3>3, WordsBefore
    <3>5. \A k \in 1 .. Len(words) : words[k] = WordTable[wLength][k]
      BY <3>2, <3>4 DEF Prolongs
    <3> QED
      BY <3>1, <3>5
  <2> QED
    BY <2>1, <2>2
<1> QED
  BY <1>1, <1>2, WordsBegin, PTL DEF PartsSpec

=============================================================================
