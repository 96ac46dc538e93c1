---------------------------- MODULE ChunkedArray ----------------------------
(***************************************************************************)
(* The arrays and queues of eau2 (utils/array.h, utils/queue.h): a ring    *)
(* over chunks of a fixed size.  When it is full it gets more chunks, is   *)
(* turned so that the chunk with the first element comes first, and what   *)
(* was in front of that element in its chunk is copied behind the rest.    *)
(***************************************************************************)
EXTENDS Naturals, Sequences

CONSTANTS
  ChunkSize,  \* CHUNK_SIZE
  Lengths,    \* the lengths of the arrays that are appended by concat()
  MaxValue,   \* bound: how many values are put into the array
  MaxEdits,   \* bound: how many add(), remove(), set() and clear() there are
  Inside,     \* TRUE if add_all() is also used in front of the end
  None,
  Junk        \* a cell nobody wrote

ASSUME ChunkSizeAssumption == ChunkSize \in Nat \ {0}
ASSUME LengthsAssumption == Lengths \subseteq Nat

VARIABLES
  num_chunks, num_elements, start_pos,
  cells,  \* elements_: the chunks one behind the other
  out,    \* what the last operation has returned, or None
  fresh,  \* the next value to put into the array
  edits   \* how many edits there were

vars == <<num_chunks, num_elements, start_pos, cells, out, fresh, edits>>

Init ==
  /\ num_chunks = 1
  /\ num_elements = 0
  /\ start_pos = 0
  /\ cells = [k \in 0 .. ChunkSize - 1 |-> Junk]
  /\ out = None
  /\ fresh = 1
  /\ edits = 0

-----------------------------------------------------------------------------
\* The ring r after a possible growth: its chunks, start and cells.
Ring == [chunks |-> num_chunks, start |-> start_pos, cells |-> cells]

Capacity(r) == ChunkSize * r.chunks

\* offset_(), and the index whose offset is k.
Offset(r, i) == (i + r.start) % Capacity(r)
IndexAt(r, k) == (k + Capacity(r) - r.start) % Capacity(r)

\* chunk_offset_(): which chunk is the c-th from the first element's on.
ChunkOffset(r, c) == (r.start \div ChunkSize + c) % r.chunks

\* Cell j of chunk c.
InChunk(r, c, j) == r.cells[ChunkSize * c + j]

NewNumChunks(n) == (n * 2) \div ChunkSize + 1

\* Mutation: what was in front of the first element is not copied.
GrowToFitDropsFront(r, n) ==
  IF n <= Capacity(r) \/ NewNumChunks(n) <= r.chunks THEN r
  ELSE [chunks |-> NewNumChunks(n),
        start |-> r.start % ChunkSize,
        cells |-> [k \in 0 .. ChunkSize * NewNumChunks(n) - 1 |->
          LET c == k \div ChunkSize
              j == k % ChunkSize
          IN  IF c < r.chunks THEN InChunk(r, ChunkOffset(r, c), j) ELSE Junk]]

GrowToFit(r, n) ==
  IF n <= Capacity(r) \/ NewNumChunks(n) <= r.chunks THEN r
  ELSE [chunks |-> NewNumChunks(n),
        start |-> r.start % ChunkSize,
        cells |-> [k \in 0 .. ChunkSize * NewNumChunks(n) - 1 |->
          LET c == k \div ChunkSize
              j == k % ChunkSize
          IN  IF c < r.chunks THEN InChunk(r, ChunkOffset(r, c), j)
              ELSE IF c = r.chunks THEN InChunk(r, ChunkOffset(r, 0), j)
              ELSE Junk]]

Become(r) ==
  /\ num_chunks' = r.chunks
  /\ start_pos' = r.start
  /\ cells' = r.cells

-----------------------------------------------------------------------------
\* add(), and push_back() and push() at the end: the elements behind index move.
Add(index, e) ==
  LET r == GrowToFit(Ring, num_elements + 1)
      new(k) == LET i == IndexAt(r, k)
                IN  IF i = index THEN e
                    ELSE IF i \in index + 1 .. num_elements THEN r.cells[Offset(r, i - 1)]
                    ELSE r.cells[k]
  IN  /\ Become([r EXCEPT !.cells = [k \in DOMAIN r.cells |-> new(k)]])
      /\ num_elements' = num_elements + 1
      /\ out' = None

\* add_all().  It moves the elements to one index too many and not the first.
AddAll(index, c) ==
  LET r == GrowToFit(Ring, num_elements + Len(c))
      new(k) == LET i == IndexAt(r, k)
                IN  IF i \in index .. index + Len(c) - 1 THEN c[i - index + 1]
                    ELSE IF i \in index + Len(c) + 1 .. num_elements + Len(c)
                      THEN r.cells[Offset(r, i - Len(c))]
                    ELSE r.cells[k]
  IN  /\ Become([r EXCEPT !.cells = [k \in DOMAIN r.cells |-> new(k)]])
      /\ num_elements' = num_elements + Len(c)
      /\ out' = None

Remove(index) ==
  LET new(k) == LET i == IndexAt(Ring, k)
                IN  IF i \in index .. num_elements - 1 THEN cells[Offset(Ring, i + 1)]
                    ELSE cells[k]
  IN  /\ out' = cells[Offset(Ring, index)]
      /\ cells' = [k \in DOMAIN cells |-> new(k)]
      /\ num_elements' = num_elements - 1
      /\ UNCHANGED <<num_chunks, start_pos>>

Set(index, e) ==
  /\ out' = cells[Offset(Ring, index)]
  /\ cells' = [cells EXCEPT ![Offset(Ring, index)] = e]
  /\ UNCHANGED <<num_chunks, start_pos, num_elements>>

Clear ==
  /\ num_elements' = 0
  /\ out' = None
  /\ UNCHANGED <<num_chunks, start_pos, cells>>

\* Queue::pop()
Pop ==
  /\ num_elements > 0
  /\ out' = cells[Offset(Ring, 0)]
  /\ start_pos' = Offset(Ring, 1)
  /\ num_elements' = num_elements - 1
  /\ UNCHANGED <<num_chunks, cells, fresh, edits>>

-----------------------------------------------------------------------------
\* Every value goes into the array once.
Values(n) == [j \in 1 .. n |-> fresh + j - 1]
Use(n) == fresh + n <= MaxValue + 1 /\ fresh' = fresh + n

Edit == edits < MaxEdits /\ edits' = edits + 1

Push == Use(1) /\ Add(num_elements, fresh) /\ UNCHANGED edits
Concat == \E n \in Lengths :
  Use(n) /\ AddAll(num_elements, Values(n)) /\ UNCHANGED edits

Change ==
  /\ Edit
  /\ \/ \E i \in 0 .. num_elements - 1 :
          \/ Use(1) /\ Add(i, fresh)
          \/ Use(1) /\ Set(i, fresh)
          \/ Remove(i) /\ UNCHANGED fresh
          \/ Inside /\ \E n \in Lengths : Use(n) /\ AddAll(i, Values(n))
     \/ Clear /\ UNCHANGED fresh

Next == Push \/ Concat \/ Change \/ Pop

Spec == Init /\ [][Next]_vars

-----------------------------------------------------------------------------
Content == [i \in 1 .. num_elements |-> cells[Offset(Ring, i - 1)]]

L == INSTANCE List WITH Lengths <- Lengths \cup {1}, list <- Content

\* Each operation does to the sequence what its name says, at its own index.
EachOperation ==
  /\ Push => L!Insert(num_elements, 1)
  /\ Concat => \E n \in Lengths : L!Insert(num_elements, n)
  /\ Pop => L!Delete(0)
  /\ \A i \in 0 .. num_elements - 1 :
       /\ Use(1) /\ Add(i, fresh) => L!Insert(i, 1)
       /\ Use(1) /\ Set(i, fresh) => L!Replace(i)
       /\ Remove(i) /\ UNCHANGED fresh => L!Delete(i)
  /\ Clear /\ UNCHANGED fresh => L!Erase

\* However it has grown, turned and shrunk, the ring is the sequence that its
\* operations say, each of them and at its index, in its elements and in what it
\* returns.
ImplementsList == L!Spec /\ [][EachOperation]_vars

=============================================================================
