------------------------------ MODULE HashMap ------------------------------
(***************************************************************************)
(* The local map of a key-value store (utils/map.h, store/kvstore-fd.h):   *)
(* an array of chains, replaced by one of twice the length when it gets    *)
(* too full.  The application and the servicer put under a lock; the       *)
(* application and the repliers ask contains_key() without it.             *)
(*                                                                         *)
(* A step is what a thread without the lock can tell apart.  Memory is     *)
(* taken to be sequentially consistent.                                    *)
(***************************************************************************)
EXTENDS Naturals, Sequences, FiniteSets

CONSTANTS
  Keys,
  Hash,      \* key |-> its hash
  Putters,   \* the threads that put
  Seekers,   \* the threads that look keys up without the lock
  Buckets,   \* CHUNK_SIZE, the length of the first array
  Puts,      \* bound: how many puts there are
  Seeks,     \* bound: how many look-ups a seeker does
  Nil,       \* nullptr
  Junk       \* a cell that nobody wrote

VARIABLES
  arrays,    \* the arrays of chains that were allocated, oldest first
  nodes,     \* nodes_: which of them is in use
  numNodes,  \* num_nodes_
  numElements, \* num_elements_
  owner,     \* the thread that holds lock_, or Nil
  job,       \* what the thread does under the lock, or Nil
  puts,      \* how many puts there were
  seek,      \* seeker |-> where it is in its last look-up
  seeks      \* seeker |-> how many look-ups it has begun

mapVars == <<arrays, nodes, numNodes, numElements, owner, job, puts>>
seekVars == <<seek, seeks>>
vars == <<mapVars, seekVars>>

\* A chain is linked through `next`, from the key in its cell on.  `freed` are the
\* keys whose nodes were deleted.
EmptyArray(n, cell) ==
  [cells |-> [b \in 0 .. n - 1 |-> cell],
   next |-> [k \in Keys |-> Nil], value |-> [k \in Keys |-> Nil],
   freed |-> {}, live |-> TRUE]

NoSeek == [pc |-> "out", key |-> Nil, bucket |-> 0, array |-> 0, node |-> Nil,
           there |-> FALSE, grew |-> FALSE, result |-> Nil]

Init ==
  /\ arrays = <<EmptyArray(Buckets, Nil)>>
  /\ nodes = 1
  /\ numNodes = Buckets
  /\ numElements = 0
  /\ owner = Nil
  /\ job = Nil
  /\ puts = 0
  /\ seek = [s \in Seekers |-> NoSeek]
  /\ seeks = [s \in Seekers |-> 0]

-----------------------------------------------------------------------------
\* The keys of the chain that begins with node k: those that are in every set which k
\* is in and which no `next` leads out of.
Chain(a, k) ==
  {x \in Keys : \A S \in SUBSET Keys :
     (k # Nil => k \in S) /\ (\A y \in S : a.next[y] # Nil => a.next[y] \in S) => x \in S}

Bucket(k, n) == Hash[k] % n

\* node_from_key_(), for the thread that has the lock.
Holds(a, k) == k \in Chain(a, a.cells[Bucket(k, Cardinality(DOMAIN a.cells))])

\* A new node in front of the chain of its bucket.
InFront(a, k, v) ==
  LET b == Bucket(k, numNodes)
  IN  [a EXCEPT !.next[k] = a.cells[b], !.value[k] = v, !.cells[b] = k]

\* num_elements_ > MIN_LOAD_FACTOR * num_nodes_
Overloaded(e, n) == 5 * e > 3 * n

GoOn(pc) == job' = [job EXCEPT !.pc = pc]

\* rehash_() is under way.
Growing == job # Nil /\ job.pc \in {"clear", "resize", "move", "delete"}

\* Every look-up that is under way when the array changes.
NoteGrowth ==
  seek' = [s \in Seekers |-> [seek[s] EXCEPT !.grew = @ \/ seek[s].pc # "out"]]

-----------------------------------------------------------------------------
\* put(), under the lock

PutLock(t, k) ==
  /\ owner = Nil
  /\ puts < Puts
  /\ owner' = t
  /\ puts' = puts + 1
  /\ job' = [pc |-> "put", key |-> k, value |-> puts + 1, bucket |-> 0, node |-> Nil]
  /\ UNCHANGED <<arrays, nodes, numNodes, numElements, seekVars>>

Overwrite ==
  /\ job # Nil /\ job.pc = "put"
  /\ Holds(arrays[nodes], job.key)
  /\ arrays' = [arrays EXCEPT ![nodes].value[job.key] = job.value]
  /\ GoOn("unlock")
  /\ UNCHANGED <<nodes, numNodes, numElements, owner, puts, seekVars>>

Insert ==
  /\ job # Nil /\ job.pc = "put"
  /\ ~Holds(arrays[nodes], job.key)
  /\ arrays' = [arrays EXCEPT ![nodes] = InFront(@, job.key, job.value)]
  /\ numElements' = numElements + 1
  /\ GoOn(IF Overloaded(numElements + 1, numNodes) THEN "allocate" ELSE "unlock")
  /\ UNCHANGED <<nodes, numNodes, owner, puts, seekVars>>

-----------------------------------------------------------------------------
\* rehash_()

Allocate ==
  /\ job # Nil /\ job.pc = "allocate"
  /\ arrays' = Append(arrays, EmptyArray(2 * numNodes, Junk))
  /\ nodes' = nodes + 1
  /\ GoOn("clear")
  /\ NoteGrowth
  /\ UNCHANGED <<numNodes, numElements, owner, puts, seeks>>

ClearCells ==
  /\ job # Nil /\ job.pc = "clear"
  /\ arrays' = [arrays EXCEPT ![nodes] = EmptyArray(2 * numNodes, Nil)]
  /\ GoOn("resize")
  /\ NoteGrowth
  /\ UNCHANGED <<nodes, numNodes, numElements, owner, puts, seeks>>

Old == arrays[nodes - 1]

Resize ==
  /\ job # Nil /\ job.pc = "resize"
  /\ numNodes' = 2 * numNodes
  /\ numElements' = 0
  /\ job' = [job EXCEPT !.pc = "move", !.bucket = 0, !.node = Old.cells[0]]
  /\ NoteGrowth
  /\ UNCHANGED <<arrays, nodes, owner, puts, seeks>>

\* Mutation: the rest of a chain is lost when its first node was moved.
MoveFirst ==
  /\ job # Nil /\ job.pc = "move"
  /\ job.node # Nil
  /\ arrays' = [arrays EXCEPT ![nodes] = InFront(@, job.node, Old.value[job.node])]
  /\ numElements' = numElements + 1
  /\ job' = [job EXCEPT !.node = Nil]
  /\ NoteGrowth
  /\ UNCHANGED <<nodes, numNodes, owner, puts, seeks>>

\* put() of a node of an old chain.  The new array has room for all.
Move ==
  /\ job # Nil /\ job.pc = "move"
  /\ job.node # Nil
  /\ arrays' = [arrays EXCEPT ![nodes] = InFront(@, job.node, Old.value[job.node])]
  /\ numElements' = numElements + 1
  /\ job' = [job EXCEPT !.node = Old.next[job.node]]
  /\ NoteGrowth
  /\ UNCHANGED <<nodes, numNodes, owner, puts, seeks>>

\* The nodes of an old chain are deleted when all of them were put.
DeleteChain ==
  LET b == job.bucket
      last == b + 1 \notin DOMAIN Old.cells
  IN  /\ job # Nil /\ job.pc = "move"
      /\ job.node = Nil
      /\ arrays' = [arrays EXCEPT ![nodes - 1].freed = @ \cup Chain(Old, Old.cells[b])]
      /\ job' = [job EXCEPT !.pc = IF last THEN "delete" ELSE "move",
                            !.bucket = b + 1,
                            !.node = IF last THEN Nil ELSE Old.cells[b + 1]]
      /\ NoteGrowth
      /\ UNCHANGED <<nodes, numNodes, numElements, owner, puts, seeks>>

DeleteArray ==
  /\ job # Nil /\ job.pc = "delete"
  /\ arrays' = [arrays EXCEPT ![nodes - 1].live = FALSE]
  /\ GoOn("unlock")
  /\ NoteGrowth
  /\ UNCHANGED <<nodes, numNodes, numElements, owner, puts, seeks>>

Unlock ==
  /\ job # Nil /\ job.pc = "unlock"
  /\ job' = Nil
  /\ owner' = Nil
  /\ UNCHANGED <<arrays, nodes, numNodes, numElements, puts, seekVars>>

\* remove().  The store calls it when all its threads have ended, and other maps are
\* used by one thread: nobody looks anything up, and what was looked up is history.
Remove(k) ==
  LET a == arrays[nodes]
      b == Bucket(k, numNodes)
      behind == {p \in Chain(a, a.cells[b]) : a.next[p] = k}
      without == IF behind = {} THEN [a EXCEPT !.cells[b] = a.next[k]]
                 ELSE [a EXCEPT !.next = [p \in Keys |-> IF p \in behind THEN a.next[k] ELSE @[p]]]
  IN  /\ owner = Nil
      /\ \A s \in Seekers : seek[s].pc = "out"
      /\ puts = Puts
      /\ Holds(a, k)
      /\ arrays' = [arrays EXCEPT ![nodes] = [without EXCEPT !.next[k] = Nil, !.value[k] = Nil]]
      /\ numElements' = numElements - 1
      /\ seek' = [s \in Seekers |-> NoSeek]
      /\ UNCHANGED <<nodes, numNodes, owner, job, puts, seeks>>

-----------------------------------------------------------------------------
\* contains_key() without the lock

Seeking(s, pc) == seek[s].pc = pc
Found(s, result) == seek' = [seek EXCEPT ![s].pc = "out", ![s].result = result]

\* The bucket is computed from num_nodes_, before nodes_ is read.
SeekBucket(s, k) ==
  /\ Seeking(s, "out")
  /\ seeks[s] < Seeks
  /\ seeks' = [seeks EXCEPT ![s] = @ + 1]
  /\ seek' = [seek EXCEPT ![s] =
                [NoSeek EXCEPT !.pc = "array", !.key = k, !.bucket = Bucket(k, numNodes),
                               !.grew = Growing,
                               !.there = ~Growing /\ Holds(arrays[nodes], k)]]
  /\ UNCHANGED mapVars

SeekArray(s) ==
  /\ Seeking(s, "array")
  /\ seek' = [seek EXCEPT ![s].pc = "cell", ![s].array = nodes]
  /\ UNCHANGED <<mapVars, seeks>>

\* A cell of an array that was deleted, or a cell that nobody wrote, may send the
\* look-up anywhere.
SeekCell(s) ==
  LET a == arrays[seek[s].array]
      cell == a.cells[seek[s].bucket]
  IN  /\ Seeking(s, "cell")
      /\ IF ~a.live \/ cell = Junk THEN Found(s, "broken")
         ELSE IF cell = Nil THEN Found(s, "absent")
         ELSE seek' = [seek EXCEPT ![s].pc = "node", ![s].node = cell]
      /\ UNCHANGED <<mapVars, seeks>>

\* Mutation: only the first node of a chain is looked at.
SeekFirstNode(s) ==
  LET a == arrays[seek[s].array]
      k == seek[s].node
  IN  /\ Seeking(s, "node")
      /\ IF k \in a.freed THEN Found(s, "broken")
         ELSE IF k = seek[s].key THEN Found(s, "found")
         ELSE Found(s, "absent")
      /\ UNCHANGED <<mapVars, seeks>>

SeekNode(s) ==
  LET a == arrays[seek[s].array]
      k == seek[s].node
  IN  /\ Seeking(s, "node")
      /\ IF k \in a.freed THEN Found(s, "broken")
         ELSE IF k = seek[s].key THEN Found(s, "found")
         ELSE IF a.next[k] = Nil THEN Found(s, "absent")
         ELSE seek' = [seek EXCEPT ![s].node = a.next[k]]
      /\ UNCHANGED <<mapVars, seeks>>

-----------------------------------------------------------------------------
PutSteps ==
  \/ Overwrite \/ Insert
  \/ Allocate \/ ClearCells \/ Resize \/ Move \/ DeleteChain \/ DeleteArray
  \/ Unlock

SeekSteps(s) == SeekArray(s) \/ SeekCell(s) \/ SeekNode(s)

Next ==
  \/ \E t \in Putters, k \in Keys : PutLock(t, k)
  \/ PutSteps
  \/ \E k \in Keys : Remove(k)
  \/ \E s \in Seekers, k \in Keys : SeekBucket(s, k)
  \/ \E s \in Seekers : SeekSteps(s)

Spec == Init /\ [][Next]_vars

-----------------------------------------------------------------------------
\* What the map holds.  While it grows, a key that was not moved is still in the old
\* array.
Content ==
  [k \in Keys |->
     IF job # Nil /\ job.pc \in {"clear", "resize"} THEN Old.value[k]
     ELSE IF Holds(arrays[nodes], k) THEN arrays[nodes].value[k]
     ELSE IF Growing /\ k \notin Old.freed THEN Old.value[k]
     ELSE Nil]

D == INSTANCE Dictionary WITH Values <- 1 .. Puts, dict <- Content

\* Each put and each remove() is that of a dictionary, at once, and nothing else, no
\* step of rehash_() in particular, changes what the map holds.
EachOperation ==
  /\ Overwrite \/ Insert => D!Put(job.key, job.value)
  /\ \A k \in Keys : Remove(k) => D!Remove(k)
  /\ Overwrite \/ Insert \/ (\E k \in Keys : Remove(k)) \/ UNCHANGED Content

ImplementsDictionary == D!Spec /\ [][EachOperation]_vars

\* What a look-up without the lock has returned: "found" of a key that is not there,
\* "absent" of one that was there all the time, and a look at memory that was freed
\* or never written are wrong.
Right(s) ==
  /\ seek[s].result # "broken"
  /\ seek[s].result = "absent" => ~seek[s].there
  /\ seek[s].result = "found" => Content[seek[s].key] # Nil

\* A look-up without the lock is right in spite of puts that overtake it, as long as
\* the map does not grow meanwhile.
LookupRight == \A s \in Seekers : Seeking(s, "out") /\ ~seek[s].grew => Right(s)

\* kvstore-fd.h:17 "Represents a concurrent map from Keys to size_t.": the same of all
\* look-ups.
ConcurrentMap == \A s \in Seekers : Seeking(s, "out") => Right(s)

=============================================================================
