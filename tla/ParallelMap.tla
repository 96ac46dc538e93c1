----------------------------- MODULE ParallelMap -----------------------------
(***************************************************************************)
(* pmap() (store/dataframe.h): the rows of a frame are cut into ranges,    *)
(* one per thread, every thread calls a rower of its own with the rows of  *)
(* its range, and the rowers are joined from the last to the first.        *)
(*                                                                         *)
(* What a rower has gathered is the sequence of the rows it was called     *)
(* with.  clone() returns an empty rower, as those of the tests do, and    *)
(* join_delete() adds what the other rower has gathered.                   *)
(***************************************************************************)
EXTENDS Naturals, Sequences

CONSTANTS
  MinRows,    \* MIN_NROWS_PER_THREAD
  MaxThreads, \* MAX_NUM_THREADS
  MaxRows     \* bound: how many rows a frame has

VARIABLES
  nrows,    \* the length of the frame
  spawned,  \* how many threads were started
  next,     \* thread |-> the next row it visits
  joined,   \* how many threads were joined
  merged,   \* how many rowers were joined
  rowers    \* thread |-> what its rower has gathered

vars == <<nrows, spawned, next, joined, merged, rowers>>

Threads == 0 .. MaxThreads - 1

Init ==
  /\ nrows \in 0 .. MaxRows
  /\ spawned = 0
  /\ next = [t \in Threads |-> 0]
  /\ joined = 0
  /\ merged = 0
  /\ rowers = [t \in Threads |-> <<>>]

-----------------------------------------------------------------------------
\* Mutation: the rows that do not fill a range are left out.
RowsPerThreadRoundsDown(n) == nrows \div n

RowsPerThread(n) == nrows \div n + 1

\* The first number of threads that is large enough.
NumThreads ==
  CHOOSE n \in 1 .. MaxThreads :
    /\ n = MaxThreads \/ RowsPerThread(n) < 2 * MinRows
    /\ \A k \in 1 .. n - 1 : RowsPerThread(k) >= 2 * MinRows

First(t) == RowsPerThread(NumThreads) * t
End(t) == IF nrows <= First(t + 1) THEN nrows ELSE First(t + 1)

Call(t, i) == rowers' = [rowers EXCEPT ![t] = Append(@, i)]

\* map(), when one thread is enough
Map ==
  /\ NumThreads = 1
  /\ next[0] < nrows
  /\ Call(0, next[0])
  /\ next' = [next EXCEPT ![0] = @ + 1]
  /\ UNCHANGED <<nrows, spawned, joined, merged>>

\* The rower is cloned from that of the thread before, which may be running.
Spawn ==
  /\ NumThreads > 1
  /\ spawned < NumThreads
  /\ spawned' = spawned + 1
  /\ next' = [next EXCEPT ![spawned] = First(spawned)]
  /\ UNCHANGED <<nrows, joined, merged, rowers>>

\* RowThread::run()
Visit(t) ==
  /\ t < spawned
  /\ next[t] < End(t)
  /\ Call(t, next[t])
  /\ next' = [next EXCEPT ![t] = @ + 1]
  /\ UNCHANGED <<nrows, spawned, joined, merged>>

Ended(t) == t < spawned /\ next[t] = End(t)

Join ==
  /\ spawned = NumThreads
  /\ joined < NumThreads
  /\ Ended(joined)
  /\ joined' = joined + 1
  /\ UNCHANGED <<nrows, spawned, next, merged, rowers>>

JoinDelete ==
  LET t == NumThreads - 1 - merged
  IN  /\ joined = NumThreads
      /\ merged < NumThreads - 1
      /\ rowers' = [rowers EXCEPT ![t - 1] = @ \o rowers[t]]
      /\ merged' = merged + 1
      /\ UNCHANGED <<nrows, spawned, next, joined>>

Next ==
  \/ Map
  \/ Spawn
  \/ \E t \in Threads : Visit(t)
  \/ Join
  \/ JoinDelete

Spec == Init /\ [][Next]_vars

-----------------------------------------------------------------------------
Returned ==
  IF NumThreads = 1 THEN next[0] = nrows
  ELSE joined = NumThreads /\ merged = NumThreads - 1

\* dataframe.h:35: the assertion of every RowThread holds, and the rower that pmap()
\* was given ends up with what map() gives it: every row once and in order, however
\* the rows divide and the threads are scheduled.
PmapIsMap ==
  /\ NumThreads > 1 => \A t \in 0 .. NumThreads - 1 : First(t) < End(t)
  /\ Returned => rowers[0] = [i \in 1 .. nrows |-> i - 1]

=============================================================================
