----------------------------- MODULE AppsProofs -----------------------------
(***************************************************************************)
(* Proofs about Apps: every step of the applications is one of the store,  *)
(* so that the theorems about KVStore hold of it, a node that reads a      *)
(* chunk from its own map finds it there, and stop_all() comes last, for   *)
(* any number of nodes, chunks and degrees and any lengths of the frames.  *)
(***************************************************************************)
EXTENDS Apps, WellOrdering, SequenceTheorems

Store == INSTANCE KVStoreProofs WITH Keys <- AppKeys, Home <- AppHome, Data <- Sizes

USE AppsAssumption DEF Nodes

-----------------------------------------------------------------------------
\* What the proofs need of the scripts.

FrameNames == [name : Names, stage : Nat, home : Nodes]
LoadOps == {"all", "local"}
ReadOps == {"open"} \cup LoadOps
KnowOps == {"open"} \cup WriteOps
Tasks == [op : WriteOps \cup ReadOps, frame : FrameNames] \cup {StopTask}

\* A node loads the frames it has opened or written.
LoadsKnown(s) ==
  \A j \in 1 .. Len(s) : s[j].op \in LoadOps =>
    \E i \in 1 .. Len(s) : i < j /\ s[i].op \in KnowOps /\ s[i].frame = s[j].frame

\* It opens a frame of its own after it wrote it.
OpensOwn(s, n) ==
  \A j \in 1 .. Len(s) : s[j].op = "open" /\ s[j].frame.home = n =>
    \E i \in 1 .. Len(s) : i < j /\ s[i].op \in WriteOps /\ s[i].frame = s[j].frame

\* It writes a frame once, and does not open it first.
WritesFresh(s) ==
  \A j \in 1 .. Len(s) : s[j].op \in WriteOps =>
    \A i \in 1 .. Len(s) : i < j /\ s[i].op \in KnowOps => s[i].frame # s[j].frame

\* It does not end with an open.
EndsDone(s) == s # <<>> => s[Len(s)].op # "open"

\* Only one task writes the frame f, the l-th of node m.
OnlyWriter(a, f, m, l) ==
  \A i \in Nodes : \A j \in 1 .. Len(Scripts[a][i]) :
    Scripts[a][i][j].op \in WriteOps /\ Scripts[a][i][j].frame = f => i = m /\ j = l

\* Before node n stops it has opened a frame that m writes after its last get.
SeesLast(a, n, m) ==
  LET s == Scripts[a][n]
      t == Scripts[a][m]
  IN  \E i \in 1 .. Len(s), l \in 1 .. Len(t) :
        /\ s[i].op = "open"
        /\ OnlyWriter(a, s[i].frame, m, l)
        /\ \A j \in 1 .. Len(t) : j >= l => t[j].op \notin ReadOps

\* Who stops does it last, and sees that the others are done.
StopsLast(a, n) ==
  LET s == Scripts[a][n]
  IN  \A j \in 1 .. Len(s) : s[j].op = "stop" =>
        /\ j = Len(s)
        /\ \/ a = "linus"
           \/ \A m \in Nodes \ {n} :
                \/ \A i \in 1 .. Len(Scripts[a][m]) : Scripts[a][m][i].op \notin ReadOps
                \/ SeesLast(a, n, m)

WellScripted(a) ==
  \A n \in Nodes :
    /\ Scripts[a][n] \in Seq(Tasks)
    /\ LoadsKnown(Scripts[a][n])
    /\ OpensOwn(Scripts[a][n], n)
    /\ WritesFresh(Scripts[a][n])
    /\ EndsDone(Scripts[a][n])
    /\ StopsLast(a, n)

-----------------------------------------------------------------------------
\* The invariants.

S(n) == Scripts[app][n]

AppTypes ==
  /\ app \in Apps
  /\ task \in [Nodes -> Nat \ {0}]
  /\ chunk \in [Nodes -> Nat]
  /\ rows \in [Nodes -> [Frames -> Sizes \cup {Nil}]]

\* Node n waits for a chunk it loads, or for the schema it opened with its last task.
AwaitsGets(n) ==
  phase[n] = "await" =>
    \/ Doing(n, LoadOps) /\ want[n].part # 0
    \/ /\ task[n] - 1 \in 1 .. Len(S(n))
       /\ S(n)[task[n] - 1] = Task("open", want[n].frame)
       /\ want[n] = SchemaKey(want[n].frame)
       /\ chunk[n] = 0

\* It knows the length of what it opened and wrote, and of nothing else.
KnowsRows(n) ==
  \A i \in 1 .. Len(S(n)) : i < task[n] /\ S(n)[i].op \in KnowOps =>
    \/ rows[n][S(n)[i].frame] # Nil
    \/ phase[n] = "await" /\ want[n] = SchemaKey(S(n)[i].frame)
FreshRows(n) ==
  \A f \in Frames : rows[n][f] # Nil =>
    \E i \in 1 .. Len(S(n)) :
      /\ S(n)[i].op \in KnowOps /\ S(n)[i].frame = f
      /\ i < task[n] \/ (i = task[n] /\ S(n)[i].op \in WriteOps)

Writing(n, f) == Doing(n, WriteOps) /\ TheFrame(n) = f

\* Of the frame it writes the chunks up to chunk[n] are stored or sent,
SentUpTo(n, f, l) ==
  \A c \in 0 .. l - 1 :
    /\ Store!Underway(ChunkKey(f, c))
    /\ ChunkHome(f, c) = n => Store!Stored(ChunkKey(f, c))
ChunksSent(n) ==
  Doing(n, WriteOps) =>
    LET f == TheFrame(n)
        r == rows[n][f]
    IN  IF r = Nil THEN chunk[n] = 0
        ELSE /\ r \in RowsOf(app, TheOp(n))
             /\ chunk[n] <= ChunksWritten(TheOp(n), r)
             /\ SentUpTo(n, f, chunk[n])

\* and of a frame it knows those homed on it are stored.
StoredHere(n, f, l) ==
  \A c \in 0 .. l - 1 : ChunkHome(f, c) = n => Store!Stored(ChunkKey(f, c))
ChunksHere(n) ==
  \A f \in Frames : rows[n][f] # Nil /\ ~Writing(n, f) => StoredHere(n, f, ChunksRead(rows[n][f]))

OwnSchemas(n) ==
  \A i \in 1 .. Len(S(n)) :
    i < task[n] /\ S(n)[i].op \in WriteOps /\ S(n)[i].frame.home = n =>
      Store!Stored(SchemaKey(S(n)[i].frame))

NodeInv(n) ==
  /\ AwaitsGets(n)
  /\ KnowsRows(n)
  /\ FreshRows(n)
  /\ ChunksSent(n)
  /\ ChunksHere(n)
  /\ OwnSchemas(n)

\* A schema rests on the chunks of its frame that a reader loads.
Chunks(f, r) == {ChunkKey(f, c) : c \in 0 .. ChunksRead(r) - 1}
Rests == [b \in Store!Blob \cup {Nil} |->
            IF b = Nil THEN {} ELSE IF b.of.part = 0 THEN Chunks(b.of.frame, b.data) ELSE {}]
CausesFirst == Store!Causal(Rests)

ReadInv ==
  /\ AppTypes
  /\ Store!IInv
  /\ CausesFirst
  /\ \A n \in Nodes : NodeInv(n)

\* A schema is somewhere, or its length known, after the frame was written.
Written(f) == \E m \in Nodes : \E l \in 1 .. Len(S(m)) :
                l < task[m] /\ S(m)[l].op \in WriteOps /\ S(m)[l].frame = f
SchemasWritten ==
  \A b \in Store!Blob : Store!Somewhere(b) /\ b.of.part = 0 => Written(b.of.frame)
RowsWritten ==
  \A n \in Nodes, f \in Frames : rows[n][f] # Nil => Written(f) \/ Writing(n, f)

\* Node s has called stop_all().
Stopped(s) == \E p \in 1 .. Len(S(s)) : p < task[s] /\ S(s)[p].op = "stop"
Quiet(m) ==
  /\ phase[m] # "await"
  /\ \A i \in 1 .. Len(S(m)) : i >= task[m] => S(m)[i].op \notin ReadOps
OthersQuiet ==
  \A s \in Nodes : Stopped(s) =>
    phase[s] \in {"stop", "joining", "closed"} /\ \A m \in Nodes \ {s} : Quiet(m)
\* Nobody stops, is told to or finds its servicer stopped before.
StopsFirst ==
  \A n \in Nodes : Store!Halting(n) => \E s \in Nodes : Stopped(s)

StopInv ==
  /\ ReadInv
  /\ SchemasWritten
  /\ RowsWritten
  /\ OthersQuiet
  /\ StopsFirst

-----------------------------------------------------------------------------
\* How many chunks a frame may have.

LEMMA ChunkCounts ==
  ASSUME NEW r \in Nat
  PROVE  /\ ChunksRead(r) \in Nat
         /\ ChunksRead(r) <= ChunksWritten("file", r)
         /\ \A op \in WriteOps \ {"scalar"} :
              ChunksWritten(op, r) \in Nat /\ ChunksRead(r) <= ChunksWritten(op, r)
              /\ ChunksWritten(op, r) <= ChunksWritten("file", r)
         /\ ChunksWritten("scalar", r) = 1 /\ ChunksWritten("scalar", r) <= ChunksWritten("file", r)
         /\ ChunksRead(1) = 1
<1>1. PICK C \in Nat \ {0} : C = ChunkSize
  OBVIOUS
<1> DEFINE q == r \div C
           j == r % C
<1>2. q \in Nat /\ j \in 0 .. C - 1 /\ r = C * q + j
  BY <1>1
<1>3. ChunksRead(r) = IF j = 0 THEN q ELSE q + 1
  BY <1>1 DEF ChunksRead
<1>4. ChunksWritten("file", r) = q + 1 /\ ChunksWritten("array", r) = q + 1
      /\ ChunksWritten("scalar", r) = 1
  BY <1>1 DEF ChunksWritten
<1>5. ChunksWritten("visitor", r) = (r + C - 1) \div C
  BY <1>1 DEF ChunksWritten
<1>6. (r + C - 1) \div C = IF j = 0 THEN q ELSE q + 1
  <2>1. CASE j = 0
    <3>1. r + C - 1 = C * q + (C - 1) /\ C - 1 \in 0 .. C - 1
      BY <2>1, <1>2
    <3> QED
      BY <3>1, <2>1, <1>2
  <2>2. CASE j # 0
    <3>1. r + C - 1 = C * (q + 1) + (j - 1) /\ j - 1 \in 0 .. C - 1
      BY <2>2, <1>2
    <3> QED
      BY <3>1, <2>2, <1>2
  <2> QED
    BY <2>1, <2>2
<1>7. ChunksRead(1) = 1
  <2>1. CASE C = 1
    BY <2>1, <1>1 DEF ChunksRead
  <2>2. CASE C # 1
    <3>1. 1 % C = 1 /\ 1 \div C = 0
      BY <2>2
    <3> QED
      BY <3>1, <1>1 DEF ChunksRead
  <2> QED
    BY <2>1, <2>2
<1> HIDE DEF q, j
<1> QED
  BY <1>2, <1>3, <1>4, <1>5, <1>6, <1>7 DEF WriteOps

LEMMA ImageFinite ==
  ASSUME NEW A, IsFiniteSet(A), NEW f, DOMAIN f = A, f = [x \in A |-> f[x]]
  PROVE  IsFiniteSet({f[x] : x \in A})
<1>1. f \in Surjection(A, {f[x] : x \in A})
  BY DEF Surjection
<1> QED
  BY <1>1, FS_Surjection

LEMMA SizesAre == Sizes \subseteq Nat /\ IsFiniteSet(Sizes) /\ 1 \in Sizes
<1> DEFINE f == [a \in Apps |-> InputRows[a] \cup OutputRows[a]]
           A == {f[a] : a \in Apps}
<1>1. \A a \in Apps : IsFiniteSet(f[a]) /\ f[a] \subseteq Nat
  BY FS_Union
<1>2. DOMAIN f = Apps /\ f = [a \in Apps |-> f[a]]
  OBVIOUS
<1>3. Sizes = {1} \cup UNION A
  BY DEF Sizes
<1> HIDE DEF f
<1>4. IsFiniteSet(A)
  BY <1>2, ImageFinite
<1>5. \A X \in A : IsFiniteSet(X) /\ X \subseteq Nat
  BY <1>1
<1> HIDE DEF A
<1>6. IsFiniteSet(UNION A) /\ UNION A \subseteq Nat
  BY <1>4, <1>5, FS_UNION
<1>7. IsFiniteSet({1})
  BY FS_Singleton
<1>8. IsFiniteSet({1} \cup UNION A)
  BY <1>6, <1>7, FS_Union
<1> QED
  BY <1>3, <1>6, <1>8

LEMMA MostChunksIs ==
  MostChunks \in Nat /\ \A r \in Sizes : ChunksWritten("file", r) <= MostChunks
<1> DEFINE A == {ChunksWritten("file", r) : r \in Sizes}
<1>1. A \in SUBSET Nat /\ A # {}
  BY SizesAre, ChunkCounts DEF WriteOps
<1>2. IsFiniteSet(A)
  <2> DEFINE f == [r \in Sizes |-> ChunksWritten("file", r)]
  <2>1. A = {f[r] : r \in Sizes}
    OBVIOUS
  <2>2. DOMAIN f = Sizes /\ f = [r \in Sizes |-> f[r]]
    OBVIOUS
  <2> HIDE DEF f, A
  <2> QED
    BY <2>1, <2>2, SizesAre, ImageFinite
<1>3. PICK m \in A : \A c \in A : c <= m
  BY <1>1, <1>2, GreatestNatural
<1>4. \E c \in A : \A r \in Sizes : ChunksWritten("file", r) <= c
  BY <1>3
<1> QED
  BY <1>1, <1>4 DEF MostChunks

-----------------------------------------------------------------------------
\* The keys of the applications are keys of the store.

AllWell == \A a \in Apps : WellScripted(a)

LEMMA FramesAre ==
  ASSUME AllWell
  PROVE  /\ Frames \subseteq FrameNames
         /\ \A a \in Apps, n \in Nodes : \A i \in 1 .. Len(Scripts[a][n]) :
              /\ Scripts[a][n][i] \in Tasks
              /\ Scripts[a][n][i].op # "stop" =>
                   /\ Scripts[a][n][i].op \in WriteOps \cup ReadOps
                   /\ Scripts[a][n][i].frame \in Frames
<1>1. ASSUME NEW a \in Apps, NEW n \in Nodes, NEW i \in 1 .. Len(Scripts[a][n])
      PROVE  Scripts[a][n][i] \in Tasks
  BY DEF AllWell, WellScripted
<1>2. Nil \notin FrameNames
  BY NilAssumption DEF FrameNames
<1>3. ASSUME NEW t \in Tasks
      PROVE  IF t.op = "stop" THEN t.frame = Nil
             ELSE t.op \in WriteOps \cup ReadOps /\ t.frame \in FrameNames
  BY DEF Tasks, StopTask, Task, WriteOps, ReadOps, LoadOps
<1>4. ASSUME NEW a \in Apps, NEW n \in Nodes, NEW t \in ToSet(Scripts[a][n])
      PROVE  t \in Tasks
  BY <1>1 DEF ToSet, AllWell, WellScripted
<1>5. Frames \subseteq FrameNames
  BY <1>3, <1>4 DEF Frames
<1>6. ASSUME NEW a \in Apps, NEW n \in Nodes, NEW i \in 1 .. Len(Scripts[a][n]),
             Scripts[a][n][i].op # "stop"
      PROVE  Scripts[a][n][i].op \in WriteOps \cup ReadOps /\ Scripts[a][n][i].frame \in Frames
  <2>1. Scripts[a][n][i] \in ToSet(Scripts[a][n])
    BY DEF ToSet, AllWell, WellScripted
  <2> DEFINE t == Scripts[a][n][i]
  <2>2. t \in Tasks /\ t.op # "stop"
    BY <1>1, <1>6
  <2>3. t.op \in WriteOps \cup ReadOps /\ t.frame \in FrameNames
    <3> HIDE DEF t
    <3> QED
      BY <1>3, <2>2
  <2>4. t \in UNION {ToSet(Scripts[x][m]) : x \in Apps, m \in Nodes}
    BY <2>1
  <2>5. t.frame \in Frames
    <3> HIDE DEF t
    <3> QED
      BY <1>2, <2>3, <2>4 DEF Frames
  <2> QED
    BY <2>3, <2>5
<1> QED
  BY <1>1, <1>5, <1>6

LEMMA KeysAre ==
  ASSUME AllWell, NEW f \in Frames
  PROVE  /\ SchemaKey(f) \in AppKeys
         /\ AppHome[SchemaKey(f)] = f.home /\ KeyHome(SchemaKey(f)) = f.home
         /\ f.home \in Nodes
         /\ SchemaKey(f).part = 0 /\ SchemaKey(f).frame = f
         /\ \A c \in 0 .. MostChunks - 1 :
              /\ ChunkKey(f, c) \in AppKeys
              /\ AppHome[ChunkKey(f, c)] = ChunkHome(f, c)
              /\ KeyHome(ChunkKey(f, c)) = ChunkHome(f, c)
              /\ ChunkHome(f, c) \in Nodes
              /\ ChunkKey(f, c).part = c + 1 /\ ChunkKey(f, c).frame = f
<1>1. f \in FrameNames /\ MostChunks \in Nat
  BY FramesAre, MostChunksIs
<1>2. f.home \in Nodes
  BY <1>1 DEF FrameNames
<1>3. SchemaKey(f) \in AppKeys /\ SchemaKey(f).part = 0 /\ SchemaKey(f).frame = f
  BY <1>1 DEF SchemaKey, AppKeys
<1>4. AppHome[SchemaKey(f)] = f.home /\ KeyHome(SchemaKey(f)) = f.home
  BY <1>3 DEF AppHome, KeyHome
<1>5. ASSUME NEW c \in 0 .. MostChunks - 1
      PROVE  /\ ChunkKey(f, c) \in AppKeys
             /\ AppHome[ChunkKey(f, c)] = ChunkHome(f, c)
             /\ KeyHome(ChunkKey(f, c)) = ChunkHome(f, c)
             /\ ChunkHome(f, c) \in Nodes
             /\ ChunkKey(f, c).part = c + 1 /\ ChunkKey(f, c).frame = f
  <2>1. ChunkKey(f, c).part = c + 1 /\ ChunkKey(f, c).frame = f
    BY DEF ChunkKey
  <2>2. c + 1 \in 0 .. MostChunks /\ c + 1 # 0 /\ (c + 1) - 1 = c
    BY <1>1
  <2>3. ChunkKey(f, c) \in AppKeys
    BY <2>2 DEF ChunkKey, AppKeys
  <2>4. KeyHome(ChunkKey(f, c)) = ChunkHome(f, c)
    BY <2>1, <2>2 DEF KeyHome
  <2>5. ChunkHome(f, c) \in Nodes
    <3>1. PICK C \in Nat \ {0} : C = NumNodes
      OBVIOUS
    <3>2. f.home + c \in Nat
      BY <1>2
    <3>3. (f.home + c) % C \in 0 .. C - 1
      BY <3>2
    <3> QED
      BY <3>1, <3>3 DEF ChunkHome
  <2> QED
    BY <2>1, <2>3, <2>4, <2>5 DEF AppHome
<1> QED
  BY <1>2, <1>3, <1>4, <1>5

\* What KVStore assumes of its constants holds of the applications' keys.
LEMMA StoreAssumed ==
  ASSUME AllWell
  PROVE  /\ AppHome \in [AppKeys -> Nodes]
         /\ Nil \notin AppKeys /\ Nil \notin [of : AppKeys, data : Sizes]
<1>1. ASSUME NEW k \in AppKeys PROVE KeyHome(k) \in Nodes
  <2>1. k.frame \in Frames /\ k.part \in 0 .. MostChunks /\ MostChunks \in Nat
    BY MostChunksIs DEF AppKeys
  <2>2. CASE k.part = 0
    BY <2>1, <2>2, KeysAre DEF KeyHome
  <2>3. CASE k.part # 0
    <3>1. k.part - 1 \in 0 .. MostChunks - 1
      BY <2>1, <2>3
    <3>2. ChunkHome(k.frame, k.part - 1) \in Nodes
      BY <2>1, <3>1, KeysAre
    <3> QED
      BY <2>3, <3>2 DEF KeyHome
  <2> QED
    BY <2>2, <2>3
<1> QED
  BY <1>1, NilAssumption DEF AppHome

-----------------------------------------------------------------------------
\* KV and Store are the same module with the same substitutions.

LEMMA SameSteps ==
  ASSUME NEW n \in Nodes
  PROVE  /\ KV!Start(n) <=> Store!Start(n)
         /\ KV!SendKill(n) <=> Store!SendKill(n)
         /\ KV!Close(n) <=> Store!Close(n)
         /\ KV!Servicer(n) <=> Store!Servicer(n)
         /\ KV!ReplierFor(n) <=> Store!ReplierFor(n)
         /\ KV!NextValue(n) <=> Store!NextValue(n)
         /\ KV!StopAll(n) <=> Store!StopAll(n)
         /\ KV!FinishRun(n) <=> Store!FinishRun(n)
         /\ \A k \in AppKeys : /\ KV!GetLocal(n, k) <=> Store!GetLocal(n, k)
                               /\ KV!GetRemote(n, k) <=> Store!GetRemote(n, k)
                               /\ \A d \in Sizes : KV!Put(n, k, d) <=> Store!Put(n, k, d)
<1> USE DEF KV!servicerVars, Store!servicerVars, KV!appVars, Store!appVars, KV!Nodes, Store!Nodes,
            KV!Send, Store!Send, KV!Receive, Store!Receive, KV!StoreLocally, Store!StoreLocally
<1>1. KV!Start(n) <=> Store!Start(n)
  BY DEF KV!Start, Store!Start
<1>2. KV!SendKill(n) <=> Store!SendKill(n)
  BY DEF KV!SendKill, Store!SendKill, KV!KillComesNext, Store!KillComesNext,
         KV!KillMessage, Store!KillMessage
<1>3. KV!Close(n) <=> Store!Close(n)
  BY DEF KV!Close, Store!Close
<1>4. KV!Servicer(n) <=> Store!Servicer(n)
  <2>1. KV!HandlePut(n) <=> Store!HandlePut(n)
    BY DEF KV!HandlePut, Store!HandlePut
  <2>2. KV!HandleGet(n) <=> Store!HandleGet(n)
    BY DEF KV!HandleGet, Store!HandleGet, KV!NewReplier, Store!NewReplier
  <2>3. KV!HandleReply(n) <=> Store!HandleReply(n)
    BY DEF KV!HandleReply, Store!HandleReply
  <2>4. KV!HandleKill(n) <=> Store!HandleKill(n)
    BY DEF KV!HandleKill, Store!HandleKill
  <2> QED
    BY <2>1, <2>2, <2>3, <2>4 DEF KV!Servicer, Store!Servicer
<1>5. KV!ReplierFor(n) <=> Store!ReplierFor(n)
  <2>1. \A r \in repliers : KV!Fetch(r) <=> Store!Fetch(r)
    BY DEF KV!Fetch, Store!Fetch
  <2>2. \A r \in repliers : KV!Answer(r) <=> Store!Answer(r)
    BY DEF KV!Answer, Store!Answer, KV!ReplyMessage, Store!ReplyMessage
  <2> QED
    BY <2>1, <2>2 DEF KV!ReplierFor, Store!ReplierFor
<1>6. KV!NextValue(n) <=> Store!NextValue(n)
  BY DEF KV!NextValue, Store!NextValue
<1>7. KV!StopAll(n) <=> Store!StopAll(n)
  BY DEF KV!StopAll, Store!StopAll
<1>8. KV!FinishRun(n) <=> Store!FinishRun(n)
  BY DEF KV!FinishRun, Store!FinishRun
<1>9. ASSUME NEW k \in AppKeys
      PROVE  /\ KV!GetLocal(n, k) <=> Store!GetLocal(n, k)
             /\ KV!GetRemote(n, k) <=> Store!GetRemote(n, k)
             /\ \A d \in Sizes : KV!Put(n, k, d) <=> Store!Put(n, k, d)
  <2>1. KV!GetLocal(n, k) <=> Store!GetLocal(n, k)
    BY DEF KV!GetLocal, Store!GetLocal
  <2>2. KV!GetRemote(n, k) <=> Store!GetRemote(n, k)
    BY DEF KV!GetRemote, Store!GetRemote, KV!GetMessage, Store!GetMessage
  <2>3. \A d \in Sizes : KV!Put(n, k, d) <=> Store!Put(n, k, d)
    BY DEF KV!Put, Store!Put, KV!PutMessage, Store!PutMessage
  <2> QED
    BY <2>1, <2>2, <2>3
<1> QED
  BY <1>1, <1>2, <1>3, <1>4, <1>5, <1>6, <1>7, <1>8, <1>9

LEMMA SameInit == KV!Init <=> Store!Init
BY DEF KV!Init, Store!Init, KV!Nodes, Store!Nodes

-----------------------------------------------------------------------------
\* What the theorems about KVStore say here.

StoreStep == [Store!Next]_(Store!vars)

LEMMA StoreNodes == Store!Nodes = Nodes
BY DEF Store!Nodes

LEMMA StoreInit == ASSUME AllWell, Store!Init PROVE Store!IInv
BY StoreAssumed, Store!InitInv DEF Store!Nodes, Store!Blob

LEMMA StoreInvNext == ASSUME AllWell, Store!IInv, StoreStep PROVE Store!IInv'
BY StoreAssumed, Store!NextInv DEF Store!Nodes, Store!Blob, StoreStep

\* The types, spelled out.
LEMMA StoreTypes ==
  ASSUME Store!IInv
  PROVE  /\ store \in [Nodes -> [AppKeys -> Store!Blob \cup {Nil}]]
         /\ cur \in [Nodes -> Store!Blob \cup {Nil}]
         /\ phase \in [Nodes -> Store!Phase]
         /\ want \in [Nodes -> AppKeys \cup {Nil}]
         /\ running \in [Nodes -> BOOLEAN]
         /\ queues \in [Nodes -> Seq(Store!Message)]
         /\ \A n \in Nodes : cur[n] # Nil => cur[n].of = want[n]
         /\ \A n \in Nodes, k \in AppKeys : store[n][k] # Nil =>
              store[n][k].of = k /\ AppHome[k] = n
BY DEF Store!IInv, Store!TypeOK, Store!Nodes, Store!AnswerIsForTheKey, Store!SlotForTheKey,
       Store!Filled, Store!KeptUnderItsKey, Store!StoreKept

\* What is stored or sent stays.
LEMMA Stays ==
  ASSUME AllWell, Store!IInv, StoreStep, NEW k \in AppKeys
  PROVE  /\ Store!Stored(k) => Store!Stored(k)'
         /\ Store!Underway(k) => Store!Underway(k)'
BY StoreAssumed, Store!StaysUnderway
   DEF Store!Nodes, Store!Blob, StoreStep, Store!IInv, Store!KeptUnderItsKey

LEMMA NothingNew ==
  ASSUME AllWell, Store!IInv, NEW puts, [Store!StepPuts(puts)]_(Store!vars),
         NEW b \in Store!Blob, Store!Somewhere(b)'
  PROVE  Store!Somewhere(b) \/ \E n \in Nodes : <<n, b>> \in puts
BY StoreAssumed, Store!ValuesPassedOn
   DEF Store!Nodes, Store!Blob, Store!IInv, Store!NewValue

LEMMA RestsAre ==
  ASSUME AllWell
  PROVE  /\ Rests \in [Store!Blob \cup {Nil} -> SUBSET AppKeys]
         /\ Rests[Nil] = {}
         /\ \A b \in Store!Blob : b # Nil
         /\ \A f \in Frames, r \in Sizes : Chunks(f, r) \subseteq AppKeys
<1>1. ASSUME NEW f \in Frames, NEW r \in Sizes PROVE Chunks(f, r) \subseteq AppKeys
  <2>1. r \in Nat /\ ChunksRead(r) \in Nat /\ ChunksRead(r) <= ChunksWritten("file", r)
        /\ ChunksWritten("file", r) <= MostChunks /\ MostChunks \in Nat
        /\ ChunksWritten("file", r) \in Nat
    BY SizesAre, ChunkCounts, MostChunksIs DEF WriteOps
  <2>2. \A c \in 0 .. ChunksRead(r) - 1 : c \in 0 .. MostChunks - 1
    BY <2>1
  <2> QED
    BY <2>2, KeysAre DEF Chunks
<1>2. \A b \in Store!Blob : b # Nil /\ b.of.frame \in Frames /\ b.data \in Sizes
  BY StoreAssumed DEF Store!Blob, AppKeys
<1> QED
  BY <1>1, <1>2 DEF Rests

LEMMA CausesInit == ASSUME AllWell, Store!Init PROVE CausesFirst
BY StoreAssumed, RestsAre, Store!CausalInit DEF Store!Nodes, Store!Blob, CausesFirst

LEMMA CausesNext ==
  ASSUME AllWell, Store!IInv, CausesFirst, NEW puts, [Store!StepPuts(puts)]_(Store!vars),
         \A n \in Nodes, b \in Store!Blob :
           <<n, b>> \in puts => Store!PutsInOrder(Rests, n, b)
  PROVE  StoreStep /\ CausesFirst'
<1> USE StoreAssumed, RestsAre
<1>1. Store!TypeOK /\ Store!QueuesKept
  BY DEF Store!IInv, Store!KeptUnderItsKey
<1> QED
  BY <1>1, Store!CausalNext, Store!NextPuts, StoreNodes
     DEF StoreStep, CausesFirst, Store!Blob, Store!Nodes

-----------------------------------------------------------------------------
\* The steps of the applications, spelled out.

\* The task a node is at.
LEMMA TaskIs ==
  ASSUME AllWell, AppTypes, NEW n \in Nodes, HasTask(n)
  PROVE  /\ task[n] \in 1 .. Len(S(n))
         /\ S(n)[task[n]] = Scripts[app][n][task[n]]
         /\ TheOp(n) # "stop" => TheOp(n) \in WriteOps \cup ReadOps /\ TheFrame(n) \in Frames
<1>1. Scripts[app][n] \in Seq(Tasks) /\ task[n] \in Nat \ {0}
  BY DEF AllWell, WellScripted, AppTypes
<1>2. task[n] \in 1 .. Len(S(n))
  BY <1>1 DEF S, HasTask
<1> QED
  BY <1>2, FramesAre DEF S, AppTypes, TheOp, TheFrame

\* The frame of a script's task.
LEMMA FrameIs ==
  ASSUME AllWell, AppTypes, NEW n \in Nodes, NEW i \in 1 .. Len(S(n)), S(n)[i].op # "stop"
  PROVE  S(n)[i].frame \in Frames
BY FramesAre DEF S, AppTypes

LEMMA RowsAre ==
  ASSUME AppTypes, NEW op \in WriteOps
  PROVE  RowsOf(app, op) \subseteq Sizes
BY DEF AppTypes, RowsOf, WriteOps, Sizes

\* The lengths and chunks of a frame that is written.
LEMMA WrittenChunks ==
  ASSUME AppTypes, NEW op \in WriteOps, NEW r \in RowsOf(app, op)
  PROVE  /\ r \in Sizes /\ ChunksWritten(op, r) \in Nat
         /\ ChunksRead(r) \in Nat /\ ChunksRead(r) <= ChunksWritten(op, r)
         /\ ChunksWritten(op, r) <= MostChunks /\ MostChunks \in Nat
<1>1. r \in Sizes /\ r \in Nat
  BY RowsAre, SizesAre
<1>2. ChunksWritten("file", r) <= MostChunks /\ MostChunks \in Nat /\ ChunksWritten("file", r) \in Nat
  BY <1>1, MostChunksIs, ChunkCounts DEF WriteOps
<1>3. CASE op = "scalar"
  <2>1. r = 1
    BY <1>3 DEF RowsOf
  <2> QED
    BY <1>1, <1>2, <1>3, <2>1, ChunkCounts
<1>4. CASE op # "scalar"
  BY <1>1, <1>2, <1>4, ChunkCounts
<1> QED
  BY <1>3, <1>4

\* What is read has no more chunks than there are keys for.
LEMMA ReadChunks ==
  ASSUME NEW r \in Sizes
  PROVE  ChunksRead(r) \in Nat /\ MostChunks \in Nat /\ ChunksRead(r) <= MostChunks
<1>1. r \in Nat /\ ChunksWritten("file", r) <= MostChunks /\ MostChunks \in Nat
  BY SizesAre, MostChunksIs
<1>2. ChunksWritten("file", r) \in Nat /\ ChunksRead(r) \in Nat
      /\ ChunksRead(r) <= ChunksWritten("file", r)
  BY <1>1, ChunkCounts DEF WriteOps
<1> QED
  BY <1>1, <1>2

\* The length a write of node n goes on with.
LengthOf(n, r) ==
  r \in IF rows[n][TheFrame(n)] = Nil THEN RowsOf(app, TheOp(n)) ELSE {rows[n][TheFrame(n)]}
ChunkPut(n, r) ==
  /\ chunk[n] < ChunksWritten(TheOp(n), r)
  /\ Store!Put(n, ChunkKey(TheFrame(n), chunk[n]), r)
  /\ chunk' = [chunk EXCEPT ![n] = @ + 1]
  /\ UNCHANGED task
SchemaPut(n, r) ==
  /\ ~(chunk[n] < ChunksWritten(TheOp(n), r))
  /\ Store!Put(n, SchemaKey(TheFrame(n)), r)
  /\ NextTask(n)

LEMMA WriteDoes ==
  ASSUME AllWell, AppTypes, NEW n \in Nodes, ChunksSent(n), Write(n)
  PROVE  /\ TheOp(n) \in WriteOps /\ TheFrame(n) \in Frames /\ HasTask(n)
         /\ \E r \in RowsOf(app, TheOp(n)) :
              /\ LengthOf(n, r)
              /\ rows' = [rows EXCEPT ![n][TheFrame(n)] = r]
              /\ chunk[n] < ChunksWritten(TheOp(n), r) =>
                   chunk[n] \in 0 .. MostChunks - 1 /\ ChunkKey(TheFrame(n), chunk[n]) \in AppKeys
              /\ ChunkPut(n, r) \/ SchemaPut(n, r)
<1>1. HasTask(n) /\ TheOp(n) \in WriteOps /\ Doing(n, WriteOps)
  BY DEF Write, Doing, TheOp
<1>2. TheFrame(n) \in Frames
  BY <1>1, TaskIs DEF WriteOps
<1>3. PICK r : /\ LengthOf(n, r)
               /\ rows' = [rows EXCEPT ![n][TheFrame(n)] = r]
               /\ IF chunk[n] < ChunksWritten(TheOp(n), r)
                    THEN /\ KV!Put(n, ChunkKey(TheFrame(n), chunk[n]), r)
                         /\ chunk' = [chunk EXCEPT ![n] = @ + 1]
                         /\ UNCHANGED task
                    ELSE /\ KV!Put(n, SchemaKey(TheFrame(n)), r)
                         /\ NextTask(n)
  BY DEF Write, LengthOf
<1>4. r \in RowsOf(app, TheOp(n))
  BY <1>1, <1>3 DEF LengthOf, ChunksSent
<1>5. r \in Sizes /\ ChunksWritten(TheOp(n), r) \in Nat /\ MostChunks \in Nat
      /\ ChunksWritten(TheOp(n), r) <= MostChunks
  BY <1>1, <1>4, WrittenChunks
<1>6. chunk[n] < ChunksWritten(TheOp(n), r) =>
        chunk[n] \in 0 .. MostChunks - 1 /\ ChunkKey(TheFrame(n), chunk[n]) \in AppKeys
  <2>1. chunk[n] \in Nat
    BY DEF AppTypes
  <2>2. chunk[n] < ChunksWritten(TheOp(n), r) => chunk[n] \in 0 .. MostChunks - 1
    BY <1>5, <2>1
  <2> QED
    BY <1>2, <2>2, KeysAre
<1>7. SchemaKey(TheFrame(n)) \in AppKeys
  BY <1>2, KeysAre
<1>8. ChunkPut(n, r) \/ SchemaPut(n, r)
  BY <1>3, <1>5, <1>6, <1>7, SameSteps DEF ChunkPut, SchemaPut
<1> QED
  BY <1>1, <1>2, <1>3, <1>4, <1>6, <1>8

OpenNow(n, k) == Doing(n, {"open"}) /\ k = SchemaKey(TheFrame(n))
LoadNow(n, k) ==
  /\ Doing(n, LoadOps)
  /\ rows[n][TheFrame(n)] \in Sizes
  /\ \E c \in 0 .. ChunksRead(rows[n][TheFrame(n)]) - 1 : k = ChunkKey(TheFrame(n), c)

LEMMA GetsAre ==
  ASSUME AllWell, AppTypes, NEW n \in Nodes, KnowsRows(n), phase[n] = "run", NEW k \in NextGets(n)
  PROVE  /\ TheFrame(n) \in Frames /\ HasTask(n)
         /\ k \in AppKeys /\ KeyHome(k) = AppHome[k] /\ AppHome[k] \in Nodes
         /\ k.frame = TheFrame(n)
         /\ \/ OpenNow(n, k) /\ k.part = 0
            \/ LoadNow(n, k) /\ k.part \in Nat \ {0}
<1>1. CASE Doing(n, {"open"})
  <2>1. HasTask(n) /\ TheOp(n) = "open"
    BY <1>1 DEF Doing, TheOp
  <2>2. TheFrame(n) \in Frames
    BY <2>1, TaskIs
  <2>3. k = SchemaKey(TheFrame(n))
    BY <1>1 DEF NextGets
  <2> QED
    BY <1>1, <2>1, <2>2, <2>3, KeysAre DEF OpenNow
<1>2. CASE ~Doing(n, {"open"})
  <2>1. Doing(n, LoadOps)
    BY <1>2 DEF NextGets, LoadOps
  <2>2. HasTask(n) /\ TheOp(n) \in LoadOps
    BY <2>1 DEF Doing, TheOp
  <2> DEFINE f == TheFrame(n)
             r == rows[n][f]
  <2>3. f \in Frames /\ task[n] \in 1 .. Len(S(n)) /\ S(n)[task[n]].op \in LoadOps
        /\ S(n)[task[n]].frame = f
    BY <2>2, TaskIs DEF LoadOps, S, TheOp, TheFrame
  <2>4. LoadsKnown(S(n))
    BY DEF S, AllWell, WellScripted, AppTypes
  <2>5. PICK i \in 1 .. Len(S(n)) : i < task[n] /\ S(n)[i].op \in KnowOps /\ S(n)[i].frame = f
    BY <2>3, <2>4 DEF LoadsKnown
  <2>6. r # Nil
    BY <2>5 DEF KnowsRows
  <2>7. r \in Sizes
    BY <2>3, <2>6 DEF AppTypes
  <2>8. PICK c \in ToLoad(n) : k = ChunkKey(f, c)
    BY <1>2 DEF NextGets
  <2>9. c \in chunk[n] .. ChunksRead(r) - 1
    BY <2>8 DEF ToLoad
  <2>10. chunk[n] \in Nat /\ ChunksRead(r) \in Nat /\ MostChunks \in Nat /\ ChunksRead(r) <= MostChunks
    BY <2>7, ReadChunks DEF AppTypes
  <2>11. c \in 0 .. ChunksRead(r) - 1 /\ c \in 0 .. MostChunks - 1
    BY <2>9, <2>10
  <2>12. k.part = c + 1 /\ k.frame = f /\ k \in AppKeys /\ KeyHome(k) = AppHome[k]
         /\ AppHome[k] \in Nodes
    BY <2>3, <2>8, <2>11, KeysAre
  <2> QED
    BY <2>1, <2>2, <2>3, <2>7, <2>8, <2>11, <2>12 DEF LoadNow
<1> QED
  BY <1>1, <1>2

GetsLocally(n, k) == Store!GetLocal(n, k) /\ Learn(n, k, store[n][k])
GetsRemotely(n, k) == Store!GetRemote(n, k) /\ UNCHANGED rows
OpenMoves(n, k) == OpenNow(n, k) /\ k.part = 0 /\ NextTask(n)
LoadMoves(n, k) ==
  /\ LoadNow(n, k) /\ k.part \in Nat \ {0}
  /\ chunk' = [chunk EXCEPT ![n] = k.part] /\ UNCHANGED task

LEMMA ReadDoes ==
  ASSUME AllWell, AppTypes, NEW n \in Nodes, KnowsRows(n), Read(n)
  PROVE  /\ phase[n] = "run" /\ HasTask(n) /\ TheFrame(n) \in Frames
         /\ \E k \in AppKeys :
              /\ k.frame = TheFrame(n)
              /\ GetsLocally(n, k) \/ GetsRemotely(n, k)
              /\ OpenMoves(n, k) \/ LoadMoves(n, k)
<1>1. phase[n] = "run"
  BY DEF Read
<1>2. PICK k \in NextGets(n) :
        /\ \/ KV!GetLocal(n, k) /\ Learn(n, k, store[n][k])
           \/ KV!GetRemote(n, k) /\ UNCHANGED rows
        /\ IF k.part = 0
             THEN NextTask(n)
             ELSE chunk' = [chunk EXCEPT ![n] = k.part] /\ UNCHANGED task
  BY DEF Read
<1>3. GetsLocally(n, k) \/ GetsRemotely(n, k)
  BY <1>1, <1>2, GetsAre, SameSteps DEF GetsLocally, GetsRemotely
<1>4. OpenMoves(n, k) \/ LoadMoves(n, k)
  BY <1>1, <1>2, GetsAre DEF OpenMoves, LoadMoves
<1> QED
  BY <1>1, <1>3, <1>4, GetsAre

-----------------------------------------------------------------------------
\* What a step leaves alone.

LEMMA SentStays ==
  ASSUME AllWell, Store!IInv, StoreStep, NEW n \in Nodes, NEW f \in Frames,
         NEW l \in Nat, l <= MostChunks
  PROVE  /\ SentUpTo(n, f, l) => SentUpTo(n, f, l)'
         /\ StoredHere(n, f, l) => StoredHere(n, f, l)'
<1>1. ASSUME NEW c \in 0 .. l - 1
      PROVE  /\ Store!Underway(ChunkKey(f, c)) => Store!Underway(ChunkKey(f, c))'
             /\ Store!Stored(ChunkKey(f, c)) => Store!Stored(ChunkKey(f, c))'
  <2>1. c \in 0 .. MostChunks - 1
    BY MostChunksIs
  <2>2. ChunkKey(f, c) \in AppKeys
    BY <2>1, KeysAre
  <2> QED
    BY <2>2, Stays
<1> QED
  BY <1>1 DEF SentUpTo, StoredHere

LEMMA OwnSchemasStay ==
  ASSUME AllWell, Store!IInv, StoreStep, AppTypes, NEW n \in Nodes, OwnSchemas(n), app' = app,
         NEW i \in 1 .. Len(S(n)), i < task[n], S(n)[i].op \in WriteOps, S(n)[i].frame.home = n
  PROVE  Store!Stored(SchemaKey(S(n)[i].frame))'
<1>1. PICK f \in Frames : f = S(n)[i].frame
  BY FrameIs DEF WriteOps
<1>2. Store!Stored(SchemaKey(f))
  BY <1>1 DEF OwnSchemas
<1>3. Store!Stored(SchemaKey(f))'
  BY <1>2, Stays, KeysAre
<1>4. S(n)' = S(n)
  BY DEF S
<1>5. Store!Stored(SchemaKey(S(n)[i].frame))' <=> Store!Stored(SchemaKey(f))'
  BY <1>1, <1>4 DEF Store!Stored, SchemaKey
<1> QED
  BY <1>3, <1>5

LEMMA ChunksHereStay ==
  ASSUME AllWell, Store!IInv, StoreStep, AppTypes, NEW n \in Nodes, ChunksHere(n),
         NEW f \in Frames, rows[n][f] # Nil, ~Writing(n, f), rows'[n][f] = rows[n][f]
  PROVE  StoredHere(n, f, ChunksRead(rows[n][f]))'
<1>1. PICK r \in Sizes : r = rows[n][f]
  BY DEF AppTypes
<1>2. StoredHere(n, f, ChunksRead(r))
  BY <1>1 DEF ChunksHere
<1>3. StoredHere(n, f, ChunksRead(r))'
  BY <1>2, ReadChunks, SentStays
<1>4. r = rows'[n][f]
  BY <1>1
<1> QED
  BY <1>3, <1>4

LEMMA ChunksSentStay ==
  ASSUME AllWell, AppTypes, Store!IInv, StoreStep, NEW n \in Nodes, ChunksSent(n), app' = app,
         task'[n] = task[n], chunk'[n] = chunk[n],
         Doing(n, WriteOps) => rows'[n][TheFrame(n)] = rows[n][TheFrame(n)]
  PROVE  ChunksSent(n)'
<1>1. /\ \A ops : Doing(n, ops)' <=> Doing(n, ops)
      /\ TheOp(n)' = TheOp(n) /\ TheFrame(n)' = TheFrame(n)
  BY DEF Doing, HasTask, TheOp, TheFrame
<1> SUFFICES ASSUME Doing(n, WriteOps), rows[n][TheFrame(n)] # Nil PROVE ChunksSent(n)'
  BY <1>1 DEF ChunksSent
<1>2. HasTask(n) /\ TheOp(n) \in WriteOps
  BY DEF Doing, TheOp
<1>3. PICK f \in Frames : f = TheFrame(n)
  BY <1>2, TaskIs DEF WriteOps
<1>4. PICK r : r = rows[n][f]
  OBVIOUS
<1>5. PICK l \in Nat : l = chunk[n]
  BY DEF AppTypes
<1>6. r \in RowsOf(app, TheOp(n)) /\ l <= ChunksWritten(TheOp(n), r) /\ SentUpTo(n, f, l)
  BY <1>3, <1>4, <1>5 DEF ChunksSent
<1>7. l <= MostChunks
  BY <1>2, <1>6, WrittenChunks
<1>8. SentUpTo(n, f, l)'
  BY <1>6, <1>7, SentStays
<1>9. f = TheFrame(n)' /\ r = rows'[n][f] /\ l = chunk'[n] /\ r # Nil
  BY <1>1, <1>3, <1>4, <1>5
<1>10. r \in RowsOf(app', TheOp(n)') /\ l <= ChunksWritten(TheOp(n)', r)
  BY <1>1, <1>6
<1> QED
  BY <1>8, <1>9, <1>10 DEF ChunksSent

LEMMA NodeSame ==
  ASSUME AllWell, AppTypes, Store!IInv, StoreStep, NEW n \in Nodes, NodeInv(n), app' = app,
         task'[n] = task[n], chunk'[n] = chunk[n], rows'[n] = rows[n],
         (phase'[n] = "await") <=> (phase[n] = "await"),
         phase[n] = "await" => want'[n] = want[n]
  PROVE  NodeInv(n)'
<1> USE DEF NodeInv
<1>1. /\ S(n)' = S(n)
      /\ \A ops : Doing(n, ops)' <=> Doing(n, ops)
      /\ TheOp(n)' = TheOp(n) /\ TheFrame(n)' = TheFrame(n)
      /\ \A f : Writing(n, f)' <=> Writing(n, f)
  BY DEF S, Doing, HasTask, TheOp, TheFrame, Writing
<1>2. AwaitsGets(n)'
  BY <1>1 DEF AwaitsGets
<1>3. KnowsRows(n)'
  BY <1>1 DEF KnowsRows
<1>4. FreshRows(n)'
  BY <1>1 DEF FreshRows
<1>5. ChunksSent(n)'
  BY ChunksSentStay
<1>6. ChunksHere(n)'
  <2> SUFFICES ASSUME NEW f \in Frames, rows'[n][f] # Nil, ~Writing(n, f)'
               PROVE  StoredHere(n, f, ChunksRead(rows[n][f]))'
    BY DEF ChunksHere
  <2>1. rows'[n][f] = rows[n][f] /\ ~Writing(n, f)
    BY <1>1
  <2> QED
    BY <2>1, ChunksHereStay
<1>7. OwnSchemas(n)'
  <2> SUFFICES ASSUME NEW i \in 1 .. Len(S(n)), i < task[n], S(n)[i].op \in WriteOps,
                      S(n)[i].frame.home = n
               PROVE  Store!Stored(SchemaKey(S(n)[i].frame))'
    BY <1>1 DEF OwnSchemas
  <2> QED
    BY OwnSchemasStay
<1> QED
  BY <1>2, <1>3, <1>4, <1>5, <1>6, <1>7

LEMMA PutHere ==
  ASSUME AllWell, Store!IInv, NEW n \in Nodes, NEW k \in AppKeys, NEW r \in Sizes,
         Store!Put(n, k, r)
  PROVE  Store!Underway(k)' /\ (AppHome[k] = n => Store!Stored(k)')
BY StoreAssumed, Store!PutLands DEF Store!Nodes, Store!Blob, Store!IInv

-----------------------------------------------------------------------------
\* What a step of the application of one node keeps.

OnlyNode(n) ==
  /\ app' = app
  /\ \A m \in Nodes \ {n} :
       /\ task'[m] = task[m] /\ chunk'[m] = chunk[m] /\ rows'[m] = rows[m]
       /\ phase'[m] = phase[m] /\ want'[m] = want[m]

LEMMA OneNode ==
  ASSUME AllWell, ReadInv, StoreStep, AppTypes', CausesFirst', NEW n \in Nodes, OnlyNode(n),
         NodeInv(n)'
  PROVE  ReadInv'
<1>1. Store!IInv'
  BY StoreInvNext DEF ReadInv
<1>2. ASSUME NEW m \in Nodes, m # n PROVE NodeInv(m)'
  BY <1>2, NodeSame DEF OnlyNode, ReadInv
<1> QED
  BY <1>1, <1>2 DEF ReadInv

\* The node goes on to its next task.
LEMMA NextTaskInv ==
  ASSUME AllWell, AppTypes, AppTypes', Store!IInv, StoreStep, NEW n \in Nodes, NodeInv(n), app' = app,
         phase[n] = "run", HasTask(n), NextTask(n),
         NEW f, f = TheFrame(n), NEW op, op = TheOp(n),
         \A g \in Frames : rows'[n][g] = rows[n][g] \/ (g = f /\ op \in KnowOps),
         op \in KnowOps =>
           rows'[n][f] # Nil \/ (phase'[n] = "await" /\ want'[n] = SchemaKey(f)),
         phase'[n] = "await" => op = "open" /\ want'[n] = SchemaKey(f),
         op \in KnowOps => \A r \in Sizes : rows'[n][f] = r => StoredHere(n, f, ChunksRead(r))',
         op \in WriteOps /\ f.home = n => Store!Stored(SchemaKey(f))'
  PROVE  NodeInv(n)'
<1> USE DEF NodeInv
<1>1. /\ S(n)' = S(n) /\ task[n] \in 1 .. Len(S(n)) /\ S(n) \in Seq(Tasks)
      /\ S(n)[task[n]].op = op /\ S(n)[task[n]].frame = f
      /\ op # "stop" => f \in Frames /\ S(n)[task[n]] = Task(op, f)
      /\ task[n] \in Nat
  <2>1. task[n] \in 1 .. Len(S(n)) /\ S(n) \in Seq(Tasks)
    BY TaskIs DEF AllWell, WellScripted, S, AppTypes
  <2>2. S(n)[task[n]].op = op /\ S(n)[task[n]].frame = f
    BY DEF TheOp, TheFrame, S
  <2>3. op # "stop" => f \in Frames
    BY <2>1, <2>2, FrameIs
  <2>4. S(n)[task[n]] \in Tasks
    BY <2>1
  <2>5. op # "stop" => S(n)[task[n]] = Task(op, f)
    BY <2>2, <2>4 DEF Tasks, Task, StopTask
  <2> QED
    BY <2>1, <2>2, <2>3, <2>5 DEF S
<1>2. task'[n] = task[n] + 1 /\ chunk'[n] = 0
  BY DEF NextTask, AppTypes
<1>3. ASSUME NEW i \in 1 .. Len(S(n)), i < task'[n] PROVE i < task[n] \/ i = task[n]
  BY <1>1, <1>2, <1>3
<1>4. AwaitsGets(n)'
  <2> SUFFICES ASSUME phase'[n] = "await"
               PROVE  /\ task'[n] - 1 \in 1 .. Len(S(n))
                      /\ S(n)[task'[n] - 1] = Task("open", want'[n].frame)
                      /\ want'[n] = SchemaKey(want'[n].frame)
    BY <1>1, <1>2 DEF AwaitsGets
  <2>1. op = "open" /\ want'[n] = SchemaKey(f) /\ want'[n].frame = f
    BY DEF SchemaKey
  <2>2. task'[n] - 1 = task[n]
    BY <1>1, <1>2
  <2> QED
    BY <1>1, <2>1, <2>2
<1>5. KnowsRows(n)'
  <2> SUFFICES ASSUME NEW i \in 1 .. Len(S(n)), i < task'[n], S(n)[i].op \in KnowOps,
                      rows'[n][S(n)[i].frame] = Nil
               PROVE  phase'[n] = "await" /\ want'[n] = SchemaKey(S(n)[i].frame)
    BY <1>1 DEF KnowsRows
  <2>1. CASE i = task[n]
    BY <1>1, <2>1
  <2>2. CASE i < task[n]
    <3>1. S(n)[i].frame \in Frames
      BY FrameIs DEF KnowOps, WriteOps
    <3>2. rows[n][S(n)[i].frame] # Nil
      BY <2>2 DEF KnowsRows
    <3> QED
      BY <3>1, <3>2
  <2> QED
    BY <1>3, <2>1, <2>2
<1>6. ASSUME NEW g \in Frames, rows'[n][g] # Nil
      PROVE  \E i \in 1 .. Len(S(n)) : S(n)[i].op \in KnowOps /\ S(n)[i].frame = g /\ i < task'[n]
  <2>1. CASE g = f /\ op \in KnowOps
    <3>1. task[n] < task'[n]
      BY <1>1, <1>2
    <3> QED
      BY <1>1, <2>1, <3>1
  <2>2. CASE rows'[n][g] = rows[n][g]
    <3>1. PICK i \in 1 .. Len(S(n)) : S(n)[i].op \in KnowOps /\ S(n)[i].frame = g
                                      /\ (i < task[n] \/ i = task[n])
      BY <1>6, <2>2 DEF FreshRows
    <3>2. i < task'[n]
      BY <1>1, <1>2, <3>1
    <3> QED
      BY <3>1, <3>2
  <2> QED
    BY <2>1, <2>2
<1>7. FreshRows(n)'
  BY <1>1, <1>6 DEF FreshRows
<1>8. ChunksSent(n)'
  <2> SUFFICES ASSUME Doing(n, WriteOps)' PROVE rows'[n][TheFrame(n)'] = Nil
    BY <1>2 DEF ChunksSent
  <2>1. /\ task'[n] \in 1 .. Len(S(n)) /\ S(n)[task'[n]].op \in WriteOps
        /\ S(n)[task'[n]].frame = TheFrame(n)'
    BY <1>1, <1>2 DEF Doing, HasTask, TheFrame, S
  <2>2. TheFrame(n)' \in Frames
    BY <2>1, FrameIs DEF WriteOps
  <2>3. WritesFresh(S(n))
    BY DEF S, AllWell, WellScripted, AppTypes
  <2>4. \A i \in 1 .. Len(S(n)) : i < task'[n] /\ S(n)[i].op \in KnowOps =>
          S(n)[i].frame # TheFrame(n)'
    BY <2>1, <2>3 DEF WritesFresh
  <2> QED
    BY <1>6, <2>2, <2>4
<1>9. ChunksHere(n)'
  <2> SUFFICES ASSUME NEW g \in Frames, rows'[n][g] # Nil
               PROVE  StoredHere(n, g, ChunksRead(rows[n][g]))'
    BY DEF ChunksHere
  <2>1. CASE g = f /\ op \in KnowOps
    <3>1. PICK r \in Sizes : r = rows'[n][g]
      BY DEF AppTypes
    <3>2. StoredHere(n, f, ChunksRead(r))'
      BY <2>1, <3>1
    <3> QED
      BY <2>1, <3>1, <3>2
  <2>2. CASE ~(g = f /\ op \in KnowOps)
    <3>1. rows'[n][g] = rows[n][g]
      BY <2>2
    <3>2. ~Writing(n, g)
      BY <1>1, <2>2 DEF Writing, Doing, S, KnowOps, TheFrame, TheOp
    <3> QED
      BY <3>1, <3>2, ChunksHereStay
  <2> QED
    BY <2>1, <2>2
<1>10. OwnSchemas(n)'
  <2> SUFFICES ASSUME NEW i \in 1 .. Len(S(n)), i < task'[n], S(n)[i].op \in WriteOps,
                      S(n)[i].frame.home = n
               PROVE  Store!Stored(SchemaKey(S(n)[i].frame))'
    BY <1>1 DEF OwnSchemas
  <2>1. CASE i < task[n]
    BY <2>1, OwnSchemasStay
  <2>2. CASE i = task[n]
    <3>1. Store!Stored(SchemaKey(f))'
      BY <1>1, <2>2
    <3>2. Store!Stored(SchemaKey(S(n)[i].frame))' <=> Store!Stored(SchemaKey(f))'
      BY <1>1, <2>2 DEF Store!Stored, SchemaKey
    <3> QED
      BY <3>1, <3>2
  <2> QED
    BY <1>3, <2>1, <2>2
<1> QED
  BY <1>4, <1>5, <1>7, <1>8, <1>9, <1>10

\* What the store does in a step of the application of n.
LEMMA StepsAre ==
  ASSUME NEW n \in Nodes, NEW puts
  PROVE  /\ \/ Store!StopAll(n) \/ Store!FinishRun(n) \/ Store!Background(n)
            \/ \E k \in AppKeys : Store!GetLocal(n, k) \/ Store!GetRemote(n, k)
            \/ UNCHANGED kvVars
            => [Store!StepPuts(puts)]_(Store!vars)
         /\ \A k \in AppKeys, r \in Sizes :
              Store!Put(n, k, r) /\ <<n, [of |-> k, data |-> r]>> \in puts =>
                [Store!StepPuts(puts)]_(Store!vars)
         /\ [Store!StepPuts(puts)]_(Store!vars) => StoreStep
<1>1. n \in Store!Nodes
  BY StoreNodes
<1>2. UNCHANGED kvVars => UNCHANGED Store!vars
  BY DEF kvVars, Store!vars
<1>3. \/ Store!StopAll(n) \/ Store!FinishRun(n) \/ Store!Background(n)
      \/ \E k \in AppKeys : Store!GetLocal(n, k) \/ Store!GetRemote(n, k)
      => Store!StepPuts(puts)
  BY <1>1 DEF Store!StepPuts
<1>4. \A k \in AppKeys, r \in Sizes :
        Store!Put(n, k, r) /\ <<n, [of |-> k, data |-> r]>> \in puts => Store!StepPuts(puts)
  BY <1>1 DEF Store!StepPuts
<1>5. [Store!StepPuts(puts)]_(Store!vars) => StoreStep
  <2> SUFFICES ASSUME Store!StepPuts(puts) PROVE Store!Next
    BY DEF StoreStep
  <2> QED
    BY DEF Store!StepPuts, Store!Next, Store!Operation
<1> QED
  BY <1>2, <1>3, <1>4, <1>5

\* No step but a put puts anything.
LEMMA QuietCauses ==
  ASSUME AllWell, ReadInv, [Store!StepPuts({})]_(Store!vars)
  PROVE  StoreStep /\ CausesFirst'
BY CausesNext DEF ReadInv

\* fromArray(), fromScalar(), fromVisitor(), fromFile(): when the schema is put, all the
\* chunks that it tells a reader to load are under way.
LEMMA WriteInv ==
  ASSUME AllWell, ReadInv, NEW n \in Nodes, Write(n), app' = app
  PROVE  ReadInv'
<1> USE DEF ReadInv
<1>0. NodeInv(n) /\ ChunksSent(n)
  BY DEF NodeInv
<1>1. /\ TheOp(n) \in WriteOps /\ TheFrame(n) \in Frames /\ HasTask(n)
      /\ \E r \in RowsOf(app, TheOp(n)) :
           /\ LengthOf(n, r)
           /\ rows' = [rows EXCEPT ![n][TheFrame(n)] = r]
           /\ chunk[n] < ChunksWritten(TheOp(n), r) =>
                chunk[n] \in 0 .. MostChunks - 1 /\ ChunkKey(TheFrame(n), chunk[n]) \in AppKeys
           /\ ChunkPut(n, r) \/ SchemaPut(n, r)
  BY <1>0, WriteDoes
<1>2. PICK f \in Frames : f = TheFrame(n)
  BY <1>1
<1>3. PICK op \in WriteOps : op = TheOp(n)
  BY <1>1
<1>4. PICK l \in Nat : l = chunk[n]
  BY DEF AppTypes
<1>5. PICK r \in RowsOf(app, op) :
        /\ LengthOf(n, r)
        /\ rows' = [rows EXCEPT ![n][f] = r]
        /\ l < ChunksWritten(op, r) => l \in 0 .. MostChunks - 1 /\ ChunkKey(f, l) \in AppKeys
        /\ ChunkPut(n, r) \/ SchemaPut(n, r)
  BY <1>1, <1>2, <1>3, <1>4
<1>6. /\ r \in Sizes /\ ChunksWritten(op, r) \in Nat
      /\ ChunksRead(r) \in Nat /\ ChunksRead(r) <= ChunksWritten(op, r)
      /\ ChunksWritten(op, r) <= MostChunks /\ MostChunks \in Nat
      /\ r # Nil
  BY WrittenChunks, SizesAre, NilAssumption
<1>7. l <= ChunksWritten(op, r) /\ SentUpTo(n, f, l)
  <2>1. Doing(n, WriteOps)
    BY <1>1 DEF Doing, TheOp
  <2>2. CASE rows[n][f] = Nil
    <3>1. l = 0
      BY <1>0, <1>2, <1>4, <2>1, <2>2 DEF ChunksSent
    <3> QED
      BY <3>1, <1>6 DEF SentUpTo
  <2>3. CASE rows[n][f] # Nil
    <3>1. r = rows[n][f]
      BY <1>2, <1>5, <2>3 DEF LengthOf
    <3> QED
      BY <1>0, <1>2, <1>3, <1>4, <2>1, <2>3, <3>1 DEF ChunksSent
  <2> QED
    BY <2>2, <2>3
<1>8. /\ rows' \in [Nodes -> [Frames -> Sizes \cup {Nil}]]
      /\ rows'[n][f] = r
      /\ \A g \in Frames \ {f} : rows'[n][g] = rows[n][g]
      /\ \A m \in Nodes \ {n} : rows'[m] = rows[m]
  <2>1. rows \in [Nodes -> [Frames -> Sizes \cup {Nil}]]
    BY DEF AppTypes
  <2> QED
    BY <1>5, <1>6, <2>1
<1>9. CASE ChunkPut(n, r)
  <2> DEFINE k == ChunkKey(f, l)
             b == [of |-> k, data |-> r]
  <2>1. /\ l < ChunksWritten(op, r) /\ Store!Put(n, k, r)
        /\ chunk' = [chunk EXCEPT ![n] = @ + 1] /\ task' = task
    BY <1>2, <1>3, <1>4, <1>9 DEF ChunkPut
  <2>2. l \in 0 .. MostChunks - 1 /\ k \in AppKeys /\ k.part = l + 1
    BY <1>5, <2>1, KeysAre
  <2>3. b \in Store!Blob /\ Rests[b] = {}
    <3>1. b \in Store!Blob
      BY <1>6, <2>2 DEF Store!Blob
    <3>2. b # Nil /\ b.of.part # 0
      BY <2>2, <3>1, RestsAre
    <3> QED
      BY <3>1, <3>2 DEF Rests
  <2>4. [Store!StepPuts({<<n, b>>})]_(Store!vars)
    BY <1>6, <2>1, <2>2, StepsAre
  <2>5. StoreStep /\ CausesFirst'
    <3>1. \A m \in Nodes, c \in Store!Blob : <<m, c>> \in {<<n, b>>} => Store!PutsInOrder(Rests, m, c)
      BY <2>3 DEF Store!PutsInOrder
    <3> QED
      BY <2>4, <3>1, CausesNext
  <2>6. Store!Underway(k)' /\ (AppHome[k] = n => Store!Stored(k)')
    BY <1>6, <2>1, <2>2, PutHere
  <2>7. UNCHANGED <<phase, want>> /\ phase[n] = "run"
    BY <2>1 DEF Store!Put, Store!appVars
  <2>8. chunk'[n] = l + 1 /\ chunk' \in [Nodes -> Nat] /\ \A m \in Nodes \ {n} : chunk'[m] = chunk[m]
    BY <1>4, <2>1 DEF AppTypes
  <2>9. AppTypes'
    BY <1>8, <2>1, <2>8 DEF AppTypes
  <2>10. /\ S(n)' = S(n) /\ TheOp(n)' = op /\ TheFrame(n)' = f
         /\ \A ops : Doing(n, ops)' <=> Doing(n, ops)
         /\ \A g : Writing(n, g)' <=> Writing(n, g)
         /\ task[n] \in 1 .. Len(S(n)) /\ S(n)[task[n]].op = op /\ S(n)[task[n]].frame = f
    BY <1>1, <1>2, <1>3, <2>1, TaskIs DEF S, TheOp, TheFrame, Doing, HasTask, Writing
  <2>11. NodeInv(n)'
    <3> USE <1>0 DEF NodeInv
    <3>1. AwaitsGets(n)'
      BY <2>7 DEF AwaitsGets
    <3>2. KnowsRows(n)'
      <4> SUFFICES ASSUME NEW i \in 1 .. Len(S(n)), i < task[n], S(n)[i].op \in KnowOps
                   PROVE  rows'[n][S(n)[i].frame] # Nil
        BY <2>1, <2>10 DEF KnowsRows
      <4>1. S(n)[i].frame \in Frames
        BY FrameIs DEF KnowOps, WriteOps
      <4>2. rows[n][S(n)[i].frame] # Nil
        BY <2>7 DEF KnowsRows
      <4> QED
        BY <1>6, <1>8, <4>1, <4>2
    <3>3. FreshRows(n)'
      <4> SUFFICES ASSUME NEW g \in Frames, rows'[n][g] # Nil
                   PROVE  \E i \in 1 .. Len(S(n)) :
                            /\ S(n)[i].op \in KnowOps /\ S(n)[i].frame = g
                            /\ i < task[n] \/ (i = task[n] /\ S(n)[i].op \in WriteOps)
        BY <2>1, <2>10 DEF FreshRows
      <4>1. CASE g = f
        BY <2>10, <4>1 DEF KnowOps
      <4>2. CASE g # f
        BY <1>8, <4>2 DEF FreshRows
      <4> QED
        BY <4>1, <4>2
    <3>4. ChunksSent(n)'
      <4>1. l + 1 <= ChunksWritten(op, r) /\ l + 1 \in Nat /\ l <= MostChunks
        BY <1>6, <2>1
      <4>2. SentUpTo(n, f, l)'
        BY <1>7, <2>5, <4>1, SentStays
      <4>3. ChunkHome(f, l) = n => Store!Stored(ChunkKey(f, l))'
        BY <2>2, <2>6, KeysAre
      <4>4. \A c \in 0 .. (l + 1) - 1 : c \in 0 .. l - 1 \/ c = l
        OBVIOUS
      <4>5. SentUpTo(n, f, l + 1)'
        BY <2>6, <4>2, <4>3, <4>4 DEF SentUpTo
      <4>6. rows[n][TheFrame(n)]' = r
        BY <1>8, <2>10
      <4> QED
        BY <1>6, <2>8, <2>10, <4>1, <4>5, <4>6 DEF ChunksSent
    <3>5. ChunksHere(n)'
      <4> SUFFICES ASSUME NEW g \in Frames, rows'[n][g] # Nil, ~Writing(n, g)
                   PROVE  StoredHere(n, g, ChunksRead(rows[n][g]))'
        BY <2>10 DEF ChunksHere
      <4>1. g # f
        BY <1>1, <1>2 DEF Writing, Doing, TheOp
      <4> QED
        BY <1>8, <2>5, <4>1, ChunksHereStay
    <3>6. OwnSchemas(n)'
      <4> SUFFICES ASSUME NEW i \in 1 .. Len(S(n)), i < task[n], S(n)[i].op \in WriteOps,
                          S(n)[i].frame.home = n
                   PROVE  Store!Stored(SchemaKey(S(n)[i].frame))'
        BY <2>1, <2>10 DEF OwnSchemas
      <4> QED
        BY <2>5, OwnSchemasStay
    <3> QED
      BY <3>1, <3>2, <3>3, <3>4, <3>5, <3>6
  <2>12. OnlyNode(n)
    BY <1>8, <2>1, <2>7, <2>8 DEF OnlyNode
  <2> QED
    BY <2>5, <2>9, <2>11, <2>12, OneNode
<1>10. CASE SchemaPut(n, r)
  <2> DEFINE k == SchemaKey(f)
             b == [of |-> k, data |-> r]
  <2>1. ~(l < ChunksWritten(op, r)) /\ Store!Put(n, k, r) /\ NextTask(n)
    BY <1>2, <1>3, <1>4, <1>10 DEF SchemaPut
  <2>2. k \in AppKeys /\ k.part = 0 /\ k.frame = f /\ AppHome[k] = f.home
    BY KeysAre
  <2>3. b \in Store!Blob /\ Rests[b] = Chunks(f, r)
    <3>1. b \in Store!Blob
      BY <1>6, <2>2 DEF Store!Blob
    <3>2. b # Nil /\ b.of.part = 0 /\ b.of.frame = f /\ b.data = r
      BY <2>2, <3>1, RestsAre
    <3> QED
      BY <3>1, <3>2 DEF Rests
  <2>4. [Store!StepPuts({<<n, b>>})]_(Store!vars)
    BY <1>6, <2>1, <2>2, StepsAre
  <2>5. ChunksRead(r) <= l
    BY <1>6, <2>1
  <2>6. Store!PutsInOrder(Rests, n, b)
    <3> SUFFICES ASSUME NEW c \in 0 .. ChunksRead(r) - 1
                 PROVE  /\ Store!Underway(ChunkKey(f, c))
                        /\ AppHome[ChunkKey(f, c)] = n => Store!Stored(ChunkKey(f, c))
      BY <2>3 DEF Store!PutsInOrder, Chunks
    <3>1. c \in 0 .. l - 1 /\ c \in 0 .. MostChunks - 1
      BY <1>6, <2>5
    <3> QED
      BY <1>7, <3>1, KeysAre DEF SentUpTo
  <2>7. StoreStep /\ CausesFirst'
    <3>1. \A m \in Nodes, c \in Store!Blob : <<m, c>> \in {<<n, b>>} => Store!PutsInOrder(Rests, m, c)
      BY <2>6
    <3> QED
      BY <2>4, <3>1, CausesNext
  <2>8. UNCHANGED <<phase, want>> /\ phase[n] = "run"
    BY <2>1 DEF Store!Put, Store!appVars
  <2>9. /\ chunk' \in [Nodes -> Nat] /\ \A m \in Nodes \ {n} : chunk'[m] = chunk[m]
        /\ task' \in [Nodes -> Nat \ {0}] /\ \A m \in Nodes \ {n} : task'[m] = task[m]
    <3>1. task \in [Nodes -> Nat \ {0}] /\ chunk \in [Nodes -> Nat]
      BY DEF AppTypes
    <3> QED
      BY ONLY n \in Nodes, <2>1, <3>1 DEF NextTask
  <2>10. AppTypes'
    BY <1>8, <2>9 DEF AppTypes
  <2>11. StoredHere(n, f, ChunksRead(r))'
    <3>1. StoredHere(n, f, ChunksRead(r))
      <4>1. \A c \in 0 .. ChunksRead(r) - 1 : c \in 0 .. l - 1
        BY <1>6, <2>5
      <4> QED
        BY <1>7, <4>1 DEF StoredHere, SentUpTo
    <3>2. ChunksRead(r) <= MostChunks
      BY <1>6
    <3> QED
      BY <1>6, <2>7, <3>1, <3>2, SentStays
  <2>12. f.home = n => Store!Stored(SchemaKey(f))'
    BY <1>6, <2>1, <2>2, PutHere
  <2>13. NodeInv(n)'
    <3>1. op \in KnowOps /\ op # "open"
      BY DEF KnowOps, WriteOps
    <3>2. phase'[n] # "await"
      BY <2>8
    <3> QED
      BY <1>0, <1>1, <1>2, <1>3, <1>6, <1>8, <2>1, <2>7, <2>8, <2>10, <2>11, <2>12, <3>1, <3>2,
         NextTaskInv
  <2>14. OnlyNode(n)
    BY <1>8, <2>8, <2>9 DEF OnlyNode
  <2> QED
    BY <2>7, <2>10, <2>13, <2>14, OneNode
<1> QED
  BY <1>5, <1>9, <1>10

\* The schema of f that is in the map or the slot of n tells a length whose chunks homed
\* on n are stored.
LEMMA SchemaSeen ==
  ASSUME AllWell, ReadInv, StoreStep, NEW n \in Nodes, NEW f \in Frames, NEW b \in Store!Blob,
         b.of = SchemaKey(f), b = cur[n] \/ b = store[n][SchemaKey(f)]
  PROVE  b.data \in Sizes /\ b.data # Nil /\ StoredHere(n, f, ChunksRead(b.data))'
<1> USE DEF ReadInv
<1>1. b.data \in Sizes /\ b.data # Nil
  BY SizesAre, NilAssumption DEF Store!Blob
<1>2. b # Nil /\ b.of.part = 0 /\ b.of.frame = f
  BY RestsAre DEF SchemaKey
<1>3. Rests[b] = Chunks(f, b.data)
  BY <1>2 DEF Rests
<1>4. \A k \in Rests[b] : AppHome[k] = n => Store!Stored(k)
  <2>1. SchemaKey(f) \in AppKeys
    BY KeysAre
  <2> QED
    BY <2>1, StoreNodes DEF CausesFirst, Store!Causal, Store!CausesStored, Store!CausesInSlot
<1>5. ChunksRead(b.data) \in Nat /\ MostChunks \in Nat /\ ChunksRead(b.data) <= MostChunks
  BY <1>1, ReadChunks
<1>6. StoredHere(n, f, ChunksRead(b.data))
  <2> SUFFICES ASSUME NEW c \in 0 .. ChunksRead(b.data) - 1, ChunkHome(f, c) = n
               PROVE  Store!Stored(ChunkKey(f, c))
    BY DEF StoredHere
  <2>1. ChunkKey(f, c) \in Rests[b]
    BY <1>3 DEF Chunks
  <2>2. c \in 0 .. MostChunks - 1
    BY <1>5
  <2> QED
    BY <1>4, <2>1, <2>2, KeysAre
<1> QED
  BY <1>1, <1>5, <1>6, SentStays

\* get_and_wait() of a schema.
LEMMA OpenInv ==
  ASSUME AllWell, ReadInv, NEW n \in Nodes, app' = app, phase[n] = "run", HasTask(n),
         NEW k \in AppKeys, k.frame = TheFrame(n), TheFrame(n) \in Frames,
         GetsLocally(n, k) \/ GetsRemotely(n, k), OpenMoves(n, k)
  PROVE  ReadInv'
<1> USE DEF ReadInv
<1>1. PICK f \in Frames : f = TheFrame(n)
  OBVIOUS
<1>2. k = SchemaKey(f) /\ k.part = 0 /\ k.frame = f /\ NextTask(n) /\ TheOp(n) = "open"
  BY <1>1 DEF OpenMoves, OpenNow, Doing, TheOp
<1>3. [Store!StepPuts({})]_(Store!vars)
  BY StepsAre DEF GetsLocally, GetsRemotely
<1>4. StoreStep /\ CausesFirst'
  BY <1>3, QuietCauses
<1>5. /\ chunk' \in [Nodes -> Nat] /\ \A m \in Nodes \ {n} : chunk'[m] = chunk[m]
      /\ task' \in [Nodes -> Nat \ {0}] /\ \A m \in Nodes \ {n} : task'[m] = task[m]
  BY <1>2 DEF AppTypes, NextTask
<1>6. rows \in [Nodes -> [Frames -> Sizes \cup {Nil}]]
  BY DEF AppTypes
<1>7. NodeInv(n) /\ "open" \in KnowOps /\ "open" \notin WriteOps
  BY DEF KnowOps, WriteOps
<1>8. CASE GetsLocally(n, k)
  <2>1. Store!GetLocal(n, k) /\ UNCHANGED <<phase, want>>
    BY <1>8 DEF GetsLocally, Store!GetLocal
  <2>2. PICK b \in Store!Blob : b = store[n][k] /\ b.of = k
    BY <2>1, StoreTypes DEF Store!GetLocal
  <2>3. b.data \in Sizes /\ b.data # Nil /\ StoredHere(n, f, ChunksRead(b.data))'
    BY <1>2, <1>4, <2>2, SchemaSeen
  <2>4. rows' = [rows EXCEPT ![n][f] = b.data]
    BY <1>2, <1>8, <2>2 DEF GetsLocally, Learn
  <2>5. /\ rows' \in [Nodes -> [Frames -> Sizes \cup {Nil}]]
        /\ rows'[n][f] = b.data
        /\ \A g \in Frames \ {f} : rows'[n][g] = rows[n][g]
        /\ \A m \in Nodes \ {n} : rows'[m] = rows[m]
    BY <1>6, <2>3, <2>4
  <2>6. AppTypes'
    BY <1>5, <2>5 DEF AppTypes
  <2>7. NodeInv(n)'
    BY <1>1, <1>2, <1>4, <1>7, <2>1, <2>3, <2>5, <2>6, NextTaskInv
  <2>8. OnlyNode(n)
    BY <1>5, <2>1, <2>5 DEF OnlyNode
  <2> QED
    BY <1>4, <2>6, <2>7, <2>8, OneNode
<1>9. CASE GetsRemotely(n, k)
  <2>1. Store!GetRemote(n, k) /\ rows' = rows
    BY <1>9 DEF GetsRemotely
  <2>2. /\ phase' = [phase EXCEPT ![n] = "await"] /\ want' = [want EXCEPT ![n] = k]
    BY <2>1 DEF Store!GetRemote
  <2>3. /\ phase'[n] = "await" /\ want'[n] = k
        /\ \A m \in Nodes \ {n} : phase'[m] = phase[m] /\ want'[m] = want[m]
    BY <2>2, StoreTypes
  <2>4. AppTypes'
    BY <1>5, <1>6, <2>1 DEF AppTypes
  <2>5. \A r \in Sizes : rows'[n][f] = r => StoredHere(n, f, ChunksRead(r))'
    <3> SUFFICES ASSUME NEW r \in Sizes, rows[n][f] = r PROVE StoredHere(n, f, ChunksRead(r))'
      BY <2>1
    <3>1. ~Writing(n, f) /\ rows[n][f] # Nil
      BY <1>2, <1>7, SizesAre, NilAssumption DEF Writing, Doing, TheOp
    <3>2. StoredHere(n, f, ChunksRead(r))
      BY <3>1, <1>7 DEF NodeInv, ChunksHere
    <3> QED
      BY <1>4, <3>2, ReadChunks, SentStays
  <2>6. NodeInv(n)'
    BY <1>1, <1>2, <1>4, <1>7, <2>1, <2>3, <2>4, <2>5, NextTaskInv
  <2>7. OnlyNode(n)
    BY <1>5, <2>1, <2>3 DEF OnlyNode
  <2> QED
    BY <1>4, <2>4, <2>6, <2>7, OneNode
<1> QED
  BY <1>8, <1>9

\* local_load_() and nonlocal_load_() of a chunk.
LEMMA LoadInv ==
  ASSUME AllWell, ReadInv, NEW n \in Nodes, app' = app, phase[n] = "run", HasTask(n),
         NEW k \in AppKeys, GetsLocally(n, k) \/ GetsRemotely(n, k), LoadMoves(n, k)
  PROVE  ReadInv'
<1> USE DEF ReadInv
<1>1. /\ k.part # 0 /\ k.part \in Nat /\ Doing(n, LoadOps)
      /\ chunk' = [chunk EXCEPT ![n] = k.part] /\ task' = task
  BY DEF LoadMoves, LoadNow
<1>2. [Store!StepPuts({})]_(Store!vars)
  BY StepsAre DEF GetsLocally, GetsRemotely
<1>3. StoreStep /\ CausesFirst'
  BY <1>2, QuietCauses
<1>4. rows' = rows
  BY <1>1 DEF GetsLocally, GetsRemotely, Learn
<1>5. chunk' \in [Nodes -> Nat] /\ \A m \in Nodes \ {n} : chunk'[m] = chunk[m]
  BY <1>1 DEF AppTypes
<1>6. AppTypes'
  BY <1>1, <1>4, <1>5 DEF AppTypes
<1>7. /\ phase'[n] = "await" => want'[n] = k
      /\ \A m \in Nodes \ {n} : phase'[m] = phase[m] /\ want'[m] = want[m]
  <2>1. CASE GetsLocally(n, k)
    BY <2>1 DEF GetsLocally, Store!GetLocal
  <2>2. CASE GetsRemotely(n, k)
    <3>1. phase' = [phase EXCEPT ![n] = "await"] /\ want' = [want EXCEPT ![n] = k]
      BY <2>2 DEF GetsRemotely, Store!GetRemote
    <3> QED
      BY <3>1, StoreTypes
  <2> QED
    BY <2>1, <2>2
<1>8. /\ S(n)' = S(n) /\ \A ops : Doing(n, ops)' <=> Doing(n, ops)
      /\ \A g : Writing(n, g)' <=> Writing(n, g)
      /\ ~Doing(n, WriteOps)
  <2>1. \A op \in LoadOps : op \notin WriteOps
    BY DEF LoadOps, WriteOps
  <2> QED
    BY <1>1, <2>1 DEF S, Doing, HasTask, Writing, TheFrame
<1>9. NodeInv(n)'
  <2>0. NodeInv(n)
    OBVIOUS
  <2> USE <2>0 DEF NodeInv
  <2>1. AwaitsGets(n)'
    BY <1>1, <1>7, <1>8 DEF AwaitsGets
  <2>2. KnowsRows(n)'
    BY <1>1, <1>4, <1>8 DEF KnowsRows
  <2>3. FreshRows(n)'
    BY <1>1, <1>4, <1>8 DEF FreshRows
  <2>4. ChunksSent(n)'
    BY <1>8 DEF ChunksSent
  <2>5. ChunksHere(n)'
    BY <1>3, <1>4, <1>8, ChunksHereStay DEF ChunksHere
  <2>6. OwnSchemas(n)'
    BY <1>1, <1>3, <1>8, OwnSchemasStay DEF OwnSchemas
  <2> QED
    BY <2>1, <2>2, <2>3, <2>4, <2>5, <2>6
<1>10. OnlyNode(n)
  BY <1>1, <1>4, <1>5, <1>7 DEF OnlyNode
<1> QED
  BY <1>3, <1>6, <1>9, <1>10, OneNode

LEMMA ReadInvKept ==
  ASSUME AllWell, ReadInv, NEW n \in Nodes, Read(n), app' = app
  PROVE  ReadInv'
<1>1. AppTypes /\ KnowsRows(n)
  BY DEF ReadInv, NodeInv
<1>2. phase[n] = "run" /\ HasTask(n) /\ TheFrame(n) \in Frames
  BY <1>1, ReadDoes
<1>3. PICK k \in AppKeys :
        /\ k.frame = TheFrame(n)
        /\ GetsLocally(n, k) \/ GetsRemotely(n, k)
        /\ OpenMoves(n, k) \/ LoadMoves(n, k)
  BY <1>1, ReadDoes
<1> QED
  BY <1>2, <1>3, OpenInv, LoadInv

\* next_value(): the schema that the last task asked for, or a chunk.
LEMMA ReturnsInv ==
  ASSUME AllWell, ReadInv, NEW n \in Nodes, ReadReturns(n), app' = app
  PROVE  ReadInv'
<1> USE DEF ReadInv
<1>1. Store!NextValue(n) /\ UNCHANGED <<task, chunk>> /\ Learn(n, want[n], cur[n])
  BY SameSteps DEF ReadReturns
<1>2. phase[n] = "await" /\ cur[n] # Nil /\ UNCHANGED want /\ phase' = [phase EXCEPT ![n] = "run"]
  BY <1>1 DEF Store!NextValue
<1>3. phase'[n] = "run" /\ \A m \in Nodes \ {n} : phase'[m] = phase[m]
  BY <1>2, StoreTypes
<1>4. [Store!StepPuts({})]_(Store!vars)
  BY <1>1, StepsAre DEF Store!Background
<1>5. StoreStep /\ CausesFirst'
  BY <1>4, QuietCauses
<1>6. PICK b \in Store!Blob : b = cur[n] /\ b.of = want[n]
  BY <1>2, StoreTypes
<1>7. NodeInv(n) /\ AwaitsGets(n) /\ KnowsRows(n) /\ FreshRows(n) /\ ChunksSent(n)
  BY DEF NodeInv
<1>8. /\ S(n)' = S(n) /\ TheOp(n)' = TheOp(n) /\ TheFrame(n)' = TheFrame(n)
      /\ \A ops : Doing(n, ops)' <=> Doing(n, ops)
      /\ \A g : Writing(n, g)' <=> Writing(n, g)
  BY <1>1 DEF S, Doing, HasTask, Writing, TheFrame, TheOp
<1>9. rows \in [Nodes -> [Frames -> Sizes \cup {Nil}]]
  BY DEF AppTypes
<1>10. CASE want[n].part = 0
  <2>1. ~(Doing(n, LoadOps) /\ want[n].part # 0)
    BY <1>10
  <2>2. PICK p \in 1 .. Len(S(n)) :
          /\ p = task[n] - 1 /\ S(n)[p] = Task("open", want[n].frame)
          /\ want[n] = SchemaKey(want[n].frame) /\ chunk[n] = 0
    BY <1>2, <1>7, <2>1 DEF AwaitsGets
  <2>3. S(n)[p].op = "open" /\ S(n)[p].frame = want[n].frame /\ p < task[n] /\ task[n] \in Nat
    BY <2>2 DEF Task, AppTypes
  <2>4. PICK f \in Frames : f = want[n].frame
    BY <2>3, FrameIs
  <2>5. b.of = SchemaKey(f)
    BY <1>6, <2>2, <2>4
  <2>6. b.data \in Sizes /\ b.data # Nil /\ StoredHere(n, f, ChunksRead(b.data))'
    BY <1>5, <1>6, <2>5, SchemaSeen
  <2>7. rows' = [rows EXCEPT ![n][f] = b.data]
    BY <1>1, <1>6, <1>10, <2>4 DEF Learn
  <2>8. /\ rows' \in [Nodes -> [Frames -> Sizes \cup {Nil}]]
        /\ rows'[n][f] = b.data
        /\ \A g \in Frames \ {f} : rows'[n][g] = rows[n][g]
        /\ \A m \in Nodes \ {n} : rows'[m] = rows[m]
    BY <1>9, <2>6, <2>7
  <2>9. AppTypes'
    BY <1>1, <2>8 DEF AppTypes
  <2>10. AwaitsGets(n)'
    BY <1>3 DEF AwaitsGets
  <2>11. KnowsRows(n)'
    <3> SUFFICES ASSUME NEW i \in 1 .. Len(S(n)), i < task[n], S(n)[i].op \in KnowOps
                 PROVE  rows'[n][S(n)[i].frame] # Nil
      BY <1>1, <1>8 DEF KnowsRows
    <3>1. S(n)[i].frame \in Frames
      BY FrameIs DEF KnowOps, WriteOps
    <3>2. want[n] = SchemaKey(S(n)[i].frame) => S(n)[i].frame = f
      BY <2>4 DEF SchemaKey
    <3>3. S(n)[i].frame = f \/ rows[n][S(n)[i].frame] # Nil
      BY <1>7, <3>2 DEF KnowsRows
    <3> QED
      BY <2>6, <2>8, <3>1, <3>3
  <2>12. FreshRows(n)'
    <3> SUFFICES ASSUME NEW g \in Frames, rows'[n][g] # Nil
                 PROVE  \E i \in 1 .. Len(S(n)) :
                          /\ S(n)[i].op \in KnowOps /\ S(n)[i].frame = g
                          /\ i < task[n] \/ (i = task[n] /\ S(n)[i].op \in WriteOps)
      BY <1>1, <1>8 DEF FreshRows
    <3>1. CASE g = f
      BY <2>3, <2>4, <3>1 DEF KnowOps
    <3>2. CASE g # f
      BY <1>7, <2>8, <3>2 DEF FreshRows
    <3> QED
      BY <3>1, <3>2
  <2>13. ChunksSent(n)'
    <3> SUFFICES ASSUME Doing(n, WriteOps) PROVE ChunksSent(n)'
      BY <1>8 DEF ChunksSent
    <3>1. /\ task[n] \in 1 .. Len(S(n)) /\ S(n)[task[n]].op \in WriteOps
          /\ S(n)[task[n]].frame = TheFrame(n) /\ TheFrame(n) \in Frames
      BY TaskIs DEF Doing, TheOp, TheFrame, S, WriteOps
    <3>2. WritesFresh(S(n))
      BY DEF S, AllWell, WellScripted, AppTypes
    <3>3. TheFrame(n) # f
      BY <2>3, <2>4, <3>1, <3>2 DEF WritesFresh, KnowOps
    <3> QED
      BY <1>1, <1>5, <1>7, <2>8, <3>1, <3>3, ChunksSentStay
  <2>14. ChunksHere(n)'
    <3> SUFFICES ASSUME NEW g \in Frames, rows'[n][g] # Nil, ~Writing(n, g)
                 PROVE  StoredHere(n, g, ChunksRead(rows[n][g]))'
      BY <1>8 DEF ChunksHere
    <3>1. CASE g = f
      BY <2>6, <2>8, <3>1
    <3>2. CASE g # f
      BY <1>5, <1>7, <2>8, <3>2, ChunksHereStay DEF NodeInv
    <3> QED
      BY <3>1, <3>2
  <2>15. OwnSchemas(n)'
    BY <1>1, <1>5, <1>7, <1>8, OwnSchemasStay DEF OwnSchemas, NodeInv
  <2>16. OnlyNode(n)
    BY <1>1, <1>2, <1>3, <2>8 DEF OnlyNode
  <2> QED
    BY <1>5, <2>9, <2>10, <2>11, <2>12, <2>13, <2>14, <2>15, <2>16, OneNode DEF NodeInv
<1>11. CASE want[n].part # 0
  <2>1. rows' = rows
    BY <1>1, <1>11 DEF Learn
  <2>2. AppTypes'
    BY <1>1, <2>1 DEF AppTypes
  <2>3. \A f : want[n] # SchemaKey(f)
    BY <1>11 DEF SchemaKey
  <2>4. AwaitsGets(n)' /\ KnowsRows(n)' /\ FreshRows(n)'
    BY <1>1, <1>3, <1>7, <1>8, <2>1, <2>3 DEF AwaitsGets, KnowsRows, FreshRows
  <2>5. ~Doing(n, WriteOps)
    <3>1. Doing(n, LoadOps)
      BY <1>2, <1>7, <2>3 DEF AwaitsGets
    <3> QED
      BY <3>1 DEF Doing, LoadOps, WriteOps
  <2>6. ChunksSent(n)'
    BY <1>8, <2>5 DEF ChunksSent
  <2>7. ChunksHere(n)'
    BY <1>5, <1>7, <1>8, <2>1, ChunksHereStay DEF ChunksHere, NodeInv
  <2>8. OwnSchemas(n)'
    BY <1>1, <1>5, <1>7, <1>8, OwnSchemasStay DEF OwnSchemas, NodeInv
  <2>9. OnlyNode(n)
    BY <1>1, <1>2, <1>3, <2>1 DEF OnlyNode
  <2> QED
    BY <1>5, <2>2, <2>4, <2>6, <2>7, <2>8, <2>9, OneNode DEF NodeInv
<1> QED
  BY <1>10, <1>11

\* The last chunk was loaded, or stop_all() is called.
LEMMA MovesOnInv ==
  ASSUME AllWell, ReadInv, NEW n \in Nodes, ReadDone(n) \/ Stop(n), app' = app
  PROVE  ReadInv'
<1> USE DEF ReadInv
<1>1. /\ HasTask(n) /\ TheOp(n) \in LoadOps \cup {"stop"} /\ phase[n] = "run"
      /\ NextTask(n) /\ rows' = rows
  BY DEF ReadDone, Stop, Doing, TheOp, LoadOps, KV!StopAll
<1>2. UNCHANGED kvVars \/ Store!StopAll(n)
  BY SameSteps DEF ReadDone, Stop
<1>3. [Store!StepPuts({})]_(Store!vars)
  BY <1>2, StepsAre
<1>4. StoreStep /\ CausesFirst'
  BY <1>3, QuietCauses
<1>5. /\ chunk' \in [Nodes -> Nat] /\ \A m \in Nodes \ {n} : chunk'[m] = chunk[m]
      /\ task' \in [Nodes -> Nat \ {0}] /\ \A m \in Nodes \ {n} : task'[m] = task[m]
  <2>1. task \in [Nodes -> Nat \ {0}] /\ chunk \in [Nodes -> Nat]
    BY DEF AppTypes
  <2> QED
    BY ONLY n \in Nodes, <1>1, <2>1 DEF NextTask
<1>6. /\ phase'[n] # "await" /\ UNCHANGED want /\ \A m \in Nodes \ {n} : phase'[m] = phase[m]
  <2>1. CASE UNCHANGED kvVars
    BY <1>1, <2>1 DEF kvVars
  <2>2. CASE Store!StopAll(n)
    BY <2>2, StoreTypes DEF Store!StopAll
  <2> QED
    BY <1>2, <2>1, <2>2
<1>7. AppTypes'
  BY <1>1, <1>5 DEF AppTypes
<1>8. PICK f, op : f = TheFrame(n) /\ op = TheOp(n)
  OBVIOUS
<1>9. op \notin KnowOps /\ op \notin WriteOps
  BY <1>1, <1>8 DEF KnowOps, WriteOps, LoadOps
<1>10. NodeInv(n)'
  BY <1>1, <1>4, <1>6, <1>7, <1>8, <1>9, NextTaskInv
<1>11. OnlyNode(n)
  BY <1>1, <1>5, <1>6 DEF OnlyNode
<1> QED
  BY <1>4, <1>7, <1>10, <1>11, OneNode

\* What moves no script.
LEMMA AroundInv ==
  ASSUME AllWell, ReadInv, NEW n \in Nodes, UNCHANGED appVars,
         \/ UNCHANGED kvVars
         \/ KV!FinishRun(n) \/ KV!Start(n) \/ KV!SendKill(n) \/ KV!Close(n)
         \/ KV!Servicer(n) \/ KV!ReplierFor(n)
  PROVE  ReadInv'
<1> USE DEF ReadInv
<1>1. \/ UNCHANGED kvVars
      \/ Store!FinishRun(n) \/ Store!Start(n) \/ Store!SendKill(n) \/ Store!Close(n)
      \/ Store!Servicer(n) \/ Store!ReplierFor(n)
  BY SameSteps
<1>2. [Store!StepPuts({})]_(Store!vars)
  BY <1>1, StepsAre DEF Store!Background
<1>3. StoreStep /\ CausesFirst'
  BY <1>2, QuietCauses
<1>4. want' = want /\ \A m \in Nodes : (phase'[m] = "await") <=> (phase[m] = "await")
  <2> DEFINE I == Nodes
  <2>0. n \in I /\ phase \in [I -> Store!Phase]
    BY StoreTypes
  <2>1. CASE UNCHANGED kvVars
    BY <2>1 DEF kvVars
  <2>2. CASE Store!FinishRun(n) \/ Store!Start(n) \/ Store!Close(n)
    <3> HIDE DEF I
    <3>1. want' = want /\ \A m \in I : (phase'[m] = "await") <=> (phase[m] = "await")
      BY ONLY <2>0, <2>2 DEF Store!FinishRun, Store!Start, Store!Close
    <3> QED
      BY ONLY <3>1 DEF I
  <2>3. CASE Store!SendKill(n)
    <3>1. PICK i : phase' = [phase EXCEPT ![n] = IF i = n THEN "joining" ELSE "stop"]
      BY <2>3 DEF Store!SendKill
    <3> QED
      BY <2>3, <3>1, StoreTypes DEF Store!SendKill
  <2>4. CASE Store!Servicer(n)
    BY <2>4 DEF Store!Servicer, Store!HandlePut, Store!HandleGet, Store!HandleReply,
                Store!HandleKill, Store!appVars
  <2>5. CASE Store!ReplierFor(n)
    BY <2>5 DEF Store!ReplierFor, Store!Fetch, Store!Answer, Store!appVars
  <2> QED
    BY <1>1, <2>1, <2>2, <2>3, <2>4, <2>5
<1>5. AppTypes' /\ app' = app /\ task' = task /\ chunk' = chunk /\ rows' = rows
  BY DEF AppTypes, appVars
<1>6. \A m \in Nodes : NodeInv(m)'
  BY <1>3, <1>4, <1>5, NodeSame
<1>7. Store!IInv'
  BY <1>3, StoreInvNext
<1> QED
  BY <1>3, <1>5, <1>6, <1>7

LEMMA ReadInvNext == ASSUME AllWell, ReadInv, [Next]_vars PROVE ReadInv'
<1>1. 0 \in Nodes
  OBVIOUS
<1>2. CASE UNCHANGED vars
  BY <1>1, <1>2, AroundInv DEF vars
<1>3. ASSUME NEW n \in Nodes, Run(n) PROVE ReadInv'
  <2>1. app' = app
    BY <1>3 DEF Run
  <2>2. CASE Return(n)
    <3>1. UNCHANGED appVars
      BY <2>1, <2>2 DEF Return, appVars
    <3> QED
      BY <2>2, <3>1, AroundInv DEF Return
  <2> QED
    BY <1>3, <2>1, <2>2, WriteInv, ReadInvKept, ReturnsInv, MovesOnInv DEF Run
<1>4. ASSUME NEW n \in Nodes, Around(n) PROVE ReadInv'
  BY <1>4, AroundInv DEF Around
<1> QED
  BY <1>2, <1>3, <1>4 DEF Next

LEMMA ReadInvInit == ASSUME AllWell, Init PROVE ReadInv
<1>1. Store!Init
  BY SameInit DEF Init
<1>2. Store!IInv /\ CausesFirst
  BY <1>1, StoreInit, CausesInit
<1>3. /\ app \in Apps
      /\ task = [n \in Nodes |-> 1]
      /\ chunk = [n \in Nodes |-> 0]
      /\ rows = [n \in Nodes |-> [f \in Frames |-> Nil]]
      /\ phase = [n \in Nodes |-> "new"]
  BY <1>1 DEF Init, Store!Init, Store!Nodes
<1>4. AppTypes
  BY <1>3 DEF AppTypes
<1>5. ASSUME NEW n \in Nodes PROVE NodeInv(n)
  <2>1. task[n] = 1 /\ chunk[n] = 0 /\ phase[n] = "new" /\ \A f \in Frames : rows[n][f] = Nil
    BY <1>3
  <2>2. AwaitsGets(n)
    BY <2>1 DEF AwaitsGets
  <2>3. KnowsRows(n) /\ FreshRows(n) /\ OwnSchemas(n)
    BY <2>1 DEF KnowsRows, FreshRows, OwnSchemas
  <2>4. ChunksSent(n)
    <3>1. Doing(n, WriteOps) => TheFrame(n) \in Frames
      BY <1>4, TaskIs DEF Doing, TheOp, WriteOps
    <3> QED
      BY <2>1, <3>1 DEF ChunksSent
  <2>5. ChunksHere(n)
    BY <2>1 DEF ChunksHere
  <2> QED
    BY <2>2, <2>3, <2>4, <2>5 DEF NodeInv
<1> QED
  BY <1>2, <1>4, <1>5 DEF ReadInv

LEMMA ReadsHit == ASSUME AllWell, ReadInv PROVE LocalReadsHit
<1> USE DEF ReadInv
<1> SUFFICES ASSUME NEW n \in Nodes, phase[n] = "run", NEW k \in NextGets(n), KeyHome(k) = n
             PROVE  store[n][k] # Nil
  BY DEF LocalReadsHit
<1>1. KnowsRows(n) /\ OwnSchemas(n) /\ ChunksHere(n)
  BY DEF NodeInv
<1>2. /\ TheFrame(n) \in Frames /\ HasTask(n) /\ k \in AppKeys /\ AppHome[k] = n
      /\ \/ OpenNow(n, k) /\ k.part = 0
         \/ LoadNow(n, k) /\ k.part \in Nat \ {0}
  BY <1>1, GetsAre
<1>3. PICK f \in Frames : f = TheFrame(n)
  BY <1>2
<1>4. Store!Stored(k) => store[n][k] # Nil
  BY <1>2 DEF Store!Stored
<1>5. CASE OpenNow(n, k)
  <2>1. /\ k = SchemaKey(f) /\ task[n] \in 1 .. Len(S(n)) /\ S(n)[task[n]].op = "open"
        /\ S(n)[task[n]].frame = f
    BY <1>2, <1>3, <1>5, TaskIs DEF OpenNow, Doing, S, TheFrame
  <2>2. f.home = n
    BY <1>2, <2>1, KeysAre
  <2>3. OpensOwn(S(n), n)
    BY DEF S, AllWell, WellScripted, AppTypes
  <2>4. PICK i \in 1 .. Len(S(n)) : i < task[n] /\ S(n)[i].op \in WriteOps /\ S(n)[i].frame = f
    BY <2>1, <2>2, <2>3 DEF OpensOwn
  <2> QED
    BY <1>1, <1>4, <2>1, <2>2, <2>4 DEF OwnSchemas
<1>6. CASE LoadNow(n, k)
  <2>1. PICK r \in Sizes : r = rows[n][f]
    BY <1>3, <1>6 DEF LoadNow
  <2>2. PICK c \in 0 .. ChunksRead(r) - 1 : k = ChunkKey(f, c)
    BY <1>3, <1>6, <2>1 DEF LoadNow
  <2>3. c \in 0 .. MostChunks - 1
    BY ReadChunks
  <2>4. ChunkHome(f, c) = n
    BY <1>2, <2>2, <2>3, KeysAre
  <2>5. ~Writing(n, f)
    BY <1>6 DEF LoadNow, Writing, Doing, LoadOps, WriteOps
  <2>6. r # Nil
    BY SizesAre, NilAssumption
  <2>7. StoredHere(n, f, ChunksRead(r))
    BY <1>1, <2>1, <2>5, <2>6 DEF ChunksHere
  <2> QED
    BY <1>4, <2>2, <2>4, <2>7 DEF StoredHere
<1> QED
  BY <1>2, <1>5, <1>6

-----------------------------------------------------------------------------
\* What every step does to the scripts and puts into the store.

NewSchemasWritten(puts) ==
  \A n \in Nodes, b \in Store!Blob : <<n, b>> \in puts /\ b.of.part = 0 => Written(b.of.frame)'

\* A length that a node learns is that of a schema that is somewhere.
RowsFrom(m, f) ==
  \/ rows'[m][f] = rows[m][f]
  \/ Writing(m, f)
  \/ \E b \in Store!Blob : Store!Somewhere(b) /\ b.of = SchemaKey(f)

TaskMoves(m) ==
  \/ task'[m] = task[m]
  \/ task'[m] = task[m] + 1 /\ HasTask(m)

StepDoes ==
  /\ app' = app
  /\ \A m \in Nodes : TaskMoves(m)
  /\ \A m \in Nodes : phase'[m] = "await" => phase[m] = "await" \/ Doing(m, ReadOps)
  /\ \A m \in Nodes : phase[m] = "run" /\ phase'[m] = "stop" => Stop(m)
  /\ \A m \in Nodes : task'[m] # task[m] /\ TheOp(m) = "stop" => Stop(m)
  /\ \A m \in Nodes, f \in Frames : RowsFrom(m, f)
  /\ \E puts : [Store!StepPuts(puts)]_(Store!vars) /\ NewSchemasWritten(puts)

\* What is written stays written.
LEMMA WrittenStays ==
  ASSUME AppTypes, app' = app, \A m \in Nodes : TaskMoves(m), NEW f
  PROVE  Written(f) => Written(f)'
<1> SUFFICES ASSUME NEW m \in Nodes, NEW l \in 1 .. Len(S(m)), l < task[m],
                    S(m)[l].op \in WriteOps, S(m)[l].frame = f
             PROVE  Written(f)'
  BY DEF Written
<1>1. S(m)' = S(m)
  BY DEF S
<1>2. l \in Nat /\ task[m] \in Nat /\ TaskMoves(m)
  BY DEF AppTypes
<1>3. l < task'[m]
  BY <1>2 DEF TaskMoves
<1> QED
  BY <1>1, <1>3 DEF Written

LEMMA WritingEnds ==
  ASSUME AllWell, AppTypes, app' = app, NEW n \in Nodes, TaskMoves(n), NEW f, Writing(n, f)
  PROVE  Writing(n, f)' \/ (task'[n] = task[n] + 1 /\ Written(f)')
<1>1. /\ task[n] \in 1 .. Len(S(n)) /\ S(n)[task[n]].op \in WriteOps /\ S(n)[task[n]].frame = f
      /\ task[n] \in Nat
  BY TaskIs DEF Writing, Doing, S, TheFrame, AppTypes
<1>2. CASE task'[n] = task[n]
  BY <1>2 DEF Writing, Doing, HasTask, TheFrame
<1>3. CASE task'[n] = task[n] + 1
  <2>1. task[n] < task'[n] /\ S(n)' = S(n)
    BY <1>1, <1>3 DEF S
  <2> QED
    BY <1>1, <1>3, <2>1 DEF Written
<1> QED
  BY <1>2, <1>3 DEF TaskMoves

LEMMA WriteStep ==
  ASSUME AllWell, ReadInv, NEW n \in Nodes, Write(n), app' = app
  PROVE  StepDoes
<1> USE DEF ReadInv
<1>1. /\ TheOp(n) \in WriteOps /\ TheFrame(n) \in Frames /\ HasTask(n)
      /\ \E r \in RowsOf(app, TheOp(n)) :
           /\ LengthOf(n, r)
           /\ rows' = [rows EXCEPT ![n][TheFrame(n)] = r]
           /\ chunk[n] < ChunksWritten(TheOp(n), r) =>
                chunk[n] \in 0 .. MostChunks - 1 /\ ChunkKey(TheFrame(n), chunk[n]) \in AppKeys
           /\ ChunkPut(n, r) \/ SchemaPut(n, r)
  BY WriteDoes DEF NodeInv
<1>2. PICK f \in Frames : f = TheFrame(n)
  BY <1>1
<1>3. PICK l \in Nat : l = chunk[n]
  BY DEF AppTypes
<1>4. PICK r \in Sizes :
        /\ rows' = [rows EXCEPT ![n][f] = r]
        /\ ChunkPut(n, r) => l \in 0 .. MostChunks - 1 /\ ChunkKey(f, l) \in AppKeys
        /\ ChunkPut(n, r) \/ SchemaPut(n, r)
  BY <1>1, <1>2, <1>3, RowsAre DEF ChunkPut
<1>5. Writing(n, f) /\ TheOp(n) # "stop"
  BY <1>1, <1>2 DEF Writing, Doing, TheOp, WriteOps
<1>6. \A m \in Nodes, g \in Frames : RowsFrom(m, g)
  <2>1. rows \in [Nodes -> [Frames -> Sizes \cup {Nil}]]
    BY DEF AppTypes
  <2> QED
    BY <1>4, <1>5, <2>1 DEF RowsFrom
<1>7. UNCHANGED phase
  BY <1>4 DEF ChunkPut, SchemaPut, Store!Put, Store!appVars
<1>8. \A m \in Nodes : TaskMoves(m) /\ (task'[m] # task[m] => m = n)
  BY <1>1, <1>4 DEF ChunkPut, SchemaPut, NextTask, TaskMoves, AppTypes
<1>9. \E puts : [Store!StepPuts(puts)]_(Store!vars) /\ NewSchemasWritten(puts)
  <2>1. CASE ChunkPut(n, r)
    <3> DEFINE b == [of |-> ChunkKey(f, l), data |-> r]
    <3>1. [Store!StepPuts({<<n, b>>})]_(Store!vars)
      BY <1>2, <1>3, <1>4, <2>1, StepsAre DEF ChunkPut
    <3>2. b.of.part # 0
      BY <1>3 DEF ChunkKey
    <3>3. NewSchemasWritten({<<n, b>>})
      <4> HIDE DEF b
      <4> QED
        BY <3>2 DEF NewSchemasWritten
    <3> QED
      BY <3>1, <3>3
  <2>2. CASE SchemaPut(n, r)
    <3> DEFINE b == [of |-> SchemaKey(f), data |-> r]
    <3>1. [Store!StepPuts({<<n, b>>})]_(Store!vars)
      BY <1>2, <1>4, <2>2, StepsAre, KeysAre DEF SchemaPut
    <3>2. b.of.frame = f
      BY DEF SchemaKey
    <3>3. task'[n] = task[n] + 1 /\ task[n] \in Nat
      BY <2>2 DEF SchemaPut, NextTask, AppTypes
    <3>4. Written(f)'
      <4>1. Writing(n, f)' => FALSE \/ Writing(n, f)'
        OBVIOUS
      <4>2. task[n] \in 1 .. Len(S(n)) /\ S(n)[task[n]].op \in WriteOps /\ S(n)[task[n]].frame = f
        BY <1>5, TaskIs DEF Writing, Doing, S, TheFrame
      <4>3. task[n] < task'[n] /\ S(n)' = S(n)
        BY <3>3 DEF S
      <4> QED
        BY <4>2, <4>3 DEF Written
    <3>5. NewSchemasWritten({<<n, b>>})
      <4> HIDE DEF b
      <4> QED
        BY <3>2, <3>4 DEF NewSchemasWritten
    <3> QED
      BY <3>1, <3>5
  <2> QED
    BY <1>4, <2>1, <2>2
<1> QED
  BY <1>5, <1>6, <1>7, <1>8, <1>9 DEF StepDoes

\* A step that puts nothing.
LEMMA QuietStep ==
  ASSUME [Store!StepPuts({})]_(Store!vars)
  PROVE  \E puts : [Store!StepPuts(puts)]_(Store!vars) /\ NewSchemasWritten(puts)
BY DEF NewSchemasWritten

LEMMA ReadStep ==
  ASSUME AllWell, ReadInv, NEW n \in Nodes, Read(n), app' = app
  PROVE  StepDoes
<1> USE DEF ReadInv
<1>1. /\ phase[n] = "run" /\ HasTask(n) /\ TheFrame(n) \in Frames
      /\ \E k \in AppKeys :
           /\ k.frame = TheFrame(n)
           /\ GetsLocally(n, k) \/ GetsRemotely(n, k)
           /\ OpenMoves(n, k) \/ LoadMoves(n, k)
  BY ReadDoes DEF NodeInv
<1>2. PICK k \in AppKeys : /\ GetsLocally(n, k) \/ GetsRemotely(n, k)
                           /\ OpenMoves(n, k) \/ LoadMoves(n, k)
                           /\ k.frame = TheFrame(n)
  BY <1>1
<1>3. Doing(n, ReadOps) /\ TheOp(n) # "stop"
  BY <1>2 DEF OpenMoves, OpenNow, LoadMoves, LoadNow, Doing, TheOp, ReadOps, LoadOps
<1>4. \A m \in Nodes : TaskMoves(m) /\ (task'[m] # task[m] => m = n)
  BY <1>1, <1>2 DEF OpenMoves, LoadMoves, NextTask, TaskMoves, AppTypes
<1>5. [Store!StepPuts({})]_(Store!vars)
  BY <1>2, StepsAre DEF GetsLocally, GetsRemotely
<1>6. /\ \A m \in Nodes : phase'[m] = phase[m] \/ (m = n /\ phase'[m] = "await")
      /\ GetsRemotely(n, k) => UNCHANGED rows
  BY <1>2, StoreTypes DEF GetsLocally, GetsRemotely, Store!GetLocal, Store!GetRemote
<1>7. \A m \in Nodes, g \in Frames : RowsFrom(m, g)
  <2>1. CASE UNCHANGED rows
    BY <2>1 DEF RowsFrom
  <2>2. CASE GetsLocally(n, k) /\ k.part = 0
    <3>1. store[n][k] # Nil
      BY <2>2 DEF GetsLocally, Store!GetLocal
    <3>2. PICK b \in Store!Blob : b = store[n][k] /\ b.of = k
      BY <3>1, StoreTypes
    <3>3. Store!Somewhere(b)
      BY <3>2, StoreNodes DEF Store!Somewhere
    <3>4. rows' = [rows EXCEPT ![n][k.frame] = b.data]
      BY <2>2, <3>2 DEF GetsLocally, Learn
    <3>5. k = SchemaKey(k.frame)
      BY <2>2 DEF SchemaKey, AppKeys
    <3>6. rows \in [Nodes -> [Frames -> Sizes \cup {Nil}]]
      BY DEF AppTypes
    <3>7. \A m \in Nodes, g \in Frames : rows'[m][g] = rows[m][g] \/ g = k.frame
      BY <3>4, <3>6
    <3> QED
      BY <3>2, <3>3, <3>5, <3>7 DEF RowsFrom
  <2> QED
    BY <1>2, <1>6, <2>1, <2>2 DEF GetsLocally, Learn
<1>8. \A m \in Nodes : phase[m] = "run" /\ phase'[m] = "stop" => Stop(m)
  BY <1>6
<1> QED
  BY <1>3, <1>4, <1>5, <1>6, <1>7, <1>8, QuietStep DEF StepDoes

LEMMA ReturnsStep ==
  ASSUME AllWell, ReadInv, NEW n \in Nodes, ReadReturns(n), app' = app
  PROVE  StepDoes
<1> USE DEF ReadInv
<1>1. Store!NextValue(n) /\ UNCHANGED <<task, chunk>> /\ Learn(n, want[n], cur[n])
  BY SameSteps DEF ReadReturns
<1>2. /\ cur[n] # Nil
      /\ \A m \in Nodes : phase'[m] = phase[m] \/ phase'[m] = "run"
  BY <1>1, StoreTypes DEF Store!NextValue
<1>3. [Store!StepPuts({})]_(Store!vars)
  BY <1>1, StepsAre DEF Store!Background
<1>10. cur[n] \in Store!Blob /\ cur[n].of = want[n]
  <2>1. /\ cur \in [Nodes -> Store!Blob \cup {Nil}]
        /\ \A m \in Nodes : cur[m] # Nil => cur[m].of = want[m]
    BY StoreTypes
  <2> QED
    BY ONLY n \in Nodes, <1>2, <2>1
<1>4. PICK b \in Store!Blob : b = cur[n] /\ b.of = want[n]
  BY <1>10
<1>5. Store!Somewhere(b)
  BY <1>4, StoreNodes DEF Store!Somewhere
<1>6. \A m \in Nodes, g \in Frames : RowsFrom(m, g)
  <2>1. CASE UNCHANGED rows
    BY <2>1 DEF RowsFrom
  <2>2. CASE b.of.part = 0
    <3>1. rows' = [rows EXCEPT ![n][b.of.frame] = b.data]
      BY <1>1, <1>4, <2>2 DEF Learn
    <3>2. b.of = SchemaKey(b.of.frame)
      BY <2>2 DEF SchemaKey, AppKeys, Store!Blob
    <3>3. rows \in [Nodes -> [Frames -> Sizes \cup {Nil}]]
      BY DEF AppTypes
    <3>4. \A m \in Nodes, g \in Frames : rows'[m][g] = rows[m][g] \/ g = b.of.frame
      BY <3>1, <3>3
    <3> QED
      BY <1>5, <3>2, <3>4 DEF RowsFrom
  <2> QED
    BY <1>1, <1>4, <2>1, <2>2 DEF Learn
<1>7. \A m \in Nodes : TaskMoves(m)
  BY <1>1 DEF TaskMoves
<1> QED
  BY <1>1, <1>2, <1>3, <1>6, <1>7, QuietStep DEF StepDoes

LEMMA OtherStep ==
  ASSUME AllWell, ReadInv, NEW n \in Nodes, app' = app, rows' = rows,
         \/ UNCHANGED kvVars /\ UNCHANGED task
         \/ ReadDone(n)
         \/ Stop(n)
         \/ /\ \/ KV!FinishRun(n) \/ KV!Start(n) \/ KV!SendKill(n) \/ KV!Close(n)
               \/ KV!Servicer(n) \/ KV!ReplierFor(n)
            /\ UNCHANGED task
  PROVE  StepDoes
<1> USE DEF ReadInv
<1>1. \A m \in Nodes, g \in Frames : RowsFrom(m, g)
  BY DEF RowsFrom
<1>2. CASE UNCHANGED kvVars /\ UNCHANGED task
  BY <1>1, <1>2, StepsAre, QuietStep DEF StepDoes, TaskMoves, kvVars
<1>3. CASE ReadDone(n)
  <2>1. HasTask(n) /\ TheOp(n) # "stop" /\ NextTask(n) /\ UNCHANGED kvVars
    BY <1>3 DEF ReadDone, Doing, TheOp
  <2>2. \A m \in Nodes : TaskMoves(m) /\ (task'[m] # task[m] => m = n)
    BY <2>1 DEF NextTask, TaskMoves, AppTypes
  <2> QED
    BY <1>1, <2>1, <2>2, StepsAre, QuietStep DEF StepDoes, kvVars
<1>4. CASE Stop(n)
  <2>1. HasTask(n) /\ NextTask(n) /\ Store!StopAll(n)
    BY <1>4, SameSteps DEF Stop, Doing
  <2>2. \A m \in Nodes : TaskMoves(m) /\ (task'[m] # task[m] => m = n)
    BY <2>1 DEF NextTask, TaskMoves, AppTypes
  <2>3. \A m \in Nodes : phase'[m] = phase[m] \/ (m = n /\ phase'[m] = "stop")
    BY <2>1, StoreTypes DEF Store!StopAll
  <2> QED
    BY <1>1, <1>4, <2>1, <2>2, <2>3, StepsAre, QuietStep DEF StepDoes
<1>5. CASE /\ \/ KV!FinishRun(n) \/ KV!Start(n) \/ KV!SendKill(n) \/ KV!Close(n)
              \/ KV!Servicer(n) \/ KV!ReplierFor(n)
           /\ UNCHANGED task
  <2>1. \/ Store!FinishRun(n) \/ Store!Start(n) \/ Store!SendKill(n) \/ Store!Close(n)
        \/ Store!Servicer(n) \/ Store!ReplierFor(n)
    BY <1>5, SameSteps
  <2>2. [Store!StepPuts({})]_(Store!vars)
    BY <2>1, StepsAre DEF Store!Background
  <2>3. \A m \in Nodes : /\ phase'[m] = "await" => phase[m] = "await"
                         /\ phase'[m] = "stop" => phase[m] = "stop"
    <3> DEFINE I == Nodes
    <3>0. n \in I /\ phase \in [I -> Store!Phase]
      BY StoreTypes
    <3>1. CASE Store!FinishRun(n) \/ Store!Start(n) \/ Store!Close(n)
      <4> HIDE DEF I
      <4>1. \A m \in I : /\ phase'[m] = "await" => phase[m] = "await"
                         /\ phase'[m] = "stop" => phase[m] = "stop"
        BY ONLY <3>0, <3>1 DEF Store!FinishRun, Store!Start, Store!Close
      <4> QED
        BY ONLY <4>1 DEF I
    <3>2. CASE Store!SendKill(n)
      <4>1. PICK i : phase' = [phase EXCEPT ![n] = IF i = n THEN "joining" ELSE "stop"]
        BY <3>2 DEF Store!SendKill
      <4>2. phase[n] = "stop"
        BY <3>2 DEF Store!SendKill
      <4> QED
        BY <4>1, <4>2, StoreTypes
    <3>3. CASE Store!Servicer(n)
      BY <3>3 DEF Store!Servicer, Store!HandlePut, Store!HandleGet, Store!HandleReply,
                  Store!HandleKill, Store!appVars
    <3>4. CASE Store!ReplierFor(n)
      BY <3>4 DEF Store!ReplierFor, Store!Fetch, Store!Answer, Store!appVars
    <3> QED
      BY <2>1, <3>1, <3>2, <3>3, <3>4
  <2> QED
    BY <1>1, <1>5, <2>2, <2>3, QuietStep DEF StepDoes, TaskMoves
<1> QED
  BY <1>2, <1>3, <1>4, <1>5

LEMMA StepIs == ASSUME AllWell, ReadInv, [Next]_vars PROVE StepDoes
<1>1. 0 \in Nodes
  OBVIOUS
<1>2. CASE UNCHANGED vars
  BY <1>1, <1>2, OtherStep DEF vars, appVars
<1>3. ASSUME NEW n \in Nodes, Run(n) PROVE StepDoes
  <2>1. app' = app
    BY <1>3 DEF Run
  <2>2. CASE Write(n) \/ Read(n) \/ ReadReturns(n)
    BY <2>1, <2>2, WriteStep, ReadStep, ReturnsStep
  <2>3. CASE ReadDone(n) \/ Stop(n) \/ Return(n)
    BY <2>1, <2>3, OtherStep DEF ReadDone, Stop, Return
  <2> QED
    BY <1>3, <2>2, <2>3 DEF Run
<1>4. ASSUME NEW n \in Nodes, Around(n) PROVE StepDoes
  BY <1>4, OtherStep DEF Around, appVars
<1> QED
  BY <1>2, <1>3, <1>4 DEF Next

-----------------------------------------------------------------------------
\* stop_all() comes last.

LEMMA SchemasWrittenNext ==
  ASSUME AllWell, ReadInv, StepDoes, SchemasWritten
  PROVE  SchemasWritten'
<1> SUFFICES ASSUME NEW b \in Store!Blob, Store!Somewhere(b)', b.of.part = 0
             PROVE  Written(b.of.frame)'
  BY DEF SchemasWritten, Store!Blob
<1>1. PICK puts : [Store!StepPuts(puts)]_(Store!vars) /\ NewSchemasWritten(puts)
  BY DEF StepDoes
<1>2. Store!Somewhere(b) \/ \E n \in Nodes : <<n, b>> \in puts
  BY <1>1, NothingNew DEF ReadInv
<1>3. CASE Store!Somewhere(b)
  BY <1>3, WrittenStays DEF SchemasWritten, StepDoes, ReadInv
<1>4. CASE \E n \in Nodes : <<n, b>> \in puts
  BY <1>1, <1>4 DEF NewSchemasWritten
<1> QED
  BY <1>2, <1>3, <1>4

LEMMA RowsWrittenNext ==
  ASSUME AllWell, ReadInv, StepDoes, SchemasWritten, RowsWritten
  PROVE  RowsWritten'
<1> SUFFICES ASSUME NEW n \in Nodes, NEW f \in Frames, rows'[n][f] # Nil
             PROVE  Written(f)' \/ Writing(n, f)'
  BY DEF RowsWritten
<1>1. RowsFrom(n, f) /\ TaskMoves(n) /\ app' = app
  BY DEF StepDoes
<1>2. Written(f) \/ Writing(n, f)
  <2>1. CASE rows'[n][f] = rows[n][f]
    BY <2>1 DEF RowsWritten
  <2>2. CASE \E b \in Store!Blob : Store!Somewhere(b) /\ b.of = SchemaKey(f)
    <3>1. PICK b \in Store!Blob : Store!Somewhere(b) /\ b.of = SchemaKey(f)
      BY <2>2
    <3>2. b.of.part = 0 /\ b.of.frame = f
      BY <3>1 DEF SchemaKey
    <3> QED
      BY <3>1, <3>2 DEF SchemasWritten
  <2> QED
    BY <1>1, <2>1, <2>2 DEF RowsFrom
<1>3. CASE Written(f)
  BY <1>3, WrittenStays DEF StepDoes, ReadInv
<1>4. CASE Writing(n, f)
  BY <1>1, <1>4, WritingEnds DEF ReadInv
<1> QED
  BY <1>2, <1>3, <1>4

\* A node waits only when its last get is at its task or just before it.
LEMMA AwaitsReads ==
  ASSUME AllWell, ReadInv, NEW m \in Nodes, phase[m] = "await"
  PROVE  \/ task[m] \in 1 .. Len(S(m)) /\ S(m)[task[m]].op \in ReadOps
         \/ task[m] - 1 \in 1 .. Len(S(m)) /\ S(m)[task[m] - 1].op = "open"
<1>1. AwaitsGets(m)
  BY DEF ReadInv, NodeInv
<1>2. CASE Doing(m, LoadOps)
  BY <1>2, TaskIs DEF Doing, S, ReadOps, ReadInv
<1>3. CASE ~Doing(m, LoadOps)
  BY <1>1, <1>3 DEF AwaitsGets, Task
<1> QED
  BY <1>2, <1>3

\* Whoever calls stop_all() has seen that the others are done.
LEMMA StopSees ==
  ASSUME AllWell, ReadInv, RowsWritten, SleepIsEnough \/ "linus" \notin Apps,
         NEW s \in Nodes, Stop(s), NEW m \in Nodes \ {s}
  PROVE  Quiet(m)
<1> USE DEF ReadInv
<1>1. /\ app \in Apps /\ task \in [Nodes -> Nat \ {0}]
      /\ StopsLast(app, s) /\ EndsDone(S(m)) /\ S(m) \in Seq(Tasks) /\ S(s) \in Seq(Tasks)
  BY DEF AppTypes, AllWell, WellScripted, S
<1>2. phase[s] = "run" /\ HasTask(s) /\ TheOp(s) = "stop" /\ Awake(s)
  BY DEF Stop, Doing, TheOp, KV!StopAll
<1>3. task[s] \in 1 .. Len(S(s)) /\ S(s)[task[s]].op = "stop"
  BY <1>2, TaskIs DEF S, TheOp
<1>4. Len(S(m)) \in Nat /\ task[m] \in Nat \ {0}
  <2>1. S(m) \in Seq(Tasks) /\ task \in [Nodes -> Nat \ {0}] /\ m \in Nodes
    BY <1>1
  <2> HIDE DEF Nodes
  <2> QED
    BY ONLY <2>1
<1>5. CASE app = "linus"
  <2>1. task[m] > Len(S(m))
    <3>1. ~HasTask(m)
      BY <1>1, <1>2, <1>5 DEF Awake
    <3> QED
      BY <1>4, <3>1 DEF HasTask, S
  <2>2. phase[m] # "await"
    <3> SUFFICES ASSUME phase[m] = "await" PROVE FALSE
      OBVIOUS
    <3>1. task[m] - 1 = Len(S(m)) /\ Len(S(m)) > 0 /\ S(m)[task[m] - 1].op = "open"
      BY <1>4, <2>1, AwaitsReads
    <3>2. S(m) # <<>>
      BY <3>1
    <3> QED
      BY <1>1, <3>1, <3>2 DEF EndsDone
  <2> QED
    BY <1>4, <2>1, <2>2 DEF Quiet
<1>6. CASE \A i \in 1 .. Len(S(m)) : S(m)[i].op \notin ReadOps
  BY <1>6, AwaitsReads DEF Quiet, ReadOps
<1>7. CASE SeesLast(app, s, m)
  <2>1. PICK i \in 1 .. Len(S(s)), l \in 1 .. Len(S(m)) :
          /\ S(s)[i].op = "open"
          /\ OnlyWriter(app, S(s)[i].frame, m, l)
          /\ \A j \in 1 .. Len(S(m)) : j >= l => S(m)[j].op \notin ReadOps
    BY <1>7 DEF SeesLast, S
  <2>2. task[s] = Len(S(s))
    BY <1>1, <1>3 DEF StopsLast, S
  <2>3. i < task[s]
    BY <1>1, <1>3, <2>1, <2>2
  <2> DEFINE f == S(s)[i].frame
  <2>4. f \in Frames
    BY <2>1, FrameIs
  <2>5. rows[s][f] # Nil
    BY <1>2, <2>1, <2>3 DEF NodeInv, KnowsRows, KnowOps
  <2>6. ~Writing(s, f)
    BY <1>2 DEF Writing, Doing, TheOp, WriteOps
  <2>7. Written(f)
    BY <2>4, <2>5, <2>6 DEF RowsWritten
  <2>8. l < task[m]
    BY <2>1, <2>7 DEF Written, OnlyWriter, S
  <2>9. \A j \in 1 .. Len(S(m)) : j >= task[m] - 1 => S(m)[j].op \notin ReadOps
    BY <1>4, <2>1, <2>8
  <2>10. phase[m] # "await"
    BY <1>4, <2>9, AwaitsReads DEF ReadOps
  <2> QED
    BY <1>4, <2>9, <2>10 DEF Quiet
<1> QED
  BY <1>1, <1>3, <1>5, <1>6, <1>7 DEF StopsLast, S

LEMMA StoppedStays ==
  ASSUME AllWell, ReadInv, StepDoes, NEW s \in Nodes
  PROVE  /\ Stopped(s) => Stopped(s)'
         /\ Stopped(s)' => Stopped(s) \/ Stop(s)
         /\ Stop(s) => Stopped(s)'
<1>1. S(s)' = S(s) /\ TaskMoves(s) /\ task[s] \in Nat \ {0} /\ app \in Apps
  BY DEF StepDoes, S, ReadInv, AppTypes
<1>2. S(s) \in Seq(Tasks)
  BY <1>1 DEF AllWell, WellScripted, S
<1>3. Stopped(s) => Stopped(s)'
  BY <1>1, <1>2 DEF Stopped, TaskMoves
<1>4. Stopped(s)' => Stopped(s) \/ Stop(s)
  <2> SUFFICES ASSUME NEW p \in 1 .. Len(S(s)), p < task'[s], S(s)[p].op = "stop", ~Stopped(s)
               PROVE  Stop(s)
    BY <1>1 DEF Stopped
  <2>1. ~(p < task[s])
    BY DEF Stopped
  <2>2. p = task[s] /\ task'[s] # task[s]
    BY <1>1, <1>2, <2>1 DEF TaskMoves
  <2> QED
    BY <2>2 DEF StepDoes, TheOp, S
<1>5. Stop(s) => Stopped(s)'
  <2> SUFFICES ASSUME Stop(s) PROVE Stopped(s)'
    OBVIOUS
  <2>1. HasTask(s) /\ TheOp(s) = "stop" /\ NextTask(s)
    BY DEF Stop, Doing, TheOp
  <2>2. task[s] \in 1 .. Len(S(s)) /\ S(s)[task[s]].op = "stop"
    BY <2>1, TaskIs DEF S, TheOp, ReadInv
  <2>3. task'[s] = task[s] + 1
    BY <2>1 DEF NextTask, ReadInv, AppTypes
  <2>4. task[s] < task'[s]
    BY <1>1, <2>3
  <2> QED
    BY <1>1, <2>2, <2>4 DEF Stopped
<1> QED
  BY <1>3, <1>4, <1>5

LEMMA OthersQuietNext ==
  ASSUME AllWell, ReadInv, StepDoes, StoreStep, RowsWritten, OthersQuiet,
         SleepIsEnough \/ "linus" \notin Apps
  PROVE  OthersQuiet'
<1> SUFFICES ASSUME NEW s \in Nodes, Stopped(s)'
             PROVE  /\ phase'[s] \in {"stop", "joining", "closed"}
                    /\ \A m \in Nodes \ {s} : Quiet(m)'
  BY DEF OthersQuiet
<1>1. CASE Stopped(s)
  <2>1. phase'[s] \in {"stop", "joining", "closed"}
    BY <1>1, StoreAssumed, StoreNodes, Store!HaltsAfterStop
       DEF OthersQuiet, ReadInv, Store!IInv, StoreStep, Store!Nodes, Store!Blob
  <2>2. ASSUME NEW m \in Nodes \ {s} PROVE Quiet(m)'
    <3>1. Quiet(m) /\ TaskMoves(m) /\ S(m)' = S(m) /\ task[m] \in Nat \ {0} /\ app \in Apps
      BY <1>1 DEF OthersQuiet, StepDoes, S, ReadInv, AppTypes
    <3>2. S(m) \in Seq(Tasks)
      BY <3>1 DEF AllWell, WellScripted, S
    <3>3. ~Doing(m, ReadOps)
      BY <3>1, TaskIs DEF Quiet, Doing, S, ReadInv
    <3>4. phase'[m] # "await"
      BY <3>1, <3>3 DEF Quiet, StepDoes
    <3>5. \A i \in 1 .. Len(S(m)) : i >= task'[m] => i >= task[m]
      BY <3>1, <3>2 DEF TaskMoves
    <3> QED
      BY <3>1, <3>4, <3>5 DEF Quiet
  <2> QED
    BY <2>1, <2>2
<1>2. CASE Stop(s)
  <2>1. NextTask(s) /\ Store!StopAll(s)
    BY <1>2, SameSteps DEF Stop
  <2>2. phase'[s] = "stop" /\ \A m \in Nodes \ {s} : phase'[m] = phase[m]
    BY <2>1, StoreTypes DEF Store!StopAll, ReadInv
  <2>3. \A m \in Nodes \ {s} : task'[m] = task[m]
    BY <2>1 DEF NextTask, ReadInv, AppTypes
  <2>4. \A m \in Nodes \ {s} : Quiet(m)'
    BY <1>2, <2>2, <2>3, StopSees DEF Quiet, StepDoes, S
  <2> QED
    BY <2>2, <2>4
<1> QED
  BY <1>1, <1>2, StoppedStays

LEMMA StopsFirstNext ==
  ASSUME AllWell, ReadInv, StepDoes, StoreStep, StopsFirst
  PROVE  StopsFirst'
<1> SUFFICES ASSUME NEW n \in Nodes, Store!Halting(n)' PROVE \E s \in Nodes : Stopped(s)'
  BY DEF StopsFirst
<1>1. \/ \E m \in Nodes : Store!Halting(m)
      \/ phase[n] = "run" /\ phase'[n] = "stop"
  BY StoreAssumed, StoreNodes, Store!HaltsAfterStop
     DEF ReadInv, Store!IInv, StoreStep, Store!Nodes, Store!Blob
<1>2. CASE \E m \in Nodes : Store!Halting(m)
  BY <1>2, StoppedStays DEF StopsFirst
<1>3. CASE phase[n] = "run" /\ phase'[n] = "stop"
  BY <1>3, StoppedStays DEF StepDoes
<1> QED
  BY <1>1, <1>2, <1>3

LEMMA StopInvNext ==
  ASSUME AllWell, SleepIsEnough \/ "linus" \notin Apps, StopInv, [Next]_vars
  PROVE  StopInv'
<1>1. ReadInv' /\ StepDoes
  BY ReadInvNext, StepIs DEF StopInv
<1>2. StoreStep
  BY <1>1, StepsAre DEF StepDoes
<1> QED
  BY <1>1, <1>2, SchemasWrittenNext, RowsWrittenNext, OthersQuietNext, StopsFirstNext DEF StopInv

LEMMA StopInvInit == ASSUME AllWell, Init PROVE StopInv
<1>1. ReadInv
  BY ReadInvInit
<1>2. /\ task = [n \in Nodes |-> 1]
      /\ rows = [n \in Nodes |-> [f \in Frames |-> Nil]]
      /\ phase = [n \in Nodes |-> "new"]
      /\ store = [n \in Nodes |-> [k \in AppKeys |-> Nil]]
      /\ queues = [n \in Nodes |-> <<>>]
      /\ cur = [n \in Nodes |-> Nil] /\ repliers = {}
  BY SameInit DEF Init, Store!Init, Store!Nodes
<1>3. SchemasWritten
  BY <1>2, RestsAre, StoreNodes DEF SchemasWritten, Store!Somewhere
<1>4. RowsWritten
  BY <1>2 DEF RowsWritten
<1>5. \A n \in Nodes : ~Stopped(n) /\ ~Store!Halting(n)
  BY <1>2 DEF Stopped, Store!Halting
<1> QED
  BY <1>1, <1>3, <1>4, <1>5 DEF StopInv, OthersQuiet, StopsFirst

LEMMA StopsAreLast == ASSUME AllWell, StopInv PROVE StopIsLast
<1> SUFFICES ASSUME NEW n \in Nodes, phase[n] \in {"stop", "closed"}, NEW m \in Nodes \ {n}
             PROVE  /\ phase[m] # "await"
                    /\ \A i \in task[m] .. Len(S(m)) : S(m)[i].op \notin ReadOps
  BY DEF StopIsLast, S, ReadOps, LoadOps
<1>1. PICK s \in Nodes : Stopped(s)
  BY DEF StopInv, StopsFirst, Store!Halting
<1>2. task[m] \in Nat \ {0} /\ app \in Apps
  BY DEF StopInv, ReadInv, AppTypes
<1>3. S(m) \in Seq(Tasks)
  BY <1>2 DEF AllWell, WellScripted, S
<1>4. Quiet(m)
  <2>1. CASE m # s
    BY <1>1, <2>1 DEF StopInv, OthersQuiet
  <2>2. CASE m = s
    <3>1. phase[m] # "await"
      BY <1>1, <2>2 DEF StopInv, OthersQuiet
    <3>2. PICK p \in 1 .. Len(S(m)) : p < task[m] /\ S(m)[p].op = "stop"
      BY <1>1, <2>2 DEF Stopped
    <3>3. p = Len(S(m))
      BY <1>2, <3>2 DEF AllWell, WellScripted, StopsLast, S
    <3> QED
      BY <1>2, <1>3, <3>1, <3>2, <3>3 DEF Quiet
  <2> QED
    BY <2>1, <2>2
<1> QED
  BY <1>2, <1>3, <1>4 DEF Quiet

-----------------------------------------------------------------------------
\* What the scripts are made of.

Acts == [op : WriteOps \cup ReadOps, frame : FrameNames]

Known(s) == {f \in FrameNames : \E i \in 1 .. Len(s) : s[i].op \in KnowOps /\ s[i].frame = f}
Wrote(s) == {f \in FrameNames : \E i \in 1 .. Len(s) : s[i].op \in WriteOps /\ s[i].frame = f}

\* When node n knows the frames K and has written the frames W, it may do s, and knows
\* K1 and has written W1 afterwards.
Does(n, K, W, s, K1, W1) ==
  /\ s \in Seq(Acts)
  /\ K1 = K \cup Known(s) /\ W1 = W \cup Wrote(s)
  /\ \A j \in 1 .. Len(s) :
       /\ s[j].op \in LoadOps =>
            \/ s[j].frame \in K
            \/ \E i \in 1 .. Len(s) : i < j /\ s[i].op \in KnowOps /\ s[i].frame = s[j].frame
       /\ s[j].op = "open" /\ s[j].frame.home = n =>
            \/ s[j].frame \in W
            \/ \E i \in 1 .. Len(s) : i < j /\ s[i].op \in WriteOps /\ s[i].frame = s[j].frame
       /\ s[j].op \in WriteOps =>
            /\ s[j].frame \notin K
            /\ \A i \in 1 .. Len(s) : i < j /\ s[i].op \in KnowOps => s[i].frame # s[j].frame

\* The sequence u is s and then t.
Joined(u, s, t) ==
  /\ Len(s) \in Nat /\ Len(t) \in Nat /\ Len(u) = Len(s) + Len(t)
  /\ \A i \in 1 .. Len(s) : i \in 1 .. Len(u) /\ u[i] = s[i]
  /\ \A i \in 1 .. Len(t) : Len(s) + i \in 1 .. Len(u) /\ u[Len(s) + i] = t[i]
  /\ \A j \in 1 .. Len(u) :
       \/ j \in 1 .. Len(s) /\ u[j] = s[j]
       \/ \E i \in 1 .. Len(t) : j = Len(s) + i /\ u[j] = t[i]

LEMMA ConcatParts ==
  ASSUME NEW T, NEW s \in Seq(T), NEW t \in Seq(T)
  PROVE  s \o t \in Seq(T) /\ Joined(s \o t, s, t)
<1>1. s \o t \in Seq(T) /\ Len(s) \in Nat /\ Len(t) \in Nat /\ Len(s \o t) = Len(s) + Len(t)
  OBVIOUS
<1>2. \A i \in 1 .. Len(s) : i \in 1 .. Len(s \o t) /\ (s \o t)[i] = s[i]
  BY <1>1
<1>3. \A i \in 1 .. Len(t) : Len(s) + i \in 1 .. Len(s \o t) /\ (s \o t)[Len(s) + i] = t[i]
  BY <1>1
<1>4. ASSUME NEW j \in 1 .. Len(s \o t), j \notin 1 .. Len(s)
      PROVE  \E i \in 1 .. Len(t) : j = Len(s) + i
  <2>1. j - Len(s) \in 1 .. Len(t) /\ j = Len(s) + (j - Len(s))
    BY <1>1, <1>4
  <2> QED
    BY <2>1
<1> DEFINE u == s \o t
<1> HIDE DEF u
<1>5. /\ Len(s) \in Nat /\ Len(t) \in Nat /\ Len(u) = Len(s) + Len(t)
      /\ \A i \in 1 .. Len(s) : i \in 1 .. Len(u) /\ u[i] = s[i]
      /\ \A i \in 1 .. Len(t) : Len(s) + i \in 1 .. Len(u) /\ u[Len(s) + i] = t[i]
      /\ \A j \in 1 .. Len(u) : j \in 1 .. Len(s) \/ \E i \in 1 .. Len(t) : j = Len(s) + i
  BY <1>1, <1>2, <1>3, <1>4 DEF u
<1>6. Joined(u, s, t)
  BY <1>5 DEF Joined
<1> QED
  BY <1>1, <1>6 DEF u

\* One after the other.
LEMMA DoesBoth ==
  ASSUME NEW n, NEW K, NEW W, NEW s, NEW K1, NEW W1, NEW t, NEW K2, NEW W2,
         Does(n, K, W, s, K1, W1), Does(n, K1, W1, t, K2, W2)
  PROVE  Does(n, K, W, s \o t, K2, W2)
<1> DEFINE u == s \o t
           l == Len(s)
<1>1. s \in Seq(Acts) /\ t \in Seq(Acts)
  BY DEF Does
<1>2. /\ u \in Seq(Acts) /\ l \in Nat /\ Len(t) \in Nat
      /\ \A i \in 1 .. l : i \in 1 .. Len(u) /\ u[i] = s[i]
      /\ \A i \in 1 .. Len(t) : l + i \in 1 .. Len(u) /\ u[l + i] = t[i]
      /\ \A j \in 1 .. Len(u) :
           \/ j \in 1 .. l /\ u[j] = s[j]
           \/ \E i \in 1 .. Len(t) : j = l + i /\ u[j] = t[i]
  <2>1. u \in Seq(Acts) /\ Joined(u, s, t)
    BY ONLY <1>1, ConcatParts
  <2> HIDE DEF u
  <2> QED
    BY <2>1 DEF Joined
<1> HIDE DEF u, l
<1>3. Known(u) = Known(s) \cup Known(t) /\ Wrote(u) = Wrote(s) \cup Wrote(t)
  <2>1. ASSUME NEW ops, NEW f
        PROVE  (\E i \in 1 .. Len(u) : u[i].op \in ops /\ u[i].frame = f)
               <=> \/ \E i \in 1 .. Len(s) : s[i].op \in ops /\ s[i].frame = f
                   \/ \E i \in 1 .. Len(t) : t[i].op \in ops /\ t[i].frame = f
    <3>1. ASSUME NEW i \in 1 .. Len(u), u[i].op \in ops, u[i].frame = f
          PROVE  \/ \E h \in 1 .. Len(s) : s[h].op \in ops /\ s[h].frame = f
                 \/ \E h \in 1 .. Len(t) : t[h].op \in ops /\ t[h].frame = f
      BY <1>2, <3>1 DEF l
    <3>2. ASSUME NEW i \in 1 .. Len(s), s[i].op \in ops, s[i].frame = f
          PROVE  \E h \in 1 .. Len(u) : u[h].op \in ops /\ u[h].frame = f
      BY <1>2, <3>2 DEF l
    <3>3. ASSUME NEW i \in 1 .. Len(t), t[i].op \in ops, t[i].frame = f
          PROVE  \E h \in 1 .. Len(u) : u[h].op \in ops /\ u[h].frame = f
      BY <1>2, <3>3
    <3> QED
      BY <3>1, <3>2, <3>3
  <2>2. \A f : f \in Known(u) <=> f \in Known(s) \/ f \in Known(t)
    <3> TAKE f
    <3> QED
      BY ONLY <2>1, Zenon DEF Known
  <2>3. \A f : f \in Wrote(u) <=> f \in Wrote(s) \/ f \in Wrote(t)
    <3> TAKE f
    <3> QED
      BY ONLY <2>1, Zenon DEF Wrote
  <2> QED
    BY ONLY <2>2, <2>3
<1>4. \A j \in 1 .. Len(s) : s[j].frame \in FrameNames
  <2>1. \A j \in 1 .. Len(s) : s[j] \in Acts
    BY <1>1
  <2> QED
    BY <2>1 DEF Acts
<1>5. \A j \in 1 .. Len(t) : t[j].frame \in FrameNames
  <2>1. \A j \in 1 .. Len(t) : t[j] \in Acts
    BY <1>1
  <2> QED
    BY <2>1 DEF Acts
<1>6. ASSUME NEW j \in 1 .. Len(u), u[j].op \in LoadOps
      PROVE  \/ u[j].frame \in K
             \/ \E i \in 1 .. Len(u) : i < j /\ u[i].op \in KnowOps /\ u[i].frame = u[j].frame
  <2>1. CASE j \in 1 .. l /\ u[j] = s[j]
    BY <1>2, <1>6, <2>1 DEF Does, l
  <2>2. ASSUME NEW i \in 1 .. Len(t), j = l + i, u[j] = t[i]
        PROVE  \/ u[j].frame \in K
               \/ \E h \in 1 .. Len(u) : h < j /\ u[h].op \in KnowOps /\ u[h].frame = u[j].frame
    <3>1. \/ t[i].frame \in K
          \/ t[i].frame \in Known(s)
          \/ \E h \in 1 .. Len(t) : h < i /\ t[h].op \in KnowOps /\ t[h].frame = t[i].frame
      BY <1>6, <2>2 DEF Does
    <3>2. CASE t[i].frame \in Known(s)
      <4>1. PICK h \in 1 .. l : s[h].op \in KnowOps /\ s[h].frame = t[i].frame
        BY <3>2 DEF Known, l
      <4>2. h < j /\ h \in 1 .. Len(u) /\ u[h] = s[h]
        BY ONLY <1>2, <2>2, <4>1
      <4> QED
        BY <2>2, <4>1, <4>2
    <3>3. CASE \E h \in 1 .. Len(t) : h < i /\ t[h].op \in KnowOps /\ t[h].frame = t[i].frame
      <4>1. PICK h \in 1 .. Len(t) : h < i /\ t[h].op \in KnowOps /\ t[h].frame = t[i].frame
        BY <3>3
      <4>2. l + h < j /\ l + h \in 1 .. Len(u) /\ u[l + h] = t[h]
        BY <1>2, <2>2, <4>1
      <4> QED
        BY <2>2, <4>1, <4>2
    <3> QED
      BY <2>2, <3>1, <3>2, <3>3
  <2> QED
    BY <1>2, <2>1, <2>2
<1>7. ASSUME NEW j \in 1 .. Len(u), u[j].op = "open", u[j].frame.home = n
      PROVE  \/ u[j].frame \in W
             \/ \E i \in 1 .. Len(u) : i < j /\ u[i].op \in WriteOps /\ u[i].frame = u[j].frame
  <2>1. CASE j \in 1 .. l /\ u[j] = s[j]
    <3>1. \/ s[j].frame \in W
          \/ \E i \in 1 .. l : i < j /\ s[i].op \in WriteOps /\ s[i].frame = s[j].frame
      BY <1>7, <2>1 DEF Does, l
    <3> QED
      BY <1>2, <2>1, <3>1
  <2>2. ASSUME NEW i \in 1 .. Len(t), j = l + i, u[j] = t[i]
        PROVE  \/ u[j].frame \in W
               \/ \E h \in 1 .. Len(u) : h < j /\ u[h].op \in WriteOps /\ u[h].frame = u[j].frame
    <3>1. \/ t[i].frame \in W
          \/ t[i].frame \in Wrote(s)
          \/ \E h \in 1 .. Len(t) : h < i /\ t[h].op \in WriteOps /\ t[h].frame = t[i].frame
      BY <1>7, <2>2 DEF Does
    <3>2. CASE t[i].frame \in Wrote(s)
      <4>1. PICK h \in 1 .. l : s[h].op \in WriteOps /\ s[h].frame = t[i].frame
        BY <3>2 DEF Wrote, l
      <4> QED
        BY <1>2, <2>2, <4>1
    <3>3. CASE \E h \in 1 .. Len(t) : h < i /\ t[h].op \in WriteOps /\ t[h].frame = t[i].frame
      <4>1. PICK h \in 1 .. Len(t) : h < i /\ t[h].op \in WriteOps /\ t[h].frame = t[i].frame
        BY <3>3
      <4>2. l + h < j /\ l + h \in 1 .. Len(u) /\ u[l + h] = t[h]
        BY <1>2, <2>2, <4>1
      <4> QED
        BY <2>2, <4>1, <4>2
    <3> QED
      BY <2>2, <3>1, <3>2, <3>3
  <2> QED
    BY <1>2, <2>1, <2>2
<1>8. ASSUME NEW j \in 1 .. Len(u), u[j].op \in WriteOps
      PROVE  /\ u[j].frame \notin K
             /\ \A i \in 1 .. Len(u) : i < j /\ u[i].op \in KnowOps => u[i].frame # u[j].frame
  <2>1. CASE j \in 1 .. l /\ u[j] = s[j]
    <3>1. /\ s[j].frame \notin K
          /\ \A i \in 1 .. l : i < j /\ s[i].op \in KnowOps => s[i].frame # s[j].frame
      BY <1>8, <2>1 DEF Does, l
    <3>2. \A i \in 1 .. Len(u) : i < j => i \in 1 .. l /\ u[i] = s[i]
      BY <1>2, <2>1
    <3> QED
      BY <2>1, <3>1, <3>2
  <2>2. ASSUME NEW i \in 1 .. Len(t), j = l + i, u[j] = t[i]
        PROVE  /\ u[j].frame \notin K
               /\ \A h \in 1 .. Len(u) : h < j /\ u[h].op \in KnowOps => u[h].frame # u[j].frame
    <3>1. /\ t[i].frame \notin K /\ t[i].frame \notin Known(s)
          /\ \A h \in 1 .. Len(t) : h < i /\ t[h].op \in KnowOps => t[h].frame # t[i].frame
      BY <1>8, <2>2 DEF Does
    <3>2. ASSUME NEW h \in 1 .. Len(u), h < j, u[h].op \in KnowOps, u[h].frame = u[j].frame
          PROVE  FALSE
      <4>1. CASE h \in 1 .. l /\ u[h] = s[h]
        BY <1>4, <2>2, <3>1, <3>2, <4>1 DEF Known, l
      <4>2. CASE \E g \in 1 .. Len(t) : h = l + g /\ u[h] = t[g]
        <5>1. PICK g \in 1 .. Len(t) : h = l + g /\ u[h] = t[g]
          BY <4>2
        <5>2. g < i
          BY <1>2, <2>2, <3>2, <5>1
        <5> QED
          BY <2>2, <3>1, <3>2, <5>1, <5>2
      <4> QED
        BY <1>2, <4>1, <4>2
    <3> QED
      BY <2>2, <3>1, <3>2
  <2> QED
    BY <1>2, <2>1, <2>2
<1>9. u \in Seq(Acts) /\ K2 = K \cup Known(u) /\ W2 = W \cup Wrote(u)
  BY <1>2, <1>3 DEF Does
<1>10. Does(n, K, W, u, K2, W2)
  BY <1>6, <1>7, <1>8, <1>9 DEF Does
<1> QED
  BY <1>10 DEF u

LEMMA WriteOne ==
  ASSUME NEW n, NEW K, NEW W, NEW op \in WriteOps, NEW f \in FrameNames, f \notin K
  PROVE  Does(n, K, W, <<Task(op, f)>>, K \cup {f}, W \cup {f})
<1> DEFINE s == <<Task(op, f)>>
<1>1. Task(op, f) \in Acts /\ op \in KnowOps
  BY DEF Task, Acts, KnowOps
<1>2. s \in Seq(Acts) /\ Len(s) = 1 /\ s[1].op = op /\ s[1].frame = f
  BY <1>1 DEF Task
<1>3. op \notin LoadOps /\ op # "open"
  BY DEF WriteOps, LoadOps
<1> HIDE DEF s
<1>4. \A j \in 1 .. Len(s) : j = 1
  BY <1>2
<1>5. Known(s) = {f} /\ Wrote(s) = {f}
  BY <1>1, <1>2, <1>4 DEF Known, Wrote
<1>6. Does(n, K, W, s, K \cup {f}, W \cup {f})
  BY <1>2, <1>3, <1>4, <1>5 DEF Does
<1> QED
  BY <1>6 DEF s

LEMMA OpenOne ==
  ASSUME NEW n, NEW K, NEW W, NEW f \in FrameNames, f.home # n \/ f \in W
  PROVE  Does(n, K, W, <<Task("open", f)>>, K \cup {f}, W)
<1> DEFINE s == <<Task("open", f)>>
<1>1. Task("open", f) \in Acts
  BY DEF Task, Acts, ReadOps
<1>2. s \in Seq(Acts) /\ Len(s) = 1 /\ s[1].op = "open" /\ s[1].frame = f
  BY <1>1 DEF Task
<1>3. "open" \notin LoadOps /\ "open" \notin WriteOps /\ "open" \in KnowOps
  BY DEF WriteOps, LoadOps, KnowOps
<1> HIDE DEF s
<1>4. \A j \in 1 .. Len(s) : j = 1
  BY <1>2
<1>5. Known(s) = {f} /\ Wrote(s) = {}
  BY <1>2, <1>3, <1>4 DEF Known, Wrote
<1>6. Does(n, K, W, s, K \cup {f}, W)
  BY <1>2, <1>3, <1>4, <1>5 DEF Does
<1> QED
  BY <1>6 DEF s

LEMMA LoadOne ==
  ASSUME NEW n, NEW K, NEW W, NEW op \in LoadOps, NEW f \in FrameNames, f \in K
  PROVE  Does(n, K, W, <<Task(op, f)>>, K, W)
<1> DEFINE s == <<Task(op, f)>>
<1>1. Task(op, f) \in Acts
  BY DEF Task, Acts, ReadOps
<1>2. s \in Seq(Acts) /\ Len(s) = 1 /\ s[1].op = op /\ s[1].frame = f
  BY <1>1 DEF Task
<1>3. op \notin WriteOps /\ op \notin KnowOps /\ op # "open"
  BY DEF WriteOps, LoadOps, KnowOps
<1> HIDE DEF s
<1>4. \A j \in 1 .. Len(s) : j = 1
  BY <1>2
<1>5. Known(s) = {} /\ Wrote(s) = {}
  BY <1>2, <1>3, <1>4 DEF Known, Wrote
<1>6. Does(n, K, W, s, K, W)
  BY <1>2, <1>3, <1>4, <1>5 DEF Does
<1> QED
  BY <1>6 DEF s

LEMMA DoesNothing == ASSUME NEW n, NEW K, NEW W PROVE Does(n, K, W, <<>>, K, W)
<1>1. <<>> \in Seq(Acts) /\ Len(<<>>) = 0
  OBVIOUS
<1>2. Known(<<>>) = {} /\ Wrote(<<>>) = {}
  BY <1>1 DEF Known, Wrote
<1> QED
  BY <1>1, <1>2 DEF Does

LEMMA ReadAllDoes ==
  ASSUME NEW n, NEW K, NEW W, NEW f \in FrameNames, f.home # n \/ f \in W
  PROVE  Does(n, K, W, ReadAll(f), K \cup {f}, W)
<1>1. Does(n, K, W, <<Task("open", f)>>, K \cup {f}, W)
  BY OpenOne
<1>2. Does(n, K \cup {f}, W, <<Task("all", f)>>, K \cup {f}, W)
  BY LoadOne DEF LoadOps
<1>3. ReadAll(f) = <<Task("open", f)>> \o <<Task("all", f)>>
  BY DEF ReadAll
<1> QED
  BY <1>1, <1>2, <1>3, DoesBoth

\* The tasks of ReadEach(), two for each frame.
LEMMA ReadEachIs ==
  ASSUME NEW fs \in Seq(FrameNames)
  PROVE  /\ ReadEach(fs) \in Seq(Acts) /\ Len(ReadEach(fs)) = 2 * Len(fs) /\ Len(fs) \in Nat
         /\ \A j \in 1 .. Len(fs) :
              /\ 2 * j - 1 \in 1 .. 2 * Len(fs) /\ 2 * j \in 1 .. 2 * Len(fs)
              /\ ReadEach(fs)[2 * j - 1] = Task("open", fs[j])
              /\ ReadEach(fs)[2 * j] = Task("all", fs[j])
         /\ \A i \in 1 .. 2 * Len(fs) : \E j \in 1 .. Len(fs) :
              \/ i = 2 * j - 1 /\ ReadEach(fs)[i] = Task("open", fs[j])
              \/ i = 2 * j /\ ReadEach(fs)[i] = Task("all", fs[j])
<1> DEFINE l == Len(fs)
           s == ReadEach(fs)
<1>1. l \in Nat /\ \A j \in 1 .. l : fs[j] \in FrameNames
  OBVIOUS
<1>2. s = [i \in 1 .. 2 * l |-> Task(IF i % 2 = 1 THEN "open" ELSE "all", fs[(i + 1) \div 2])]
  BY DEF ReadEach
<1> HIDE DEF s, l
<1>3. ASSUME NEW j \in 1 .. l
      PROVE  /\ 2 * j - 1 \in 1 .. 2 * l /\ 2 * j \in 1 .. 2 * l
             /\ s[2 * j - 1] = Task("open", fs[j])
             /\ s[2 * j] = Task("all", fs[j])
  <2>1. 2 * j - 1 \in 1 .. 2 * l /\ 2 * j \in 1 .. 2 * l
    BY <1>1
  <2>2. (2 * j - 1) % 2 = 1 /\ ((2 * j - 1) + 1) \div 2 = j
    BY <1>1
  <2>3. (2 * j) % 2 = 0 /\ (2 * j + 1) \div 2 = j
    BY <1>1
  <2> QED
    BY <1>2, <2>1, <2>2, <2>3
<1>4. ASSUME NEW i \in 1 .. 2 * l
      PROVE  \E j \in 1 .. l : i = 2 * j - 1 \/ i = 2 * j
  <2>1. (i + 1) \div 2 \in 1 .. l /\ (i = 2 * ((i + 1) \div 2) - 1 \/ i = 2 * ((i + 1) \div 2))
    BY <1>1
  <2> QED
    BY <2>1
<1>5. \A i \in 1 .. 2 * l : \E j \in 1 .. l :
        \/ i = 2 * j - 1 /\ s[i] = Task("open", fs[j])
        \/ i = 2 * j /\ s[i] = Task("all", fs[j])
  BY <1>3, <1>4
<1>6. \A j \in 1 .. l : Task("open", fs[j]) \in Acts /\ Task("all", fs[j]) \in Acts
  BY <1>1 DEF Task, Acts, ReadOps, LoadOps
<1>7. s \in Seq(Acts) /\ Len(s) = 2 * l
  <2>1. 2 * l \in Nat
    BY <1>1
  <2>2. DOMAIN s = 1 .. 2 * l
    BY <1>2
  <2>3. \A i \in 1 .. 2 * l : s[i] \in Acts
    BY <1>5, <1>6
  <2>4. s \in [1 .. 2 * l -> Acts]
    BY <1>2, <2>2, <2>3
  <2> QED
    BY <2>1, <2>4
<1> QED
  BY <1>1, <1>3, <1>5, <1>7 DEF s, l

LEMMA ReadEachDoes ==
  ASSUME NEW n, NEW K, NEW W, NEW fs \in Seq(FrameNames),
         \A j \in 1 .. Len(fs) : fs[j].home # n \/ fs[j] \in W
  PROVE  Does(n, K, W, ReadEach(fs), K \cup {fs[j] : j \in 1 .. Len(fs)}, W)
<1> DEFINE l == Len(fs)
           s == ReadEach(fs)
<1>1. /\ s \in Seq(Acts) /\ Len(s) = 2 * l /\ l \in Nat
      /\ \A j \in 1 .. l :
           /\ 2 * j - 1 \in 1 .. 2 * l /\ 2 * j \in 1 .. 2 * l
           /\ s[2 * j - 1] = Task("open", fs[j])
           /\ s[2 * j] = Task("all", fs[j])
      /\ \A i \in 1 .. 2 * l : \E j \in 1 .. l :
           \/ i = 2 * j - 1 /\ s[i] = Task("open", fs[j])
           \/ i = 2 * j /\ s[i] = Task("all", fs[j])
  BY ONLY ReadEachIs, fs \in Seq(FrameNames)
<1>2. \A j \in 1 .. l : fs[j] \in FrameNames
  OBVIOUS
<1> HIDE DEF s, l
<1>3. "open" \notin LoadOps /\ "open" \notin WriteOps /\ "open" \in KnowOps
      /\ "all" \in LoadOps /\ "all" \notin KnowOps /\ "all" \notin WriteOps
  BY DEF WriteOps, LoadOps, KnowOps
<1>4. \A i \in 1 .. Len(s) : s[i].op \notin WriteOps
  BY <1>1, <1>3 DEF Task
<1>5. Wrote(s) = {}
  BY <1>4 DEF Wrote
<1>6. Known(s) = {fs[j] : j \in 1 .. l}
  <2>1. ASSUME NEW j \in 1 .. l PROVE fs[j] \in Known(s)
    <3>1. 2 * j - 1 \in 1 .. Len(s) /\ s[2 * j - 1].op = "open" /\ s[2 * j - 1].frame = fs[j]
      BY <1>1 DEF Task
    <3> QED
      BY <1>2, <1>3, <3>1 DEF Known
  <2>2. ASSUME NEW i \in 1 .. Len(s), s[i].op \in KnowOps
        PROVE  \E j \in 1 .. l : s[i].frame = fs[j]
    BY <1>1 DEF Task
  <2> QED
    BY <2>1, <2>2 DEF Known
<1>7. ASSUME NEW i \in 1 .. Len(s), s[i].op \in LoadOps
      PROVE  \E h \in 1 .. Len(s) : h < i /\ s[h].op \in KnowOps /\ s[h].frame = s[i].frame
  <2>1. PICK j \in 1 .. l : i = 2 * j /\ s[i] = Task("all", fs[j])
    BY <1>1, <1>3, <1>7 DEF Task
  <2>2. 2 * j - 1 \in 1 .. Len(s) /\ s[2 * j - 1] = Task("open", fs[j])
    BY <1>1
  <2>3. 2 * j - 1 < i
    BY <2>1
  <2> QED
    BY <1>3, <2>1, <2>2, <2>3 DEF Task
<1>8. ASSUME NEW i \in 1 .. Len(s), s[i].op = "open"
      PROVE  s[i].frame.home # n \/ s[i].frame \in W
  <2>1. PICK j \in 1 .. l : s[i] = Task("open", fs[j])
    BY <1>1, <1>8 DEF Task
  <2> QED
    BY <2>1 DEF Task, l
<1>9. Does(n, K, W, s, K \cup {fs[j] : j \in 1 .. l}, W)
  BY <1>1, <1>4, <1>5, <1>6, <1>7, <1>8 DEF Does
<1> QED
  BY <1>9 DEF s, l

-----------------------------------------------------------------------------
\* From what a script does to what the proofs need of it.

WholeScript(n, t) ==
  /\ t \in Seq(Tasks)
  /\ LoadsKnown(t)
  /\ OpensOwn(t, n)
  /\ WritesFresh(t)

LEMMA WithoutStop ==
  ASSUME NEW n, NEW s, NEW K1, NEW W1, Does(n, {}, {}, s, K1, W1)
  PROVE  WholeScript(n, s) /\ \A j \in 1 .. Len(s) : s[j].op # "stop"
<1>1. s \in Seq(Acts)
  BY DEF Does
<1>2. \A j \in 1 .. Len(s) : s[j] \in Acts
  BY <1>1
<1>3. \A j \in 1 .. Len(s) : s[j].op # "stop"
  BY <1>2 DEF Acts, WriteOps, ReadOps, LoadOps
<1>4. s \in Seq(Tasks)
  BY <1>1, SeqMonotonic DEF Acts, Tasks
<1> QED
  BY <1>3, <1>4 DEF Does, WholeScript, LoadsKnown, OpensOwn, WritesFresh

LEMMA WithStop ==
  ASSUME NEW n, NEW s, NEW K1, NEW W1, Does(n, {}, {}, s, K1, W1)
  PROVE  /\ WholeScript(n, s \o <<StopTask>>)
         /\ Len(s) \in Nat /\ Len(s \o <<StopTask>>) = Len(s) + 1
         /\ \A j \in 1 .. Len(s) : (s \o <<StopTask>>)[j] = s[j] /\ s[j].op # "stop"
         /\ (s \o <<StopTask>>)[Len(s) + 1] = StopTask
         /\ EndsDone(s \o <<StopTask>>)
<1> DEFINE t == <<StopTask>>
           u == s \o t
           l == Len(s)
<1>1. s \in Seq(Tasks) /\ t \in Seq(Tasks) /\ Len(t) = 1 /\ t[1] = StopTask
  BY WithoutStop DEF WholeScript, Tasks
<1>2. StopTask.op = "stop"
  BY DEF StopTask, Task
<1>3. /\ u \in Seq(Tasks) /\ l \in Nat /\ Len(u) = l + 1
      /\ \A i \in 1 .. l : u[i] = s[i]
      /\ u[l + 1] = StopTask
  BY <1>1, ConcatProperties
<1>4. \A j \in 1 .. l : s[j].op # "stop"
  BY WithoutStop
<1> HIDE DEF u, t
<1>5. \A j \in 1 .. Len(u) : u[j].op # "stop" => j \in 1 .. l /\ u[j] = s[j]
  BY <1>2, <1>3
<1>6. WholeScript(n, s)
  BY WithoutStop
<1>7. "stop" \notin LoadOps /\ "stop" \notin WriteOps
  BY DEF LoadOps, WriteOps
<1>8. LoadsKnown(u)
  <2> SUFFICES ASSUME NEW j \in 1 .. Len(u), u[j].op \in LoadOps
               PROVE  \E i \in 1 .. Len(u) : i < j /\ u[i].op \in KnowOps /\ u[i].frame = u[j].frame
    BY DEF LoadsKnown
  <2>1. PICK i \in 1 .. l : i < j /\ s[i].op \in KnowOps /\ s[i].frame = s[j].frame
    BY <1>5, <1>6, <1>7 DEF WholeScript, LoadsKnown
  <2> QED
    BY <1>3, <1>5, <1>7, <2>1
<1>9. OpensOwn(u, n)
  <2> SUFFICES ASSUME NEW j \in 1 .. Len(u), u[j].op = "open", u[j].frame.home = n
               PROVE  \E i \in 1 .. Len(u) : i < j /\ u[i].op \in WriteOps /\ u[i].frame = u[j].frame
    BY DEF OpensOwn
  <2>1. PICK i \in 1 .. l : i < j /\ s[i].op \in WriteOps /\ s[i].frame = s[j].frame
    BY <1>5, <1>6 DEF WholeScript, OpensOwn
  <2> QED
    BY <1>3, <1>5, <2>1
<1>10. WritesFresh(u)
  <2> SUFFICES ASSUME NEW j \in 1 .. Len(u), u[j].op \in WriteOps,
                      NEW i \in 1 .. Len(u), i < j, u[i].op \in KnowOps
               PROVE  u[i].frame # u[j].frame
    BY DEF WritesFresh
  <2>1. j \in 1 .. l /\ u[j] = s[j]
    BY <1>5, <1>7
  <2>2. i \in 1 .. l /\ u[i] = s[i]
    BY <1>3, <2>1
  <2> QED
    BY <1>6, <2>1, <2>2 DEF WholeScript, WritesFresh
<1>11. EndsDone(u)
  BY <1>2, <1>3 DEF EndsDone
<1> QED
  BY <1>3, <1>4, <1>8, <1>9, <1>10, <1>11 DEF WholeScript, u, t

\* A script that ends with what does not end with an open.
LEMMA EndsLast ==
  ASSUME NEW s \in Seq(Acts), NEW t \in Seq(Acts), t # <<>>, EndsDone(t)
  PROVE  s \o t # <<>> /\ EndsDone(s \o t)
<1>1. Len(t) > 0 /\ t[Len(t)].op # "open" /\ Len(s) \in Nat /\ Len(t) \in Nat
  BY DEF EndsDone
<1>2. Len(s \o t) = Len(s) + Len(t) /\ Len(t) \in 1 .. Len(t)
  BY <1>1
<1>3. (s \o t)[Len(s) + Len(t)] = t[Len(t)]
  BY <1>2, ConcatParts DEF Joined
<1> QED
  BY <1>1, <1>2, <1>3 DEF EndsDone

-----------------------------------------------------------------------------
\* The scripts of Linus.

LEMMA FixedFrames ==
  /\ 0 \in Nodes /\ LastNode \in Nodes /\ NumNodes \in Nat
  /\ Main \in FrameNames /\ Verif \in FrameNames /\ Check \in FrameNames /\ Words \in FrameNames
  /\ Projects \in FrameNames /\ Users \in FrameNames /\ Commits \in FrameNames
  /\ Main.home = 0 /\ Words.home = 0 /\ Projects.home = 0 /\ Users.home = 0 /\ Commits.home = 0
  /\ Verif.home = 0 /\ Check.home = 0
  /\ \A n \in Nodes : Counts(n) \in FrameNames /\ Counts(n).home = n /\ Counts(n).name = "wc-map-"
  /\ \A name \in Names, stage \in Nat, n \in Nodes :
       /\ Delta(name, stage, n) \in FrameNames /\ Delta(name, stage, n).home = n
       /\ Delta(name, stage, n).name = name /\ Delta(name, stage, n).stage = stage
<1>1. 0 \in Nodes /\ LastNode \in Nodes /\ NumNodes \in Nat
  BY DEF LastNode
<1>2. ASSUME NEW name \in Names, NEW stage \in Nat, NEW n \in Nodes
      PROVE  /\ Frame(name, stage, n) \in FrameNames /\ Frame(name, stage, n).home = n
             /\ Frame(name, stage, n).name = name /\ Frame(name, stage, n).stage = stage
  BY DEF Frame, FrameNames
<1>3. 0 \in Nat
  OBVIOUS
<1> QED
  BY <1>1, <1>2, <1>3
     DEF Names, Main, Verif, Check, Words, Projects, Users, Commits, Counts, Delta

\* What merge() keeps, and leaves known and written.
Merged(n, K, W, name, stage, K1, W1) ==
  /\ Does(n, K, W, Merge(n, name, stage), K1, W1)
  /\ Merge(n, name, stage) # <<>> /\ EndsDone(Merge(n, name, stage))
  /\ K \subseteq K1 /\ W \subseteq W1
  /\ \A f \in K1 \ K : f.name = name /\ f.stage = stage
  /\ n = 0 => Delta(name, stage, 0) \in W1

LEMMA MergeDoes ==
  ASSUME NEW n \in Nodes, NEW K, NEW W, NEW name \in Names, NEW stage \in Nat,
         \A f \in K : f.name = name => f.stage < stage
  PROVE  \E K1, W1 : Merged(n, K, W, name, stage, K1, W1)
<1> DEFINE own == Delta(name, stage, n)
           union == Delta(name, stage, 0)
           Write1 == <<Task("visitor", own)>>
<1>1. /\ own \in FrameNames /\ own.home = n /\ own.name = name /\ own.stage = stage
      /\ union \in FrameNames /\ union.home = 0 /\ union.name = name /\ union.stage = stage
  BY FixedFrames
<1>2. ~(stage < stage)
  OBVIOUS
<1>3. own \notin K
  BY <1>1, <1>2
<1>4. "visitor" \in WriteOps
  BY DEF WriteOps
<1>5. CASE n = 0
  <2> DEFINE fs == [i \in 1 .. LastNode |-> Delta(name, stage, i)]
             K2 == K \cup {fs[j] : j \in 1 .. Len(fs)}
  <2>1. LastNode \in Nat /\ \A i \in 1 .. LastNode : i \in Nodes /\ i # 0
    BY DEF LastNode
  <2>2. \A i \in 1 .. LastNode : Delta(name, stage, i) \in FrameNames
    BY <2>1, FixedFrames
  <2>3. fs \in Seq(FrameNames) /\ Len(fs) = LastNode
    BY <2>1, <2>2
  <2>4. \A j \in 1 .. Len(fs) : fs[j].home # 0 /\ fs[j].name = name /\ fs[j].stage = stage
    BY <2>1, <2>3, FixedFrames
  <2>5. Does(n, K, W, ReadEach(fs), K2, W)
    <3> HIDE DEF fs
    <3> QED
      BY <1>5, <2>3, <2>4, ReadEachDoes
  <2>6. own \notin K2
    <3> HIDE DEF fs
    <3> QED
      BY <1>1, <1>3, <1>5, <2>4
  <2>7. Does(n, K2, W, Write1, K2 \cup {own}, W \cup {own})
    <3> HIDE DEF K2
    <3> QED
      BY <1>1, <1>4, <2>6, WriteOne
  <2>8. Merge(n, name, stage) = ReadEach(fs) \o Write1
    BY <1>5 DEF Merge
  <2>9. Does(n, K, W, Merge(n, name, stage), K2 \cup {own}, W \cup {own})
    <3> HIDE DEF K2, fs, Write1
    <3> QED
      BY <2>5, <2>7, <2>8, DoesBoth
  <2>10. Write1 # <<>> /\ EndsDone(Write1) /\ ReadEach(fs) \in Seq(Acts) /\ Write1 \in Seq(Acts)
    BY <2>5, <2>7 DEF EndsDone, Task, Does
  <2>11. Merge(n, name, stage) # <<>> /\ EndsDone(Merge(n, name, stage))
    <3> HIDE DEF fs, Write1
    <3> QED
      BY <2>8, <2>10, EndsLast
  <2>12. \A f \in (K2 \cup {own}) \ K : f.name = name /\ f.stage = stage
    <3> HIDE DEF fs
    <3> QED
      BY <1>1, <2>4
  <2>13. K \subseteq K2 \cup {own} /\ W \subseteq W \cup {own}
    OBVIOUS
  <2>14. union \in W \cup {own}
    BY <1>5
  <2> HIDE DEF K2, own
  <2> QED
    BY <2>9, <2>11, <2>12, <2>13, <2>14 DEF Merged
<1>6. CASE n # 0
  <2> DEFINE K2 == K \cup {own}
             W2 == W \cup {own}
  <2>1. Does(n, K, W, Write1, K2, W2)
    BY <1>1, <1>3, <1>4, WriteOne
  <2>2. Does(n, K2, W2, ReadAll(union), K2 \cup {union}, W2)
    BY <1>1, <1>6, ReadAllDoes
  <2>3. Merge(n, name, stage) = Write1 \o ReadAll(union)
    BY <1>6 DEF Merge
  <2>4. Does(n, K, W, Merge(n, name, stage), K2 \cup {union}, W2)
    <3> HIDE DEF K2, W2, union, Write1
    <3> QED
      BY <2>1, <2>2, <2>3, DoesBoth
  <2>5. ReadAll(union) # <<>> /\ EndsDone(ReadAll(union)) /\ ReadAll(union) \in Seq(Acts)
        /\ Write1 \in Seq(Acts)
    BY <2>1, <2>2 DEF EndsDone, ReadAll, Task, Does
  <2>6. Merge(n, name, stage) # <<>> /\ EndsDone(Merge(n, name, stage))
    <3> HIDE DEF Write1, union
    <3> QED
      BY <2>3, <2>5, EndsLast
  <2>7. \A f \in (K2 \cup {union}) \ K : f.name = name /\ f.stage = stage
    BY <1>1
  <2>8. K \subseteq K2 \cup {union} /\ W \subseteq W2
    OBVIOUS
  <2> HIDE DEF K2, W2, union
  <2> QED
    BY <1>6, <2>4, <2>6, <2>7, <2>8 DEF Merged
<1> QED
  BY <1>5, <1>6

\* What Linus knows and has written before its step s.
LinusAt(n, s, K, W) ==
  /\ Commits \in K
  /\ n = 0 => Delta("users-", s, 0) \in W
  /\ \A f \in K : \/ f.name \in {"projs", "usrs", "comts"}
                  \/ f.name = "users-" /\ f.stage <= s
                  \/ f.name = "projects-" /\ f.stage < s
  /\ K \subseteq FrameNames

LEMMA LinusStepDoes ==
  ASSUME NEW n \in Nodes, NEW s \in Nat, NEW K, NEW W, LinusAt(n, s, K, W)
  PROVE  /\ LinusStep(n, s) # <<>> /\ EndsDone(LinusStep(n, s))
         /\ \E K1, W1 : Does(n, K, W, LinusStep(n, s), K1, W1) /\ LinusAt(n, s + 1, K1, W1)
<1> DEFINE u == Delta("users-", s, 0)
           A == ReadAll(u)
           B == <<Task("local", Commits)>>
           C == Merge(n, "projects-", s)
           D == Merge(n, "users-", s + 1)
           K1 == K \cup {u}
<1>1. /\ u \in FrameNames /\ u.home = 0 /\ u.name = "users-" /\ u.stage = s
      /\ Commits \in FrameNames
  BY FixedFrames DEF Names
<1>2. u.home # n \/ u \in W
  BY <1>1 DEF LinusAt
<1>3. Does(n, K, W, A, K1, W)
  <2> HIDE DEF u
  <2> QED
    BY <1>1, <1>2, ReadAllDoes
<1>4. Does(n, K1, W, B, K1, W)
  BY <1>1, LoadOne DEF LinusAt, LoadOps
<1>5. \A f \in K1 : f.name = "projects-" => f.stage < s
  BY <1>1 DEF LinusAt
<1>6. PICK K2, W2 : Merged(n, K1, W, "projects-", s, K2, W2)
  <2> HIDE DEF K1
  <2> QED
    BY <1>5, MergeDoes DEF Names
<1>7. Does(n, K2, W2, B, K2, W2)
  BY <1>1, <1>6, LoadOne DEF LinusAt, LoadOps, Merged
<1>8. \A f \in K1 : f \in FrameNames /\ (f.name = "users-" => f.stage < s + 1)
  BY <1>1 DEF LinusAt, FrameNames
<1>9. \A f \in K2 : f.name = "users-" => f.stage < s + 1
  <2> HIDE DEF K1
  <2> QED
    BY <1>6, <1>8 DEF Merged
<1>10. PICK K3, W3 : Merged(n, K2, W2, "users-", s + 1, K3, W3)
  <2>1. s + 1 \in Nat /\ "users-" \in Names
    BY DEF Names
  <2> QED
    BY <1>9, <2>1, MergeDoes
<1>11. LinusStep(n, s) = (((A \o B) \o C) \o B) \o D
  BY DEF LinusStep
<1>12. Does(n, K, W, A \o B, K1, W)
  <2> HIDE DEF A, B, K1
  <2> QED
    BY <1>3, <1>4, DoesBoth
<1>13. Does(n, K, W, (A \o B) \o C, K2, W2)
  <2> HIDE DEF A, B, K1
  <2> QED
    BY <1>6, <1>12, DoesBoth DEF Merged
<1>14. Does(n, K, W, ((A \o B) \o C) \o B, K2, W2)
  <2> HIDE DEF A, B, C, K1
  <2> QED
    BY <1>7, <1>13, DoesBoth
<1>15. Does(n, K, W, LinusStep(n, s), K3, W3)
  <2> HIDE DEF A, B, C, K1
  <2> QED
    BY <1>10, <1>11, <1>14, DoesBoth DEF Merged
<1>16. LinusStep(n, s) # <<>> /\ EndsDone(LinusStep(n, s))
  <2> HIDE DEF A, B, C
  <2>1. ((A \o B) \o C) \o B \in Seq(Acts)
    BY <1>14 DEF Does
  <2>2. D # <<>> /\ EndsDone(D) /\ D \in Seq(Acts)
    BY <1>10 DEF Does, Merged
  <2> HIDE DEF D
  <2> QED
    BY <1>11, <2>1, <2>2, EndsLast
<1>17. LinusAt(n, s + 1, K3, W3)
  <2>1. K1 \subseteq K2 /\ K2 \subseteq K3
    BY <1>6, <1>10 DEF Merged
  <2>2. Commits \in K3
    BY <2>1 DEF LinusAt
  <2>3. n = 0 => Delta("users-", s + 1, 0) \in W3
    BY <1>10 DEF Merged
  <2>4. K3 \subseteq FrameNames
    <3>1. K3 = K \cup Known(LinusStep(n, s))
      BY <1>15 DEF Does
    <3> QED
      BY <3>1 DEF LinusAt, Known
  <2>5. ASSUME NEW f \in K3
        PROVE  \/ f.name \in {"projs", "usrs", "comts"}
               \/ f.name = "users-" /\ f.stage <= s + 1
               \/ f.name = "projects-" /\ f.stage < s + 1
    <3>1. f.stage \in Nat
      BY <2>4, <2>5 DEF FrameNames
    <3>2. CASE f \in K
      BY <3>1, <3>2 DEF LinusAt
    <3>3. CASE f \in K3 \ K2
      BY <1>10, <3>1, <3>3 DEF Merged
    <3>4. CASE f \in K2 \ K1
      BY <1>6, <3>1, <3>4 DEF Merged
    <3>5. CASE f = u
      BY <1>1, <3>1, <3>5
    <3> QED
      BY <3>2, <3>3, <3>4, <3>5
  <2> QED
    BY <2>2, <2>3, <2>4, <2>5 DEF LinusAt
<1> QED
  BY <1>15, <1>16, <1>17

LEMMA LinusInputDoes ==
  ASSUME NEW n \in Nodes
  PROVE  \E K, W : Does(n, {}, {}, LinusInput(n), K, W) /\ LinusAt(n, 0, K, W)
<1>1. /\ Projects \in FrameNames /\ Users \in FrameNames /\ Commits \in FrameNames
      /\ Projects.home = 0 /\ Users.home = 0 /\ Commits.home = 0
      /\ Projects.name = "projs" /\ Users.name = "usrs" /\ Commits.name = "comts"
  BY FixedFrames DEF Projects, Users, Commits, Frame
<1>2. CASE n = 0
  <2> DEFINE u == Delta("users-", 0, 0)
             K1 == {} \cup {Projects}
             K2 == K1 \cup {Users}
             K3 == K2 \cup {Commits}
             K4 == K3 \cup {u}
             A == <<Task("file", Projects)>>
             B == <<Task("file", Users)>>
             C == <<Task("file", Commits)>>
             D == <<Task("scalar", u)>>
  <2>1. u \in FrameNames /\ u.name = "users-" /\ u.stage = 0 /\ "users-" \in Names /\ 0 \in Nat
    BY FixedFrames DEF Names
  <2>2. "file" \in WriteOps /\ "scalar" \in WriteOps
    BY DEF WriteOps
  <2>3. Users \notin K1 /\ Commits \notin K2 /\ u \notin K3 /\ Projects \notin {}
    BY <1>1, <2>1
  <2> HIDE DEF u
  <2>4. Does(n, {}, {}, A, K1, K1)
    BY <1>1, <2>2, WriteOne
  <2>5. Does(n, K1, K1, B, K2, K2)
    <3> HIDE DEF K1
    <3> QED
      BY <1>1, <2>2, <2>3, WriteOne
  <2>6. Does(n, K2, K2, C, K3, K3)
    <3> HIDE DEF K2
    <3> QED
      BY <1>1, <2>2, <2>3, WriteOne
  <2>7. Does(n, K3, K3, D, K4, K4)
    <3> HIDE DEF K3
    <3> QED
      BY <2>1, <2>2, <2>3, WriteOne
  <2>8. LinusInput(n) = ((A \o B) \o C) \o D
    BY <1>2 DEF LinusInput, u
  <2>9. Does(n, {}, {}, ((A \o B) \o C) \o D, K4, K4)
    <3> HIDE DEF A, B, C, D, K1, K2, K3, K4
    <3>1. Does(n, {}, {}, A \o B, K2, K2)
      BY <2>4, <2>5, DoesBoth
    <3>2. Does(n, {}, {}, (A \o B) \o C, K3, K3)
      BY <2>6, <3>1, DoesBoth
    <3> QED
      BY <2>7, <3>2, DoesBoth
  <2>10. LinusAt(n, 0, K4, K4)
    BY <1>1, <2>1 DEF LinusAt, u
  <2> HIDE DEF A, B, C, D, K4
  <2> QED
    BY <2>8, <2>9, <2>10
<1>3. CASE n # 0
  <2> DEFINE K1 == {} \cup {Projects}
             K2 == K1 \cup {Users}
             K3 == K2 \cup {Commits}
             A == <<Task("open", Projects)>>
             B == <<Task("open", Users)>>
             C == <<Task("open", Commits)>>
  <2>1. Does(n, {}, {}, A, K1, {})
    BY <1>1, <1>3, OpenOne
  <2>2. Does(n, K1, {}, B, K2, {})
    <3> HIDE DEF K1
    <3> QED
      BY <1>1, <1>3, OpenOne
  <2>3. Does(n, K2, {}, C, K3, {})
    <3> HIDE DEF K2
    <3> QED
      BY <1>1, <1>3, OpenOne
  <2>4. LinusInput(n) = (A \o B) \o C
    BY <1>3 DEF LinusInput
  <2>5. Does(n, {}, {}, (A \o B) \o C, K3, {})
    <3> HIDE DEF A, B, C, K1, K2, K3
    <3>1. Does(n, {}, {}, A \o B, K2, {})
      BY <2>1, <2>2, DoesBoth
    <3> QED
      BY <2>3, <3>1, DoesBoth
  <2>6. LinusAt(n, 0, K3, {})
    BY <1>1, <1>3 DEF LinusAt
  <2> HIDE DEF A, B, C, K3
  <2> QED
    BY <2>4, <2>5, <2>6
<1> QED
  BY <1>2, <1>3

\* The function that LinusScript() is computed by, for l steps.
StepsOf(f, n, l) ==
  f = [s \in 0 .. l |-> IF s = 0 THEN LinusInput(n) ELSE f[s - 1] \o LinusStep(n, s - 1)]

LEMMA StepsExist == ASSUME NEW n PROVE \A l \in Nat : \E f : StepsOf(f, n, l)
<1> DEFINE T == {l \in Nat : \E f : StepsOf(f, n, l)}
           Next1(f, i) == f[i - 1] \o LinusStep(n, i - 1)
<1>1. 0 \in T
  <2> DEFINE f == [i \in 0 .. 0 |-> LinusInput(n)]
  <2>1. StepsOf(f, n, 0)
    BY DEF StepsOf
  <2> QED
    BY <2>1
<1>2. ASSUME NEW l \in Nat, l \in T PROVE l + 1 \in T
  <2>1. PICK f : StepsOf(f, n, l)
    BY <1>2
  <2> DEFINE g == [i \in 0 .. l + 1 |-> IF i = l + 1 THEN Next1(f, i) ELSE f[i]]
  <2>2. \A i \in 0 .. l : f[i] = IF i = 0 THEN LinusInput(n) ELSE Next1(f, i)
    BY <2>1 DEF StepsOf
  <2>3. \A i \in 0 .. l : g[i] = f[i]
    OBVIOUS
  <2>4. g[l + 1] = Next1(f, l + 1)
    OBVIOUS
  <2>5. \A i \in 1 .. l + 1 : i - 1 \in 0 .. l /\ Next1(g, i) = Next1(f, i)
    BY <2>3
  <2> HIDE DEF Next1
  <2>6. \A i \in 0 .. l + 1 : g[i] = IF i = 0 THEN LinusInput(n) ELSE Next1(g, i)
    BY <2>2, <2>3, <2>4, <2>5
  <2> USE DEF Next1
  <2>7. g = [i \in 0 .. l + 1 |-> IF i = 0 THEN LinusInput(n) ELSE Next1(g, i)]
    <3> HIDE DEF Next1
    <3>1. DOMAIN g = 0 .. l + 1 /\ g = [i \in 0 .. l + 1 |-> g[i]]
      OBVIOUS
    <3> HIDE DEF g
    <3> QED
      BY <2>6, <3>1
  <2>8. StepsOf(g, n, l + 1)
    <3> HIDE DEF g
    <3> QED
      BY <2>7 DEF StepsOf
  <2> QED
    BY <2>8
<1> HIDE DEF T
<1>3. Nat \subseteq T
  BY <1>1, <1>2, SetInduction
<1> QED
  BY <1>3 DEF T

LEMMA LinusScriptDoes ==
  ASSUME NEW n \in Nodes
  PROVE  \E s, K, W : /\ Does(n, {}, {}, s, K, W) /\ s # <<>> /\ EndsDone(s)
                      /\ LinusScript(n) = s \o (IF n = LastNode THEN <<StopTask>> ELSE <<>>)
<1> DEFINE F == CHOOSE f : StepsOf(f, n, Degrees)
<1>1. Degrees \in Nat \ {0}
  OBVIOUS
<1>2. StepsOf(F, n, Degrees)
  BY <1>1, StepsExist
<1>3. LinusScript(n) = F[Degrees] \o (IF n = LastNode THEN <<StopTask>> ELSE <<>>)
  BY DEF LinusScript, StepsOf
<1> HIDE DEF F
<1>4. F[0] = LinusInput(n) /\ \A s \in 1 .. Degrees : F[s] = F[s - 1] \o LinusStep(n, s - 1)
  <2> DEFINE Next1(i) == F[i - 1] \o LinusStep(n, i - 1)
  <2>1. F = [i \in 0 .. Degrees |-> IF i = 0 THEN LinusInput(n) ELSE Next1(i)]
    BY <1>2 DEF StepsOf
  <2> HIDE DEF Next1
  <2>2. \A i \in 0 .. Degrees : F[i] = IF i = 0 THEN LinusInput(n) ELSE Next1(i)
    BY <2>1
  <2>3. F[0] = LinusInput(n)
    BY <1>1, <2>2
  <2>4. \A s \in 1 .. Degrees : F[s] = Next1(s)
    BY <1>1, <2>2
  <2> QED
    BY <2>3, <2>4 DEF Next1
<1> DEFINE Good(s) == /\ \E K, W : Does(n, {}, {}, F[s], K, W) /\ LinusAt(n, s, K, W)
                      /\ s # 0 => F[s] # <<>> /\ EndsDone(F[s])
           T == {s \in Nat : s <= Degrees => Good(s)}
<1>5. 0 \in T
  BY <1>4, LinusInputDoes
<1>6. ASSUME NEW s \in Nat, s \in T PROVE s + 1 \in T
  <2> SUFFICES ASSUME s + 1 <= Degrees PROVE Good(s + 1)
    OBVIOUS
  <2>1. s + 1 \in 1 .. Degrees /\ (s + 1) - 1 = s /\ s <= Degrees
    BY <1>1
  <2>2. F[s + 1] = F[s] \o LinusStep(n, s)
    BY <1>4, <2>1
  <2>3. PICK K, W : Does(n, {}, {}, F[s], K, W) /\ LinusAt(n, s, K, W)
    BY <1>6, <2>1
  <2>4. /\ LinusStep(n, s) # <<>> /\ EndsDone(LinusStep(n, s))
        /\ \E K1, W1 : Does(n, K, W, LinusStep(n, s), K1, W1) /\ LinusAt(n, s + 1, K1, W1)
    BY <2>3, LinusStepDoes
  <2>5. PICK K1, W1 : Does(n, K, W, LinusStep(n, s), K1, W1) /\ LinusAt(n, s + 1, K1, W1)
    BY <2>4
  <2>6. Does(n, {}, {}, F[s + 1], K1, W1)
    BY <2>2, <2>3, <2>5, DoesBoth
  <2>7. F[s] \in Seq(Acts) /\ LinusStep(n, s) \in Seq(Acts)
    BY <2>3, <2>5 DEF Does
  <2>8. F[s + 1] # <<>> /\ EndsDone(F[s + 1])
    BY <2>2, <2>4, <2>7, EndsLast
  <2> QED
    BY <2>5, <2>6, <2>8
<1> HIDE DEF T
<1>7. Nat \subseteq T
  BY <1>5, <1>6, SetInduction
<1>8. Good(Degrees)
  BY <1>1, <1>7 DEF T
<1> QED
  BY <1>1, <1>3, <1>8

\* A node that does not stop may do what it likes, if it does not end with an open.
LEMMA WellWithoutStop ==
  ASSUME NEW a \in Apps, NEW n \in Nodes, NEW K, NEW W, Does(n, {}, {}, Scripts[a][n], K, W),
         EndsDone(Scripts[a][n])
  PROVE  /\ WholeScript(n, Scripts[a][n]) /\ EndsDone(Scripts[a][n]) /\ StopsLast(a, n)
<1>1. WholeScript(n, Scripts[a][n]) /\ \A j \in 1 .. Len(Scripts[a][n]) : Scripts[a][n][j].op # "stop"
  <2> DEFINE s == Scripts[a][n]
  <2> HIDE DEF s
  <2>1. Does(n, {}, {}, s, K, W) => WholeScript(n, s) /\ \A j \in 1 .. Len(s) : s[j].op # "stop"
    BY WithoutStop
  <2> QED
    BY <2>1 DEF s
<1> QED
  BY <1>1 DEF StopsLast

LEMMA LinusWell == ASSUME "linus" \in Apps PROVE WellScripted("linus")
<1> SUFFICES ASSUME NEW n \in Nodes
             PROVE  /\ WholeScript(n, Scripts["linus"][n]) /\ EndsDone(Scripts["linus"][n])
                    /\ StopsLast("linus", n)
  BY DEF WellScripted, WholeScript
<1>1. Scripts["linus"][n] = LinusScript(n)
  BY DEF Scripts, Script
<1>2. PICK s, K, W :
        /\ Does(n, {}, {}, s, K, W) /\ s # <<>> /\ EndsDone(s)
        /\ LinusScript(n) = s \o (IF n = LastNode THEN <<StopTask>> ELSE <<>>)
  BY LinusScriptDoes
<1>3. s \in Seq(Acts)
  BY <1>2 DEF Does
<1>4. CASE n = LastNode
  <2>1. Scripts["linus"][n] = s \o <<StopTask>>
    BY <1>1, <1>2, <1>4
  <2>2. /\ WholeScript(n, s \o <<StopTask>>)
        /\ Len(s) \in Nat /\ Len(s \o <<StopTask>>) = Len(s) + 1
        /\ \A j \in 1 .. Len(s) : (s \o <<StopTask>>)[j] = s[j] /\ s[j].op # "stop"
        /\ EndsDone(s \o <<StopTask>>)
    BY <1>2, WithStop
  <2> DEFINE t == s \o <<StopTask>>
  <2> HIDE DEF t
  <2>3. \A j \in 1 .. Len(t) : t[j].op = "stop" => j = Len(t)
    BY <2>2 DEF t
  <2>4. StopsLast("linus", n)
    BY <2>1, <2>3 DEF StopsLast, t
  <2> QED
    BY <2>1, <2>2, <2>4
<1>5. CASE n # LastNode
  <2>1. LinusScript(n) = s \o <<>>
    BY <1>2, <1>5
  <2>2. LinusScript(n) = s
    BY <1>3, <2>1, ConcatEmptySeq
  <2> QED
    BY <1>1, <1>2, <2>2, WellWithoutStop
<1> QED
  BY <1>4, <1>5

-----------------------------------------------------------------------------
\* The scripts of the word count and of the demo, whose last node sees the others done.

\* What a script knows and has not written, it has opened.
LEMMA Opened ==
  ASSUME NEW n, NEW s, NEW K, NEW W, Does(n, {}, {}, s, K, W), NEW f \in K, f \notin W
  PROVE  \E i \in 1 .. Len(s) : s[i].op = "open" /\ s[i].frame = f
<1>1. f \in Known(s) /\ f \notin Wrote(s)
  BY DEF Does
<1> QED
  BY <1>1 DEF Known, Wrote, KnowOps

LEMMA Sees ==
  ASSUME NEW a \in Apps, NEW n \in Nodes, NEW m \in Nodes, NEW s, NEW K, NEW W,
         Does(n, {}, {}, s, K, W), Scripts[a][n] = s \o <<StopTask>>,
         NEW f \in K, f \notin W, NEW l \in 1 .. Len(Scripts[a][m]), OnlyWriter(a, f, m, l),
         \A j \in 1 .. Len(Scripts[a][m]) : j >= l => Scripts[a][m][j].op \notin ReadOps
  PROVE  SeesLast(a, n, m)
<1> DEFINE t == s \o <<StopTask>>
<1>1. PICK i \in 1 .. Len(s) : s[i].op = "open" /\ s[i].frame = f
  BY Opened
<1>2. /\ Len(s) \in Nat /\ Len(t) = Len(s) + 1
      /\ \A j \in 1 .. Len(s) : t[j] = s[j]
  BY WithStop
<1> HIDE DEF t
<1>3. i \in 1 .. Len(t) /\ t[i].op = "open" /\ t[i].frame = f
  BY <1>1, <1>2
<1>4. Scripts[a][n] = t
  BY DEF t
<1> QED
  BY <1>3, <1>4 DEF SeesLast

\* The one node that stops.
LEMMA WellWithStop ==
  ASSUME NEW a \in Apps, NEW n \in Nodes, NEW s, NEW K, NEW W, Does(n, {}, {}, s, K, W),
         Scripts[a][n] = s \o <<StopTask>>,
         \A m \in Nodes \ {n} :
           \/ \A i \in 1 .. Len(Scripts[a][m]) : Scripts[a][m][i].op \notin ReadOps
           \/ SeesLast(a, n, m)
  PROVE  /\ WholeScript(n, Scripts[a][n]) /\ EndsDone(Scripts[a][n]) /\ StopsLast(a, n)
<1> DEFINE t == s \o <<StopTask>>
<1>1. /\ WholeScript(n, t) /\ EndsDone(t)
      /\ Len(s) \in Nat /\ Len(t) = Len(s) + 1
      /\ \A j \in 1 .. Len(s) : t[j] = s[j] /\ s[j].op # "stop"
  BY WithStop
<1> HIDE DEF t
<1>2. Scripts[a][n] = t
  BY DEF t
<1>3. \A j \in 1 .. Len(t) : t[j].op = "stop" => j = Len(t)
  BY <1>1
<1> QED
  BY <1>1, <1>2, <1>3 DEF StopsLast

CountsOpened == {Counts(i - 1) : i \in 1 .. NumNodes}

LEMMA WordCountDoes ==
  ASSUME "wc" \in Apps, NEW n \in Nodes
  PROVE  /\ n # 0 => /\ Scripts["wc"][n] = <<Task("open", Words), Task("local", Words),
                                             Task("visitor", Counts(n))>>
                     /\ Does(n, {}, {}, Scripts["wc"][n], {Words, Counts(n)}, {Counts(n)})
         /\ n = 0 => \E s :
              /\ Scripts["wc"][0] = s \o <<StopTask>>
              /\ Does(0, {}, {}, s, {Words, Counts(0)} \cup CountsOpened, {Words, Counts(0)})
<1> DEFINE A == <<Task("visitor", Words)>>
           B1 == <<Task("open", Words)>>
           B2 == <<Task("local", Words)>>
           B3 == <<Task("visitor", Counts(n))>>
           B == <<Task("open", Words), Task("local", Words), Task("visitor", Counts(n))>>
           fs == [i \in 1 .. NumNodes |-> Counts(i - 1)]
           R == ReadEach(fs)
           T == <<StopTask>>
           script == WordCountScript(n)
<1>1. /\ Words \in FrameNames /\ Words.home = 0 /\ Words.name = "data"
      /\ Counts(n) \in FrameNames /\ Counts(n).home = n /\ Counts(n).name = "wc-map-"
  BY FixedFrames DEF Words, Frame
<1>2. "visitor" \in WriteOps /\ "local" \in LoadOps
  BY DEF WriteOps, LoadOps
<1>3. B = (B1 \o B2) \o B3
  OBVIOUS
<1>4. Scripts["wc"][n] = script
  BY DEF Scripts, Script
<1>5. B \in Seq(Acts)
  <2>1. Task("open", Words) \in Acts /\ Task("local", Words) \in Acts /\ Task("visitor", Counts(n)) \in Acts
    BY <1>1 DEF Task, Acts, WriteOps, ReadOps, LoadOps
  <2> QED
    BY <2>1
<1>6. CASE n # 0
  <2>1. Does(n, {}, {}, B1, {} \cup {Words}, {})
    BY <1>1, <1>6, OpenOne
  <2>2. Does(n, {} \cup {Words}, {}, B2, {} \cup {Words}, {})
    BY <1>1, <1>2, LoadOne
  <2>3. Counts(n) \notin {} \cup {Words}
    BY <1>1
  <2>4. Does(n, {} \cup {Words}, {}, B3, ({} \cup {Words}) \cup {Counts(n)}, {} \cup {Counts(n)})
    BY <1>1, <1>2, <2>3, WriteOne
  <2>5. Does(n, {}, {}, (B1 \o B2) \o B3, ({} \cup {Words}) \cup {Counts(n)}, {} \cup {Counts(n)})
    <3> HIDE DEF B1, B2, B3
    <3>1. Does(n, {}, {}, B1 \o B2, {} \cup {Words}, {})
      BY <2>1, <2>2, DoesBoth
    <3> QED
      BY <2>4, <3>1, DoesBoth
  <2>6. ({} \cup {Words}) \cup {Counts(n)} = {Words, Counts(n)} /\ {} \cup {Counts(n)} = {Counts(n)}
    OBVIOUS
  <2>7. script = (<<>> \o B) \o <<>>
    BY <1>6 DEF WordCountScript
  <2>8. script = B
    <3> HIDE DEF B, script
    <3> QED
      BY <1>5, <2>7, ConcatEmptySeq
  <2> HIDE DEF B1, B2, B3, script
  <2>9. Does(n, {}, {}, script, {Words, Counts(n)}, {Counts(n)})
    BY <1>3, <2>5, <2>6, <2>8
  <2> QED
    BY <1>4, <1>6, <2>8, <2>9
<1>7. CASE n = 0
  <2> DEFINE W1 == {} \cup {Words}
             K2 == W1 \cup {Words}
             K3 == K2 \cup {Counts(0)}
             W3 == W1 \cup {Counts(0)}
             K4 == K3 \cup {fs[j] : j \in 1 .. Len(fs)}
             s == (A \o ((B1 \o B2) \o B3)) \o R
  <2>1. Does(0, {}, {}, A, W1, W1)
    BY <1>1, <1>2, WriteOne
  <2>2. Does(0, W1, W1, B1, K2, W1)
    <3>1. Words \in W1
      OBVIOUS
    <3> HIDE DEF W1
    <3> QED
      BY <1>1, <3>1, OpenOne
  <2>3. Does(0, K2, W1, B2, K2, W1)
    <3>1. Words \in K2
      OBVIOUS
    <3> HIDE DEF W1, K2
    <3> QED
      BY <1>1, <1>2, <3>1, LoadOne
  <2>4. Does(0, K2, W1, B3, K3, W3)
    <3>1. Counts(0) \notin K2
      BY <1>1, <1>7
    <3> HIDE DEF W1, K2
    <3> QED
      BY <1>1, <1>2, <1>7, <3>1, WriteOne
  <2>5. fs \in Seq(FrameNames) /\ Len(fs) = NumNodes /\ \A j \in 1 .. Len(fs) : fs[j] = Counts(j - 1)
    <3>1. NumNodes \in Nat /\ \A j \in 1 .. NumNodes : j - 1 \in Nodes
      OBVIOUS
    <3>2. \A j \in 1 .. NumNodes : Counts(j - 1) \in FrameNames
      BY <3>1, FixedFrames
    <3> QED
      BY <3>1, <3>2
  <2>6. Does(0, K3, W3, R, K4, W3)
    <3>1. \A j \in 1 .. Len(fs) : fs[j].home # 0 \/ fs[j] \in W3
      <4> SUFFICES ASSUME NEW j \in 1 .. Len(fs), fs[j].home = 0 PROVE fs[j] \in W3
        OBVIOUS
      <4>1. j - 1 \in Nodes /\ fs[j] = Counts(j - 1) /\ j \in 1 .. NumNodes
        BY <2>5
      <4>2. j - 1 = 0
        BY <4>1, FixedFrames
      <4> QED
        BY <4>1, <4>2
    <3> HIDE DEF fs, W3, K3
    <3> QED
      BY <2>5, <3>1, ReadEachDoes
  <2>7. Does(0, {}, {}, s, K4, W3)
    <3> HIDE DEF A, B1, B2, B3, R, W1, K2, K3, W3, K4
    <3>1. Does(0, W1, W1, B1 \o B2, K2, W1)
      BY <2>2, <2>3, DoesBoth
    <3>2. Does(0, W1, W1, (B1 \o B2) \o B3, K3, W3)
      BY <2>4, <3>1, DoesBoth
    <3>3. Does(0, {}, {}, A \o ((B1 \o B2) \o B3), K3, W3)
      BY <2>1, <3>2, DoesBoth
    <3> QED
      BY <2>6, <3>3, DoesBoth
  <2>8. K4 = {Words, Counts(0)} \cup CountsOpened /\ W3 = {Words, Counts(0)}
    <3>1. {fs[j] : j \in 1 .. Len(fs)} = CountsOpened
      <4> HIDE DEF fs
      <4> QED
        BY <2>5 DEF CountsOpened
    <3> HIDE DEF fs
    <3> QED
      BY <3>1
  <2>9. script = (A \o B) \o (R \o T)
    BY <1>7 DEF WordCountScript
  <2>10. script = s \o T
    <3>1. A \in Seq(Tasks) /\ R \in Seq(Tasks) /\ B \in Seq(Tasks) /\ T \in Seq(Tasks)
      <4>1. A \in Seq(Acts) /\ R \in Seq(Acts)
        BY <2>1, <2>6 DEF Does
      <4>2. Acts \subseteq Tasks
        BY DEF Acts, Tasks
      <4>3. T \in Seq(Tasks)
        BY DEF Tasks
      <4> HIDE DEF A, B, R
      <4> QED
        BY <1>5, <4>1, <4>2, <4>3, SeqMonotonic
    <3> HIDE DEF A, B1, B2, B3, B, R, T, script
    <3>2. A \o B \in Seq(Tasks)
      BY <3>1, ConcatProperties
    <3>3. (A \o B) \o (R \o T) = ((A \o B) \o R) \o T
      <4> DEFINE P == A \o B
      <4>1. P \in Seq(Tasks)
        BY <3>2
      <4> HIDE DEF P
      <4>2. \A x, y, z \in Seq(Tasks) : (x \o y) \o z = x \o (y \o z)
        <5> TAKE x, y, z \in Seq(Tasks)
        <5> QED
          BY ONLY x \in Seq(Tasks), y \in Seq(Tasks), z \in Seq(Tasks), ConcatAssociative
      <4>3. (P \o R) \o T = P \o (R \o T)
        BY ONLY <3>1, <4>1, <4>2, Zenon
      <4> QED
        BY <4>3 DEF P
    <3>4. s = (A \o B) \o R
      BY <1>3
    <3> QED
      BY <2>9, <3>3, <3>4
  <2> HIDE DEF s, K4, W3, script
  <2> QED
    BY <1>4, <1>7, <2>7, <2>8, <2>10
<1> QED
  BY <1>6, <1>7

LEMMA WordCountWell == ASSUME "wc" \in Apps PROVE WellScripted("wc")
<1> SUFFICES ASSUME NEW n \in Nodes
             PROVE  /\ WholeScript(n, Scripts["wc"][n]) /\ EndsDone(Scripts["wc"][n])
                    /\ StopsLast("wc", n)
  BY DEF WellScripted, WholeScript
<1>1. \A m \in Nodes : Counts(m) \in FrameNames /\ Counts(m).home = m /\ Counts(m) # Words
  BY FixedFrames DEF Words, Frame
<1>2. ASSUME NEW m \in Nodes, m # 0
      PROVE  /\ Len(Scripts["wc"][m]) = 3
             /\ Scripts["wc"][m][3].op = "visitor" /\ Scripts["wc"][m][3].frame = Counts(m)
             /\ \A j \in 1 .. 3 : Scripts["wc"][m][j].op \in WriteOps => j = 3
  <2>1. Scripts["wc"][m] = <<Task("open", Words), Task("local", Words), Task("visitor", Counts(m))>>
    BY <1>2, WordCountDoes
  <2>2. /\ Len(Scripts["wc"][m]) = 3
        /\ Scripts["wc"][m][1] = Task("open", Words)
        /\ Scripts["wc"][m][2] = Task("local", Words)
        /\ Scripts["wc"][m][3] = Task("visitor", Counts(m))
    BY <2>1
  <2> QED
    BY <2>2 DEF Task, WriteOps
<1> HIDE DEF Nodes
<1>3. CASE n # 0
  <2>1. Does(n, {}, {}, Scripts["wc"][n], {Words, Counts(n)}, {Counts(n)})
    BY <1>3, WordCountDoes
  <2>2. EndsDone(Scripts["wc"][n])
    BY <1>2, <1>3 DEF EndsDone
  <2> QED
    BY <2>1, <2>2, WellWithoutStop
<1>4. CASE n = 0
  <2> DEFINE K == {Words, Counts(0)} \cup CountsOpened
             W == {Words, Counts(0)}
  <2>1. PICK s : Scripts["wc"][0] = s \o <<StopTask>> /\ Does(0, {}, {}, s, K, W)
    BY <1>4, WordCountDoes
  <2>2. ASSUME NEW m \in Nodes \ {0} PROVE SeesLast("wc", 0, m)
    <3>1. Counts(m) \in K
      <4>1. m + 1 \in 1 .. NumNodes /\ (m + 1) - 1 = m
        BY DEF Nodes
      <4> QED
        BY <4>1 DEF CountsOpened
    <3>2. Counts(m) \notin W
      BY <1>1, <1>4
    <3>3. ASSUME NEW i \in Nodes, NEW j \in 1 .. Len(Scripts["wc"][i]),
                 Scripts["wc"][i][j].op \in WriteOps, Scripts["wc"][i][j].frame = Counts(m)
          PROVE  i = m /\ j = 3
      <4>1. CASE i # 0
        <5>1. j = 3
          BY <1>2, <3>3, <4>1
        <5>2. Counts(i) = Counts(m)
          BY <1>2, <3>3, <4>1, <5>1
        <5> QED
          BY <1>1, <5>1, <5>2
      <4>2. CASE i = 0
        <5> DEFINE t == s \o <<StopTask>>
        <5>1. /\ Len(s) \in Nat /\ Len(t) = Len(s) + 1
              /\ \A h \in 1 .. Len(s) : t[h] = s[h]
              /\ t[Len(s) + 1] = StopTask
          BY <2>1, WithStop
        <5> HIDE DEF t
        <5>2. j \in 1 .. Len(t) /\ t[j].op \in WriteOps /\ t[j].frame = Counts(m)
          BY <2>1, <3>3, <4>2 DEF t
        <5>3. j # Len(s) + 1
          BY <5>1, <5>2 DEF StopTask, Task, WriteOps
        <5>4. j \in 1 .. Len(s) /\ s[j].op \in WriteOps /\ s[j].frame = Counts(m)
          BY <5>1, <5>2, <5>3
        <5>5. Counts(m) \in Wrote(s)
          BY <1>1, <5>4 DEF Wrote
        <5> QED
          BY <2>1, <3>2, <5>5 DEF Does
      <4> QED
        BY <4>1, <4>2
    <3>4. OnlyWriter("wc", Counts(m), m, 3)
      BY <3>3 DEF OnlyWriter
    <3>5. /\ 3 \in 1 .. Len(Scripts["wc"][m])
          /\ \A j \in 1 .. Len(Scripts["wc"][m]) : j >= 3 => Scripts["wc"][m][j].op \notin ReadOps
      <4>1. \A j \in 1 .. 3 : j >= 3 => j = 3
        OBVIOUS
      <4>2. "visitor" \notin ReadOps
        BY DEF ReadOps, LoadOps
      <4> QED
        BY <1>2, <4>1, <4>2
    <3> HIDE DEF K, W
    <3> QED
      BY <1>4, <2>1, <3>1, <3>2, <3>4, <3>5, Sees
  <2> HIDE DEF K, W
  <2> QED
    BY <1>4, <2>1, <2>2, WellWithStop
<1> QED
  BY <1>3, <1>4

\* The demo: a producer, a counter and a summarizer.
LEMMA DemoDoes ==
  ASSUME "demo" \in Apps
  PROVE  /\ 0 \in Nodes =>
              /\ Scripts["demo"][0] = <<Task("array", Main), Task("scalar", Check)>>
              /\ Does(0, {}, {}, Scripts["demo"][0], {Main, Check}, {Main, Check})
         /\ 1 \in Nodes =>
              /\ Scripts["demo"][1] = <<Task("open", Main), Task("all", Main), Task("scalar", Verif)>>
              /\ Does(1, {}, {}, Scripts["demo"][1], {Main, Verif}, {Verif})
         /\ 2 \in Nodes => \E s :
              /\ s = <<Task("open", Verif), Task("open", Check), Task("all", Check),
                       Task("all", Verif)>>
              /\ Scripts["demo"][2] = s \o <<StopTask>>
              /\ Scripts["demo"][2] = <<Task("open", Verif), Task("open", Check),
                                        Task("all", Check), Task("all", Verif), StopTask>>
              /\ Does(2, {}, {}, s, {Verif, Check}, {})
         /\ \A n \in Nodes \ {0, 1, 2} : Scripts["demo"][n] = <<>>
<1>1. /\ Main \in FrameNames /\ Check \in FrameNames /\ Verif \in FrameNames
      /\ Main.home = 0 /\ Check.home = 0 /\ Verif.home = 0
      /\ Main # Check /\ Main # Verif /\ Check # Verif
  BY FixedFrames DEF Main, Check, Verif, Frame
<1>2. "array" \in WriteOps /\ "scalar" \in WriteOps /\ "all" \in LoadOps
  BY DEF WriteOps, LoadOps
<1>3. \A n \in Nodes : Scripts["demo"][n] = DemoScript(n)
  BY DEF Scripts, Script
<1>4. ASSUME 0 \in Nodes
      PROVE  /\ Scripts["demo"][0] = <<Task("array", Main), Task("scalar", Check)>>
             /\ Does(0, {}, {}, Scripts["demo"][0], {Main, Check}, {Main, Check})
  <2> DEFINE A == <<Task("array", Main)>>
             B == <<Task("scalar", Check)>>
  <2>1. Does(0, {}, {}, A, {} \cup {Main}, {} \cup {Main})
    BY <1>1, <1>2, WriteOne
  <2>2. Does(0, {} \cup {Main}, {} \cup {Main}, B, ({} \cup {Main}) \cup {Check},
             ({} \cup {Main}) \cup {Check})
    BY <1>1, <1>2, WriteOne
  <2>3. ({} \cup {Main}) \cup {Check} = {Main, Check}
    OBVIOUS
  <2>4. Scripts["demo"][0] = <<Task("array", Main), Task("scalar", Check)>>
    BY <1>3, <1>4 DEF DemoScript
  <2>5. <<Task("array", Main), Task("scalar", Check)>> = A \o B
    OBVIOUS
  <2> HIDE DEF A, B
  <2>6. Does(0, {}, {}, A \o B, {Main, Check}, {Main, Check})
    BY <2>1, <2>2, <2>3, DoesBoth
  <2> QED
    BY <2>4, <2>5, <2>6
<1>5. ASSUME 1 \in Nodes
      PROVE  /\ Scripts["demo"][1] = <<Task("open", Main), Task("all", Main), Task("scalar", Verif)>>
             /\ Does(1, {}, {}, Scripts["demo"][1], {Main, Verif}, {Verif})
  <2> DEFINE A == <<Task("open", Main)>>
             B == <<Task("all", Main)>>
             C == <<Task("scalar", Verif)>>
  <2>1. Does(1, {}, {}, A, {} \cup {Main}, {})
    BY <1>1, OpenOne
  <2>2. Does(1, {} \cup {Main}, {}, B, {} \cup {Main}, {})
    BY <1>1, <1>2, LoadOne
  <2>3. Does(1, {} \cup {Main}, {}, C, ({} \cup {Main}) \cup {Verif}, {} \cup {Verif})
    BY <1>1, <1>2, WriteOne
  <2>4. ({} \cup {Main}) \cup {Verif} = {Main, Verif} /\ {} \cup {Verif} = {Verif}
    OBVIOUS
  <2>5. Scripts["demo"][1] = <<Task("open", Main), Task("all", Main), Task("scalar", Verif)>>
    BY <1>3, <1>5 DEF DemoScript
  <2>6. <<Task("open", Main), Task("all", Main), Task("scalar", Verif)>> = (A \o B) \o C
    OBVIOUS
  <2> HIDE DEF A, B, C
  <2>7. Does(1, {}, {}, A \o B, {} \cup {Main}, {})
    BY <2>1, <2>2, DoesBoth
  <2>8. Does(1, {}, {}, (A \o B) \o C, {Main, Verif}, {Verif})
    BY <2>3, <2>4, <2>7, DoesBoth
  <2> QED
    BY <2>5, <2>6, <2>8
<1>6. ASSUME 2 \in Nodes
      PROVE  \E s :
              /\ s = <<Task("open", Verif), Task("open", Check), Task("all", Check),
                       Task("all", Verif)>>
              /\ Scripts["demo"][2] = s \o <<StopTask>>
              /\ Scripts["demo"][2] = <<Task("open", Verif), Task("open", Check),
                                        Task("all", Check), Task("all", Verif), StopTask>>
              /\ Does(2, {}, {}, s, {Verif, Check}, {})
  <2> DEFINE A == <<Task("open", Verif)>>
             B == <<Task("open", Check)>>
             C == <<Task("all", Check)>>
             D == <<Task("all", Verif)>>
             K1 == {} \cup {Verif}
             K2 == K1 \cup {Check}
             s == <<Task("open", Verif), Task("open", Check), Task("all", Check),
                    Task("all", Verif)>>
  <2> HIDE DEF s
  <2>0. Verif.home # 2 /\ Check.home # 2
    BY <1>1
  <2>1. Does(2, {}, {}, A, K1, {})
    BY <1>1, <2>0, OpenOne
  <2>2. Does(2, K1, {}, B, K2, {})
    <3> HIDE DEF K1
    <3> QED
      BY <1>1, <2>0, OpenOne
  <2>3. Does(2, K2, {}, C, K2, {}) /\ Does(2, K2, {}, D, K2, {})
    <3>1. Check \in K2 /\ Verif \in K2
      OBVIOUS
    <3> HIDE DEF K2
    <3> QED
      BY <1>1, <1>2, <3>1, LoadOne
  <2>4. K2 = {Verif, Check}
    OBVIOUS
  <2>5. Scripts["demo"][2] = <<Task("open", Verif), Task("open", Check), Task("all", Check),
                               Task("all", Verif), StopTask>>
    BY <1>3, <1>6 DEF DemoScript
  <2>6. s = ((A \o B) \o C) \o D
    BY DEF s
  <2>7. Scripts["demo"][2] = s \o <<StopTask>>
    BY <2>5 DEF s
  <2> HIDE DEF A, B, C, D, K1, K2
  <2>8. Does(2, {}, {}, A \o B, K2, {})
    BY <2>1, <2>2, DoesBoth
  <2>9. Does(2, {}, {}, (A \o B) \o C, K2, {})
    BY <2>3, <2>8, DoesBoth
  <2>10. Does(2, {}, {}, s, {Verif, Check}, {})
    <3> HIDE DEF s
    <3> QED
      BY <2>3, <2>4, <2>6, <2>9, DoesBoth
  <2> QED
    BY <2>5, <2>7, <2>10 DEF s
<1>7. \A n \in Nodes \ {0, 1, 2} : Scripts["demo"][n] = <<>>
  BY <1>3 DEF DemoScript
<1> QED
  BY <1>4, <1>5, <1>6, <1>7

LEMMA DemoWell == ASSUME "demo" \in Apps PROVE WellScripted("demo")
<1> SUFFICES ASSUME NEW n \in Nodes
             PROVE  /\ WholeScript(n, Scripts["demo"][n]) /\ EndsDone(Scripts["demo"][n])
                    /\ StopsLast("demo", n)
  BY DEF WellScripted, WholeScript
<1>1. Verif # Main /\ Verif # Check /\ Verif \in FrameNames
  BY FixedFrames DEF Main, Check, Verif, Frame
<1>2. CASE n = 0
  <2>1. /\ Scripts["demo"][0] = <<Task("array", Main), Task("scalar", Check)>>
        /\ Does(0, {}, {}, Scripts["demo"][0], {Main, Check}, {Main, Check})
    BY <1>2, DemoDoes
  <2>2. EndsDone(Scripts["demo"][0])
    BY <2>1 DEF EndsDone, Task
  <2> QED
    BY <1>2, <2>1, <2>2, WellWithoutStop
<1>3. CASE n = 1
  <2>1. /\ Scripts["demo"][1] = <<Task("open", Main), Task("all", Main), Task("scalar", Verif)>>
        /\ Does(1, {}, {}, Scripts["demo"][1], {Main, Verif}, {Verif})
    BY <1>3, DemoDoes
  <2>2. EndsDone(Scripts["demo"][1])
    BY <2>1 DEF EndsDone, Task
  <2> QED
    BY <1>3, <2>1, <2>2, WellWithoutStop
<1>4. CASE n \notin {0, 1, 2}
  <2>1. Scripts["demo"][n] = <<>>
    BY <1>4, DemoDoes
  <2>2. Does(n, {}, {}, Scripts["demo"][n], {}, {}) /\ EndsDone(Scripts["demo"][n])
    BY <2>1, DoesNothing DEF EndsDone
  <2> QED
    BY <2>2, WellWithoutStop
<1>5. CASE n = 2
  <2>1. 0 \in Nodes /\ 1 \in Nodes /\ 2 \in Nodes
    BY <1>5
  <2>2. PICK s : /\ s = <<Task("open", Verif), Task("open", Check), Task("all", Check),
                          Task("all", Verif)>>
                 /\ Scripts["demo"][2] = s \o <<StopTask>>
                 /\ Scripts["demo"][2] = <<Task("open", Verif), Task("open", Check),
                                           Task("all", Check), Task("all", Verif), StopTask>>
                 /\ Does(2, {}, {}, s, {Verif, Check}, {})
    BY <2>1, DemoDoes
  <2>3. Scripts["demo"][0] = <<Task("array", Main), Task("scalar", Check)>>
    BY <2>1, DemoDoes
  <2>4. Scripts["demo"][1] = <<Task("open", Main), Task("all", Main), Task("scalar", Verif)>>
    BY <2>1, DemoDoes
  <2>5. /\ Len(Scripts["demo"][1]) = 3 /\ Scripts["demo"][1][1].op = "open"
        /\ Scripts["demo"][1][2].op = "all" /\ Scripts["demo"][1][3].op = "scalar"
    BY <2>4 DEF Task
  <2>6. \A i \in 1 .. Len(Scripts["demo"][0]) :
          /\ Scripts["demo"][0][i].op \notin ReadOps
          /\ Scripts["demo"][0][i].frame # Verif
    BY <1>1, <2>3 DEF Task, ReadOps, LoadOps
  <2>7. SeesLast("demo", 2, 1)
    <3>1. ASSUME NEW i \in Nodes, NEW j \in 1 .. Len(Scripts["demo"][i]),
                 Scripts["demo"][i][j].op \in WriteOps, Scripts["demo"][i][j].frame = Verif
          PROVE  i = 1 /\ j = 3
      <4>1. i # 0
        BY <2>6, <3>1
      <4>2. CASE i = 1
        BY <2>5, <3>1, <4>2 DEF WriteOps
      <4>3. CASE i = 2
        <5>1. \A h \in 1 .. Len(Scripts["demo"][2]) : Scripts["demo"][2][h].op \notin WriteOps
          BY <2>2 DEF Task, StopTask, WriteOps
        <5> QED
          BY <3>1, <4>3, <5>1
      <4>4. CASE i \notin {0, 1, 2}
        <5>1. Len(Scripts["demo"][i]) = 0
          BY <4>4, DemoDoes
        <5> QED
          BY <3>1, <5>1
      <4> QED
        BY <4>1, <4>2, <4>3, <4>4
    <3>2. OnlyWriter("demo", Verif, 1, 3)
      BY <3>1 DEF OnlyWriter
    <3>3. /\ 3 \in 1 .. Len(Scripts["demo"][1])
          /\ \A j \in 1 .. Len(Scripts["demo"][1]) :
               j >= 3 => Scripts["demo"][1][j].op \notin ReadOps
      BY <2>5 DEF ReadOps, LoadOps
    <3> DEFINE K == {Verif, Check}
               W == {}
    <3>4. Does(2, {}, {}, s, K, W) /\ Scripts["demo"][2] = s \o <<StopTask>>
      BY <2>2
    <3>5. Verif \in K /\ Verif \notin W
      OBVIOUS
    <3> HIDE DEF K, W
    <3> QED
      BY ONLY "demo" \in Apps, <2>1, <3>2, <3>3, <3>4, <3>5, Sees
  <2>8. \A m \in Nodes \ {2} :
          \/ \A i \in 1 .. Len(Scripts["demo"][m]) : Scripts["demo"][m][i].op \notin ReadOps
          \/ SeesLast("demo", 2, m)
    <3>1. ASSUME NEW m \in Nodes, m \notin {0, 1, 2} PROVE Len(Scripts["demo"][m]) = 0
      BY <3>1, DemoDoes
    <3> QED
      BY <2>6, <2>7, <3>1
  <2> QED
    BY <1>5, <2>2, <2>8, WellWithStop
<1> QED
  BY <1>2, <1>3, <1>4, <1>5

LEMMA AllScriptsWell == AllWell
<1>1. Apps \subseteq {"demo", "wc", "linus"}
  OBVIOUS
<1> QED
  BY <1>1, DemoWell, WordCountWell, LinusWell DEF AllWell

-----------------------------------------------------------------------------
\* The theorems.

LEMMA ReadInvariance == Spec => []ReadInv
<1>1. Init => ReadInv
  BY AllScriptsWell, ReadInvInit
<1>2. ReadInv /\ [Next]_vars => ReadInv'
  BY AllScriptsWell, ReadInvNext
<1> QED
  BY <1>1, <1>2, PTL DEF Spec

\* No application runs into the assertion of get() and get_value(), kvstore.h:101: what
\* it gets from the map of its own node is there.
THEOREM LocalReadsHitCorrect == Spec => []LocalReadsHit
<1>1. ReadInv => LocalReadsHit
  BY AllScriptsWell, ReadsHit
<1> QED
  BY <1>1, ReadInvariance, PTL

\* When a node has called stop_all(), which halts the servicers of all nodes, no other
\* node waits for an answer or has a get ahead.  Linus must have slept long enough.
THEOREM StopIsLastCorrect ==
  ASSUME SleepIsEnough \/ "linus" \notin Apps
  PROVE  Spec => []StopIsLast
<1>1. Init => StopInv
  BY AllScriptsWell, StopInvInit
<1>2. StopInv /\ [Next]_vars => StopInv'
  BY AllScriptsWell, StopInvNext
<1>3. StopInv => StopIsLast
  BY AllScriptsWell, StopsAreLast
<1> QED
  BY <1>1, <1>2, <1>3, PTL DEF Spec

\* The applications only do with the store what its clients may: they get and put keys of
\* theirs, one call at a time and none before the start or after the end of run_().  So
\* every theorem about KVStore holds of them.
THEOREM ClientsOfTheStore == Spec => Store!Spec
<1>1. Init => Store!Init
  BY SameInit DEF Init
<1>2. ReadInv /\ [Next]_vars => [Store!Next]_(Store!vars)
  BY AllScriptsWell, StepIs, StepsAre DEF StepDoes, StoreStep
<1> QED
  BY <1>1, <1>2, ReadInvariance, PTL DEF Spec, Store!Spec

=============================================================================
