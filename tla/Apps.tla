-------------------------------- MODULE Apps --------------------------------
(***************************************************************************)
(* The applications of src/eau2/src/apps running on the key-value store.   *)
(* An application is a script per node: data frames it writes, data frames *)
(* it opens and reads, and on one node a final stop_all().  A data frame   *)
(* is a schema, stored under the frame's own key, and chunks of rows,      *)
(* stored under keys homed on successive nodes (store/dataframe.h).        *)
(***************************************************************************)
EXTENDS Naturals, SequencesExt

CONSTANTS
  NumNodes,   \* arg.num_nodes
  Apps,       \* the applications that may run: "demo", "wc" or "linus"
  Degrees,    \* Linus::DEGREES
  ChunkSize,  \* CHUNK_SIZE: the rows of a chunk
  InputRows,  \* application |-> how many rows an array or an input file may have
  OutputRows, \* application |-> how many rows what a node computes may have
  SleepIsEnough, \* TRUE if the others are done when Linus wakes up to stop them
  Nil

\* linus.h:189: 4 degrees.
ASSUME AppsAssumption ==
  /\ NumNodes \in Nat \ {0} /\ ChunkSize \in Nat \ {0} /\ Degrees \in Nat \ {0}
  /\ Apps \subseteq {"demo", "wc", "linus"} /\ SleepIsEnough \in BOOLEAN
  /\ \A a \in Apps : /\ InputRows[a] \subseteq Nat /\ IsFiniteSet(InputRows[a])
                     /\ OutputRows[a] \subseteq Nat /\ IsFiniteSet(OutputRows[a])
  /\ IsFiniteSet(Apps)

Nodes == 0 .. NumNodes - 1
LastNode == NumNodes - 1

-----------------------------------------------------------------------------
\* Frames, their keys and their chunks

\* A frame's name and stage tell it from the other frames of its home.
Frame(name, stage, home) == [name |-> name, stage |-> stage, home |-> home]
Names == {"main", "verif", "ck", "data", "wc-map-", "projs", "usrs", "comts", "users-",
          "projects-"}

Task(op, frame) == [op |-> op, frame |-> frame]
StopTask == Task("stop", Nil)

WriteOps == {"array", "scalar", "visitor", "file"}

RowsOf(a, op) == CASE op = "scalar" -> {1}
                   [] op = "visitor" -> OutputRows[a]
                   [] op \in {"array", "file"} -> InputRows[a]

\* How many chunks a frame of r rows is written in.  fromArray() and fromFile()
\* write a last chunk even when it is empty.
ChunksWritten(op, r) ==
  CASE op = "scalar" -> 1
    [] op = "visitor" -> (r + ChunkSize - 1) \div ChunkSize
    [] op \in {"array", "file"} -> r \div ChunkSize + 1

\* Mutation: the reader counts the chunks as fromArray() does.
ChunksReadLikeArray(r) == r \div ChunkSize + 1

\* MAX_CHUNKS: how many chunks a reader of r rows loads.
ChunksRead(r) ==
  IF r % ChunkSize = 0 THEN r \div ChunkSize ELSE r \div ChunkSize + 1

\* The schema is part 0 of a frame, chunk c is part c + 1.
SchemaKey(f) == [frame |-> f, part |-> 0]
ChunkKey(f, c) == [frame |-> f, part |-> c + 1]

ChunkHome(f, c) == (f.home + c) % NumNodes
KeyHome(k) == IF k.part = 0 THEN k.frame.home ELSE ChunkHome(k.frame, k.part - 1)

-----------------------------------------------------------------------------
\* The scripts

Main == Frame("main", 0, 0)
Verif == Frame("verif", 0, 0)
Check == Frame("ck", 0, 0)

\* Mutation: the summarizer does not wait for the counter.
DemoSkipsVerification(n) ==
  CASE n = 0 -> <<Task("array", Main), Task("scalar", Check)>>
    [] n = 1 -> <<Task("open", Main), Task("all", Main), Task("scalar", Verif)>>
    [] n = 2 -> <<Task("open", Check), Task("all", Check), StopTask>>
    [] OTHER -> <<>>

\* The two get_float() of the summarizer may come in either order.
DemoScript(n) ==
  CASE n = 0 -> <<Task("array", Main), Task("scalar", Check)>>
    [] n = 1 -> <<Task("open", Main), Task("all", Main), Task("scalar", Verif)>>
    [] n = 2 -> <<Task("open", Verif), Task("open", Check), Task("all", Check),
                  Task("all", Verif), StopTask>>
    [] OTHER -> <<>>

ReadAll(f) == <<Task("open", f), Task("all", f)>>

\* The frames fs, one after the other.
ReadEach(fs) ==
  [i \in 1 .. 2 * Len(fs) |-> Task(IF i % 2 = 1 THEN "open" ELSE "all", fs[(i + 1) \div 2])]

Words == Frame("data", 0, 0)
Counts(n) == Frame("wc-map-", 0, n)

WordCountScript(n) ==
  (IF n = 0 THEN <<Task("visitor", Words)>> ELSE <<>>)
  \o <<Task("open", Words), Task("local", Words), Task("visitor", Counts(n))>>
  \o (IF n = 0 THEN ReadEach([i \in 1 .. NumNodes |-> Counts(i - 1)]) \o <<StopTask>> ELSE <<>>)

Projects == Frame("projs", 0, 0)
Users == Frame("usrs", 0, 0)
Commits == Frame("comts", 0, 0)
Delta(name, stage, n) == Frame(name, stage, n)

\* merge(): node 0 reads the sets of the others and publishes the union.
Merge(n, name, stage) ==
  IF n = 0
  THEN ReadEach([i \in 1 .. LastNode |-> Delta(name, stage, i)])
         \o <<Task("visitor", Delta(name, stage, 0))>>
  ELSE <<Task("visitor", Delta(name, stage, n))>> \o ReadAll(Delta(name, stage, 0))

LinusStep(n, stage) ==
  ReadAll(Delta("users-", stage, 0))
  \o <<Task("local", Commits)>> \o Merge(n, "projects-", stage)
  \o <<Task("local", Commits)>> \o Merge(n, "users-", stage + 1)

LinusInput(n) ==
  IF n = 0
  THEN <<Task("file", Projects), Task("file", Users), Task("file", Commits),
         Task("scalar", Delta("users-", 0, 0))>>
  ELSE <<Task("open", Projects), Task("open", Users), Task("open", Commits)>>

LinusScript(n) ==
  LET steps[s \in 0 .. Degrees] ==
        IF s = 0 THEN LinusInput(n) ELSE steps[s - 1] \o LinusStep(n, s - 1)
  IN  steps[Degrees] \o (IF n = LastNode THEN <<StopTask>> ELSE <<>>)

Script(a, n) == CASE a = "demo" -> DemoScript(n)
                  [] a = "wc" -> WordCountScript(n)
                  [] a = "linus" -> LinusScript(n)

\* The scripts, computed once.
Scripts == [a \in Apps |-> [n \in Nodes |-> Script(a, n)]]

Frames ==
  {t.frame : t \in UNION {ToSet(Scripts[a][n]) : a \in Apps, n \in Nodes}} \ {Nil}

Sizes == {1} \cup UNION {InputRows[a] \cup OutputRows[a] : a \in Apps}
MostChunks == CHOOSE c \in {ChunksWritten("file", r) : r \in Sizes} :
                \A r \in Sizes : ChunksWritten("file", r) <= c

AppKeys == [frame : Frames, part : 0 .. MostChunks]
AppHome == [k \in AppKeys |-> KeyHome(k)]

-----------------------------------------------------------------------------
VARIABLES
  app,     \* the application that runs
  queues, store, cur, repliers, running, phase, want, got, toKill,
  task,    \* node |-> the position in its script
  chunk,   \* node |-> the next chunk of the frame it writes or reads
  rows     \* node |-> frame |-> the length in the schema it has, or Nil

ASSUME NilAssumption ==
  /\ Nil \notin Nat /\ Nil \notin [name : Names, stage : Nat, home : Nat]
  /\ Nil \notin AppKeys /\ Nil \notin [of : AppKeys, data : Sizes]

\* The value of a schema is its length; that of a chunk does not matter.
KV == INSTANCE KVStore WITH Keys <- AppKeys, Home <- AppHome, Data <- Sizes

kvVars == <<queues, store, cur, repliers, running, phase, want, got, toKill>>
appVars == <<app, task, chunk, rows>>
vars == <<kvVars, appVars>>

Init ==
  /\ KV!Init
  /\ app \in Apps
  /\ task = [n \in Nodes |-> 1]
  /\ chunk = [n \in Nodes |-> 0]
  /\ rows = [n \in Nodes |-> [f \in Frames |-> Nil]]

\* The task node n is at; no task when its run_() is over.
HasTask(n) == task[n] <= Len(Scripts[app][n])
Doing(n, ops) == HasTask(n) /\ Scripts[app][n][task[n]].op \in ops
TheOp(n) == Scripts[app][n][task[n]].op
TheFrame(n) == Scripts[app][n][task[n]].frame

NextTask(n) ==
  /\ task' = [task EXCEPT ![n] = @ + 1]
  /\ chunk' = [chunk EXCEPT ![n] = 0]

\* Mutation: the schema is put in front of the chunks.
WriteSchemaFirst(n) ==
  /\ Doing(n, WriteOps)
  /\ \E r \in IF rows[n][TheFrame(n)] = Nil THEN RowsOf(app, TheOp(n))
                                           ELSE {rows[n][TheFrame(n)]} :
       /\ rows' = [rows EXCEPT ![n][TheFrame(n)] = r]
       /\ KV!Put(n, IF chunk[n] = 0 THEN SchemaKey(TheFrame(n))
                    ELSE ChunkKey(TheFrame(n), chunk[n] - 1), r)
       /\ IF chunk[n] < ChunksWritten(TheOp(n), r)
            THEN chunk' = [chunk EXCEPT ![n] = @ + 1] /\ UNCHANGED task
            ELSE NextTask(n)

\* fromArray(), fromScalar(), fromVisitor(), fromFile(): the chunks in ascending
\* order, then the schema.
Write(n) ==
  /\ Doing(n, WriteOps)
  /\ \E r \in IF rows[n][TheFrame(n)] = Nil THEN RowsOf(app, TheOp(n))
                                           ELSE {rows[n][TheFrame(n)]} :
       /\ rows' = [rows EXCEPT ![n][TheFrame(n)] = r]
       /\ IF chunk[n] < ChunksWritten(TheOp(n), r)
            THEN /\ KV!Put(n, ChunkKey(TheFrame(n), chunk[n]), r)
                 /\ chunk' = [chunk EXCEPT ![n] = @ + 1]
                 /\ UNCHANGED task
            ELSE /\ KV!Put(n, SchemaKey(TheFrame(n)), r)
                 /\ NextTask(n)

\* The chunks a reading node has still to load: with local_map() its own.
ToLoad(n) ==
  LET f == TheFrame(n)
  IN  {c \in chunk[n] .. ChunksRead(rows[n][f]) - 1 :
         TheOp(n) = "all" \/ ChunkHome(f, c) = n}

\* The key that node n gets next, if it is about to get one.
NextGets(n) ==
  IF Doing(n, {"open"}) THEN {SchemaKey(TheFrame(n))}
  ELSE IF Doing(n, {"all", "local"})
    THEN {ChunkKey(TheFrame(n), c) : c \in {d \in ToLoad(n) : \A e \in ToLoad(n) : d <= e}}
  ELSE {}

\* A get of a schema tells the length of the frame.
Learn(n, k, blob) ==
  rows' = IF k.part = 0 THEN [rows EXCEPT ![n][k.frame] = blob.data] ELSE rows

\* get_and_wait(), local_load_() and nonlocal_load_().  A schema is one get; the
\* chunks of a frame are loaded one by one.
Read(n) ==
  /\ phase[n] = "run"
  /\ \E k \in NextGets(n) :
       /\ \/ KV!GetLocal(n, k) /\ Learn(n, k, store[n][k])
          \/ KV!GetRemote(n, k) /\ UNCHANGED rows
       /\ IF k.part = 0
            THEN NextTask(n)
            ELSE chunk' = [chunk EXCEPT ![n] = k.part] /\ UNCHANGED task

ReadReturns(n) ==
  /\ KV!NextValue(n)
  /\ Learn(n, want[n], cur[n])
  /\ UNCHANGED <<task, chunk>>

\* The loop over the chunks ends.
ReadDone(n) ==
  /\ phase[n] = "run"
  /\ Doing(n, {"all", "local"})
  /\ ToLoad(n) = {}
  /\ NextTask(n)
  /\ UNCHANGED <<kvVars, rows>>

\* The last node of Linus sleeps 100 ms in front of stop_all().
Awake(n) == app = "linus" /\ SleepIsEnough => \A m \in Nodes \ {n} : ~HasTask(m)

Stop(n) ==
  /\ Doing(n, {"stop"})
  /\ Awake(n)
  /\ KV!StopAll(n)
  /\ NextTask(n)
  /\ UNCHANGED rows

Return(n) == ~HasTask(n) /\ KV!FinishRun(n) /\ UNCHANGED <<task, chunk, rows>>

\* The steps of the application thread.
Run(n) ==
  /\ Write(n) \/ Read(n) \/ ReadReturns(n) \/ ReadDone(n) \/ Stop(n) \/ Return(n)
  /\ UNCHANGED app

\* What the store does around it.
Around(n) ==
  /\ \/ KV!Start(n)
     \/ KV!SendKill(n)
     \/ KV!Close(n)
     \/ KV!Servicer(n)
     \/ KV!ReplierFor(n)
  /\ UNCHANGED appVars

Next == \E n \in Nodes : Run(n) \/ Around(n)

\* Every thread is eventually scheduled, the applications' included: no script
\* loops, and all blocking is in the store.
Fairness ==
  \A n \in Nodes :
    /\ WF_vars(Run(n))
    /\ WF_vars(KV!Start(n) /\ UNCHANGED appVars)
    /\ WF_vars(KV!SendKill(n) /\ UNCHANGED appVars)
    /\ WF_vars(KV!Close(n) /\ UNCHANGED appVars)
    /\ WF_vars(KV!Servicer(n) /\ UNCHANGED appVars)
    /\ WF_vars(KV!ReplierFor(n) /\ UNCHANGED appVars)

Spec == Init /\ [][Next]_vars
FairSpec == Spec /\ Fairness

-----------------------------------------------------------------------------
\* A get of a key homed on the node itself does not wait: get() and get_value()
\* assert that the key is there.  No application runs into the assertion, though
\* the chunks it reads locally were put by other nodes without acknowledgement:
\* whoever has seen a schema has the chunks homed on its own node.
LocalReadsHit ==
  \A n \in Nodes : phase[n] = "run" =>
    \A k \in NextGets(n) : KeyHome(k) = n => store[n][k] # Nil

\* stop_all() halts the servicers of all nodes, so nobody may still depend on
\* one: when a node is in stop_all(), the others have no get ahead of them.
StopIsLast ==
  \A n \in Nodes : phase[n] \in {"stop", "closed"} =>
    \A m \in Nodes \ {n} :
      /\ phase[m] # "await"
      /\ \A i \in task[m] .. Len(Scripts[app][m]) :
           Scripts[app][m][i].op \notin {"open", "all", "local"}

\* application.h:36 "Halts the application successfully": every node ends its
\* run_() and gets through wait_to_close().
GracefulStop == <>(\A n \in Nodes : phase[n] = "closed")

=============================================================================
