# eau2 in TLA+

eau2 (`src/eau2/`) is a distributed data-frame system in C++: applications write
and read data frames whose chunks live in a key-value store that is spread over
several nodes, which talk through TCP connections or, with all nodes in one
process, through queues.  This directory holds a TLA+ model of it, the TLC
configurations that check the model on small instances, and proofs by TLAPS
for instances of any size: of the key-value store, both networks, the threads of a
node, what Linus computes, and the parts that stay within a node.

To check a module: `tlc -config KVLife.cfg MCKVStore`; to check proofs:
`tlapm KVStoreProofs.tla`, and the same of the other modules whose names end with
`Proofs`.  `PROJECT.json` lists the components, the runs, for
each property a mutation of the model that the property detects, the source
lines that each definition stands for, the hazards and the theorems.

Contents:

1. Inventory of the system
2. Modules and what they model
3. Runs: what is checked, with which bounds
4. Fairness
5. Theorems
6. Where the code disagrees
7. What is not modelled
8. Plan

In this file `kvstore.h:86` stands for `src/eau2/src/store/kvstore.h`, line 86;
the file names are unique.

## 1. Inventory of the system

### Threads and how they interact

A node has an *application thread*, which runs `Application::run_()`, a *servicer
thread*, which receives the messages to the node, and any number of *replier
threads*, one for each `Get` the servicer has received and not answered.

    application thread --put/get of own keys--> local map
          |  ^                                     ^  ^
     Put, |  | cur_value_ (one slot, one lock)     |  | polls every 10 ms
     Get, v  |                                     |  |
     Kill  network ---- receive_msg() ---> servicer thread ---> replier thread
             ^                                                    |
             +---------------------- Reply -----------------------+

Applications never talk to each other but through keys.  A key names the node
that stores it, its home.  Three things are shared between threads of one node:
the local map (a lock in `put` and `get`, none in `contains_key`), the slot
`cur_value_` (with its lock), and with the pseudo network the message queues
(with a lock each).

### Components

| Component | State | Operations | Hard behaviour | What makes it correct |
|---|---|---|---|---|
| Key-value store (`kvstore.h`, `kvstore-fd.h`, `kv.h`) | local map, `cur_value_`, replier list, servicer's loop | `put`, `get`, `get_and_wait`, handlers of `Put`, `Get`, `Reply`, `Kill`, start, stop, wait to close | one slot for all answers; puts without acknowledgement; pollers; messages behind a `Kill` | an answer reaches the one who asked, for the key asked for; a node reads its own writes; a get of a key that is there returns; nodes that are told to stop can |
| Network interface (`network.h`) | - | `send_msg`, `receive_msg` | - | an inbox per node, in order, nothing lost |
| Pseudo network (`network-pseudo.h`) | a queue per node | push, pop | wake-ups, spurious wake-ups | it is that inbox |
| TCP network (`network-ip.h`) | the addresses of all nodes, one connection per message | register, directory, connect, send, accept, read | messages in pieces over concurrent connections, blocking sends, nodes that start in any order | it is that inbox; every index is the same node everywhere |
| Messages (`message.h`) | kind, sender, target, key, value; the concurrent queue | - | - | see the queue |
| Lock and Thread (`thread.h`) | a mutex and a condition variable | lock, unlock, wait, notify_all | wake-ups | - |
| Application life cycle (`application.h`, `main.cpp`) | - | `start`, `run_`, `stop_all`, `wait_to_close` | stopping others | all nodes stop, and nobody is cut off |
| Applications (`apps/*.h`) | frames, sets, counts | demo, trivial, word count, Linus | who may read what when | they complete; Linus finds the users and projects of each degree |
| Distributed data frame (`dataframe.h`) | schema, chunk index, cache of chunks | `fromArray`, `fromScalar`, `fromVisitor`, `fromFile`, `get_*`, `map`, `local_map`, `pmap` | chunks that others put, counted in two ways; the cache; shared rowers | a chunk that is read is there, and is the right one |
| Array, Queue (`array.h`, `queue.h`) | a ring of chunks | push, add, add_all, set, remove, clear, pop | growth of a ring that wraps inside a chunk | it is a sequence |
| Map (`map.h`) | chains of buckets | put, get, contains, remove, rehash | look-ups without a lock | it is a function |
| Columns, rows, schema (`column.h`, `rows.h`, `schema.h`) | values and flags of what is missing; a row | get, set, push_back, clone, serialize, visit | dummies behind the flags; a row that is used again | no value and no gap gets lost or made up |
| Parser (`parser.h`) | a part of a file, a buffer, guesses | schema guess, line by line | lines, parts and buffers that end anywhere; types guessed from the first lines | every line belongs to one part, and every field to its row |
| Serializer (`serializer.h`, `serializer-fd.h`) | a character array | write and read a field | - | inverse to each other |
| Strings, helpers, arguments (`string.h`, `object.h`, `helper.h`, `util.h`, `pack.h`, `arg.h`) | values | - | - | - |

Nothing is persisted, no node restarts and no message is sent again, so crash
recovery and retries are no subject here.

The hazards, each with its line and the properties that watch it, are in
`PROJECT.json`.

## 2. Modules and what they model

    KVRegister <-- KVStore <-- MCKVStore     List       <-- ChunkedArray  <-- LocalParts
                     ^   ^                   Dictionary <-- HashMap       <--     ^
        KVStoreProofs    Apps <-- MCApps     Table      <-- LocalFrame    <--  MCLocalParts
                     ^   ^                   WordReader, LineReader       <--
                   AppsProofs                FrameWriter, FrameReader     <--
    LinusSets <-- MCLinusSets                ParallelMap, StrBuff         <--
              <-- LinusSetsProofs            LocalParts <-- LocalPartsProofs
    Mailbox <-- NetworkIP    <-- TcpNetwork <-- MCTcpNetwork
            <-- MessageQueue          |     <-- TcpNetworkProofs
    Rendezvous <----------------------+      NetworkIP <-- NetworkIPProofs
    Monitor <-- MessageQueue, AnswerSlot <-- NodeThreads <-- NodeThreadsProofs
                                             HashMap <-- MCHashMap
    WellOrdering <-- KVStoreProofs, AppsProofs, LinusSetsProofs, NetworkIPProofs, LocalPartsProofs

(`A <-- B`: B extends or instantiates A, or is shown to implement it.)
`WellOrdering` is about natural numbers: a set of them that has 0 and with each
number the next has them all, a set that is not empty has a least one, and what
is true of a sequence that is collected by recursion on a number.

The store is modelled at two grains.  `KVStore` takes a push or a pop of a
queue, `next_value()` and `handle_reply()` each as one step; `NodeThreads` has
the same threads lock by lock and shows that those steps lose nothing.  The
network below `KVStore` is a FIFO queue per node; `NetworkIP` shows that the
connections of the TCP network are one too, and `MessageQueue` the same of the
queues of the pseudo network.  `Apps` runs the applications' scripts on `KVStore`.

### KVStore: the key-value store

All nodes, from before `start()` to after `wait_to_close()`.

| Variable | Code |
|---|---|
| `queues` | the messages sent to a node and not received |
| `store` | the local map (`kvstore.h:77`), of a node and a key |
| `cur` | `cur_value_` |
| `repliers` | the live replier threads, with the value they have found |
| `running` | the servicer is in its receive loop |
| `phase`, `want`, `toKill` | where the application thread is, the key it waits for, how far `stop_all()` is |
| `got` | what its last get returned |

Actions of the application thread: `Start`; `Put` (a local put changes the map,
a remote one sends); `GetLocal` (`get` of an own key, which asserts that it is
there: the step is disabled when it is not, and the run `AppsTogether` shows
that no application gets into that); `GetRemote` and `NextValue` (the two halves of
`get_and_wait_value`); `StopAll` and one `SendKill` per node, in the order of
the loop, the own node last; `FinishRun`; `Close` (the join of the servicer and
of its repliers).  Actions of the servicer: `HandlePut`, `HandleGet`,
`HandleReply`, `HandleKill`.  Of a replier: `Fetch` (the poll that finds the key)
and `Answer`.  A poll that does not find the key changes nothing and is left out.

A value is a record of the key it was stored under and a datum, so that the
model can tell an answer from the answer to another question: the code cannot,
`next_value()` takes what is in the slot.

`KVRegister` is what this promises to applications: a register per key, with
puts that take effect later but in the order of their node, and gets that return
a value the register held between call and return and never one older than the
caller's own puts.  `KVStore` defines the refinement mapping: `pending` is the
`Put` messages of a node and a key in the queue of the key's home, `answer` is
the value on its way in a replier, a `Reply` or the slot.

### Apps: the applications over the store

The composition of `KVStore` with scripts.  A script is a sequence of tasks, for
each node and application: write a frame from an array, a scalar, a visitor or a
file; open a frame (get its schema and wait); read all its chunks; read the
chunks stored on this node; call `stop_all()`.  The scripts of demo, word count
and Linus are in the order of the code.  A frame is chunks, put under keys homed
on successive nodes, and then the schema.  How many chunks a writer puts
depends on how it writes (`ChunksWritten`) and how many a reader expects on the
rows in the schema (`ChunksRead`); these two differ in the code, and the model
keeps the difference.  The lengths of frames are chosen by the writer; rows
themselves are left out.

The last node of Linus sleeps 100 ms before it calls `stop_all()`.  With
`SleepIsEnough = FALSE` the sleep takes any time; `TRUE` is what the code relies
on, that the others are through with their scripts when it is over.

Every step of `Apps` is a step of `KVStore` or a step of a loop around it, so
its store is the one of the theorems (`AppsProofs!ClientsOfTheStore`).

### LinusSets: what Linus computes

The sets of users and projects of each node, the commits that are stored on it,
and the frames through which `merge()` trades what is new.  A frame is here all
or nothing (`Apps` is about its chunks), and the placement of the commits is
arbitrary.  The reference definition, `Reached`, works on all commits at once
and without deltas.

Projects and users are numbers.  A set has as many places as the frame of the
projects or of the users has rows (`Capacity`), and what lies behind them is
neither set nor found (`linus.h:46-58`): `InBounds` is in the taggers, in what is
read, and in the definition, so that a commit to a project without a row leads
nowhere in either.  The shipped data has such commits: 130 of the 5000 rows of
`commits-tiny.ltgt` are to projects up to 1453940, and `projects-tiny.ltgt` has
5000 rows.  What the header of `linus.h` says is more, see section 6.

### NetworkIP: messages over TCP

Every message has a connection of its own: `Connect`, `SendSize`, one
`SendChunk` per allocated chunk of the serializer's array, `SendReturns`;
`Accept`, `ReadSize`, one `ReadChunk` per turn of the loop, `Deliver`.  The bytes
of a message are numbered.  `NumChunks` is how many chunks the array has after
that many `push_back()`, so that the model sends the whole chunks that lie
behind the end of a message, as the code does.  A connection holds
`SocketSpace` bytes; a send that does not fit blocks.  `ShortReads` says whether
`read()` may return less than it was asked for.

`Mailbox` is what the store needs of a network.  The refinement mapping makes
the inbox of a node the connection it has accepted and its backlog.

`TcpNetwork` puts `NetworkIP` and `Rendezvous` into one specification, for one
run: a behaviour is about the bytes of messages or about how nodes find each other.

### Rendezvous: how the nodes find each other

`init_server()` and `init_client()`: `Listen`, `AcceptRegister`, `SendDirectory`,
`ServerUp` of the server, `Register` and `ReceiveDirectory` of the clients, with
nodes that are already up and send messages to anybody they know (`Talk`, `Serve`).
All nodes are off at first.  A message goes to whoever listens at the address the
sender has for an index (`AtAddress`); when nobody does, `connect()` fails and the
assertion of `network-ip.h:138` ends the sender (`Abort`).

Two constants say what the code leaves to those who use it.  `StartedInOrder`: a
client is started when the server listens; the code has nothing that makes it wait
or try again (section 6).  `ServerFirst` says that a
client begins to talk to other clients only after it had a message of node 0.
That is so in all applications of the repository: their nodes other than 0
begin with `get_and_wait` of a frame that node 0 writes.

### Monitor, MessageQueue, AnswerSlot, NodeThreads

`Monitor` is class `Lock`; `wait()` releases the mutex and may return without a
notification.  `MessageQueue` is `ConcurrentMessageQueue`, `AnswerSlot` is
`next_value()` and `handle_reply()`, each with one step per lock operation,
test and access.  `Queue::pop()` of an empty queue is not refused but returns
`Nobody`, as the code would return what happens to be in the array.
`NodeThreads` puts the threads of one node around both: the servicer that takes
the Replies out of its queue is the one that fills the slot.

### ChunkedArray and List

The ring of chunks, with `grow_to_fit_()` written as it turns and copies the
chunks, the operations of the arrays and `Queue::pop()`.  `List` is a sequence;
the mapping reads the ring from its start.  `add_all()` in front of the end,
which loses an element (`array.h:79`), is there but guarded by the constant
`Inside`: the program only appends, and its tests insert into empty arrays.

### WordReader: the words of a file

`FileReader` of the word count, with its buffer: `skipWhitespace_()`, `done()`,
`accept()` and `fillBuffer_()`, one step per turn of a loop.  A character is its
place in the file, so a word that is torn, repeated or read from the remains of
an older buffer is another value than the word of the file.  The definition
(`WordsOfFile`) is over the whole file: the words that begin with one of its first
p characters are `WordsTo(p)`.  Two things are assumed: words and gaps
are shorter than the buffer (`Legible`; a word as long as the buffer makes
`accept()` fill a buffer that has no room, and a gap as long as the buffer makes
`skipWhitespace_()` do so), and `memcpy()` copies what overlaps as well
(`wordcount.h:78`).  A look behind the buffer ends the behaviour as `"broken"`.

### LineReader: the lines of a file

`LineReader` of the parser: the buffers, `_pos`, `_current_line`, the end of the
file and of the part, the line that is skipped at the start of a part, `reset()`.
Finding a newline in the buffer is one step.  The definition (`LinesOfPart`, with
`LinesTo` for those that start before a byte) cuts the bytes of the part at the
newlines.  It is compared where the reader is
`Orderly`; otherwise the reader reads beyond the end of its part, which is
possible when the part ends in a later buffer than its first and not at that
buffer's end (`parser.h:255`), or takes for a line what is none, when no line
ends in the part before its last byte.  The program only reads whole files
(`dataframe.h:632`), and those are `Orderly`.

### HashMap and Dictionary: the local map

`map.h` under the lock of `kvstore-fd.h`.  A `put()` is a step, but for a
`rehash_()`, which is one for each thing that a thread without the lock can see:
the new array (`Allocate`), its cells one and all (`ClearCells`), its length
(`Resize`), every key that is put again (`Move`), the deletion of each old chain
and of the old array.  `contains_key()` without the lock is `SeekBucket`,
`SeekArray`, `SeekCell` and one `SeekNode` per node of the chain.  A look-up that
reads a deleted node, a deleted array or a cell nobody wrote ends as `"broken"`.
Memory is taken to be sequentially consistent, which is the least that can go
wrong: the code has no such guarantee.  `remove()` is only called when nobody
looks anything up.  `Dictionary` is what the map promises; the mapping takes a
key that was not moved yet from the old array.

### LocalFrame and Table: data frames in memory

Columns are values with a flag per cell.  `Table` has cells with a value or
none; `LocalFrame` has the dummies (0 and `nullptr`) behind the flags, the row
that `fill_row()` fills again and again and that keeps the values of fields which
are missing now, and columns that are serialized as flags and values.  The
columns of bools, ints and floats are one type, `"I"`; strings are another, as
their column takes `nullptr` for a missing value and clones it as one.
`Column::clone()` of the other types makes values of the dummies
(`column.h:116`, `204`, `293`): with `Gaps = FALSE` a frame is cloned only when it
has no missing numbers, which is what the tests do.

### FrameWriter: how a distributed frame is cut into chunks

`fromArray()`, `fromVisitor()` and `fromFile()`.  A file is a sequence of lines,
a line a sequence of fields, and a field its kind, as that is what guessing looks
at.  Width and types are guessed in two passes over the first lines; then lines
are appended, short ones filled up with missing values, and each chunk is stored
when it is full.  `Stays` says which fields a column of each type can hold; any
other becomes some other value (`Lost`).  `Looks` says what a field is taken for: a
text with a digit, a sign or a dot is taken for a number (`parser.h:443`), one with
a dot for a float, and one without for a bool or an int, as the value is that
`to_int()` finds at its beginning.  Left out by
`Readable`: lines behind the guessed ones that have more fields than
those (`parser.h:397` reads out of bounds).

### FrameReader: the cache of chunks

A handle of a distributed frame holds one chunk per column, with an index that
says which.  `get_float()` loads if `must_load_` or the index says so; the two
maps load chunk after chunk and visit the rows.  `Init` has every way to make a
handle: a schema that was fetched has no chunk indexes (`schema.h:117`), so what
is read there is anything.  The store below is all there: `KVStore` and `Apps`
are about that.

### ParallelMap: pmap()

The number of threads, their ranges, their rowers, which are joined from the last
to the first.  A rower gathers the rows it was called with.  Its clone begins with
nothing, as those of the tests do (`tests/test-pmap.h:65`).

### StrBuff

The capacity of a string buffer, its size, and how far it was written.

### LocalParts

These parts, and `ChunkedArray`, `WordReader` and `LineReader`, in one
specification, for one run: `part` says which of them a behaviour is about.

## 3. Runs: what is checked, with which bounds

Every property is an invariant, an action property, a liveness property or a
refinement; next to each one, in the module, is a comment that says what it means.

**KVLife** (`MCKVStore`).  Two nodes live from `start()` to `wait_to_close()`;
the applications do any `Fuel` = 5 puts and gets of two keys, one homed on each
node, and end or call `stop_all()` at any time, one of them or both.
`OneAnswerInFlight`: of Get, replier, Reply and filled slot there is at most one
for a node, and one exactly while it waits.  `NoAnswerLost`: `handle_reply()`
only fills an empty slot of a node that waits for that key.  `GetReturns`: a
get whose key is there returns unless a servicer concerned was killed.
`ShutdownCompletes`: when every application is out of `run_()` and somebody
called `stop_all()`, all nodes close.  Also `TypeOK`.
*Why this is enough*: five operations give a node two rounds of question and
answer with puts of both nodes in between, and a third question that meets what
the first two left; killed servicers with messages behind the Kill, and two
concurrent `stop_all()`, occur.  One datum suffices as these properties do not
compare data; the theorems lift the bounds.

**KVTraffic** (`MCKVStore`).  Three nodes, none of which ends; two keys, two
data, five operations; the third node has no keys and asks both others.
`AnswerIsForTheKey`: what is under way for a waiting node is about the key it
waits for.  `ReadYourWrites`: a node's own Puts are in front of its Get, and
applied before a replier looks.  `ImplementsRegister`: the refinement.  Two data
tell an old value from a new one, three nodes let a third change a key between a
question and its answer.

**AppsTogether** (`MCApps`).  Demo, word count and Linus, each by itself on three
nodes; chunks of two rows, frames of demo with 2, 3 or 6 rows (an extra empty
chunk; a partial chunk; more chunks than nodes), the words in two chunks, counts
and sets that are empty or fill a chunk; one degree; `SleepIsEnough = TRUE`.
`LocalReadsHit`: every chunk that a node reads from its own map without waiting
is there, though another node put it without acknowledgement.  `StopIsLast`:
when a node is in `stop_all()`, no other has a get ahead of it.
`GracefulStop`: all nodes close; in particular no reader waits for a chunk
nobody writes.

**AppsLinusRace** (`MCApps`, violation).  Linus on three nodes: see section 6.

**LinusSets** (`MCLinusSets`).  Three nodes, two degrees, seven commits in each of
the 2187 placements; a chain that takes two degrees to follow, a committer
who is in no row of the users' frame, and two commits to a project that is in no
row of the projects' frame, behind which is one more user.  `DegreesOfLinus`: every node has, after
each degree, the sets of the definition.  `FramesWrittenOnce`: no key is used
for two sets.  `AllDegreesDone`: no merge leaves nodes waiting for each other.

**TcpNetwork** (`MCTcpNetwork`).  Bytes: two threads send up to two messages of
2, 5 or 6 bytes with chunks of three bytes: part of a chunk; more than a chunk; a
whole number of chunks, with one that is allocated behind it.  `SocketSpace` = 3,
one chunk, so that a sender blocks in the middle of a message.  One receiver, as
receivers do not share anything; read() gets all it asks for.
`ImplementsMailbox`: the refinement.  `EverySendArrives`, `EverySendReturns`: in
the end every message that was begun has arrived, and no sender is stuck.
Nodes: a server and three clients, whose addresses are not in the order of their
indices, are started in any order once the server listens (`StartedInOrder`); each
node sends up to two messages.  `ConnectsSucceed`: no node is ended by the assertion
behind `connect()`; the server sends a Directory to nobody who does not listen, and
applications to nobody either.  `HeardInTurn`:
a client in its init function finds the Directory first, the server nothing but
Registers.  `RightNode`: a message reaches the node it is for.  `AllNodesUp`: every
node gets past its init function, in every order of the clients.

**IPShortRead**, **IPFullChunk** (`NetworkIP`, violations): see section 6.

**NodeThreads**.  One application with three questions, one servicer, two
threads that push up to three messages each, wake-ups for no reason.
`QueueIsMailbox`: what was pushed is popped once and in order.
`EveryPushIsPopped`: no wake-up of the servicer is lost.  `AnswersInOrder`:
`next_value()` gives the k-th question the k-th answer and never `nullptr`.
`EveryQuestionReturns`: no wake-up of the application is lost.  The third
question meets a slot that was filled and emptied before.

**LocalParts** (`MCLocalParts`).  Arrays: chunks of two, 11 values, arrays of one or three
appended, one `add`, `remove`, `set` or `clear` anywhere, any pops.
`ImplementsList`: the ring is the sequence its operations say, each of them and at
its index (`EachOperation`).  Eleven values let
an array grow twice, from one chunk to at least four and on to at least ten, with
the first element at any place that pops can bring it to.  Words: a buffer of
three characters and every legible file of up to nine, so that every buffer but
the last can end in, before or behind a word, and a third buffer follows one
that was compacted.  `WordsInTurn`: of a file that ends with whitespace the
reader hands out the words, whole and in order, and of any other at least all
but the last.  `AllWordsRead`.  Lines: a buffer of three bytes and every file of
up to six with any part of it, reset once at any time between two lines.
`LinesInTurn`: in an orderly part the lines are returned whole, once and in
order, again after the reset.  `AllLinesRead`.
String buffers: pieces of up to 25 characters, strings of up to 45: pieces longer
than the buffer, and strings that fill it to the last character, of several
growths.  `WritesInside`.
The map: three keys that share a bucket of the first array, two of which share one
of the second; three puts, of which one makes the map grow; one look-up, begun at
any time, and removals.  `ImplementsDictionary`: puts take effect at once, and
no step of `rehash_()` changes what the map holds.  `LookupRight`: a look-up that no growth overtakes is right.
Frames in memory: a column of numbers and one of strings, up to three rows, any
sequence of operations.  `ImplementsTable`: the refinement, operation by operation; what
is sent or cloned stays what it was.  `NullIsFlagged`: what
is cloned, compared or serialized as a string is one.
Writers: chunks of two, up to three lines of up to two fields, types guessed from
two lines: a file that fills its last chunk or not, a line behind the guessed
ones that fits its columns or not, texts with and without digits and dots.  `ChunksAligned`: the columns of a chunk are as
long as the schema makes readers believe.  `RowsAreLines`: a reader finds each
field in its row; it is another value only if none of the fields that the type of
its column was guessed from looks like a type that would have kept it.
Readers: frames of one, two, five and six rows over two nodes, in any order of
gets and maps.  `GetsTheCell`, for frames of one column (`GetWidths`), which is what
applications use `get_float()` on.  `MapVisitsRows`: every row of the frame, or of
the node's chunks, once and in order.
`pmap()`: up to three threads of at least three rows, frames of up to 17 rows, so
that one, two and three threads occur, with ranges that divide the rows and that
do not.  `PmapIsMap`: no thread has an empty range, and the rower that was given
has seen every row once, in order.

**MapGrows** (`MCHashMap`, violation): see section 6.

**WordAtEnd** (`WordReader`, violation): see section 6.

Deadlock is not checked (`CHECK_DEADLOCK FALSE`): in each run the program, or
its bounded workload, ends.  That nobody waits for ever is said by the liveness
properties.

## 4. Fairness

Weak fairness of a thread's next step: the scheduler of the operating system
runs every thread that can run.  It is stated per thread, so that a thread may
not starve because others run on.

* `KVStore`: `Start`, `NextValue`, `SendKill`, `Close`, the servicer, the
  repliers of each client.  What an application *chooses* to do is not fair:
  it may compute for ever.  A replier polls every 10 ms (`kvstore.h:62`), so
  once its key is there, and stays there as keys are never removed, it finds it.
* `Apps`: in addition the application thread: its scripts have no loops that
  wait, all blocking is in the store.
* `LinusSets`: every node's application.
* `TcpNetwork`, bytes: a thread that is in `send_msg()` goes on; a servicer receives one
  message after the other (`kvstore.h:95-122`).  Nobody need begin to send.
* `NodeThreads`: weak fairness of the threads, and strong fairness of taking a
  mutex: a thread that finds the mutex free again and again gets it at some
  time.  Only wake-ups without a reason could go on for ever here (messages and
  questions are bounded), and a thread that they wake holds the mutex for a
  moment at a time.
* `TcpNetwork`, nodes: every node is started, the server too (`Listen`), and goes
  through its init function.
* `LocalParts`: the loop that reads words or lines goes on.  Nobody need do
  anything else.

## 5. Theorems

The theorems hold for every value of the constants that the assumptions admit:
any number of nodes, keys, messages, rows and threads.  TLC evaluates the
assumptions in the runs.  A hypothesis that a theorem has in addition is one that
the model makes a constant for, as the property fails without it.

| Theorem | States | Hypothesis |
|---|---|---|
| `KVStoreProofs!TypeCorrect` | `Spec => []TypeOK` | |
| `KVStoreProofs!OneAnswerCorrect` | `Spec => []OneAnswerInFlight` | |
| `KVStoreProofs!KeptCorrect` | `Spec => []KeptUnderItsKey` | |
| `KVStoreProofs!AnswerCorrect` | `Spec => []AnswerIsForTheKey` | |
| `KVStoreProofs!ReadYourWritesCorrect` | `Spec => []ReadYourWrites` | |
| `KVStoreProofs!NoAnswerLostCorrect` | `Spec => NoAnswerLost` | |
| `KVStoreProofs!RegisterImplemented` | `Spec => ImplementsRegister` | |
| `AppsProofs!LocalReadsHitCorrect` | `Spec => []LocalReadsHit` | |
| `AppsProofs!StopIsLastCorrect` | `Spec => []StopIsLast` | `SleepIsEnough`, or Linus is not one of `Apps` |
| `AppsProofs!ClientsOfTheStore` | `Spec => Store!Spec` | |
| `LinusSetsProofs!DegreesCorrect` | `Spec => []DegreesOfLinus` | |
| `LinusSetsProofs!FramesWrittenOnceCorrect` | `Spec => FramesWrittenOnce` | |
| `NetworkIPProofs!MailboxImplemented` | `Spec => ImplementsMailbox` | `Proper`: `~ShortReads`, and the constants as in `TcpNetwork` |
| `TcpNetworkProofs!ImplementsMailboxCorrect` | `TcpSpec => ImplementsMailbox` | `~ShortReads` |
| `TcpNetworkProofs!RightNodeCorrect` | `TcpSpec => []RightNode` | |
| `TcpNetworkProofs!HeardInTurnCorrect` | `TcpSpec => []HeardInTurn` | `ServerFirst` |
| `TcpNetworkProofs!ConnectsSucceedCorrect` | `TcpSpec => []ConnectsSucceed` | `StartedInOrder` |
| `TcpNetworkProofs!UpKnowsAllCorrect` | a node that is up has all addresses | |
| `NodeThreadsProofs!AnswersInOrderCorrect` | `Spec => []AnswersInOrder` | |
| `NodeThreadsProofs!QueueIsMailboxCorrect` | `Spec => QueueIsMailbox` | |
| `LocalPartsProofs!WritesInsideCorrect` | `PartsSpec => []WritesInside` | |
| `LocalPartsProofs!GetsTheCellCorrect` | `PartsSpec => []GetsTheCell` | `GetWidths \subseteq {1}` |
| `LocalPartsProofs!PmapIsMapCorrect` | `PartsSpec => []PmapIsMap` | |
| `LocalPartsProofs!ListImplemented` | `PartsSpec => ImplementsList` | `~Inside` |
| `LocalPartsProofs!ChunksAlignedCorrect` | `PartsSpec => []ChunksAligned` | |
| `LocalPartsProofs!RowsAreLinesCorrect` | `PartsSpec => []RowsAreLines` | |
| `LocalPartsProofs!MapVisitsRowsCorrect` | `PartsSpec => []MapVisitsRows` | |
| `LocalPartsProofs!NullIsFlaggedCorrect` | `PartsSpec => []NullIsFlagged` | |
| `LocalPartsProofs!ImplementsTableCorrect` | `PartsSpec => ImplementsTable` | `~Gaps` |
| `LocalPartsProofs!LookupRightCorrect` | `PartsSpec => []LookupRight` | |
| `LocalPartsProofs!ImplementsDictionaryCorrect` | `PartsSpec => ImplementsDictionary` | |
| `LocalPartsProofs!LinesInTurnCorrect` | `PartsSpec => []LinesInTurn` | |
| `LocalPartsProofs!WordsInTurnCorrect` | `PartsSpec => []WordsInTurn` | |

**KVStoreProofs.**  Assumptions: `NumNodesAssumption` (there is a node),
`HomeAssumption` (every key has a home among the nodes), `NilAssumption`
(`nullptr` is no key and no value).

The inductive invariant `IInv` is the conjunction of `TypeOK`,
`OneAnswerInFlight`, `KeptUnderItsKey`, `AnswerIsForTheKey` and
`ReadYourWrites`.  The later ones rest on the earlier ones.  A node asks only
after it has taken the last answer out of the slot (`OneWhileWaiting`), and a
Reply finds the slot empty because there is no second Reply, replier or Get
(`OneAtATime`, `OneGet`, `OneReply`, `OneReplier`).  `AnswerIsForTheKey` is not
inductive alone: it needs that there is no answer to an older question when a
node asks the next one, and that what is stored under a key was put under it
(`KeptUnderItsKey`).  `ReadYourWrites` needs in addition that the node put
nothing between its Get and the answer, as it was waiting, and that the Get was
sent to the home of the key the node waits for, which is where its Puts went.
`NoAnswerLost` follows from `IInv` in each step.

The proof sees a question as a token: `SendTokens` and `ReceiveTokens` say how a
send and a receive move it; the lemmas `Send...` and `Receive...` say what they
leave of each conjunct; `QuietStep`, `QuietSend` and `QuietReceive` cover the
actions that move no token; and a lemma for each of `GetRemote`, `NextValue`,
`HandleGet`, `HandleReply`, `Fetch` and `Answer` covers the others.  `NextInv`
puts them together, `Invariance` is the temporal step.

The refinement of `KVRegister` needs no more invariant.  What is pending for a key
is what `ValuesPut` gathers of a queue, a function of the place in the queue; a
send appends to it (`PutSent`) and a receive takes its head (`PutReceived`), and
the prover gets both by `Gathers`, as the function of a longer queue is not that
of the shorter one.  Of a node's answer there is one at most, by
`OneAnswerInFlight`, so `AnswerTo` is a value that moves from replier to Reply to
slot.  `Fetch` is `Sample`: by `OwnPutsApplied` nothing of the client's is pending.

For the applications there is a statement about the order of puts
(`CausesNext`): let every value rest on some keys, and let a node put a value only
when these are stored, or in the queue of their home, and stored if that home is
the node itself.  Then wherever the value gets, into a map, a message, a replier's
hands or a slot, the keys it rests on are stored or sent, and those homed on the
node where it is are stored, or in front of it in the queue (`Causal`).

**AppsProofs.**  Assumptions: `AppsAssumption` (there are a node, a row in a chunk
and a degree; the applications are among demo, word count and Linus; the rows a
frame may have are a finite set) and `NilAssumption` (`nullptr` is no number, frame, key
or value).  The proof has two halves.

One is about the scripts alone.  `WellScripted` says what matters of one: a node
loads frames that it opened or wrote before, opens a frame of its own after it
wrote it, writes a frame once and before it opens it, does not end with an
open, and stops last, when it has opened of every other node with gets a frame
that this one writes after its last get (but Linus).  `AllScriptsWell` shows this of the
scripts of all three applications, for all nodes and degrees: `Does` is a triple,
of the frames a node knows and has written before a piece of the script, the
piece, and what it knows and has written then; `DoesBoth` puts two pieces one after
the other; and the script of Linus, which grows with the degrees, goes step by
step by `LinusStepDoes`.

The other half is about any scripts that are well.  `ReadInv` is the invariant of
`LocalReadsHit`: the store's `IInv`; `CausesFirst`, the statement above for the
frames, where a schema rests on the chunks of its frame that a reader will load;
and `NodeInv`, that a node has put the chunks of the frame it writes as far as it
got and the schemas of its own that it wrote, knows the rows of exactly the frames it
opened or wrote, and has the chunks of these that are homed on it.  So nobody
acknowledges a put, and yet whoever has the schema, which came through a queue
behind them, finds the chunks of its own node.

`StopInv` adds what `StopIsLast` needs: a schema that is somewhere was written by a
node that has passed the task, so who knows the rows of a frame knows how far its
writer is (`RowsWritten`); hence no node asks or is going to when somebody has
stopped (`OthersQuiet`), and nobody halts before somebody stopped (`StopsFirst`).
For Linus there is no such frame: its last node does not wait for the others, and
the hypothesis is that it slept long enough.  `AppsLinusRace` is the run without it.

**LinusSetsProofs.**  Assumptions: there is a node, `Degrees` is a natural number.
The invariant says of each node at each place of its loop what its sets are, as
sets of the definition `Reached` over all commits (`NodesInStep`), where what is out of
bounds counts in neither, and of each
frame that it holds what belongs under its key (`FramesRight`).  The step that
says most is `NodesFindAll`: what the nodes find from the commits on them is
together what there is to find from all commits, wherever they are stored.  So the
union that node 0 publishes is the set of new elements.

**NetworkIPProofs, TcpNetworkProofs.**  Assumptions: `SizesAssumption`,
`NilAssumption`, `AddressAssumption` (the addresses differ), there is a node.
In `NetworkIP` the invariant is about the wire: what is on a connection are the
next things of its message, counted from what was taken (`Follows`), and all
that the pieces before the current one hold (`SentBefore`); a reader has the
first bytes of its message (`ReadersRight`).  With it a message that is delivered is the
one that was sent.  (A message that fills its chunks exactly, section 6, is never
delivered, which is no matter of safety.)  That the chunks of an array hold its
bytes is an induction on their number, over sets (`ChunksCounted`).  In `Rendezvous` the
invariant says that addresses that go around are right or none, and how far the
registration is (`Rounds`); `Turns` adds that a client which has not got the
Directory got no other message before it, which needs `ServerFirst`; `Counted`,
that the server counts clients and not Registers, so that the Directory is complete.
`ConnectsSucceed` needs `Counted` and `Started` (nobody was ended, and no client is on
before the server): a client registers behind the server's `listen()`, and everybody
else sends only when all have registered, and so listen (`AllListen`).

**NodeThreadsProofs.**  Assumption: `ThreadsAssumption` (the threads differ).
The Replies that are on their way, in the queue or with the servicer, have numbers
that go up, between that of the last one which was put into the slot and that of
the question asked last (`RepliesAhead`).  As there is no question before the last
answer was taken, the slot is empty when `handle_reply()` fills it.  Mutual
exclusion is in the shape of `Monitor`; what matters is what a thread may take for
granted after it woke up (`QueueRight`, `SlotRight`).

**LocalPartsProofs.**  Assumptions: `ChunkSizeAssumption`, `LengthsAssumption`,
`PmapAssumption` (the threads are at most as many as the rows a thread should have
at least, 8 and 500000 in the code), `RowsAssumption`, `LinesAssumption` (which
kinds of fields a line has), `TypesAssumption` (a frame in memory has a column, and
`nullptr` is no cell), `MapAssumption` (keys have hashes, the first array of a map has a
chain, `nullptr` is no key, and so on), `ReadersAssumption` (a reader has a buffer,
`nullptr` is no line, the terminator is neither junk nor a place in the file).  Each part has its own invariant:

* String buffers: until the string is handed out the buffer has room for one
  character more (`RoomLeft`), which is why the terminator has its place.
* Readers: what is loaded is the chunk that the index says as soon as a load was
  enforced (`ReaderInv`), which is only so when there is one column.
* `pmap()`: `RangeRight` says what the rower of each thread has while threads run,
  end and are merged from the last to the first.  That no range is empty
  (`NobodyIdle`) is where `PmapAssumption` is needed: with more threads than `MinRows`
  the division could leave the last one nothing.
* Arrays: `ArrayInv` is small (the ring has its cells, and the elements fit in
  it), the work is in the operators: `Index` and `Offset` are inverse to each other
  around the ring (`RingPlaces`), and `grow_to_fit_()` moves no element, wherever
  the ring begins and inside which chunk it wraps (`GrownItem`).  Then each
  operation is the one of `List` (`AddStep`, `AddAllStep`, `RemoveStep`, `PopStep`,
  `SetStep`, `ClearStep`).
* Writers: chunk k has the rows from `ChunkSize * (k - 1)` on (`ChunkRight`), the
  columns in memory go on where the chunks in the store end (`FillInv`), and each
  type keeps what the type that a guessed field looks like keeps, as a later guess
  keeps what the one before kept (`GuessKeeps`).  A row is then at the place that its
  reader computes (`RowInChunk`).  The theorem is about all files: a text is kept as
  soon as one of the guessed fields of its column is a text without a digit.
* Maps over a distributed frame: what a map has visited is the rows wanted below
  the chunk that comes next (`MapInv`).  The rows wanted are a function of how far the
  map is (`WantedRows`): one more chunk of this node adds its rows behind, any
  other nothing, and the last chunk ends with the frame (`SeenNext`).
* Frames in memory: every column and the row in hand `Fits`, that is, has the
  length, the type and the flags it should, and a dummy stands behind every flag
  (`TableInv`).  With that each operation is the one of `Table`.  Serializing and
  deserializing is a loop over the cells that takes from the values as many as
  there are unflagged (`RoundTrip`), `filter()` one over the rows (`FilterKeeps`).  Only
  for `clone()`, which knows no flags, `~Gaps` is needed, and for `ImplementsTable`
  only: a `nullptr` is flagged in any case.
* The local map: a chain is the least set of keys that has its first and that no
  link leads out of.  `ChainsRight` says of an array that each key with a value is
  in the chain of its bucket and that no link leads back.  While the array is
  replaced, `Moving` says which keys the new one has: those of the chains before
  the one that is moved and, of that chain, those before the node that comes next.
  That no link leads back is what makes a put in front (`PutInFront`) and `remove()`
  (`RemoveTakesOut`) leave the rest of a chain as it is; hence what the map has
  (`MapHas`) changes with a put or a removal only, and not in any step of `rehash_()`.
  A look-up that the map does not grow under keeps its key ahead: a key that was
  there when it began is in the chain behind the node where it is (`OnItsWay`), and
  puts of other keys leave the chain behind a node as it was (`KeepsChains`).

* The reader of lines: the buffer is the bytes that were read behind a byte of the
  file (`Buffered`).  A call is before the first newline of the part (`Skipping`), in
  the line that starts at a byte, of which `_current_line` has what is in front of the
  place in the buffer (`InLine`), or all lines were returned (`AllReturned`).  The
  lines returned are a value of the table `LineTable`, which is the same from one
  newline to the next (`NoLineBefore`, `OneStart`).  `Steady` says that nothing behind
  the part was read; where the part ends before the file does, this needs that all
  reads are of one size and the last one ends with the part.  Here `Orderly` is used;
  without it the reader does read on (`parser.h:255`).
* The reader of words: the buffer is the text from a place on, but for the
  terminators of the words that were handed out (`Held`), and the reader is between
  words, before one, within one or behind one, with the words of the text up to there
  (`Between`, `BeforeWord`, `WithinWord`, `BehindWord`).  The buffer is compacted within
  a word only, which does not fill it (`WordFits`, from `Legible`), so something is
  read each time until the text ends (`FillHolds`).  A text that fills the last
  buffer to its end is noticed to have ended only by a read of nothing, and then
  `skipWhitespace_()` looks at what an older part of the text left in the buffer
  (`LookingBehind`): it stops at some letter or terminator that is there
  (`LetterIsLeft`), behind the end, where `done()` is true.  A text that ends within a
  word is `EndedWithin` from there on: nothing is said but that what was handed out
  before is right.

Only model-checked are the liveness properties: `ENABLED` and fairness are beyond
the prover.

## 6. Where the code disagrees

* **Linus may not stop** (`AppsLinusRace`; `linus.h:217`).  `application.h:36`
  says of `stop_all()` "Halts the application successfully".  The last node of
  Linus calls it 100 ms after its own last merge, without waiting for the
  others.  In the run a middle node has still to fetch the last union from node
  0, whose servicer has taken its Kill: the Get is never handled, and the node
  waits in `next_value()` for ever.  In the model the sleep takes any time, as
  it does on a loaded machine.  When the sleep is long enough (`AppsTogether`) all
  nodes stop.
* **Short reads** (`IPShortRead`; `network-ip.h:178`).  `receive_msg()` counts
  what `read()` returned but gathers as much as it asked for.  On a TCP
  connection `read()` may return less; bytes that were not read then get into
  the message.  The other runs of `NetworkIP` have `ShortReads = FALSE`: they show
  what holds when `read()` returns all it is asked for.
* **Full chunks** (`IPFullChunk`; `network-ip.h:148`).  Of the last allocated
  chunk `size % CHUNK_SIZE` bytes are sent.  A message that fills the allocated
  chunks exactly loses its last chunk, and the receiver waits for it for ever.
  A one-chunk array that is exactly full, 16384 bytes, is such a message.
* **The map is not concurrent** (`MapGrows`; `kvstore.h:62`).  `kvstore-fd.h:17`
  says "Represents a concurrent map from Keys to size_t.", but a replier's
  `contains_key()` and `KVStore::get()` do not take the lock.  In the run the
  servicer's put replaces the array of chains by a new one, and the replier reads
  a cell of it before it was cleared.  Other look-ups read nodes or an array that
  were deleted, or miss a key.  A map of 16384 buckets grows at its 9831st key.
* **A word at the end of a file** (`WordAtEnd`; `wordcount.h:19`).  `accept()`
  "Reads next word and stores it in the row".  When the file ends with the word
  and not with whitespace, `i_` goes one behind the end of the word before the
  zero is written: the word gets one character more, which is a remainder of an
  older buffer, was never written, or lies behind the buffer.

Not reported as disagreements, as no document says otherwise, but kept as
hazards: `add_all()` in front of the end loses an element; with clients that
talk to each other at once (`ServerFirst = FALSE`) a client may take another
message for the Directory; sockets are never closed; a clone of a column of
numbers has no gaps.

Disagreements that have no run of their own:

* *A client before the server* (`network-ip.h:138`).  The code asserts
  `connect(sock, (sockaddr *)&target->address, addrlen) >= 0`.  `init_client()`
  sends its Register at once and only once, and the nodes are started by commands of
  their own (`Makefile:56-63`): a client whose `connect()` comes before the server's
  `listen()` is aborted, and the server waits for its Register for ever.  With
  `StartedInOrder = FALSE` `ConnectsSucceed` fails in this way.
* *The last project* (`linus.h:48`).  `linus.h:11`: "In a well-formed dataset the
  largest pid is equal to the number of projects", and `linus.h:118` "marks all of the
  projects to which a collaborator of Linus committed as an author".  The sets have
  places 0 to the number of projects less one, so the last project of such a dataset
  is never marked, and its users are not found through it.
* *Texts taken for numbers* (`parser.h:443`).  `parser.h:437` "Check if the slice
  consists of only numeric chars" and `parser.h:471` "If there are non-numeric chars
  then this must be a string column"; the code looks for one numeric character.  A
  column in which every guessed text has one becomes a column of numbers, and its
  texts are lost.  `RowsAreLines` allows for it.
* *The second column* (`dataframe.h:353`).  `dataframe.h:347` says of
  `load_if_necessary_()` "Loads data if it is not currently stored in local storage".
  With two columns `must_load_` is reset by the load of the first, and the second
  counts as loaded when its index, which is 0 or was never written, happens to be the
  chunk of the row.  `GetsTheCell` fails with `GetWidths = {2}`.

## 7. What is not modelled

* *Byte formats*: serialization is its own inverse nowhere in the model; a
  message is a record.  Message ids and Status messages, which nobody sends.
* *File descriptors*: no socket of a message is ever closed; the model has
  connections without limit.
* *Bytes behind a message*: the array of a serializer may have grown to twice the
  message, and all its chunks are sent.  The receiver stops at the end of the
  message.  In the run a connection (`SocketSpace`) holds what remains, so
  `send_msg()` returns; a message of which more remains than a socket buffer
  holds would leave its sender blocked in `send()`.
* *Rowers and fielders*: a rower is the rows it was called with.  `Row::visit()`,
  which never says that a field is missing (`rows.h:116`), printing, equality and
  hashes, which change nothing.
* *The trivial application*: one node, no interaction.
* *Characters of a line*: how a field is cut out of a line and turned into a
  number (`StrSlice`); a field is its kind.  Numbers are taken to fit an int or a
  float, and strings `MAX_STRING`, which `parser.h:407` asserts.
* *The queue of `accept()`*: connections are taken to enter it in the order in which
  their `connect()` calls return, on which `ImplementsMailbox` rests, and it is taken
  to have room for all of them.
* *Strings, objects, helpers, command line, test and build files.*
* *Weak memory*: `HashMap` has the interleavings of a look-up and a put, not what a
  compiler or a processor may make of a data race.  In `KVStore` a look-up is atomic.

## 8. Plan

Done: the store with its abstract specification and proofs, the applications
over it, the network, the registration, the threads' locks, Linus's sets, the
ring of chunks, the readers of words and lines, the local map, frames in memory,
how distributed ones are written, read and cached, `pmap()`, string buffers.
What is left is in section 7.

Every safety invariant, every action property and every refinement that a passing
run checks is proved (section 5), but for the properties that state an error of the
code and the liveness properties, which stay with TLC.
