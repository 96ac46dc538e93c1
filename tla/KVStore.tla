------------------------------ MODULE KVStore ------------------------------
(***************************************************************************)
(* The distributed key-value store of eau2 (src/eau2/src/store/kvstore.h). *)
(* Every node runs an application thread and a servicer thread; the        *)
(* servicer starts one replier thread per Get it receives.  The threads of *)
(* different nodes talk through one FIFO message queue per node            *)
(* (client/network-pseudo.h, client/message.h).                            *)
(*                                                                         *)
(* A key names its home node.  An application puts and gets values; a put  *)
(* or get of a key of another node becomes a message to the home node.     *)
(* The application then blocks until the answer is in its servicer's       *)
(* single slot cur_value_.                                                 *)
(***************************************************************************)
EXTENDS Naturals, Sequences

CONSTANTS
  NumNodes,   \* arg.num_nodes: how many nodes the program is started with
  Keys,       \* the keys the applications use
  Home,       \* key |-> the node that stores it (Key::node_)
  Data,       \* what tells apart two values stored under one key
  Nil         \* nullptr: no value

Nodes == 0 .. NumNodes - 1

\* A value is tagged with the key it was stored under, so that an answer can
\* be told from the answer to another question.
Blob == [of : Keys, data : Data]

ASSUME NumNodesAssumption == NumNodes \in Nat \ {0}
ASSUME HomeAssumption == Home \in [Keys -> Nodes]
ASSUME NilAssumption == Nil \notin Keys /\ Nil \notin Blob

\* The target of a message is the queue it is in.
Message ==
       [kind : {"Put", "Reply"}, sender : Nodes, key : Keys, value : Blob]
  \cup [kind : {"Get"}, sender : Nodes, key : Keys, value : {Nil}]
  \cup [kind : {"Kill"}, sender : Nodes, key : {Nil}, value : {Nil}]

\* A replier thread of node `at`; it polls while its value is Nil.
Replier == [at : Nodes, client : Nodes, key : Keys, value : Blob \cup {Nil}]

\* Where an application is: before start(), in run_(), in next_value() of a
\* remote get, in stop_all(), in wait_to_close(), or past it.
Phase == {"new", "run", "await", "stop", "joining", "closed"}

VARIABLES
  queues,     \* node |-> the messages sent to it, oldest first
  store,      \* node |-> key |-> the value in its local map, or Nil
  cur,        \* node |-> the slot cur_value_ of its servicer
  repliers,   \* the replier threads that have not finished
  running,    \* node |-> its servicer thread is in its receive loop
  phase,      \* node |-> the phase of its application thread
  want,       \* node |-> the key of its last remote get
  got,        \* node |-> the value its last get returned
  toKill      \* node |-> the nodes its stop_all() has still to send a Kill

vars == <<queues, store, cur, repliers, running, phase, want, got, toKill>>
servicerVars == <<cur, repliers, running>>
appVars == <<phase, want, got, toKill>>

Init ==
  /\ queues = [n \in Nodes |-> <<>>]
  /\ store = [n \in Nodes |-> [k \in Keys |-> Nil]]
  /\ cur = [n \in Nodes |-> Nil]
  /\ repliers = {}
  /\ running = [n \in Nodes |-> FALSE]
  /\ phase = [n \in Nodes |-> "new"]
  /\ want = [n \in Nodes |-> Nil]
  /\ got = [n \in Nodes |-> Nil]
  /\ toKill = [n \in Nodes |-> {}]

-----------------------------------------------------------------------------
\* Messages

PutMessage(n, k, b) == [kind |-> "Put", sender |-> n, key |-> k, value |-> b]
GetMessage(n, k) == [kind |-> "Get", sender |-> n, key |-> k, value |-> Nil]
ReplyMessage(n, k, b) ==
  [kind |-> "Reply", sender |-> n, key |-> k, value |-> b]
KillMessage(n) == [kind |-> "Kill", sender |-> n, key |-> Nil, value |-> Nil]

\* send_msg: append to the target's queue.
Send(target, m) == queues' = [queues EXCEPT ![target] = Append(@, m)]

\* receive_msg in the loop of the servicer of n: the oldest message, of the
\* kind the handler is for.
Receive(n, kind) ==
  /\ running[n]
  /\ queues[n] # <<>>
  /\ Head(queues[n]).kind = kind
  /\ queues' = [queues EXCEPT ![n] = Tail(@)]

StoreLocally(n, k, b) == store' = [store EXCEPT ![n][k] = b]

-----------------------------------------------------------------------------
\* The application thread

Start(n) ==
  /\ phase[n] = "new"
  /\ phase' = [phase EXCEPT ![n] = "run"]
  /\ running' = [running EXCEPT ![n] = TRUE]
  /\ UNCHANGED <<queues, store, cur, repliers, want, got, toKill>>

\* A put of a key homed elsewhere only sends it: nobody acknowledges it.
Put(n, k, d) ==
  LET b == [of |-> k, data |-> d]
  IN  /\ phase[n] = "run"
      /\ \/ /\ Home[k] = n
            /\ StoreLocally(n, k, b)
            /\ UNCHANGED queues
         \/ /\ Home[k] # n
            /\ Send(Home[k], PutMessage(n, k, b))
            /\ UNCHANGED store
      /\ UNCHANGED <<servicerVars, appVars>>

\* A get of a key homed here does not wait: it asserts that the key is there.
GetLocal(n, k) ==
  /\ phase[n] = "run"
  /\ Home[k] = n
  /\ store[n][k] # Nil
  /\ got' = [got EXCEPT ![n] = store[n][k]]
  /\ UNCHANGED <<queues, store, servicerVars, phase, want, toKill>>

GetRemote(n, k) ==
  /\ phase[n] = "run"
  /\ Home[k] # n
  /\ Send(Home[k], GetMessage(n, k))
  /\ phase' = [phase EXCEPT ![n] = "await"]
  /\ want' = [want EXCEPT ![n] = k]
  /\ UNCHANGED <<store, servicerVars, got, toKill>>

\* Mutation: next_value() forgets to empty the slot.
NextValueKeepsSlot(n) ==
  /\ phase[n] = "await"
  /\ cur[n] # Nil
  /\ got' = [got EXCEPT ![n] = cur[n]]
  /\ phase' = [phase EXCEPT ![n] = "run"]
  /\ UNCHANGED <<queues, store, servicerVars, want, toKill>>

\* next_value(): blocks on the condition variable until the slot is filled.
NextValue(n) ==
  /\ phase[n] = "await"
  /\ cur[n] # Nil
  /\ got' = [got EXCEPT ![n] = cur[n]]
  /\ cur' = [cur EXCEPT ![n] = Nil]
  /\ phase' = [phase EXCEPT ![n] = "run"]
  /\ UNCHANGED <<queues, store, repliers, running, want, toKill>>

\* Mutation: stop_all() leaves its own servicer running.
StopOthers(n) ==
  /\ phase[n] = "run"
  /\ phase' = [phase EXCEPT ![n] = "stop"]
  /\ toKill' = [toKill EXCEPT ![n] = Nodes \ {n}]
  /\ UNCHANGED <<queues, store, servicerVars, want, got>>

StopAll(n) ==
  /\ phase[n] = "run"
  /\ phase' = [phase EXCEPT ![n] = "stop"]
  /\ toKill' = [toKill EXCEPT ![n] = Nodes]
  /\ UNCHANGED <<queues, store, servicerVars, want, got>>

\* The loop of stop_all(): the other nodes in ascending order, then n itself.
KillComesNext(n, i) == \A j \in toKill[n] : j = n \/ (i # n /\ i <= j)

SendKill(n) ==
  /\ phase[n] = "stop"
  /\ \E i \in toKill[n] :
       /\ KillComesNext(n, i)
       /\ Send(i, KillMessage(n))
       /\ toKill' = [toKill EXCEPT ![n] = @ \ {i}]
       /\ phase' = [phase EXCEPT ![n] = IF i = n THEN "joining" ELSE "stop"]
  /\ UNCHANGED <<store, servicerVars, want, got>>

\* run_() returns on a node that does not call stop_all().
FinishRun(n) ==
  /\ phase[n] = "run"
  /\ phase' = [phase EXCEPT ![n] = "joining"]
  /\ UNCHANGED <<queues, store, servicerVars, want, got, toKill>>

\* wait_to_close(): joins the servicer, then deletes it, which joins every
\* replier it started.
Close(n) ==
  /\ phase[n] = "joining"
  /\ ~running[n]
  /\ \A r \in repliers : r.at # n
  /\ phase' = [phase EXCEPT ![n] = "closed"]
  /\ UNCHANGED <<queues, store, servicerVars, want, got, toKill>>

-----------------------------------------------------------------------------
\* The servicer thread

\* Mutation: a put does not replace a value that is already there.
HandlePutFirstWins(n) ==
  LET m == Head(queues[n])
  IN  /\ Receive(n, "Put")
      /\ IF store[n][m.key] = Nil THEN StoreLocally(n, m.key, m.value)
                                  ELSE UNCHANGED store
      /\ UNCHANGED <<servicerVars, appVars>>

HandlePut(n) ==
  LET m == Head(queues[n])
  IN  /\ Receive(n, "Put")
      /\ StoreLocally(n, m.key, m.value)
      /\ UNCHANGED <<servicerVars, appVars>>

NewReplier(n, m) ==
  [at |-> n, client |-> m.sender, key |-> m.key, value |-> Nil]

\* Mutation: a Get overtakes the messages before it in the queue.
HandleGetFirst(n) ==
  /\ running[n]
  /\ \E i \in 1 .. Len(queues[n]) :
       /\ queues[n][i].kind = "Get"
       /\ repliers' = repliers \cup {NewReplier(n, queues[n][i])}
       /\ queues' = [queues EXCEPT ![n] = SubSeq(@, 1, i - 1)
                                          \o SubSeq(@, i + 1, Len(@))]
  /\ UNCHANGED <<store, cur, running, appVars>>

HandleGet(n) ==
  /\ Receive(n, "Get")
  /\ repliers' = repliers \cup {NewReplier(n, Head(queues[n]))}
  /\ UNCHANGED <<store, cur, running, appVars>>

\* The slot is overwritten, whatever it holds and whoever waits.
HandleReply(n) ==
  /\ Receive(n, "Reply")
  /\ cur' = [cur EXCEPT ![n] = Head(queues[n]).value]
  /\ UNCHANGED <<store, repliers, running, appVars>>

\* The messages behind a Kill are never received.
HandleKill(n) ==
  /\ Receive(n, "Kill")
  /\ running' = [running EXCEPT ![n] = FALSE]
  /\ UNCHANGED <<store, cur, repliers, appVars>>

Servicer(n) == HandlePut(n) \/ HandleGet(n) \/ HandleReply(n) \/ HandleKill(n)

-----------------------------------------------------------------------------
\* The replier threads.  One outlives the receive loop of its servicer and
\* is joined by wait_to_close().

\* Mutation: the replier looks for its key once and gives up.
FetchOnce(r) ==
  /\ r.value = Nil
  /\ repliers' = (repliers \ {r}) \cup
       (IF store[r.at][r.key] = Nil
          THEN {}
          ELSE {[r EXCEPT !.value = store[r.at][r.key]]})
  /\ UNCHANGED <<queues, store, cur, running, appVars>>

\* A poll that finds the key, and the read of its value.  A poll that does
\* not find it changes nothing.
Fetch(r) ==
  /\ r.value = Nil
  /\ store[r.at][r.key] # Nil
  /\ repliers' =
       (repliers \ {r}) \cup {[r EXCEPT !.value = store[r.at][r.key]]}
  /\ UNCHANGED <<queues, store, cur, running, appVars>>

\* Mutation: the replier goes on polling after it has answered.
AnswerAgain(r) ==
  /\ r.value # Nil
  /\ Send(r.client, ReplyMessage(r.at, r.key, r.value))
  /\ repliers' = (repliers \ {r}) \cup {[r EXCEPT !.value = Nil]}
  /\ UNCHANGED <<store, cur, running, appVars>>

\* Mutation: the replier does not wait for its key.
AnswerAtOnce(r) ==
  /\ Send(r.client, ReplyMessage(r.at, r.key, store[r.at][r.key]))
  /\ repliers' = repliers \ {r}
  /\ UNCHANGED <<store, cur, running, appVars>>

Answer(r) ==
  /\ r.value # Nil
  /\ Send(r.client, ReplyMessage(r.at, r.key, r.value))
  /\ repliers' = repliers \ {r}
  /\ UNCHANGED <<store, cur, running, appVars>>

ReplierFor(n) == \E r \in repliers : r.client = n /\ (Fetch(r) \/ Answer(r))

-----------------------------------------------------------------------------
\* What an application may choose to do, and what the threads do by themselves.
Operation(n) ==
  \/ \E k \in Keys, d \in Data : Put(n, k, d)
  \/ \E k \in Keys : GetLocal(n, k) \/ GetRemote(n, k)
  \/ StopAll(n)
  \/ FinishRun(n)

Background(n) ==
  \/ Start(n)
  \/ NextValue(n)
  \/ SendKill(n)
  \/ Close(n)
  \/ Servicer(n)
  \/ ReplierFor(n)

Next == \E n \in Nodes : Operation(n) \/ Background(n)

\* Every thread that can run is eventually scheduled; a replier polls every
\* 10 ms until it finds its key.  An application need not do any operation.
Fairness ==
  \A n \in Nodes :
    /\ WF_vars(Start(n))
    /\ WF_vars(NextValue(n))
    /\ WF_vars(SendKill(n))
    /\ WF_vars(Close(n))
    /\ WF_vars(Servicer(n))
    /\ WF_vars(ReplierFor(n))

Spec == Init /\ [][Next]_vars
FairSpec == Spec /\ Fairness

-----------------------------------------------------------------------------
\* Where the one question of a waiting node can be: a Get in a queue, a replier,
\* a Reply in its queue, or the value in its slot.
GetAt(n, h, i) == queues[h][i].kind = "Get" /\ queues[h][i].sender = n
ReplyAt(n, i) == queues[n][i].kind = "Reply"

Asked(n) == \E h \in Nodes : \E i \in 1 .. Len(queues[h]) : GetAt(n, h, i)
Served(n) == \E r \in repliers : r.client = n
Replied(n) == \E i \in 1 .. Len(queues[n]) : ReplyAt(n, i)
Filled(n) == cur[n] # Nil

\* Every variable has its type.  A Put or a Reply carries a value, a Get and a
\* Kill carry none, and a filled slot or store entry is a whole value.
TypeOK ==
  /\ queues \in [Nodes -> Seq(Message)]
  /\ store \in [Nodes -> [Keys -> Blob \cup {Nil}]]
  /\ cur \in [Nodes -> Blob \cup {Nil}]
  /\ repliers \subseteq Replier
  /\ running \in [Nodes -> BOOLEAN]
  /\ phase \in [Nodes -> Phase]
  /\ want \in [Nodes -> Keys \cup {Nil}]
  /\ got \in [Nodes -> Blob \cup {Nil}]
  /\ toKill \in [Nodes -> SUBSET Nodes]

\* The servicer has one slot for all answers and handle_reply() overwrites it.
\* That is safe because of a node's Get, replier, Reply and filled slot there is
\* at most one at any time,
OneAtATime ==
  \A n \in Nodes :
    /\ Asked(n) => ~Served(n) /\ ~Replied(n) /\ ~Filled(n)
    /\ Served(n) => ~Replied(n) /\ ~Filled(n)
    /\ Replied(n) => ~Filled(n)

\* no kind occurs twice,
OneGet ==
  \A n, h, g \in Nodes : \A i \in 1 .. Len(queues[h]), j \in 1 .. Len(queues[g]) :
    GetAt(n, h, i) /\ GetAt(n, g, j) => h = g /\ i = j
OneReply ==
  \A n \in Nodes : \A i, j \in 1 .. Len(queues[n]) :
    ReplyAt(n, i) /\ ReplyAt(n, j) => i = j
OneReplier == \A r, s \in repliers : r.client = s.client => r = s

\* and there is one exactly while the application waits in next_value().
OneWhileWaiting ==
  \A n \in Nodes :
    (phase[n] = "await") <=> (Asked(n) \/ Served(n) \/ Replied(n) \/ Filled(n))

\* A remote get is never lost, duplicated or left behind by an earlier one.
OneAnswerInFlight ==
  OneAtATime /\ OneGet /\ OneReply /\ OneReplier /\ OneWhileWaiting

\* Everything that is stored or under way under a key was put under that key,
\* at the home of the key.
StoreKept ==
  \A n \in Nodes, k \in Keys :
    store[n][k] # Nil => store[n][k].of = k /\ Home[k] = n
MessageKept(h, m) ==
  /\ m.kind \in {"Put", "Get"} => Home[m.key] = h
  /\ m.kind \in {"Put", "Reply"} => m.value.of = m.key
QueuesKept ==
  \A h \in Nodes : \A i \in 1 .. Len(queues[h]) : MessageKept(h, queues[h][i])
RepliersKept ==
  \A r \in repliers :
    Home[r.key] = r.at /\ (r.value # Nil => r.value.of = r.key)

KeptUnderItsKey == StoreKept /\ QueuesKept /\ RepliersKept

\* next_value() hands out whatever is in the slot without looking at the key it
\* belongs to.  What is under way for a waiting node is always about the key
\* it waits for.
GetForTheKey ==
  \A n, h \in Nodes : \A i \in 1 .. Len(queues[h]) :
    GetAt(n, h, i) => queues[h][i].key = want[n]
ReplierForTheKey == \A r \in repliers : r.key = want[r.client]
ReplyForTheKey ==
  \A n \in Nodes : \A i \in 1 .. Len(queues[n]) :
    ReplyAt(n, i) => queues[n][i].key = want[n]
SlotForTheKey == \A n \in Nodes : Filled(n) => cur[n].of = want[n]

AnswerIsForTheKey ==
  GetForTheKey /\ ReplierForTheKey /\ ReplyForTheKey /\ SlotForTheKey

\* A put is not acknowledged, yet a node reads its own writes: its Put messages
\* for the home it asks are in front of its Get, and are applied before a
\* replier looks for the key.
PutAt(n, h, i) == queues[h][i].kind = "Put" /\ queues[h][i].sender = n
PutsBeforeGet ==
  \A n, h \in Nodes : \A i, j \in 1 .. Len(queues[h]) :
    PutAt(n, h, i) /\ GetAt(n, h, j) => i < j
OwnPutsApplied ==
  \A n \in Nodes :
    Served(n) \/ Replied(n) \/ Filled(n) =>
      \A i \in 1 .. Len(queues[Home[want[n]]]) : ~PutAt(n, Home[want[n]], i)

ReadYourWrites == PutsBeforeGet /\ OwnPutsApplied

\* handle_reply() fills an empty slot, and only that of an application that is
\* waiting for this very key: no answer is overwritten, none comes unasked.
SlotFilledInTurn ==
  \A n \in Nodes : cur'[n] \notin {cur[n], Nil} =>
    cur[n] = Nil /\ phase[n] = "await" /\ cur'[n].of = want[n]

NoAnswerLost == [][SlotFilledInTurn]_vars

\* A remote get returns once its key is there, as long as the servicers of the
\* asking node and of the key's home have not been killed.
GetReturns ==
  \A n \in Nodes :
    (phase[n] = "await" /\ store[Home[want[n]]][want[n]] # Nil)
      ~> (phase[n] # "await" \/ ~running[n] \/ ~running[Home[want[n]]])

\* When stop_all() was called and every application is out of run_(), every node
\* gets through wait_to_close(): a Kill reaches each servicer, and no replier
\* is left to be joined that waits for a key nobody will put.
ShutdownCompletes ==
  (/\ \A n \in Nodes : phase[n] \in {"stop", "joining", "closed"}
   /\ \E n \in Nodes : phase[n] = "stop")
    ~> (\A n \in Nodes : phase[n] = "closed")

-----------------------------------------------------------------------------
\* The register specification the store implements.

IsPutOf(m, n, k) == m.kind = "Put" /\ m.sender = n /\ m.key = k

\* The values that n puts under k with the messages ms.
ValuesPut(ms, n, k) ==
  LET among[i \in 0 .. Len(ms)] ==
        IF i = 0 THEN <<>>
        ELSE IF IsPutOf(ms[i], n, k) THEN Append(among[i - 1], ms[i].value)
        ELSE among[i - 1]
  IN  among[Len(ms)]

\* The puts of k by n that the home of k has not applied.
Pending(n, k) == ValuesPut(queues[Home[k]], n, k)

\* The values an answer to n carries, wherever it is.
AnswersTo(n) ==
  ({cur[n]}
     \cup {queues[n][i].value : i \in {j \in 1 .. Len(queues[n]) : ReplyAt(n, j)}}
     \cup {r.value : r \in {s \in repliers : s.client = n}}) \ {Nil}
OneOf(S) == CHOOSE v \in S : TRUE
AnswerTo(n) == IF AnswersTo(n) = {} THEN Nil ELSE OneOf(AnswersTo(n))

Register == INSTANCE KVRegister WITH
  Values <- Blob,
  db <- [k \in Keys |-> store[Home[k]][k]],
  pending <- [n \in Nodes |-> [k \in Keys |-> Pending(n, k)]],
  asking <- [n \in Nodes |-> IF phase[n] = "await" THEN want[n] ELSE Nil],
  answer <- [n \in Nodes |-> AnswerTo(n)],
  got <- got

\* Seen from the applications the store is a register per key: puts of one node
\* take effect in the order they were made, and a get returns a value the
\* register held between the call and the return, never one older than the
\* caller's own puts.
ImplementsRegister == Register!Spec

=============================================================================
