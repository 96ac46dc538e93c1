---------------------------- MODULE MessageQueue ----------------------------
(***************************************************************************)
(* ConcurrentMessageQueue (client/message.h), the inbox of a node in the   *)
(* pseudo network: any thread of any node pushes, the servicer of the node *)
(* pops and blocks while there is nothing.  NodeThreads says when a thread *)
(* begins to do so.                                                        *)
(***************************************************************************)
EXTENDS Monitor, Naturals, Sequences

CONSTANTS
  Servicer,  \* the thread that pops
  Pushes     \* bound: how many messages a thread pushes

Senders == Threads \ {Servicer}
Messages == [by : Senders, no : 1 .. Pushes]

VARIABLES
  pc,        \* thread |-> where it is in push() or pop()
  pushed,    \* sender |-> how many messages it has pushed
  queue,     \* the elements of the queue
  received   \* what pop() has returned, oldest first

queueVars == <<pushed, queue, received>>
vars == <<monitorVars, pc, queueVars>>

Init ==
  /\ MonitorInit
  /\ pc = [t \in Threads |-> "out"]
  /\ pushed = [t \in Senders |-> 0]
  /\ queue = <<>>
  /\ received = <<>>

GoTo(t, label) == pc' = [pc EXCEPT ![t] = label]

-----------------------------------------------------------------------------
\* push()

PushLock(t) ==
  /\ pc[t] = "out"
  /\ pushed[t] < Pushes
  /\ Lock(t)
  /\ GoTo(t, "append")
  /\ UNCHANGED queueVars

\* Mutation: nobody is notified.
PushInSilence(t) ==
  /\ pc[t] = "append"
  /\ pushed' = [pushed EXCEPT ![t] = @ + 1]
  /\ queue' = Append(queue, [by |-> t, no |-> pushed[t] + 1])
  /\ GoTo(t, "unlock")
  /\ UNCHANGED <<monitorVars, received>>

Push(t) ==
  /\ pc[t] = "append"
  /\ pushed' = [pushed EXCEPT ![t] = @ + 1]
  /\ queue' = Append(queue, [by |-> t, no |-> pushed[t] + 1])
  /\ NotifyAll(t)
  /\ GoTo(t, "unlock")
  /\ UNCHANGED received

-----------------------------------------------------------------------------
\* pop(), by t = Servicer

PopLock(t) ==
  /\ pc[t] = "out"
  /\ Lock(t)
  /\ GoTo(t, "test")
  /\ UNCHANGED queueVars

\* while (size() == 0) wait();
PopWait(t) ==
  /\ pc[t] = "test"
  /\ queue = <<>>
  /\ Wait(t)
  /\ GoTo(t, "wait")
  /\ UNCHANGED queueVars

\* Mutation: the condition is not tested again after wait().
PopWakesToTake(t) ==
  /\ pc[t] = "wait"
  /\ Lock(t)
  /\ GoTo(t, "take")
  /\ UNCHANGED queueVars

PopWakes(t) ==
  /\ pc[t] = "wait"
  /\ Lock(t)
  /\ GoTo(t, "test")
  /\ UNCHANGED queueVars

PopFound(t) ==
  /\ pc[t] = "test"
  /\ queue # <<>>
  /\ GoTo(t, "take")
  /\ UNCHANGED <<monitorVars, queueVars>>

\* Queue::pop() does not look whether there is an element.  Of an empty queue it
\* returns whatever is in the array.
Take(t) ==
  /\ pc[t] = "take"
  /\ received' = Append(received, IF queue = <<>> THEN Nobody ELSE Head(queue))
  /\ queue' = IF queue = <<>> THEN <<>> ELSE Tail(queue)
  /\ GoTo(t, "unlock")
  /\ UNCHANGED <<monitorVars, pushed>>

Leave(t) ==
  /\ pc[t] = "unlock"
  /\ Unlock(t)
  /\ GoTo(t, "out")
  /\ UNCHANGED queueVars

SpuriousWakeUp(t) == WakeUp(t) /\ UNCHANGED <<pc, queueVars>>

-----------------------------------------------------------------------------
Pushing(t) == Push(t) \/ Leave(t)
Popping(t) == PopWait(t) \/ PopWakes(t) \/ PopFound(t) \/ Take(t) \/ Leave(t)

-----------------------------------------------------------------------------
\* The queue is the inbox of a network: what was pushed is popped once and in
\* order, and never is something popped that was not pushed.
Mail == INSTANCE Mailbox WITH
  Nodes <- {Servicer},
  inbox <- [n \in {Servicer} |-> queue],
  received <- [n \in {Servicer} |-> received]

QueueIsMailbox == Mail!Spec

\* No wake-up is lost: every message that was pushed is popped, even if it is the
\* last one that is ever pushed.
EveryPushIsPopped ==
  \A k \in 1 .. Pushes : \A t \in Senders :
    (pushed[t] >= k) ~> (\E i \in 1 .. Len(received) : received[i] = [by |-> t, no |-> k])

=============================================================================
