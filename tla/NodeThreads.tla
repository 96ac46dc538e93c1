---------------------------- MODULE NodeThreads ----------------------------
(***************************************************************************)
(* The threads around the two locks of one node: its application, which    *)
(* asks questions and blocks in next_value(); its servicer, which pops the *)
(* messages of its queue and puts the Replies into the slot; and threads   *)
(* of other nodes that push to the queue, one of them the Replies.  What   *)
(* is one step in KVStore (a push, a pop, next_value(), handle_reply()) is *)
(* here as many steps as the code takes, in any interleaving.              *)
(***************************************************************************)
EXTENDS Naturals, Sequences

CONSTANTS
  App, Servicer, \* the threads of the node
  Repliers,      \* stands for the repliers that answer its Gets
  Others,        \* threads that push other messages
  Questions,     \* bound: how many Gets the application sends
  Nobody

ASSUME ThreadsAssumption ==
  /\ App # Servicer /\ App # Repliers /\ Servicer # Repliers
  /\ {App, Servicer, Repliers} \cap Others = {}
  /\ Nobody \notin {App, Servicer, Repliers} \cup Others
  /\ Nobody \notin Nat /\ Questions \in Nat

Senders == Others \cup {Repliers}

VARIABLES
  qOwner, qAsleep, qPc, pushed, queue, received,   \* the queue (MessageQueue)
  sOwner, sAsleep, sPc, asked, replied, cur_value, taken,   \* the slot (AnswerSlot)
  handled    \* how many messages the servicer has handled

queueVars == <<qOwner, qAsleep, qPc, pushed, queue, received>>
slotVars == <<sOwner, sAsleep, sPc, asked, replied, cur_value, taken>>
vars == <<queueVars, slotVars, handled>>

Q == INSTANCE MessageQueue WITH
  Threads <- Senders \cup {Servicer}, Pushes <- Questions,
  owner <- qOwner, asleep <- qAsleep, pc <- qPc

S == INSTANCE AnswerSlot WITH
  Threads <- {App, Servicer}, owner <- sOwner, asleep <- sAsleep, pc <- sPc

Init == Q!Init /\ S!Init /\ handled = 0

-----------------------------------------------------------------------------
OnQueue(action) == action /\ UNCHANGED <<slotVars, handled>>
OnSlot(action) == action /\ UNCHANGED <<queueVars, handled>>

\* get_and_wait_value() sends a Get, which some replier will answer.
Ask == OnSlot(S!Ask)
AppSteps == OnSlot(S!NextValue)

\* The servicer's loop: pop a message, handle it, pop the next one.
Idle == handled = Len(received)
HasReply == ~Idle /\ received[handled + 1].by = Repliers

ReceiveMsg == Idle /\ OnQueue(Q!PopLock(Servicer))
Popping == OnQueue(Q!Popping(Servicer))
HandleReply == HasReply /\ qPc[Servicer] = "out" /\ sPc[Servicer] = "out" /\ OnSlot(S!ReplyLock)
Filling ==
  /\ S!Filling
  /\ handled' = IF sPc[Servicer] = "unlock" THEN handled + 1 ELSE handled
  /\ UNCHANGED queueVars
HandleOther ==
  /\ ~Idle /\ ~HasReply
  /\ qPc[Servicer] = "out"
  /\ handled' = handled + 1
  /\ UNCHANGED <<queueVars, slotVars>>

\* A replier has a Reply to push when there is a Get it has not answered.
BeginReply == pushed[Repliers] < asked /\ OnQueue(Q!PushLock(Repliers))
BeginOther(t) == OnQueue(Q!PushLock(t))
Pushing(t) == OnQueue(Q!Pushing(t))

SpuriousWakeUp == OnSlot(S!SpuriousWakeUp) \/ OnQueue(Q!SpuriousWakeUp(Servicer))

ServicerSteps == ReceiveMsg \/ Popping \/ HandleReply \/ Filling \/ HandleOther

Next ==
  \/ Ask \/ AppSteps
  \/ ServicerSteps
  \/ BeginReply
  \/ \E t \in Others : BeginOther(t)
  \/ \E t \in Senders : Pushing(t)
  \/ SpuriousWakeUp

\* Every thread is scheduled, and one that finds a mutex free again and again gets
\* it.  Nobody need ask or push anything but Replies, and wake-ups without a
\* notification need not happen.
Fairness ==
  /\ WF_vars(AppSteps) /\ SF_vars(OnSlot(S!NextLock)) /\ SF_vars(OnSlot(S!NextWakes))
  /\ WF_vars(ServicerSteps)
  /\ SF_vars(ReceiveMsg) /\ SF_vars(OnQueue(Q!PopWakes(Servicer))) /\ SF_vars(HandleReply)
  /\ SF_vars(BeginReply)
  /\ \A t \in Senders : WF_vars(Pushing(t))

Spec == Init /\ [][Next]_vars /\ Fairness

-----------------------------------------------------------------------------
\* Seen from outside the queue of a node is the inbox of a network: what was
\* pushed is popped once and in order, and nothing is popped that is not there.
QueueIsMailbox == Q!QueueIsMailbox

\* No wake-up of the servicer is lost: every message that was pushed is popped,
\* even if it is the last one that is ever pushed.
EveryPushIsPopped == Q!EveryPushIsPopped

\* next_value() never returns nullptr and gives each question its own answer.
AnswersInOrder == S!AnswersInOrder

\* Every next_value() returns: neither the answer nor the wake-up is lost, whether
\* the Reply is pushed and handled before, while or after the application goes
\* to sleep.
EveryQuestionReturns == S!EveryQuestionReturns

=============================================================================
