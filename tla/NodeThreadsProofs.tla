------------------------- MODULE NodeThreadsProofs -------------------------
(***************************************************************************)
(* Proofs about NodeThreads for any number of threads and questions: the   *)
(* queue is a mailbox, and every question gets its own answer.             *)
(***************************************************************************)
EXTENDS NodeThreads, TLAPS

\* What was pushed to the queue, oldest first.
All == received \o queue

\* How many of the messages the servicer has popped no longer change the slot.
Settled == IF sPc[Servicer] = "unlock" THEN handled + 1 ELSE handled

Message == [by : Senders, no : 1 .. Questions]

QueueLabels == {"out", "append", "test", "wait", "take", "unlock"}
SlotLabels == {"out", "lock", "test", "wait", "take", "fill", "unlock"}

Types ==
  /\ qPc \in [Senders \cup {Servicer} -> QueueLabels]
  /\ sPc \in [{App, Servicer} -> SlotLabels]
  /\ pushed \in [Senders -> Nat]
  /\ queue \in Seq(Message) /\ received \in Seq(Message)
  /\ asked \in Nat /\ replied \in Nat /\ handled \in Nat
  /\ cur_value \in Nat \cup {Nobody}
  /\ taken \in Seq(Nat)

\* A thread that has the queue to itself to push is one that may, and one that is
\* about to pop finds something.
QueueRight ==
  /\ \A t \in Senders : qPc[t] = "append" => pushed[t] < Questions
  /\ qPc[Servicer] = "take" => queue # <<>>

\* The servicer handles the message it popped last, before it pops again.
Handling ==
  /\ handled <= Len(received) /\ Len(received) <= handled + 1
  /\ qPc[Servicer] \in {"test", "wait", "take"} => Idle
  /\ sPc[Servicer] # "out" => HasReply /\ qPc[Servicer] = "out"

\* The Replies that are still to be put into the slot have numbers that go up, beyond
\* that of the last one that was, and no Reply comes before its question.
RepliesAhead ==
  /\ replied <= pushed[Repliers] /\ pushed[Repliers] <= asked
  /\ qPc[Repliers] = "append" => pushed[Repliers] < asked
  /\ \A i \in 1 .. Len(All) : All[i].by = Repliers => All[i].no <= pushed[Repliers]
  /\ \A i \in 1 .. Len(All) : All[i].by = Repliers /\ i > Settled => replied < All[i].no
  /\ \A i, j \in 1 .. Len(All) :
       All[i].by = Repliers /\ All[j].by = Repliers /\ i < j => All[i].no < All[j].no

\* The slot holds the answer that was put there last until it is taken.
SlotRight ==
  /\ cur_value = Nobody => Len(taken) = replied
  /\ cur_value # Nobody => cur_value = replied /\ Len(taken) + 1 = replied
  /\ sPc[App] = "take" => cur_value # Nobody

IInv == Types /\ QueueRight /\ Handling /\ RepliesAhead /\ SlotRight /\ AnswersInOrder

USE DEF QueueLabels, SlotLabels

LEMMA Apart ==
  /\ App # Servicer /\ App # Repliers /\ Servicer # Repliers
  /\ Servicer \notin Senders /\ App \notin Senders /\ Repliers \in Senders
  /\ Repliers \notin Others /\ Nobody \notin Nat /\ Questions \in Nat
  /\ Q!Senders = Senders /\ Q!Messages = Message
BY ThreadsAssumption DEF Senders, Q!Senders, Q!Messages, Message

LEMMA AllFacts ==
  ASSUME Types
  PROVE  /\ All \in Seq(Message) /\ Len(All) = Len(received) + Len(queue)
         /\ \A i \in 1 .. Len(received) : All[i] = received[i]
         /\ \A i \in 1 .. Len(All) : All[i] \in Message /\ All[i].by \in Senders /\ All[i].no \in Nat
<1>1. received \in Seq(Message) /\ queue \in Seq(Message)
  BY DEF Types
<1>2. All \in Seq(Message) /\ Len(All) = Len(received) + Len(queue)
      /\ \A i \in 1 .. Len(received) : All[i] = received[i]
  BY <1>1 DEF All
<1>3. ASSUME NEW m \in Message PROVE m.by \in Senders /\ m.no \in Nat
  BY Apart DEF Message
<1>4. \A i \in 1 .. Len(All) : All[i] \in Message
  BY <1>2
<1> QED
  BY <1>2, <1>3, <1>4

LEMMA InitInv == ASSUME Init PROVE IInv
<1> USE DEF Init, Q!Init, S!Init
<1>1. Types
  BY Apart DEF Types, Q!MonitorInit, S!MonitorInit
<1>2. QueueRight
  BY Apart DEF QueueRight
<1>3. Handling
  BY Apart DEF Handling
<1>4. RepliesAhead
  <2>1. Len(All) = 0
    BY DEF All
  <2>2. pushed[Repliers] = 0 /\ replied = 0 /\ asked = 0 /\ qPc[Repliers] = "out"
    BY Apart
  <2> QED
    BY <2>1, <2>2 DEF RepliesAhead
<1>5. SlotRight
  BY Apart DEF SlotRight
<1>6. AnswersInOrder
  BY DEF AnswersInOrder, S!AnswersInOrder
<1> QED
  BY <1>1, <1>2, <1>3, <1>4, <1>5, <1>6 DEF IInv

-----------------------------------------------------------------------------
\* The steps of the application.

\* They change nothing but the slot, and of it not what the servicer keeps there.
LEMMA AppKeeps ==
  ASSUME IInv, UNCHANGED <<queueVars, handled, replied>>, asked' \in Nat, asked <= asked',
         NEW l \in SlotLabels \ {"fill"},
         sPc' = [sPc EXCEPT ![App] = l]
  PROVE  /\ QueueRight' /\ Handling' /\ RepliesAhead'
         /\ sPc'[App] = l /\ sPc' \in [{App, Servicer} -> SlotLabels]
<1>1. sPc'[App] = l /\ sPc'[Servicer] = sPc[Servicer]
      /\ sPc' \in [{App, Servicer} -> SlotLabels]
  BY Apart DEF IInv, Types
<1>2. QueueRight'
  BY DEF IInv, QueueRight, queueVars
<1>3. Handling'
  BY <1>1 DEF IInv, Handling, Idle, HasReply, queueVars
<1>4. All' = All /\ Settled' = Settled /\ UNCHANGED <<pushed, qPc, replied>>
  BY <1>1 DEF All, Settled, queueVars
<1>5. pushed[Repliers] \in Nat /\ asked \in Nat
  BY Apart DEF IInv, Types
<1>6. RepliesAhead'
  BY <1>4, <1>5 DEF IInv, RepliesAhead
<1> QED
  BY <1>1, <1>2, <1>3, <1>6

LEMMA AskKeeps == ASSUME IInv, Ask PROVE IInv'
<1>1. /\ sPc[App] = "out" /\ asked' = asked + 1 /\ asked \in Nat /\ taken \in Seq(Nat)
      /\ sPc' = [sPc EXCEPT ![App] = "lock"]
      /\ UNCHANGED <<replied, cur_value, taken, queueVars, handled>>
  BY DEF Ask, OnSlot, S!Ask, S!GoTo, IInv, Types
<1>2. /\ QueueRight' /\ Handling' /\ RepliesAhead' /\ sPc'[App] = "lock"
      /\ sPc' \in [{App, Servicer} -> SlotLabels]
  <2>1. asked' \in Nat /\ asked <= asked' /\ "lock" \in SlotLabels \ {"fill"}
    BY <1>1
  <2> QED
    BY <1>1, <2>1, AppKeeps
<1>3. Types'
  BY <1>1, <1>2 DEF IInv, Types, queueVars
<1>4. SlotRight'
  BY <1>1, <1>2 DEF IInv, SlotRight
<1>5. AnswersInOrder'
  BY <1>1, <1>2 DEF IInv, AnswersInOrder, S!AnswersInOrder
<1> QED
  BY <1>2, <1>3, <1>4, <1>5 DEF IInv

LEMMA AppStepsKeep == ASSUME IInv, AppSteps PROVE IInv'
<1> USE DEF AppSteps, OnSlot
<1>1. CASE S!Take
  <2>1. /\ sPc[App] = "take" /\ taken' = Append(taken, cur_value) /\ cur_value' = Nobody
        /\ sPc' = [sPc EXCEPT ![App] = "unlock"]
        /\ UNCHANGED <<asked, replied, queueVars, handled>>
        /\ taken \in Seq(Nat) /\ asked \in Nat
    BY <1>1 DEF S!Take, S!GoTo, IInv, Types
  <2>2. cur_value \in Nat /\ cur_value = replied /\ Len(taken) + 1 = cur_value
    BY <2>1 DEF IInv, Types, SlotRight
  <2>3. /\ QueueRight' /\ Handling' /\ RepliesAhead' /\ sPc'[App] = "unlock"
        /\ sPc' \in [{App, Servicer} -> SlotLabels]
    <3>1. asked' \in Nat /\ asked <= asked' /\ "unlock" \in SlotLabels \ {"fill"}
      BY <2>1
    <3> QED
      BY <2>1, <3>1, AppKeeps
  <2>4. taken' \in Seq(Nat) /\ Len(taken') = cur_value
    BY <2>1, <2>2
  <2>5. \A i \in 1 .. Len(taken') : taken'[i] = i
    BY <2>1, <2>2 DEF IInv, AnswersInOrder, S!AnswersInOrder
  <2>6. cur_value <= asked
    BY <2>2, Apart DEF IInv, Types, RepliesAhead
  <2>7. Len(taken') = asked
    BY <2>1, <2>2, <2>4, <2>6 DEF IInv, AnswersInOrder, S!AnswersInOrder
  <2>8. Types'
    BY <2>1, <2>3, <2>4 DEF IInv, Types, queueVars
  <2>9. SlotRight'
    BY <2>1, <2>2, <2>3, <2>4 DEF SlotRight
  <2>10. AnswersInOrder'
    BY <2>1, <2>5, <2>7 DEF AnswersInOrder, S!AnswersInOrder
  <2> QED
    BY <2>3, <2>8, <2>9, <2>10 DEF IInv
<1>2. ASSUME NEW l \in {"out", "test", "wait", "take"}, sPc' = [sPc EXCEPT ![App] = l],
             UNCHANGED <<asked, replied, cur_value, taken, queueVars, handled>>,
             l = "take" => cur_value # Nobody, l = "out" => sPc[App] = "unlock",
             sPc[App] # "out"
      PROVE  IInv'
  <2>1. /\ QueueRight' /\ Handling' /\ RepliesAhead' /\ sPc'[App] = l
        /\ sPc' \in [{App, Servicer} -> SlotLabels]
    <3>1. asked' \in Nat /\ asked <= asked'
      BY <1>2 DEF IInv, Types
    <3> QED
      BY <1>2, <3>1, AppKeeps
  <2>2. Types'
    BY <1>2, <2>1 DEF IInv, Types, queueVars
  <2>3. SlotRight'
    BY <1>2, <2>1 DEF IInv, SlotRight
  <2>4. AnswersInOrder'
    BY <1>2, <2>1 DEF IInv, AnswersInOrder, S!AnswersInOrder
  <2> QED
    BY <2>1, <2>2, <2>3, <2>4 DEF IInv
<1> USE DEF S!GoTo, S!slotVars
<1>3. CASE S!NextLock
  BY <1>2, <1>3 DEF S!NextLock
<1>4. CASE S!NextWait
  BY <1>2, <1>4 DEF S!NextWait
<1>5. CASE S!NextWakes
  BY <1>2, <1>5 DEF S!NextWakes
<1>6. CASE S!NextFound
  BY <1>2, <1>6 DEF S!NextFound
<1>7. CASE S!Leave(App)
  BY <1>2, <1>7 DEF S!Leave
<1> QED
  BY <1>1, <1>3, <1>4, <1>5, <1>6, <1>7 DEF S!NextValue

-----------------------------------------------------------------------------
\* The steps of the servicer.

\* Between the locks the servicer goes from label to label of pop().
LEMMA PopMoves ==
  ASSUME IInv, UNCHANGED <<slotVars, handled, pushed, queue, received>>,
         NEW l \in QueueLabels \ {"append"}, qPc' = [qPc EXCEPT ![Servicer] = l],
         l = "take" => queue # <<>>, sPc[Servicer] # "out" => l = "out",
         l \in {"test", "wait", "take"} => Idle
  PROVE  IInv'
<1>1. qPc'[Servicer] = l /\ \A t \in Senders : qPc'[t] = qPc[t]
  BY Apart DEF IInv, Types
<1>2. Types'
  BY DEF IInv, Types, slotVars
<1>3. QueueRight'
  BY <1>1 DEF IInv, QueueRight
<1>4. Handling'
  BY <1>1 DEF IInv, Handling, Idle, HasReply, slotVars
<1>5. RepliesAhead'
  <2>1. All' = All /\ Settled' = Settled /\ UNCHANGED <<replied, asked>>
    BY DEF All, Settled, slotVars
  <2>2. qPc'[Repliers] = qPc[Repliers]
    BY <1>1, Apart
  <2> QED
    BY <2>1, <2>2 DEF IInv, RepliesAhead
<1>6. SlotRight' /\ AnswersInOrder'
  BY DEF IInv, SlotRight, AnswersInOrder, S!AnswersInOrder, slotVars
<1> QED
  BY <1>2, <1>3, <1>4, <1>5, <1>6 DEF IInv

LEMMA TakeKeeps ==
  ASSUME IInv, OnQueue(Q!Take(Servicer))
  PROVE  IInv' /\ queue # <<>> /\ received' = Append(received, Head(queue)) /\ queue' = Tail(queue)
<1>1. /\ qPc[Servicer] = "take" /\ qPc' = [qPc EXCEPT ![Servicer] = "unlock"]
      /\ queue # <<>> /\ received' = Append(received, Head(queue)) /\ queue' = Tail(queue)
      /\ UNCHANGED <<pushed, slotVars, handled>>
  BY DEF OnQueue, Q!Take, Q!GoTo, IInv, QueueRight
<1>2. qPc'[Servicer] = "unlock" /\ \A t \in Senders : qPc'[t] = qPc[t]
  BY <1>1, Apart DEF IInv, Types
<1>3. received \in Seq(Message) /\ queue \in Seq(Message)
  BY DEF IInv, Types
<1>4. All' = All
  <2>1. received \o queue = Append(received, Head(queue)) \o Tail(queue)
    BY <1>1, <1>3
  <2> QED
    BY <1>1, <2>1 DEF All
<1>5. Types'
  <2>1. received' \in Seq(Message) /\ queue' \in Seq(Message)
    BY <1>1, <1>3
  <2> QED
    BY <1>1, <2>1 DEF IInv, Types, slotVars
<1>6. QueueRight'
  BY <1>1, <1>2 DEF IInv, QueueRight
<1>7. Handling'
  <2>1. handled = Len(received) /\ sPc[Servicer] = "out"
    BY <1>1 DEF IInv, Handling, Idle
  <2>2. Len(received') = Len(received) + 1
    BY <1>1, <1>3
  <2> QED
    BY <1>1, <1>2, <1>3, <2>1, <2>2 DEF Handling, slotVars
<1>8. RepliesAhead'
  <2>1. Settled' = Settled /\ UNCHANGED <<replied, asked>> /\ qPc'[Repliers] = qPc[Repliers]
    BY <1>1, <1>2, Apart DEF Settled, slotVars
  <2> QED
    BY <1>1, <1>4, <2>1 DEF IInv, RepliesAhead
<1>9. SlotRight' /\ AnswersInOrder'
  BY <1>1 DEF IInv, SlotRight, AnswersInOrder, S!AnswersInOrder, slotVars
<1> QED
  BY <1>1, <1>5, <1>6, <1>7, <1>8, <1>9 DEF IInv

LEMMA PopKeeps == ASSUME IInv, ReceiveMsg \/ Popping PROVE IInv'
<1> USE DEF Q!GoTo, Q!queueVars, OnQueue
<1>1. CASE OnQueue(Q!Take(Servicer))
  BY <1>1, TakeKeeps
<1>2. CASE ReceiveMsg
  <2>1. Idle /\ qPc[Servicer] = "out" /\ qPc' = [qPc EXCEPT ![Servicer] = "test"]
        /\ UNCHANGED <<slotVars, handled, pushed, queue, received>>
    BY <1>2 DEF ReceiveMsg, Q!PopLock
  <2>2. sPc[Servicer] = "out"
    BY <2>1 DEF IInv, Handling, HasReply
  <2> QED
    BY <2>1, <2>2, PopMoves
<1>3. CASE OnQueue(Q!PopWait(Servicer)) \/ OnQueue(Q!PopWakes(Servicer))
           \/ OnQueue(Q!PopFound(Servicer))
  <2>1. PICK l \in {"wait", "test", "take"} :
          /\ qPc' = [qPc EXCEPT ![Servicer] = l]
          /\ l = "take" => queue # <<>>
          /\ UNCHANGED <<slotVars, handled, pushed, queue, received>>
          /\ qPc[Servicer] \in {"test", "wait"}
    BY <1>3 DEF Q!PopWait, Q!PopWakes, Q!PopFound
  <2>2. Idle /\ sPc[Servicer] = "out"
    BY <2>1 DEF IInv, Handling
  <2> QED
    BY <2>1, <2>2, PopMoves
<1>4. CASE OnQueue(Q!Leave(Servicer))
  <2>1. qPc' = [qPc EXCEPT ![Servicer] = "out"]
        /\ UNCHANGED <<slotVars, handled, pushed, queue, received>>
    BY <1>4 DEF Q!Leave
  <2> QED
    BY <2>1, PopMoves
<1> QED
  BY <1>1, <1>2, <1>3, <1>4 DEF Popping, Q!Popping

LEMMA HandleReplyKeeps == ASSUME IInv, HandleReply PROVE IInv'
<1>1. /\ HasReply /\ qPc[Servicer] = "out" /\ sPc[Servicer] = "out"
      /\ sPc' = [sPc EXCEPT ![Servicer] = "fill"]
      /\ UNCHANGED <<asked, replied, cur_value, taken, queueVars, handled>>
  BY DEF HandleReply, OnSlot, S!ReplyLock, S!GoTo, S!slotVars
<1>2. sPc'[Servicer] = "fill" /\ sPc'[App] = sPc[App]
  BY <1>1, Apart DEF IInv, Types
<1>3. Types'
  BY <1>1 DEF IInv, Types, queueVars
<1>4. QueueRight'
  BY <1>1 DEF IInv, QueueRight, queueVars
<1>5. Handling'
  BY <1>1, <1>2 DEF IInv, Handling, Idle, HasReply, queueVars
<1>6. RepliesAhead'
  <2>1. All' = All /\ Settled' = Settled /\ UNCHANGED <<pushed, qPc>>
    BY <1>1, <1>2 DEF All, Settled, queueVars
  <2> QED
    BY <1>1, <2>1 DEF IInv, RepliesAhead
<1>7. SlotRight' /\ AnswersInOrder'
  BY <1>1, <1>2 DEF IInv, SlotRight, AnswersInOrder, S!AnswersInOrder
<1> QED
  BY <1>3, <1>4, <1>5, <1>6, <1>7 DEF IInv

LEMMA FillingKeeps == ASSUME IInv, Filling PROVE IInv'
<1>1. CASE S!Fill
  <2>1. /\ sPc[Servicer] = "fill" /\ sPc' = [sPc EXCEPT ![Servicer] = "unlock"]
        /\ replied' = replied + 1 /\ cur_value' = replied + 1
        /\ UNCHANGED <<asked, taken, queueVars, handled>>
    BY <1>1 DEF Filling, S!Fill, S!GoTo
  <2>2. sPc'[Servicer] = "unlock" /\ sPc'[App] = sPc[App]
    BY <2>1, Apart DEF IInv, Types
  <2>3. /\ replied \in Nat /\ asked \in Nat /\ handled \in Nat /\ pushed[Repliers] \in Nat
        /\ taken \in Seq(Nat) /\ Types
    BY Apart DEF IInv, Types
  <2>4. Settled = handled /\ Settled' = handled + 1 /\ All' = All
    BY <2>1, <2>2 DEF Settled, All, queueVars
  <2> DEFINE h == handled + 1
  <2>5. h \in 1 .. Len(received) /\ h \in 1 .. Len(All) /\ All[h] = received[h]
        /\ All[h].by = Repliers /\ All[h].no \in Nat
    <3>1. HasReply /\ handled <= Len(received) /\ Len(received) \in Nat /\ Len(queue) \in Nat
      BY <2>1, <2>3 DEF IInv, Handling, Types
    <3>2. h \in 1 .. Len(received)
      BY <2>3, <3>1 DEF HasReply, Idle
    <3>3. h \in 1 .. Len(All)
      BY <2>3, <3>1, <3>2, AllFacts
    <3> QED
      BY <2>3, <3>1, <3>2, <3>3, AllFacts DEF HasReply
  <2>6. replied < All[h].no /\ All[h].no <= pushed[Repliers] /\ pushed[Repliers] <= asked
    BY <2>3, <2>4, <2>5 DEF IInv, RepliesAhead
  <2>7. replied + 1 <= All[h].no /\ replied + 1 <= pushed[Repliers] /\ replied + 1 <= asked
    BY <2>3, <2>5, <2>6
  <2>8. Len(taken) = replied /\ asked = replied + 1
    <3>1. Len(taken) = asked \/ Len(taken) + 1 = asked
      BY DEF IInv, AnswersInOrder, S!AnswersInOrder
    <3>2. Len(taken) = replied \/ Len(taken) + 1 = replied
      BY DEF IInv, SlotRight
    <3> QED
      BY <2>3, <2>7, <3>1, <3>2
  <2>9. Types'
    BY <2>1, <2>3 DEF Types, queueVars
  <2>10. QueueRight'
    BY <2>1 DEF IInv, QueueRight, queueVars
  <2>11. Handling'
    BY <2>1, <2>2 DEF IInv, Handling, Idle, HasReply, queueVars
  <2>12. RepliesAhead'
    <3>1. UNCHANGED <<pushed, qPc, asked>>
      BY <2>1 DEF queueVars
    <3>2. ASSUME NEW i \in 1 .. Len(All), All[i].by = Repliers, i > h
          PROVE  replied + 1 < All[i].no
      <4>1. All[h].no < All[i].no
        BY <2>5, <3>2 DEF IInv, RepliesAhead
      <4>2. All[i].no \in Nat
        BY <2>3, AllFacts
      <4> QED
        BY <2>3, <2>5, <2>7, <4>1, <4>2
    <3> QED
      BY <2>1, <2>4, <2>7, <3>1, <3>2 DEF IInv, RepliesAhead
  <2>13. SlotRight'
    BY <2>1, <2>2, <2>3, <2>8, Apart DEF IInv, SlotRight
  <2>14. AnswersInOrder'
    BY <2>1, <2>2 DEF IInv, AnswersInOrder, S!AnswersInOrder
  <2> QED
    BY <2>9, <2>10, <2>11, <2>12, <2>13, <2>14 DEF IInv
<1>2. CASE S!Leave(Servicer)
  <2>1. /\ sPc[Servicer] = "unlock" /\ sPc' = [sPc EXCEPT ![Servicer] = "out"]
        /\ handled' = handled + 1
        /\ UNCHANGED <<asked, replied, cur_value, taken, queueVars>>
    BY <1>2 DEF Filling, S!Leave, S!GoTo, S!slotVars
  <2>2. sPc'[Servicer] = "out" /\ sPc'[App] = sPc[App]
    BY <2>1, Apart DEF IInv, Types
  <2>3. Types'
    BY <2>1 DEF IInv, Types, queueVars
  <2>4. QueueRight'
    BY <2>1 DEF IInv, QueueRight, queueVars
  <2>5. Handling'
    <3>1. Len(received) \in Nat /\ handled \in Nat
      BY DEF IInv, Types
    <3>2. handled + 1 <= Len(received) /\ Len(received) <= handled + 1 /\ qPc[Servicer] = "out"
      BY <2>1, <3>1 DEF IInv, Handling, HasReply, Idle
    <3> QED
      BY <2>1, <2>2, <3>1, <3>2 DEF Handling, Idle, queueVars
  <2>6. RepliesAhead'
    <3>1. All' = All /\ Settled' = Settled /\ UNCHANGED <<pushed, qPc>>
      BY <2>1, <2>2 DEF All, Settled, queueVars
    <3> QED
      BY <2>1, <3>1 DEF IInv, RepliesAhead
  <2>7. SlotRight' /\ AnswersInOrder'
    BY <2>1, <2>2 DEF IInv, SlotRight, AnswersInOrder, S!AnswersInOrder
  <2> QED
    BY <2>3, <2>4, <2>5, <2>6, <2>7 DEF IInv
<1> QED
  BY <1>1, <1>2 DEF Filling, S!Filling

LEMMA HandleOtherKeeps == ASSUME IInv, HandleOther PROVE IInv'
<1>1. /\ ~Idle /\ ~HasReply /\ qPc[Servicer] = "out" /\ handled' = handled + 1
      /\ UNCHANGED <<queueVars, slotVars>>
  BY DEF HandleOther
<1>2. sPc[Servicer] = "out" /\ handled \in Nat /\ Len(received) \in Nat
      /\ handled <= Len(received) /\ Len(received) <= handled + 1
  BY <1>1 DEF IInv, Types, Handling
<1>3. Types' /\ QueueRight' /\ SlotRight' /\ AnswersInOrder'
  BY <1>1 DEF IInv, Types, QueueRight, SlotRight, AnswersInOrder, S!AnswersInOrder,
              queueVars, slotVars
<1>4. Handling'
  BY <1>1, <1>2 DEF Handling, Idle, queueVars, slotVars
<1>5. RepliesAhead'
  <2>1. All' = All /\ Settled = handled /\ Settled' = handled + 1
        /\ UNCHANGED <<pushed, qPc, replied, asked>>
    BY <1>1, <1>2 DEF All, Settled, queueVars, slotVars
  <2>2. \A i \in 1 .. Len(All) : i > handled + 1 => i > handled
    BY <1>2
  <2> QED
    BY <2>1, <2>2 DEF IInv, RepliesAhead
<1> QED
  BY <1>3, <1>4, <1>5 DEF IInv

-----------------------------------------------------------------------------
\* The steps of the senders.

LEMMA PushKeeps ==
  ASSUME IInv, NEW t \in Senders, OnQueue(Q!Push(t))
  PROVE  /\ IInv'
         /\ \E m \in Message : queue' = Append(queue, m) /\ UNCHANGED received
<1> DEFINE m == [by |-> t, no |-> pushed[t] + 1]
<1>1. /\ qPc[t] = "append" /\ qPc' = [qPc EXCEPT ![t] = "unlock"]
      /\ pushed' = [pushed EXCEPT ![t] = pushed[t] + 1] /\ queue' = Append(queue, m)
      /\ UNCHANGED <<received, slotVars, handled>>
  BY DEF OnQueue, Q!Push, Q!GoTo
<1>2. m \in Message /\ m.by = t /\ m.no = pushed[t] + 1 /\ pushed[t] \in Nat
  <2>1. pushed[t] \in Nat /\ pushed[t] < Questions /\ Questions \in Nat
    BY <1>1, Apart DEF IInv, Types, QueueRight
  <2> QED
    BY <2>1 DEF Message
<1> HIDE DEF m
<1>3. received \in Seq(Message) /\ queue \in Seq(Message) /\ Types
  BY DEF IInv, Types
<1>4. PICK a \in Seq(Message) : a = All
  BY <1>3, AllFacts
<1>5. All' = Append(a, m)
  BY <1>1, <1>2, <1>3, <1>4 DEF All
<1>6. Types'
  <2>1. pushed' \in [Senders -> Nat] /\ queue' \in Seq(Message)
        /\ qPc' \in [Senders \cup {Servicer} -> QueueLabels]
    BY <1>1, <1>2 DEF IInv, Types
  <2> QED
    BY <1>1, <2>1 DEF IInv, Types, slotVars
<1>7. QueueRight'
  <2>1. \A u \in Senders : qPc'[u] = "append" => pushed'[u] < Questions
    BY <1>1 DEF IInv, QueueRight, Types
  <2>2. queue' # <<>>
    <3>1. PICK q \in Seq(Message) : q = queue
      BY <1>3
    <3>2. Append(q, m) # <<>>
      BY <1>2
    <3> QED
      BY <1>1, <3>1, <3>2
  <2> QED
    BY <2>1, <2>2 DEF QueueRight
<1>8. Handling'
  <2>1. qPc'[Servicer] = qPc[Servicer]
    BY <1>1, Apart
  <2> QED
    BY <1>1, <2>1 DEF IInv, Handling, Idle, HasReply, slotVars
<1>9. RepliesAhead'
  <2>1. UNCHANGED <<replied, asked>> /\ Settled' = Settled
    BY <1>1 DEF Settled, slotVars
  <2>2. /\ replied \in Nat /\ asked \in Nat /\ pushed[Repliers] \in Nat
        /\ replied <= pushed[Repliers] /\ pushed[Repliers] <= asked
    BY Apart DEF IInv, Types, RepliesAhead
  <2>3. pushed'[Repliers] = IF t = Repliers THEN pushed[Repliers] + 1 ELSE pushed[Repliers]
    BY <1>1, Apart DEF IInv, Types
  <2>4. t = Repliers => pushed[Repliers] < asked
    BY <1>1 DEF IInv, RepliesAhead
  <2>5. qPc'[Repliers] = "append" => t # Repliers /\ qPc[Repliers] = "append"
    BY <1>1, Apart DEF IInv, Types
  <2>6. Len(Append(a, m)) = Len(a) + 1 /\ Append(a, m)[Len(a) + 1] = m
        /\ \A i \in 1 .. Len(a) : Append(a, m)[i] = a[i]
    BY <1>2
  <2>7. \A i \in 1 .. Len(a) : a[i].by = Repliers =>
          a[i].no \in Nat /\ a[i].no <= pushed[Repliers]
    BY <1>3, <1>4, AllFacts DEF IInv, RepliesAhead
  <2>8. PICK b : b = Append(a, m) /\ b = All'
    BY <1>5
  <2>9. \A i \in 1 .. Len(b) : i \in 1 .. Len(a) \/ i = Len(a) + 1
    BY <2>6, <2>8
  <2>10. \A i \in 1 .. Len(b) : b[i].by = Repliers => b[i].no <= pushed'[Repliers]
    BY <1>2, <2>2, <2>3, <2>6, <2>7, <2>8, <2>9
  <2>11. \A i \in 1 .. Len(b) : b[i].by = Repliers /\ i > Settled => replied < b[i].no
    <3>1. \A i \in 1 .. Len(a) : a[i].by = Repliers /\ i > Settled => replied < a[i].no
      BY <1>4 DEF IInv, RepliesAhead
    <3> QED
      BY <1>2, <2>2, <2>6, <2>8, <2>9, <3>1
  <2>12. \A i, j \in 1 .. Len(b) :
           b[i].by = Repliers /\ b[j].by = Repliers /\ i < j => b[i].no < b[j].no
    <3> SUFFICES ASSUME NEW i \in 1 .. Len(b), NEW j \in 1 .. Len(b),
                        b[i].by = Repliers, b[j].by = Repliers, i < j
                 PROVE  b[i].no < b[j].no
      OBVIOUS
    <3>1. i \in 1 .. Len(a)
      BY <2>6, <2>8
    <3>2. CASE j \in 1 .. Len(a)
      BY <1>4, <2>6, <2>8, <3>1, <3>2 DEF IInv, RepliesAhead
    <3>3. CASE j = Len(a) + 1
      BY <1>2, <2>6, <2>7, <2>8, <3>1, <3>3
    <3> QED
      BY <2>9, <3>2, <3>3
  <2>13. replied <= pushed'[Repliers] /\ pushed'[Repliers] <= asked
         /\ (qPc'[Repliers] = "append" => pushed'[Repliers] < asked)
    BY <2>2, <2>3, <2>4, <2>5 DEF IInv, RepliesAhead
  <2> QED
    BY <2>1, <2>8, <2>10, <2>11, <2>12, <2>13 DEF RepliesAhead
<1>10. SlotRight' /\ AnswersInOrder'
  BY <1>1 DEF IInv, SlotRight, AnswersInOrder, S!AnswersInOrder, slotVars
<1> QED
  BY <1>1, <1>2, <1>6, <1>7, <1>8, <1>9, <1>10 DEF IInv

\* A sender takes the lock of the queue, or gives it back.
LEMMA SenderMoves ==
  ASSUME IInv, NEW t \in Senders, UNCHANGED <<slotVars, handled, pushed, queue, received>>,
         NEW l \in {"append", "out"}, qPc' = [qPc EXCEPT ![t] = l],
         l = "append" => pushed[t] < Questions /\ (t = Repliers => pushed[t] < asked)
  PROVE  IInv'
<1>1. qPc'[Servicer] = qPc[Servicer] /\ \A u \in Senders : qPc'[u] = IF u = t THEN l ELSE qPc[u]
  BY Apart DEF IInv, Types
<1>2. Types'
  BY DEF IInv, Types, slotVars
<1>3. QueueRight'
  BY <1>1 DEF IInv, QueueRight
<1>4. Handling'
  BY <1>1 DEF IInv, Handling, Idle, HasReply, slotVars
<1>5. RepliesAhead'
  <2>1. All' = All /\ Settled' = Settled /\ UNCHANGED <<replied, asked>>
    BY DEF All, Settled, slotVars
  <2>2. qPc'[Repliers] = "append" => pushed[Repliers] < asked
    BY <1>1, Apart DEF IInv, RepliesAhead
  <2> QED
    BY <2>1, <2>2 DEF IInv, RepliesAhead
<1>6. SlotRight' /\ AnswersInOrder'
  BY DEF IInv, SlotRight, AnswersInOrder, S!AnswersInOrder, slotVars
<1> QED
  BY <1>2, <1>3, <1>4, <1>5, <1>6 DEF IInv

LEMMA SendersKeep ==
  ASSUME IInv, BeginReply \/ (\E t \in Others : BeginOther(t)) \/ (\E t \in Senders : Pushing(t))
  PROVE  IInv'
<1> USE DEF OnQueue, Q!GoTo, Q!queueVars
<1>1. CASE BeginReply
  <2>1. /\ pushed[Repliers] < asked /\ pushed[Repliers] < Questions
        /\ qPc' = [qPc EXCEPT ![Repliers] = "append"]
        /\ UNCHANGED <<slotVars, handled, pushed, queue, received>>
    BY <1>1 DEF BeginReply, Q!PushLock
  <2> QED
    BY <2>1, SenderMoves, Apart
<1>2. ASSUME NEW t \in Others, BeginOther(t) PROVE IInv'
  <2>1. /\ pushed[t] < Questions /\ qPc' = [qPc EXCEPT ![t] = "append"]
        /\ UNCHANGED <<slotVars, handled, pushed, queue, received>>
    BY <1>2 DEF BeginOther, Q!PushLock
  <2>2. t \in Senders /\ t # Repliers
    BY Apart DEF Senders
  <2> QED
    BY <2>1, <2>2, SenderMoves
<1>3. ASSUME NEW t \in Senders, Pushing(t) PROVE IInv'
  <2>1. CASE OnQueue(Q!Push(t))
    BY <2>1, PushKeeps
  <2>2. CASE OnQueue(Q!Leave(t))
    <3>1. /\ qPc' = [qPc EXCEPT ![t] = "out"]
          /\ UNCHANGED <<slotVars, handled, pushed, queue, received>>
      BY <2>2 DEF Q!Leave
    <3> QED
      BY <3>1, SenderMoves
  <2> QED
    BY <1>3, <2>1, <2>2 DEF Pushing, Q!Pushing
<1> QED
  BY <1>1, <1>2, <1>3

LEMMA StutterKeeps ==
  ASSUME IInv, UNCHANGED <<qPc, sPc, pushed, queue, received, asked, replied, cur_value,
                           taken, handled>>
  PROVE  IInv'
<1>1. All' = All /\ Settled' = Settled
  BY DEF All, Settled
<1>2. RepliesAhead'
  BY <1>1 DEF IInv, RepliesAhead
<1>3. Types' /\ QueueRight' /\ Handling' /\ SlotRight' /\ AnswersInOrder'
  BY DEF IInv, Types, QueueRight, Handling, Idle, HasReply, SlotRight, AnswersInOrder,
         S!AnswersInOrder
<1> QED
  BY <1>2, <1>3 DEF IInv

LEMMA NextKeeps == ASSUME IInv, [Next]_vars PROVE IInv'
<1>1. CASE Ask \/ AppSteps
  BY <1>1, AskKeeps, AppStepsKeep
<1>2. CASE ServicerSteps
  BY <1>2, PopKeeps, HandleReplyKeeps, FillingKeeps, HandleOtherKeeps DEF ServicerSteps
<1>3. CASE BeginReply \/ (\E t \in Others : BeginOther(t)) \/ (\E t \in Senders : Pushing(t))
  BY <1>3, SendersKeep
<1>4. CASE SpuriousWakeUp \/ UNCHANGED vars
  BY <1>4, StutterKeeps DEF SpuriousWakeUp, OnSlot, OnQueue, S!SpuriousWakeUp,
       Q!SpuriousWakeUp, S!slotVars, Q!queueVars, vars, queueVars, slotVars
<1> QED
  BY <1>1, <1>2, <1>3, <1>4 DEF Next

\* At every moment the Replies on their way have the numbers of questions that were
\* asked and not yet answered, and the slot holds the answer to the last one or nothing.
THEOREM Invariance == Spec => []IInv
<1>1. Init => IInv
  BY InitInv
<1>2. IInv /\ [Next]_vars => IInv'
  BY NextKeeps
<1> QED
  BY <1>1, <1>2, PTL DEF Spec

\* next_value() never returns nullptr and gives each question its own answer
\* (kvstore.h: next_value(), handle_reply()), whenever the Reply is pushed, popped
\* and put into the slot, and whenever the application looks.
THEOREM AnswersInOrderCorrect == Spec => []AnswersInOrder
<1>1. IInv => AnswersInOrder
  BY DEF IInv
<1> QED
  BY <1>1, Invariance, PTL

-----------------------------------------------------------------------------
\* The queue is a mailbox.

LEMMA StepsAreMail == ASSUME IInv, [Next]_vars PROVE [Q!Mail!Next]_(Q!Mail!vars)
<1>1. ASSUME UNCHANGED <<queue, received>> PROVE UNCHANGED Q!Mail!vars
  BY <1>1 DEF Q!Mail!vars
<1>2. ASSUME NEW t \in Senders, OnQueue(Q!Push(t)) PROVE Q!Mail!Next
  <2>1. PICK m \in Message : queue' = Append(queue, m) /\ UNCHANGED received
    BY <1>2, PushKeeps
  <2>2. Q!Mail!Send(Servicer, m)
    BY <2>1 DEF Q!Mail!Send
  <2> QED
    BY <2>2, Apart DEF Q!Mail!Next
<1>3. CASE OnQueue(Q!Take(Servicer))
  <2>1. /\ queue # <<>> /\ received' = Append(received, Head(queue)) /\ queue' = Tail(queue)
    BY <1>3, TakeKeeps
  <2>2. Q!Mail!Receive(Servicer)
    BY <2>1 DEF Q!Mail!Receive
  <2> QED
    BY <2>2 DEF Q!Mail!Next
<1>4. CASE \/ UNCHANGED vars \/ Ask \/ AppSteps \/ ReceiveMsg \/ HandleReply \/ Filling
           \/ HandleOther \/ BeginReply \/ (\E t \in Others : BeginOther(t)) \/ SpuriousWakeUp
  BY <1>1, <1>4 DEF vars, queueVars, Ask, AppSteps, OnSlot, ReceiveMsg, OnQueue, Q!PopLock,
       Q!queueVars, HandleReply, Filling, HandleOther, BeginReply, BeginOther, Q!PushLock,
       SpuriousWakeUp, Q!SpuriousWakeUp
<1>5. CASE Popping
  BY <1>1, <1>3, <1>5 DEF Popping, OnQueue, Q!Popping, Q!PopWait, Q!PopWakes, Q!PopFound,
       Q!Leave, Q!queueVars
<1>6. ASSUME NEW t \in Senders, Pushing(t) PROVE [Q!Mail!Next]_(Q!Mail!vars)
  BY <1>1, <1>2, <1>6 DEF Pushing, OnQueue, Q!Pushing, Q!Leave, Q!queueVars
<1> QED
  BY <1>4, <1>5, <1>6 DEF Next, ServicerSteps

\* ConcurrentMessageQueue is the inbox of a network (message.h: push(), pop()): what any
\* number of threads push is popped once and in order, and nothing is popped that was not
\* pushed, however the threads take the lock and wake up.
THEOREM QueueIsMailboxCorrect == Spec => QueueIsMailbox
<1>1. Init => Q!Mail!Init
  BY DEF Init, Q!Init, Q!Mail!Init
<1>2. IInv /\ [Next]_vars => [Q!Mail!Next]_(Q!Mail!vars)
  BY StepsAreMail
<1> QED
  BY <1>1, <1>2, Invariance, PTL DEF Spec, QueueIsMailbox, Q!QueueIsMailbox, Q!Mail!Spec

=============================================================================
