--------------------------- MODULE KVStoreProofs ---------------------------
(***************************************************************************)
(* Proofs about KVStore for any number of nodes, any keys and any data.    *)
(***************************************************************************)
EXTENDS KVStore, WellOrdering

USE NumNodesAssumption, HomeAssumption, NilAssumption DEF Nodes

\* The three kinds of message constructors build messages.
LEMMA MessageTypes ==
  ASSUME NEW n \in Nodes, NEW k \in Keys, NEW b \in Blob
  PROVE  /\ PutMessage(n, k, b) \in Message
         /\ GetMessage(n, k) \in Message
         /\ ReplyMessage(n, k, b) \in Message
         /\ KillMessage(n) \in Message
BY DEF PutMessage, GetMessage, ReplyMessage, KillMessage, Message

\* What a message carries depends on its kind.
LEMMA MessageParts ==
  ASSUME NEW m \in Message
  PROVE  /\ m.sender \in Nodes
         /\ m.kind \in {"Put", "Get", "Reply", "Kill"}
         /\ m.kind \in {"Put", "Reply"} => m.key \in Keys /\ m.value \in Blob
         /\ m.kind = "Get" => m.key \in Keys
BY DEF Message

\* Sending keeps the queues sequences of messages,
LEMMA SendType ==
  ASSUME TypeOK, NEW t \in Nodes, NEW m \in Message, Send(t, m)
  PROVE  queues' \in [Nodes -> Seq(Message)]
BY DEF TypeOK, Send

\* and so does receiving, which yields a message.
LEMMA ReceiveType ==
  ASSUME TypeOK, NEW n \in Nodes, NEW kind, Receive(n, kind)
  PROVE  /\ queues' \in [Nodes -> Seq(Message)]
         /\ Head(queues[n]) \in Message
         /\ Head(queues[n]).kind = kind
BY DEF TypeOK, Receive

\* A local put keeps the maps well typed.
LEMMA StoreType ==
  ASSUME TypeOK, NEW n \in Nodes, NEW k \in Keys, NEW b \in Blob, StoreLocally(n, k, b)
  PROVE  store' \in [Nodes -> [Keys -> Blob \cup {Nil}]]
<1>1. store \in [Nodes -> [Keys -> Blob \cup {Nil}]]
  BY DEF TypeOK
<1>2. [store[n] EXCEPT ![k] = b] \in [Keys -> Blob \cup {Nil}]
  BY <1>1
<1> QED
  BY <1>1, <1>2 DEF StoreLocally

\* The model starts well typed.
LEMMA InitType == Init => TypeOK
BY DEF Init, TypeOK, Phase

\* Every step of every thread keeps the types.
LEMMA NextType == TypeOK /\ [Next]_vars => TypeOK'
<1> SUFFICES ASSUME TypeOK, [Next]_vars PROVE TypeOK'
  OBVIOUS
<1>1. CASE UNCHANGED vars
  BY <1>1 DEF TypeOK, vars
<1>2. ASSUME NEW n \in Nodes, Start(n) PROVE TypeOK'
  BY <1>2 DEF Start, TypeOK, Phase
<1>3. ASSUME NEW n \in Nodes, NEW k \in Keys, NEW d \in Data, Put(n, k, d) PROVE TypeOK'
  <2> DEFINE b == [of |-> k, data |-> d]
  <2>1. b \in Blob /\ Home[k] \in Nodes
    BY DEF Blob
  <2>2. PutMessage(n, k, b) \in Message
    BY <2>1, MessageTypes
  <2>3. queues' \in [Nodes -> Seq(Message)]
    BY <1>3, <2>1, <2>2, SendType DEF Put, TypeOK
  <2>4. store' \in [Nodes -> [Keys -> Blob \cup {Nil}]]
    BY <1>3, <2>1, StoreType DEF Put, TypeOK
  <2> QED
    BY <1>3, <2>3, <2>4 DEF Put, TypeOK, servicerVars, appVars
<1>4. ASSUME NEW n \in Nodes, NEW k \in Keys, GetLocal(n, k) PROVE TypeOK'
  BY <1>4 DEF GetLocal, TypeOK, servicerVars
<1>5. ASSUME NEW n \in Nodes, NEW k \in Keys, GetRemote(n, k) PROVE TypeOK'
  <2>1. GetMessage(n, k) \in Message /\ Home[k] \in Nodes
    BY DEF GetMessage, Message
  <2>2. queues' \in [Nodes -> Seq(Message)]
    BY <1>5, <2>1, SendType DEF GetRemote
  <2> QED
    BY <1>5, <2>2 DEF GetRemote, TypeOK, servicerVars, Phase
<1>6. ASSUME NEW n \in Nodes, NextValue(n) PROVE TypeOK'
  BY <1>6 DEF NextValue, TypeOK, Phase
<1>7. ASSUME NEW n \in Nodes, StopAll(n) PROVE TypeOK'
  BY <1>7 DEF StopAll, TypeOK, servicerVars, Phase
<1>8. ASSUME NEW n \in Nodes, SendKill(n) PROVE TypeOK'
  <2>1. PICK i \in toKill[n] :
          /\ Send(i, KillMessage(n))
          /\ toKill' = [toKill EXCEPT ![n] = @ \ {i}]
          /\ phase' = [phase EXCEPT ![n] = IF i = n THEN "joining" ELSE "stop"]
    BY <1>8 DEF SendKill
  <2>2. i \in Nodes /\ KillMessage(n) \in Message
    BY DEF TypeOK, KillMessage, Message
  <2>3. queues' \in [Nodes -> Seq(Message)]
    BY <2>1, <2>2, SendType
  <2> QED
    BY <1>8, <2>1, <2>3 DEF SendKill, TypeOK, servicerVars, Phase
<1>9. ASSUME NEW n \in Nodes, FinishRun(n) PROVE TypeOK'
  BY <1>9 DEF FinishRun, TypeOK, servicerVars, Phase
<1>10. ASSUME NEW n \in Nodes, Close(n) PROVE TypeOK'
  BY <1>10 DEF Close, TypeOK, servicerVars, Phase
<1>11. ASSUME NEW n \in Nodes, HandlePut(n) PROVE TypeOK'
  <2> DEFINE m == Head(queues[n])
  <2>1. Receive(n, "Put")
    BY <1>11 DEF HandlePut
  <2>2. m.key \in Keys /\ m.value \in Blob
    BY <2>1, ReceiveType, MessageParts
  <2>3. store' \in [Nodes -> [Keys -> Blob \cup {Nil}]]
    BY <1>11, <2>2, StoreType DEF HandlePut
  <2> QED
    BY <1>11, <2>1, <2>3, ReceiveType DEF HandlePut, TypeOK, servicerVars, appVars
<1>12. ASSUME NEW n \in Nodes, HandleGet(n) PROVE TypeOK'
  <2> DEFINE m == Head(queues[n])
  <2>1. Receive(n, "Get")
    BY <1>12 DEF HandleGet
  <2>2. m.key \in Keys /\ m.sender \in Nodes
    BY <2>1, ReceiveType, MessageParts
  <2>3. NewReplier(n, m) \in Replier
    BY <2>2 DEF NewReplier, Replier
  <2> QED
    BY <1>12, <2>1, <2>3, ReceiveType DEF HandleGet, TypeOK, appVars
<1>13. ASSUME NEW n \in Nodes, HandleReply(n) PROVE TypeOK'
  <2>1. Receive(n, "Reply")
    BY <1>13 DEF HandleReply
  <2>2. Head(queues[n]).value \in Blob
    BY <2>1, ReceiveType, MessageParts
  <2> QED
    BY <1>13, <2>1, <2>2, ReceiveType DEF HandleReply, TypeOK, appVars
<1>14. ASSUME NEW n \in Nodes, HandleKill(n) PROVE TypeOK'
  BY <1>14, ReceiveType DEF HandleKill, TypeOK, appVars
<1>15. ASSUME NEW r \in repliers, Fetch(r) PROVE TypeOK'
  <2>1. r \in Replier /\ store[r.at][r.key] \in Blob
    BY <1>15 DEF Fetch, TypeOK, Replier
  <2>2. [r EXCEPT !.value = store[r.at][r.key]] \in Replier
    BY <2>1 DEF Replier
  <2> QED
    BY <1>15, <2>2 DEF Fetch, TypeOK, appVars
<1>16. ASSUME NEW r \in repliers, Answer(r) PROVE TypeOK'
  <2>1. r \in Replier /\ r.value \in Blob
    BY <1>16 DEF Answer, TypeOK, Replier
  <2>2. r.client \in Nodes /\ ReplyMessage(r.at, r.key, r.value) \in Message
    BY <2>1 DEF Replier, ReplyMessage, Message
  <2>3. queues' \in [Nodes -> Seq(Message)]
    BY <1>16, <2>2, SendType DEF Answer
  <2> QED
    BY <1>16, <2>3 DEF Answer, TypeOK, appVars
<1> QED
  BY <1>1, <1>2, <1>3, <1>4, <1>5, <1>6, <1>7, <1>8, <1>9, <1>10, <1>11, <1>12,
     <1>13, <1>14, <1>15, <1>16
     DEF Next, Operation, Background, Servicer, ReplierFor

\* The variables keep their types: in particular no thread ever stores, sends or
\* takes a null value.
THEOREM TypeCorrect == Spec => []TypeOK
BY InitType, NextType, PTL DEF Spec

-----------------------------------------------------------------------------
\* The safety argument.  Each conjunct rests on those before it: an answer belongs
\* to the key asked for because there is no older answer; there is none because
\* a node asks again only after it took the last one.
IInv ==
  /\ TypeOK
  /\ OneAnswerInFlight
  /\ KeptUnderItsKey
  /\ AnswerIsForTheKey
  /\ ReadYourWrites

\* A send keeps every message where it is and adds one at the end.
LEMMA SendParts ==
  ASSUME TypeOK, NEW t \in Nodes, NEW m \in Message, Send(t, m), NEW h \in Nodes
  PROVE  /\ Len(queues[h]) \in Nat
         /\ \A i \in 1 .. Len(queues[h]) :
              i \in 1 .. Len(queues'[h]) /\ queues'[h][i] = queues[h][i]
         /\ \A i \in 1 .. Len(queues'[h]) :
              \/ i \in 1 .. Len(queues[h]) /\ queues'[h][i] = queues[h][i]
              \/ h = t /\ i = Len(queues[h]) + 1 /\ queues'[h][i] = m
         /\ h = t => /\ Len(queues[h]) + 1 \in 1 .. Len(queues'[h])
                     /\ queues'[h][Len(queues[h]) + 1] = m
<1>1. queues[h] \in Seq(Message)
  BY DEF TypeOK
<1>2. queues'[h] = IF h = t THEN Append(queues[h], m) ELSE queues[h]
  BY DEF Send, TypeOK
<1>3. CASE h = t
  BY <1>1, <1>2, <1>3
<1>4. CASE h # t
  BY <1>1, <1>2, <1>4
<1> QED
  BY <1>3, <1>4

\* A receive takes the first message of one queue; the others move up.
Before(n, h, j) == IF h = n THEN j + 1 ELSE j
After(n, h, i) == IF h = n THEN i - 1 ELSE i

LEMMA ReceiveParts ==
  ASSUME TypeOK, NEW n \in Nodes, NEW kind, Receive(n, kind), NEW h \in Nodes
  PROVE  /\ \A j \in 1 .. Len(queues'[h]) :
              /\ Before(n, h, j) \in 1 .. Len(queues[h])
              /\ queues'[h][j] = queues[h][Before(n, h, j)]
         /\ \A i \in 1 .. Len(queues[h]) :
              \/ h = n /\ i = 1
              \/ /\ After(n, h, i) \in 1 .. Len(queues'[h])
                 /\ queues'[h][After(n, h, i)] = queues[h][i]
         /\ 1 \in 1 .. Len(queues[n])
         /\ Head(queues[n]) = queues[n][1]
         /\ queues[n][1].kind = kind
<1>1. queues[h] \in Seq(Message) /\ queues[n] \in Seq(Message)
  BY DEF TypeOK
<1>2. queues'[h] = IF h = n THEN Tail(queues[h]) ELSE queues[h]
  BY DEF Receive, TypeOK
<1>3. queues[n] # <<>> /\ Head(queues[n]).kind = kind
  BY DEF Receive
<1>4. /\ 1 \in 1 .. Len(queues[n])
      /\ Head(queues[n]) = queues[n][1]
      /\ queues[n][1].kind = kind
  BY <1>1, <1>3
<1>5. CASE h = n
  BY <1>1, <1>2, <1>3, <1>4, <1>5 DEF Before, After
<1>6. CASE h # n
  BY <1>1, <1>2, <1>4, <1>6 DEF Before, After
<1> QED
  BY <1>5, <1>6

\* Sending asks a question exactly when the message is a Get,
LEMMA SendTokens ==
  ASSUME TypeOK, NEW t \in Nodes, NEW m \in Message, Send(t, m), NEW c \in Nodes
  PROVE  /\ Asked(c)' <=> Asked(c) \/ (m.kind = "Get" /\ m.sender = c)
         /\ Replied(c)' <=> Replied(c) \/ (m.kind = "Reply" /\ t = c)
<1>1. ASSUME Asked(c) PROVE Asked(c)'
  <2>1. PICK h \in Nodes : \E i \in 1 .. Len(queues[h]) : GetAt(c, h, i)
    BY <1>1 DEF Asked
  <2>2. PICK i \in 1 .. Len(queues[h]) : GetAt(c, h, i)
    BY <2>1
  <2>3. i \in 1 .. Len(queues'[h]) /\ queues'[h][i] = queues[h][i]
    BY SendParts
  <2> QED
    BY <2>2, <2>3 DEF Asked, GetAt
<1>2. ASSUME m.kind = "Get", m.sender = c PROVE Asked(c)'
  <2>1. /\ Len(queues[t]) + 1 \in 1 .. Len(queues'[t])
        /\ queues'[t][Len(queues[t]) + 1] = m
    BY SendParts
  <2> QED
    BY <1>2, <2>1 DEF Asked, GetAt
<1>3. ASSUME Asked(c)' PROVE Asked(c) \/ (m.kind = "Get" /\ m.sender = c)
  <2>1. PICK h \in Nodes : \E i \in 1 .. Len(queues'[h]) : GetAt(c, h, i)'
    BY <1>3 DEF Asked
  <2>2. PICK i \in 1 .. Len(queues'[h]) : GetAt(c, h, i)'
    BY <2>1
  <2>3. \/ i \in 1 .. Len(queues[h]) /\ queues'[h][i] = queues[h][i]
        \/ queues'[h][i] = m
    BY SendParts
  <2> QED
    BY <2>2, <2>3 DEF Asked, GetAt
<1>4. ASSUME Replied(c) PROVE Replied(c)'
  <2>1. PICK i \in 1 .. Len(queues[c]) : ReplyAt(c, i)
    BY <1>4 DEF Replied
  <2>2. i \in 1 .. Len(queues'[c]) /\ queues'[c][i] = queues[c][i]
    BY SendParts
  <2> QED
    BY <2>1, <2>2 DEF Replied, ReplyAt
<1>5. ASSUME m.kind = "Reply", t = c PROVE Replied(c)'
  <2>1. /\ Len(queues[t]) + 1 \in 1 .. Len(queues'[t])
        /\ queues'[t][Len(queues[t]) + 1] = m
    BY SendParts
  <2> QED
    BY <1>5, <2>1 DEF Replied, ReplyAt
<1>6. ASSUME Replied(c)' PROVE Replied(c) \/ (m.kind = "Reply" /\ t = c)
  <2>1. PICK i \in 1 .. Len(queues'[c]) : ReplyAt(c, i)'
    BY <1>6 DEF Replied
  <2>2. \/ i \in 1 .. Len(queues[c]) /\ queues'[c][i] = queues[c][i]
        \/ c = t /\ queues'[c][i] = m
    BY SendParts
  <2> QED
    BY <2>1, <2>2 DEF Replied, ReplyAt
<1> QED
  BY <1>1, <1>2, <1>3, <1>4, <1>5, <1>6

\* and receiving takes away the question or answer it received.
LEMMA ReceiveTokens ==
  ASSUME TypeOK, OneGet, OneReply, NEW n \in Nodes, NEW kind, Receive(n, kind), NEW c \in Nodes
  PROVE  /\ Asked(c) <=> Asked(c)' \/ (kind = "Get" /\ Head(queues[n]).sender = c)
         /\ kind = "Get" /\ Head(queues[n]).sender = c => ~Asked(c)'
         /\ Replied(c) <=> Replied(c)' \/ (kind = "Reply" /\ n = c)
         /\ kind = "Reply" /\ n = c => ~Replied(c)'
<1> DEFINE m == Head(queues[n])
<1>0. 1 \in 1 .. Len(queues[n]) /\ m = queues[n][1] /\ m.kind = kind
  BY ReceiveParts
<1>1. ASSUME NEW h \in Nodes, NEW j \in 1 .. Len(queues'[h]), GetAt(c, h, j)'
      PROVE  Asked(c) /\ ~(kind = "Get" /\ m.sender = c)
  <2>1. /\ Before(n, h, j) \in 1 .. Len(queues[h])
        /\ queues'[h][j] = queues[h][Before(n, h, j)]
    BY ReceiveParts
  <2>2. GetAt(c, h, Before(n, h, j))
    BY <1>1, <2>1 DEF GetAt
  <2>3. kind = "Get" /\ m.sender = c => GetAt(c, n, 1)
    BY <1>0 DEF GetAt
  <2>4. ~(h = n /\ Before(n, h, j) = 1)
    BY DEF Before
  <2> QED
    BY <1>0, <2>1, <2>2, <2>3, <2>4 DEF OneGet, Asked
<1>2. ASSUME kind = "Get", m.sender = c PROVE Asked(c)
  BY <1>0, <1>2 DEF Asked, GetAt
<1>3. ASSUME Asked(c) PROVE Asked(c)' \/ (kind = "Get" /\ m.sender = c)
  <2>1. PICK h \in Nodes : \E i \in 1 .. Len(queues[h]) : GetAt(c, h, i)
    BY <1>3 DEF Asked
  <2>2. PICK i \in 1 .. Len(queues[h]) : GetAt(c, h, i)
    BY <2>1
  <2>3. \/ h = n /\ i = 1
        \/ /\ After(n, h, i) \in 1 .. Len(queues'[h])
           /\ queues'[h][After(n, h, i)] = queues[h][i]
    BY ReceiveParts
  <2> QED
    BY <1>0, <2>2, <2>3 DEF Asked, GetAt
<1>4. ASSUME NEW j \in 1 .. Len(queues'[c]), ReplyAt(c, j)'
      PROVE  Replied(c) /\ ~(kind = "Reply" /\ n = c)
  <2>1. /\ Before(n, c, j) \in 1 .. Len(queues[c])
        /\ queues'[c][j] = queues[c][Before(n, c, j)]
    BY ReceiveParts
  <2>2. ReplyAt(c, Before(n, c, j))
    BY <1>4, <2>1 DEF ReplyAt
  <2>3. kind = "Reply" => ReplyAt(n, 1)
    BY <1>0 DEF ReplyAt
  <2>4. ~(c = n /\ Before(n, c, j) = 1)
    BY DEF Before
  <2> QED
    BY <1>0, <2>1, <2>2, <2>3, <2>4 DEF OneReply, Replied
<1>5. ASSUME kind = "Reply", n = c PROVE Replied(c)
  BY <1>0, <1>5 DEF Replied, ReplyAt
<1>6. ASSUME Replied(c) PROVE Replied(c)' \/ (kind = "Reply" /\ n = c)
  <2>1. PICK i \in 1 .. Len(queues[c]) : ReplyAt(c, i)
    BY <1>6 DEF Replied
  <2>2. \/ c = n /\ i = 1
        \/ /\ After(n, c, i) \in 1 .. Len(queues'[c])
           /\ queues'[c][After(n, c, i)] = queues[c][i]
    BY ReceiveParts
  <2> QED
    BY <1>0, <2>1, <2>2 DEF Replied, ReplyAt
<1>7. Asked(c)' => Asked(c) /\ ~(kind = "Get" /\ m.sender = c)
  BY <1>1 DEF Asked
<1>8. Replied(c)' => Replied(c) /\ ~(kind = "Reply" /\ n = c)
  BY <1>4 DEF Replied
<1> QED
  BY <1>2, <1>3, <1>5, <1>6, <1>7, <1>8

-----------------------------------------------------------------------------
\* What a send or a receive leaves of the parts of IInv that look into queues.

LEMMA SendKept ==
  ASSUME TypeOK, QueuesKept, NEW t \in Nodes, NEW m \in Message, Send(t, m),
         MessageKept(t, m)
  PROVE  QueuesKept'
<1> SUFFICES ASSUME NEW h \in Nodes, NEW i \in 1 .. Len(queues'[h])
             PROVE  MessageKept(h, queues'[h][i])
  BY DEF QueuesKept, MessageKept
<1>1. \/ i \in 1 .. Len(queues[h]) /\ queues'[h][i] = queues[h][i]
      \/ h = t /\ queues'[h][i] = m
  BY SendParts
<1> QED
  BY <1>1 DEF QueuesKept

LEMMA SendOnce ==
  ASSUME TypeOK, OneGet, OneReply, NEW t \in Nodes, NEW m \in Message, Send(t, m),
         m.kind = "Get" => ~Asked(m.sender),
         m.kind = "Reply" => ~Replied(t)
  PROVE  OneGet' /\ OneReply'
<1>1. ASSUME NEW n \in Nodes, NEW h \in Nodes, NEW g \in Nodes,
             NEW i \in 1 .. Len(queues'[h]), NEW j \in 1 .. Len(queues'[g]),
             GetAt(n, h, i)', GetAt(n, g, j)'
      PROVE  h = g /\ i = j
  <2>1. \/ i \in 1 .. Len(queues[h]) /\ queues'[h][i] = queues[h][i]
        \/ h = t /\ i = Len(queues[h]) + 1 /\ queues'[h][i] = m
    BY SendParts
  <2>2. \/ j \in 1 .. Len(queues[g]) /\ queues'[g][j] = queues[g][j]
        \/ g = t /\ j = Len(queues[g]) + 1 /\ queues'[g][j] = m
    BY SendParts
  <2>3. CASE i \in 1 .. Len(queues[h]) /\ j \in 1 .. Len(queues[g])
    <3>1. queues'[h][i] = queues[h][i]
      BY <2>3, SendParts
    <3>2. queues'[g][j] = queues[g][j]
      BY <2>3, SendParts
    <3> QED
      BY <1>1, <2>3, <3>1, <3>2 DEF OneGet, GetAt
  <2>4. CASE ~(i \in 1 .. Len(queues[h])) /\ ~(j \in 1 .. Len(queues[g]))
    BY <2>1, <2>2, <2>4
  <2>5. CASE i \in 1 .. Len(queues[h]) /\ ~(j \in 1 .. Len(queues[g]))
    <3>1. queues'[h][i] = queues[h][i] /\ queues'[g][j] = m
      BY <2>2, <2>5, SendParts
    <3> QED
      BY <1>1, <2>5, <3>1 DEF GetAt, Asked
  <2>6. CASE ~(i \in 1 .. Len(queues[h])) /\ j \in 1 .. Len(queues[g])
    <3>1. queues'[h][i] = m /\ queues'[g][j] = queues[g][j]
      BY <2>1, <2>6, SendParts
    <3> QED
      BY <1>1, <2>6, <3>1 DEF GetAt, Asked
  <2> QED
    BY <2>3, <2>4, <2>5, <2>6
<1>2. ASSUME NEW n \in Nodes, NEW i \in 1 .. Len(queues'[n]), NEW j \in 1 .. Len(queues'[n]),
             ReplyAt(n, i)', ReplyAt(n, j)'
      PROVE  i = j
  <2>1. \/ i \in 1 .. Len(queues[n]) /\ queues'[n][i] = queues[n][i]
        \/ n = t /\ i = Len(queues[n]) + 1 /\ queues'[n][i] = m
    BY SendParts
  <2>2. \/ j \in 1 .. Len(queues[n]) /\ queues'[n][j] = queues[n][j]
        \/ n = t /\ j = Len(queues[n]) + 1 /\ queues'[n][j] = m
    BY SendParts
  <2> QED
    BY <1>2, <2>1, <2>2 DEF OneReply, ReplyAt, Replied
<1> QED
  BY <1>1, <1>2 DEF OneGet, OneReply

LEMMA SendForTheKey ==
  ASSUME TypeOK, GetForTheKey, ReplyForTheKey,
         NEW t \in Nodes, NEW m \in Message, Send(t, m),
         \A n \in Nodes : Asked(n) \/ Replied(n) => want'[n] = want[n],
         m.kind = "Get" => m.key = want'[m.sender],
         m.kind = "Reply" => m.key = want'[t]
  PROVE  GetForTheKey' /\ ReplyForTheKey'
<1>1. ASSUME NEW n \in Nodes, NEW h \in Nodes, NEW i \in 1 .. Len(queues'[h]), GetAt(n, h, i)'
      PROVE  queues'[h][i].key = want'[n]
  <2>1. \/ i \in 1 .. Len(queues[h]) /\ queues'[h][i] = queues[h][i]
        \/ queues'[h][i] = m
    BY SendParts
  <2>2. CASE i \in 1 .. Len(queues[h]) /\ queues'[h][i] = queues[h][i]
    <3>1. GetAt(n, h, i)
      BY <1>1, <2>2 DEF GetAt
    <3>2. queues[h][i].key = want[n] /\ Asked(n)
      BY <2>2, <3>1 DEF GetForTheKey, Asked
    <3> QED
      BY <2>2, <3>2
  <2>3. CASE queues'[h][i] = m
    BY <1>1, <2>3 DEF GetAt
  <2> QED
    BY <2>1, <2>2, <2>3
<1>2. ASSUME NEW n \in Nodes, NEW i \in 1 .. Len(queues'[n]), ReplyAt(n, i)'
      PROVE  queues'[n][i].key = want'[n]
  <2>1. \/ i \in 1 .. Len(queues[n]) /\ queues'[n][i] = queues[n][i]
        \/ n = t /\ queues'[n][i] = m
    BY SendParts
  <2> QED
    BY <1>2, <2>1 DEF ReplyForTheKey, ReplyAt, Replied
<1> QED
  BY <1>1, <1>2 DEF GetForTheKey, ReplyForTheKey

LEMMA SendInOrder ==
  ASSUME TypeOK, PutsBeforeGet, NEW t \in Nodes, NEW m \in Message, Send(t, m),
         m.kind = "Put" => ~Asked(m.sender)
  PROVE  PutsBeforeGet'
<1> SUFFICES ASSUME NEW n \in Nodes, NEW h \in Nodes,
                    NEW i \in 1 .. Len(queues'[h]), NEW j \in 1 .. Len(queues'[h]),
                    PutAt(n, h, i)', GetAt(n, h, j)'
             PROVE  i < j
  BY DEF PutsBeforeGet
<1>1. \/ i \in 1 .. Len(queues[h]) /\ queues'[h][i] = queues[h][i]
      \/ i = Len(queues[h]) + 1 /\ queues'[h][i] = m
  BY SendParts
<1>2. \/ j \in 1 .. Len(queues[h]) /\ queues'[h][j] = queues[h][j]
      \/ j = Len(queues[h]) + 1 /\ queues'[h][j] = m
  BY SendParts
<1>3. Len(queues[h]) \in Nat
  BY SendParts
<1>4. CASE i \in 1 .. Len(queues[h]) /\ queues'[h][i] = queues[h][i]
  <2>1. PutAt(n, h, i)
    BY <1>4 DEF PutAt
  <2>2. CASE j \in 1 .. Len(queues[h]) /\ queues'[h][j] = queues[h][j]
    <3>1. GetAt(n, h, j)
      BY <2>2 DEF GetAt
    <3> QED
      BY <1>4, <2>1, <2>2, <3>1 DEF PutsBeforeGet
  <2>3. CASE j = Len(queues[h]) + 1
    BY <1>3, <1>4, <2>3
  <2> QED
    BY <1>2, <2>2, <2>3
<1>5. CASE i = Len(queues[h]) + 1 /\ queues'[h][i] = m
  <2>1. ~Asked(n) /\ m.kind = "Put"
    BY <1>5 DEF PutAt
  <2>2. ~(j \in 1 .. Len(queues[h]) /\ queues'[h][j] = queues[h][j])
    BY <2>1 DEF GetAt, Asked
  <2> QED
    BY <1>2, <2>1, <2>2 DEF GetAt
<1> QED
  BY <1>1, <1>4, <1>5

LEMMA SendOwnPuts ==
  ASSUME TypeOK, NEW t \in Nodes, NEW m \in Message, Send(t, m), NEW n \in Nodes,
         NEW h \in Nodes, \A i \in 1 .. Len(queues[h]) : ~PutAt(n, h, i),
         ~(m.kind = "Put" /\ m.sender = n)
  PROVE  \A i \in 1 .. Len(queues'[h]) : ~PutAt(n, h, i)'
<1> SUFFICES ASSUME NEW i \in 1 .. Len(queues'[h]), PutAt(n, h, i)'
             PROVE  FALSE
  OBVIOUS
<1>1. \/ i \in 1 .. Len(queues[h]) /\ queues'[h][i] = queues[h][i]
      \/ queues'[h][i] = m
  BY SendParts
<1> QED
  BY <1>1 DEF PutAt

LEMMA ReceiveKept ==
  ASSUME TypeOK, QueuesKept, NEW n \in Nodes, NEW kind, Receive(n, kind)
  PROVE  QueuesKept' /\ MessageKept(n, Head(queues[n]))
<1>1. ASSUME NEW h \in Nodes, NEW j \in 1 .. Len(queues'[h])
      PROVE  MessageKept(h, queues'[h][j])
  <2>1. /\ Before(n, h, j) \in 1 .. Len(queues[h])
        /\ queues'[h][j] = queues[h][Before(n, h, j)]
    BY ONLY TypeOK, Receive(n, kind), ReceiveParts
  <2> QED
    BY <2>1 DEF QueuesKept
<1>2. MessageKept(n, Head(queues[n]))
  BY ReceiveParts DEF QueuesKept
<1> QED
  BY <1>1, <1>2 DEF QueuesKept, MessageKept

LEMMA ReceiveOnce ==
  ASSUME TypeOK, OneGet, OneReply, NEW n \in Nodes, NEW kind, Receive(n, kind)
  PROVE  OneGet' /\ OneReply'
<1>1. ASSUME NEW c \in Nodes, NEW h \in Nodes, NEW g \in Nodes,
             NEW i \in 1 .. Len(queues'[h]), NEW j \in 1 .. Len(queues'[g]),
             GetAt(c, h, i)', GetAt(c, g, j)'
      PROVE  h = g /\ i = j
  <2>1. Before(n, h, i) \in 1 .. Len(queues[h]) /\ GetAt(c, h, Before(n, h, i))
    BY <1>1, ReceiveParts DEF GetAt
  <2>2. Before(n, g, j) \in 1 .. Len(queues[g]) /\ GetAt(c, g, Before(n, g, j))
    BY <1>1, ReceiveParts DEF GetAt
  <2>3. h = g /\ Before(n, h, i) = Before(n, g, j)
    BY <2>1, <2>2 DEF OneGet
  <2> QED
    BY <2>3 DEF Before
<1>2. ASSUME NEW c \in Nodes, NEW i \in 1 .. Len(queues'[c]), NEW j \in 1 .. Len(queues'[c]),
             ReplyAt(c, i)', ReplyAt(c, j)'
      PROVE  i = j
  <2>1. Before(n, c, i) \in 1 .. Len(queues[c]) /\ ReplyAt(c, Before(n, c, i))
    BY <1>2, ReceiveParts DEF ReplyAt
  <2>2. Before(n, c, j) \in 1 .. Len(queues[c]) /\ ReplyAt(c, Before(n, c, j))
    BY <1>2, ReceiveParts DEF ReplyAt
  <2>3. Before(n, c, i) = Before(n, c, j)
    BY <2>1, <2>2 DEF OneReply
  <2> QED
    BY <2>3 DEF Before
<1> QED
  BY <1>1, <1>2 DEF OneGet, OneReply

LEMMA ReceiveForTheKey ==
  ASSUME TypeOK, GetForTheKey, ReplyForTheKey, want' = want,
         NEW n \in Nodes, NEW kind, Receive(n, kind)
  PROVE  /\ GetForTheKey' /\ ReplyForTheKey'
         /\ kind = "Get" => Head(queues[n]).key = want[Head(queues[n]).sender]
         /\ kind = "Reply" => Head(queues[n]).key = want[n]
<1>1. ASSUME NEW c \in Nodes, NEW h \in Nodes, NEW j \in 1 .. Len(queues'[h]), GetAt(c, h, j)'
      PROVE  queues'[h][j].key = want[c]
  <2>1. /\ Before(n, h, j) \in 1 .. Len(queues[h])
        /\ queues'[h][j] = queues[h][Before(n, h, j)]
    BY ReceiveParts
  <2> QED
    BY <1>1, <2>1 DEF GetForTheKey, GetAt
<1>2. ASSUME NEW c \in Nodes, NEW j \in 1 .. Len(queues'[c]), ReplyAt(c, j)'
      PROVE  queues'[c][j].key = want[c]
  <2>1. /\ Before(n, c, j) \in 1 .. Len(queues[c])
        /\ queues'[c][j] = queues[c][Before(n, c, j)]
    BY ReceiveParts
  <2> QED
    BY <1>2, <2>1 DEF ReplyForTheKey, ReplyAt
<1>3. Head(queues[n]) \in Message
  BY ReceiveType
<1>4. kind = "Get" => Head(queues[n]).key = want[Head(queues[n]).sender]
  BY <1>3, MessageParts, ReceiveParts DEF GetForTheKey, GetAt
<1>5. kind = "Reply" => Head(queues[n]).key = want[n]
  BY ReceiveParts DEF ReplyForTheKey, ReplyAt
<1> QED
  BY <1>1, <1>2, <1>4, <1>5 DEF GetForTheKey, ReplyForTheKey

LEMMA ReceiveInOrder ==
  ASSUME TypeOK, PutsBeforeGet, NEW n \in Nodes, NEW kind, Receive(n, kind)
  PROVE  PutsBeforeGet'
<1> SUFFICES ASSUME NEW c \in Nodes, NEW h \in Nodes,
                    NEW i \in 1 .. Len(queues'[h]), NEW j \in 1 .. Len(queues'[h]),
                    PutAt(c, h, i)', GetAt(c, h, j)'
             PROVE  i < j
  BY DEF PutsBeforeGet
<1>1. Before(n, h, i) \in 1 .. Len(queues[h]) /\ PutAt(c, h, Before(n, h, i))
  BY ReceiveParts DEF PutAt
<1>2. Before(n, h, j) \in 1 .. Len(queues[h]) /\ GetAt(c, h, Before(n, h, j))
  BY ReceiveParts DEF GetAt
<1>3. Before(n, h, i) < Before(n, h, j)
  BY <1>1, <1>2 DEF PutsBeforeGet
<1> QED
  BY <1>3 DEF Before

LEMMA ReceiveOwnPuts ==
  ASSUME TypeOK, NEW n \in Nodes, NEW kind, Receive(n, kind), NEW c \in Nodes,
         NEW h \in Nodes, \A i \in 1 .. Len(queues[h]) : ~PutAt(c, h, i)
  PROVE  \A i \in 1 .. Len(queues'[h]) : ~PutAt(c, h, i)'
<1> SUFFICES ASSUME NEW j \in 1 .. Len(queues'[h]) PROVE ~PutAt(c, h, j)'
  OBVIOUS
<1>1. /\ Before(n, h, j) \in 1 .. Len(queues[h])
      /\ queues'[h][j] = queues[h][Before(n, h, j)]
  BY ReceiveParts
<1> QED
  BY <1>1 DEF PutAt

-----------------------------------------------------------------------------
\* The parts of IInv by the name of what they are about.
USE DEF OneAnswerInFlight, KeptUnderItsKey, AnswerIsForTheKey, ReadYourWrites

\* Nothing is under way at the start.
LEMMA InitInv == Init => IInv
<1> SUFFICES ASSUME Init PROVE IInv
  OBVIOUS
<1>1. TypeOK
  BY InitType
<1>2. \A n \in Nodes : \A i \in 1 .. Len(queues[n]) : FALSE
  BY DEF Init
<1>3. \A n \in Nodes : ~Asked(n) /\ ~Served(n) /\ ~Replied(n) /\ ~Filled(n)
  BY <1>2 DEF Init, Asked, Served, Replied, Filled
<1>4. OneAtATime /\ OneWhileWaiting
  BY <1>3 DEF Init, OneAtATime, OneWhileWaiting
<1>5. OneGet /\ OneReply /\ QueuesKept /\ GetForTheKey /\ ReplyForTheKey /\ PutsBeforeGet
  BY <1>2 DEF OneGet, OneReply, QueuesKept, GetForTheKey, ReplyForTheKey, PutsBeforeGet
<1>6. OneReplier /\ RepliersKept /\ ReplierForTheKey
  BY DEF Init, OneReplier, RepliersKept, ReplierForTheKey
<1>7. StoreKept
  BY DEF Init, StoreKept
<1>8. SlotForTheKey /\ OwnPutsApplied
  BY <1>3 DEF SlotForTheKey, OwnPutsApplied
<1> QED
  BY <1>1, <1>4, <1>5, <1>6, <1>7, <1>8 DEF IInv

\* A node that is being answered wants a key, so that its home is a node.
LEMMA WantedKey ==
  ASSUME IInv, NEW n \in Nodes, Asked(n) \/ Served(n) \/ Replied(n) \/ Filled(n)
  PROVE  want[n] \in Keys /\ Home[want[n]] \in Nodes
<1> USE DEF IInv
<1>1. CASE Asked(n)
  <2>1. PICK h \in Nodes : \E i \in 1 .. Len(queues[h]) : GetAt(n, h, i)
    BY <1>1 DEF Asked
  <2>2. PICK i \in 1 .. Len(queues[h]) : GetAt(n, h, i)
    BY <2>1
  <2>3. queues[h][i] \in Message
    BY DEF TypeOK
  <2>4. queues[h][i].key = want[n]
    BY <2>2 DEF AnswerIsForTheKey, GetForTheKey
  <2>5. queues[h][i].key \in Keys
    BY <2>2, <2>3, MessageParts DEF GetAt
  <2> QED
    BY <2>4, <2>5
<1>2. CASE Served(n)
  BY <1>2 DEF Served, TypeOK, Replier, ReplierForTheKey
<1>3. CASE Replied(n)
  <2>1. PICK i \in 1 .. Len(queues[n]) : ReplyAt(n, i)
    BY <1>3 DEF Replied
  <2>2. queues[n][i] \in Message
    BY DEF TypeOK
  <2> QED
    BY <2>1, <2>2, MessageParts DEF ReplyForTheKey, ReplyAt
<1>4. CASE Filled(n)
  BY <1>4 DEF Filled, TypeOK, Blob, SlotForTheKey
<1> QED
  BY <1>1, <1>2, <1>3, <1>4

\* A step that touches no queue, replier or slot keeps the invariant when it
\* keeps the store in order and nobody starts or stops to wait.
LEMMA QuietStep ==
  ASSUME IInv, TypeOK', StoreKept', UNCHANGED <<queues, cur, repliers, want>>,
         \A n \in Nodes : (phase'[n] = "await") <=> (phase[n] = "await")
  PROVE  IInv'
<1>1. \A n \in Nodes : /\ Asked(n)' <=> Asked(n)
                       /\ Served(n)' <=> Served(n)
                       /\ Replied(n)' <=> Replied(n)
                       /\ Filled(n)' <=> Filled(n)
  BY DEF Asked, Served, Replied, Filled, GetAt, ReplyAt
<1>2. OneAtATime' /\ OneWhileWaiting'
  BY <1>1 DEF IInv, OneAtATime, OneWhileWaiting
<1>3. OneGet' /\ OneReply' /\ OneReplier'
  BY DEF IInv, OneGet, OneReply, OneReplier, GetAt, ReplyAt
<1>4. QueuesKept' /\ RepliersKept'
  BY DEF IInv, QueuesKept, RepliersKept, MessageKept
<1>5. GetForTheKey' /\ ReplyForTheKey' /\ ReplierForTheKey' /\ SlotForTheKey'
  BY DEF IInv, GetForTheKey, ReplyForTheKey, ReplierForTheKey, SlotForTheKey, GetAt,
         ReplyAt, Filled
<1>6. PutsBeforeGet' /\ OwnPutsApplied'
  BY <1>1 DEF IInv, PutsBeforeGet, OwnPutsApplied, PutAt, GetAt
<1> QED
  BY <1>2, <1>3, <1>4, <1>5, <1>6 DEF IInv

\* The same for a step that sends a Put or a Kill.
LEMMA QuietSend ==
  ASSUME IInv, TypeOK', NEW t \in Nodes, NEW m \in Message, Send(t, m),
         m.kind \in {"Put", "Kill"}, MessageKept(t, m), phase[m.sender] # "await",
         UNCHANGED <<store, cur, repliers, want>>,
         \A n \in Nodes : (phase'[n] = "await") <=> (phase[n] = "await")
  PROVE  IInv'
<1> USE DEF IInv
<1>1. \A n \in Nodes : (Asked(n)' <=> Asked(n)) /\ (Replied(n)' <=> Replied(n))
  BY SendTokens
<1>2. \A n \in Nodes : (Served(n)' <=> Served(n)) /\ (Filled(n)' <=> Filled(n))
  BY DEF Served, Filled
<1>3. m.sender \in Nodes
  BY MessageParts
<1>4. ~Asked(m.sender) /\ ~Served(m.sender) /\ ~Replied(m.sender) /\ ~Filled(m.sender)
  BY <1>3 DEF OneWhileWaiting
<1>5. OneAtATime' /\ OneWhileWaiting'
  BY <1>1, <1>2 DEF OneAtATime, OneWhileWaiting
<1>6. OneGet' /\ OneReply'
  BY SendOnce
<1>7. OneReplier' /\ RepliersKept' /\ ReplierForTheKey' /\ StoreKept' /\ SlotForTheKey'
  BY DEF OneReplier, RepliersKept, ReplierForTheKey, StoreKept, SlotForTheKey, Filled
<1>8. QueuesKept'
  BY SendKept
<1>9. GetForTheKey' /\ ReplyForTheKey'
  BY SendForTheKey
<1>10. PutsBeforeGet'
  BY <1>4, SendInOrder
<1>11. OwnPutsApplied'
  <2> SUFFICES ASSUME NEW n \in Nodes, Served(n)' \/ Replied(n)' \/ Filled(n)'
               PROVE  \A i \in 1 .. Len(queues'[Home[want[n]]]) :
                        ~PutAt(n, Home[want[n]], i)'
    BY DEF OwnPutsApplied, PutAt
  <2>1. Served(n) \/ Replied(n) \/ Filled(n)
    BY <1>1, <1>2
  <2>2. n # m.sender
    BY <1>4, <2>1
  <2>3. \A i \in 1 .. Len(queues[Home[want[n]]]) : ~PutAt(n, Home[want[n]], i)
    BY <2>1 DEF OwnPutsApplied
  <2>4. Home[want[n]] \in Nodes
    BY <2>1, WantedKey
  <2> QED
    BY <2>2, <2>3, <2>4, SendOwnPuts
<1> QED
  BY <1>5, <1>6, <1>7, <1>8, <1>9, <1>10, <1>11

\* The same for a step that receives a Put or a Kill.
LEMMA QuietReceive ==
  ASSUME IInv, TypeOK', StoreKept', NEW n \in Nodes, NEW kind \in {"Put", "Kill"},
         Receive(n, kind), UNCHANGED <<cur, repliers, phase, want>>
  PROVE  IInv'
<1> USE DEF IInv
<1>1. \A c \in Nodes : (Asked(c)' <=> Asked(c)) /\ (Replied(c)' <=> Replied(c))
  BY ReceiveTokens
<1>2. \A c \in Nodes : (Served(c)' <=> Served(c)) /\ (Filled(c)' <=> Filled(c))
  BY DEF Served, Filled
<1>3. OneAtATime' /\ OneWhileWaiting'
  BY <1>1, <1>2 DEF OneAtATime, OneWhileWaiting
<1>4. OneGet' /\ OneReply'
  BY ReceiveOnce
<1>5. OneReplier' /\ RepliersKept' /\ ReplierForTheKey' /\ SlotForTheKey'
  BY DEF OneReplier, RepliersKept, ReplierForTheKey, SlotForTheKey, Filled
<1>6. QueuesKept' /\ GetForTheKey' /\ ReplyForTheKey' /\ PutsBeforeGet'
  BY ReceiveKept, ReceiveForTheKey, ReceiveInOrder
<1>7. OwnPutsApplied'
  <2> SUFFICES ASSUME NEW c \in Nodes, Served(c)' \/ Replied(c)' \/ Filled(c)'
               PROVE  \A i \in 1 .. Len(queues'[Home[want[c]]]) :
                        ~PutAt(c, Home[want[c]], i)'
    BY DEF OwnPutsApplied, PutAt
  <2>1. Served(c) \/ Replied(c) \/ Filled(c)
    BY <1>1, <1>2
  <2>2. \A i \in 1 .. Len(queues[Home[want[c]]]) : ~PutAt(c, Home[want[c]], i)
    BY <2>1 DEF OwnPutsApplied
  <2>3. Home[want[c]] \in Nodes
    BY <2>1, WantedKey
  <2> QED
    BY <2>2, <2>3, ReceiveOwnPuts
<1> QED
  BY <1>3, <1>4, <1>5, <1>6, <1>7

\* A local put of a value under its own key, at the home of the key.
LEMMA StorePutKept ==
  ASSUME TypeOK, StoreKept, NEW n \in Nodes, NEW k \in Keys, NEW b \in Blob, b.of = k,
         Home[k] = n, store' = [store EXCEPT ![n][k] = b]
  PROVE  StoreKept'
<1> SUFFICES ASSUME NEW c \in Nodes, NEW j \in Keys, store'[c][j] # Nil
             PROVE  store'[c][j].of = j /\ Home[j] = c
  BY DEF StoreKept
<1>1. store[n] \in [Keys -> Blob \cup {Nil}] /\ store \in [Nodes -> [Keys -> Blob \cup {Nil}]]
  BY DEF TypeOK
<1>2. store'[c][j] = IF c = n /\ j = k THEN b ELSE store[c][j]
  BY <1>1
<1> QED
  BY <1>2 DEF StoreKept

\* Asking: nothing was under way for n, and now its Get is.
LEMMA GetRemoteInv ==
  ASSUME IInv, TypeOK', NEW n \in Nodes, NEW k \in Keys, GetRemote(n, k)
  PROVE  IInv'
<1> USE DEF IInv
<1> DEFINE m == GetMessage(n, k)
<1>1. /\ Send(Home[k], m) /\ UNCHANGED <<store, cur, repliers>>
      /\ want' = [want EXCEPT ![n] = k]
      /\ phase[n] = "run" /\ phase' = [phase EXCEPT ![n] = "await"]
      /\ Home[k] \in Nodes
  BY DEF GetRemote, servicerVars
<1>2. m \in Message /\ m.kind = "Get" /\ m.sender = n /\ m.key = k /\ MessageKept(Home[k], m)
  BY DEF GetMessage, Message, MessageKept
<1>3. ~Asked(n) /\ ~Served(n) /\ ~Replied(n) /\ ~Filled(n)
  BY <1>1 DEF OneWhileWaiting
<1>4. \A c \in Nodes : /\ Asked(c)' <=> (Asked(c) \/ c = n)
                       /\ Replied(c)' <=> Replied(c)
  BY <1>1, <1>2, SendTokens
<1>5. \A c \in Nodes : (Served(c)' <=> Served(c)) /\ (Filled(c)' <=> Filled(c))
  BY <1>1 DEF Served, Filled
<1>6. \A c \in Nodes : c # n => want'[c] = want[c] /\ phase'[c] = phase[c]
  BY <1>1 DEF TypeOK
<1>7. want'[n] = k /\ phase'[n] = "await"
  BY <1>1 DEF TypeOK
<1>8. OneAtATime' /\ OneWhileWaiting'
  BY <1>3, <1>4, <1>5, <1>6, <1>7 DEF OneAtATime, OneWhileWaiting
<1>9. OneGet' /\ OneReply'
  BY <1>1, <1>2, <1>3, SendOnce
<1>10. OneReplier' /\ RepliersKept' /\ StoreKept' /\ QueuesKept'
  BY <1>1, <1>2, SendKept DEF OneReplier, RepliersKept, StoreKept
<1>11. GetForTheKey' /\ ReplyForTheKey'
  BY <1>1, <1>2, <1>3, <1>6, <1>7, SendForTheKey
<1>12. ReplierForTheKey'
  BY <1>1, <1>3, <1>6 DEF ReplierForTheKey, Served, TypeOK, Replier
<1>13. SlotForTheKey'
  BY <1>1, <1>3, <1>6 DEF SlotForTheKey, Filled
<1>14. PutsBeforeGet'
  BY <1>1, <1>2, SendInOrder
<1>15. OwnPutsApplied'
  <2> SUFFICES ASSUME NEW c \in Nodes, Served(c)' \/ Replied(c)' \/ Filled(c)'
               PROVE  (\A i \in 1 .. Len(queues[Home[want[c]]]) :
                         ~PutAt(c, Home[want[c]], i))'
    BY DEF OwnPutsApplied
  <2>1. (Served(c) \/ Replied(c) \/ Filled(c)) /\ c # n
    BY <1>3, <1>4, <1>5
  <2>2. want'[c] = want[c]
    BY <1>6, <2>1
  <2>3. PICK h \in Nodes : h = Home[want[c]]
    BY <2>1, WantedKey
  <2>4. \A i \in 1 .. Len(queues[h]) : ~PutAt(c, h, i)
    BY <2>1, <2>3 DEF OwnPutsApplied
  <2>5. \A i \in 1 .. Len(queues'[h]) : ~PutAt(c, h, i)'
    BY <1>1, <1>2, <2>4, SendOwnPuts
  <2> QED
    BY <2>2, <2>3, <2>5 DEF PutAt
<1> QED
  BY <1>8, <1>9, <1>10, <1>11, <1>12, <1>13, <1>14, <1>15

\* Taking the answer leaves nothing under way.
LEMMA NextValueInv ==
  ASSUME IInv, TypeOK', NEW n \in Nodes, NextValue(n)
  PROVE  IInv'
<1> USE DEF IInv
<1>1. /\ UNCHANGED <<queues, store, repliers, want>> /\ cur[n] # Nil
      /\ cur' = [cur EXCEPT ![n] = Nil] /\ phase' = [phase EXCEPT ![n] = "run"]
  BY DEF NextValue
<1>2. Filled(n) /\ ~Asked(n) /\ ~Served(n) /\ ~Replied(n)
  BY <1>1 DEF Filled, OneAtATime
<1>3. \A c \in Nodes : /\ Asked(c)' <=> Asked(c)
                       /\ Served(c)' <=> Served(c)
                       /\ Replied(c)' <=> Replied(c)
  BY <1>1 DEF Asked, Served, Replied, GetAt, ReplyAt
<1>4. \A c \in Nodes : c # n => cur'[c] = cur[c] /\ phase'[c] = phase[c]
  BY <1>1 DEF TypeOK
<1>5. ~Filled(n)' /\ phase'[n] = "run"
  BY <1>1 DEF TypeOK, Filled
<1>6. \A c \in Nodes : Filled(c)' <=> (Filled(c) /\ c # n)
  BY <1>4, <1>5 DEF Filled
<1>7. OneAtATime' /\ OneWhileWaiting'
  BY <1>2, <1>3, <1>4, <1>5, <1>6 DEF OneAtATime, OneWhileWaiting
<1>8. OneGet' /\ OneReply' /\ OneReplier' /\ StoreKept' /\ QueuesKept' /\ RepliersKept'
  BY <1>1 DEF OneGet, OneReply, OneReplier, StoreKept, QueuesKept, RepliersKept,
              MessageKept, GetAt, ReplyAt
<1>9. GetForTheKey' /\ ReplyForTheKey' /\ ReplierForTheKey' /\ SlotForTheKey'
  <2>1. GetForTheKey' /\ ReplyForTheKey'
    BY <1>1 DEF GetForTheKey, ReplyForTheKey, GetAt, ReplyAt
  <2>2. ReplierForTheKey'
    BY <1>1 DEF ReplierForTheKey
  <2>3. SlotForTheKey'
    BY <1>1, <1>4, <1>6 DEF SlotForTheKey
  <2> QED
    BY <2>1, <2>2, <2>3
<1>10. PutsBeforeGet'
  BY <1>1 DEF PutsBeforeGet, PutAt, GetAt
<1>11. OwnPutsApplied'
  BY <1>1, <1>3, <1>6 DEF OwnPutsApplied, PutAt
<1> QED
  BY <1>7, <1>8, <1>9, <1>10, <1>11

\* A Get becomes a replier.  The puts of its sender that were in the queue were
\* in front of it, and the Get is at the head.
LEMMA HandleGetInv ==
  ASSUME IInv, TypeOK', NEW n \in Nodes, HandleGet(n)
  PROVE  IInv'
<1> USE DEF IInv
<1> DEFINE m == Head(queues[n])
           s == m.sender
           q == NewReplier(n, m)
<1>1. /\ Receive(n, "Get") /\ UNCHANGED <<store, cur, phase, want>>
      /\ repliers' = repliers \cup {q}
  BY DEF HandleGet, appVars
<1>2. s \in Nodes /\ m.key \in Keys /\ m.kind = "Get"
  BY <1>1, ReceiveType, MessageParts
<1>3. Home[m.key] = n /\ m.key = want[s]
  BY <1>1, <1>2, ReceiveKept, ReceiveForTheKey DEF MessageKept
<1>4. q.client = s /\ q.key = m.key /\ q.at = n /\ q.value = Nil
  BY DEF NewReplier
<1>5. \A c \in Nodes : /\ Asked(c)' <=> (Asked(c) /\ c # s)
                       /\ Replied(c)' <=> Replied(c)
  BY <1>1, ReceiveTokens
<1>6. Asked(s)
  BY <1>1, <1>2, ReceiveTokens
<1>7. ~Served(s) /\ ~Replied(s) /\ ~Filled(s)
  BY <1>2, <1>6 DEF OneAtATime
<1>8. \A c \in Nodes : (Served(c)' <=> (Served(c) \/ c = s)) /\ (Filled(c)' <=> Filled(c))
  BY <1>1, <1>4 DEF Served, Filled
<1>9. OneAtATime' /\ OneWhileWaiting'
  BY <1>1, <1>2, <1>5, <1>6, <1>7, <1>8 DEF OneAtATime, OneWhileWaiting
<1>10. OneGet' /\ OneReply'
  BY <1>1, ReceiveOnce
<1>11. OneReplier'
  BY <1>1, <1>4, <1>7 DEF OneReplier, Served
<1>12. RepliersKept' /\ ReplierForTheKey' /\ StoreKept' /\ SlotForTheKey'
  BY <1>1, <1>3, <1>4 DEF RepliersKept, ReplierForTheKey, StoreKept, SlotForTheKey, Filled
<1>13. QueuesKept' /\ GetForTheKey' /\ ReplyForTheKey' /\ PutsBeforeGet'
  BY <1>1, ReceiveKept, ReceiveForTheKey, ReceiveInOrder
<1>14. \A i \in 1 .. Len(queues[n]) : ~PutAt(s, n, i)
  <2>1. 1 \in 1 .. Len(queues[n]) /\ GetAt(s, n, 1)
    BY <1>1, ReceiveParts DEF GetAt
  <2> QED
    BY <1>2, <2>1 DEF PutsBeforeGet
<1>15. OwnPutsApplied'
  <2> SUFFICES ASSUME NEW c \in Nodes, Served(c)' \/ Replied(c)' \/ Filled(c)'
               PROVE  \A i \in 1 .. Len(queues'[Home[want[c]]]) :
                        ~PutAt(c, Home[want[c]], i)'
    BY <1>1 DEF OwnPutsApplied, PutAt
  <2>1. CASE c = s
    BY <1>1, <1>3, <1>14, <2>1, ReceiveOwnPuts
  <2>2. CASE c # s
    <3>1. Served(c) \/ Replied(c) \/ Filled(c)
      BY <1>5, <1>8, <2>2
    <3>2. \A i \in 1 .. Len(queues[Home[want[c]]]) : ~PutAt(c, Home[want[c]], i)
      BY <3>1 DEF OwnPutsApplied
    <3>3. Home[want[c]] \in Nodes
      BY <3>1, WantedKey
    <3> QED
      BY <1>1, <3>2, <3>3, ReceiveOwnPuts
  <2> QED
    BY <2>1, <2>2
<1> QED
  BY <1>9, <1>10, <1>11, <1>12, <1>13, <1>15

\* A Reply becomes the value in the slot, which was empty.
LEMMA HandleReplyInv ==
  ASSUME IInv, TypeOK', NEW n \in Nodes, HandleReply(n)
  PROVE  IInv'
<1> USE DEF IInv
<1> DEFINE m == Head(queues[n])
<1>1. /\ Receive(n, "Reply") /\ UNCHANGED <<store, repliers, phase, want>>
      /\ cur' = [cur EXCEPT ![n] = m.value]
  BY DEF HandleReply, appVars
<1>2. m.kind = "Reply" /\ m.value # Nil
  BY <1>1, ReceiveType, MessageParts
<1>3. m.value.of = m.key /\ m.key = want[n]
  BY <1>1, <1>2, ReceiveKept, ReceiveForTheKey DEF MessageKept
<1>4. \A c \in Nodes : /\ Asked(c)' <=> Asked(c)
                       /\ Replied(c)' <=> (Replied(c) /\ c # n)
  BY <1>1, ReceiveTokens
<1>5. Replied(n)
  BY <1>1, ReceiveTokens
<1>6. ~Asked(n) /\ ~Served(n) /\ ~Filled(n)
  BY <1>5 DEF OneAtATime
<1>7. cur'[n] = m.value /\ \A c \in Nodes : c # n => cur'[c] = cur[c]
  BY <1>1 DEF TypeOK
<1>8. \A c \in Nodes : (Served(c)' <=> Served(c)) /\ (Filled(c)' <=> (Filled(c) \/ c = n))
  BY <1>1, <1>2, <1>7 DEF Served, Filled
<1>9. OneAtATime' /\ OneWhileWaiting'
  BY <1>1, <1>4, <1>5, <1>6, <1>8 DEF OneAtATime, OneWhileWaiting
<1>10. OneGet' /\ OneReply'
  BY <1>1, ReceiveOnce
<1>11. OneReplier' /\ RepliersKept' /\ ReplierForTheKey' /\ StoreKept'
  BY <1>1 DEF OneReplier, RepliersKept, ReplierForTheKey, StoreKept
<1>12. SlotForTheKey'
  BY <1>1, <1>3, <1>7 DEF SlotForTheKey, Filled
<1>13. QueuesKept' /\ GetForTheKey' /\ ReplyForTheKey' /\ PutsBeforeGet'
  BY <1>1, ReceiveKept, ReceiveForTheKey, ReceiveInOrder
<1>14. OwnPutsApplied'
  <2> SUFFICES ASSUME NEW c \in Nodes, Served(c)' \/ Replied(c)' \/ Filled(c)'
               PROVE  \A i \in 1 .. Len(queues'[Home[want[c]]]) :
                        ~PutAt(c, Home[want[c]], i)'
    BY <1>1 DEF OwnPutsApplied, PutAt
  <2>1. Served(c) \/ Replied(c) \/ Filled(c)
    BY <1>4, <1>5, <1>8
  <2>2. \A i \in 1 .. Len(queues[Home[want[c]]]) : ~PutAt(c, Home[want[c]], i)
    BY <2>1 DEF OwnPutsApplied
  <2>3. Home[want[c]] \in Nodes
    BY <2>1, WantedKey
  <2> QED
    BY <1>1, <2>2, <2>3, ReceiveOwnPuts
<1> QED
  BY <1>9, <1>10, <1>11, <1>12, <1>13, <1>14

\* A replier that has read its value is the same replier to everybody else.
LEMMA FetchInv ==
  ASSUME IInv, TypeOK', NEW r \in repliers, Fetch(r)
  PROVE  IInv'
<1> USE DEF IInv
<1> DEFINE q == [r EXCEPT !.value = store[r.at][r.key]]
<1>1. /\ UNCHANGED <<queues, store, cur, phase, want>>
      /\ repliers' = (repliers \ {r}) \cup {q}
      /\ store[r.at][r.key] # Nil
  BY DEF Fetch, appVars
<1>2. r \in Replier
  BY DEF TypeOK
<1>3. /\ q.at = r.at /\ q.client = r.client /\ q.key = r.key
      /\ q.value = store[r.at][r.key]
  BY <1>2 DEF Replier
<1>4. r.at \in Nodes /\ r.key \in Keys /\ r.client \in Nodes
  BY <1>2 DEF Replier
<1>5. \A c \in Nodes : /\ Asked(c)' <=> Asked(c)
                       /\ Replied(c)' <=> Replied(c)
                       /\ Filled(c)' <=> Filled(c)
  BY <1>1 DEF Asked, Replied, Filled, GetAt, ReplyAt
<1>6. \A c \in Nodes : Served(c)' <=> Served(c)
  BY <1>1, <1>3 DEF Served
<1>7. OneAtATime' /\ OneWhileWaiting'
  BY <1>1, <1>5, <1>6 DEF OneAtATime, OneWhileWaiting
<1> HIDE DEF q
<1>8. OneReplier'
  BY <1>1, <1>3 DEF OneReplier
<1>9. RepliersKept' /\ ReplierForTheKey'
  <2>1. store[r.at][r.key].of = r.key /\ Home[r.key] = r.at /\ r.key = want[r.client]
    BY <1>1, <1>4 DEF StoreKept, ReplierForTheKey
  <2> QED
    BY <1>1, <1>3, <2>1 DEF RepliersKept, ReplierForTheKey
<1>10. OneGet' /\ OneReply' /\ StoreKept' /\ QueuesKept'
  BY <1>1 DEF OneGet, OneReply, StoreKept, QueuesKept, MessageKept, GetAt, ReplyAt
<1>11. GetForTheKey' /\ ReplyForTheKey' /\ SlotForTheKey'
  BY <1>1 DEF GetForTheKey, ReplyForTheKey, SlotForTheKey, GetAt, ReplyAt, Filled
<1>12. PutsBeforeGet' /\ OwnPutsApplied'
  BY <1>1, <1>5, <1>6 DEF PutsBeforeGet, OwnPutsApplied, PutAt, GetAt
<1> QED
  BY <1>7, <1>8, <1>9, <1>10, <1>11, <1>12

\* A replier becomes a Reply.
LEMMA AnswerInv ==
  ASSUME IInv, TypeOK', NEW r \in repliers, Answer(r)
  PROVE  IInv'
<1> USE DEF IInv
<1> DEFINE c == r.client
           m == ReplyMessage(r.at, r.key, r.value)
<1>1. /\ Send(c, m) /\ UNCHANGED <<store, cur, phase, want>>
      /\ repliers' = repliers \ {r} /\ r.value # Nil
  BY DEF Answer, appVars
<1>2. r \in Replier /\ c \in Nodes /\ r.key \in Keys
  BY DEF TypeOK, Replier
<1>3. m \in Message /\ m.kind = "Reply" /\ m.key = r.key /\ m.value = r.value
  BY <1>1, <1>2 DEF Replier, ReplyMessage, Message
<1>4. MessageKept(c, m)
  BY <1>1, <1>3 DEF RepliersKept, MessageKept
<1>5. Served(c)
  BY DEF Served
<1>6. ~Asked(c) /\ ~Replied(c) /\ ~Filled(c)
  BY <1>2, <1>5 DEF OneAtATime
<1>7. \A n \in Nodes : (Asked(n)' <=> Asked(n)) /\ (Replied(n)' <=> (Replied(n) \/ n = c))
  BY <1>1, <1>2, <1>3, SendTokens
<1>8. \A n \in Nodes : (Served(n)' <=> (Served(n) /\ n # c)) /\ (Filled(n)' <=> Filled(n))
  BY <1>1 DEF Served, Filled, OneReplier
<1>9. OneAtATime' /\ OneWhileWaiting'
  BY <1>1, <1>2, <1>5, <1>6, <1>7, <1>8 DEF OneAtATime, OneWhileWaiting
<1>10. OneGet' /\ OneReply'
  BY <1>1, <1>2, <1>3, <1>6, SendOnce
<1>11. OneReplier' /\ RepliersKept' /\ ReplierForTheKey' /\ StoreKept' /\ SlotForTheKey'
  BY <1>1 DEF OneReplier, RepliersKept, ReplierForTheKey, StoreKept, SlotForTheKey, Filled
<1>12. QueuesKept'
  BY <1>1, <1>2, <1>3, <1>4, SendKept
<1>13. GetForTheKey' /\ ReplyForTheKey'
  BY <1>1, <1>2, <1>3, SendForTheKey DEF ReplierForTheKey
<1>14. PutsBeforeGet'
  BY <1>1, <1>2, <1>3, SendInOrder
<1>15. OwnPutsApplied'
  <2> SUFFICES ASSUME NEW n \in Nodes, Served(n)' \/ Replied(n)' \/ Filled(n)'
               PROVE  \A i \in 1 .. Len(queues'[Home[want[n]]]) :
                        ~PutAt(n, Home[want[n]], i)'
    BY <1>1 DEF OwnPutsApplied, PutAt
  <2>1. Served(n) \/ Replied(n) \/ Filled(n)
    BY <1>5, <1>7, <1>8
  <2>2. \A i \in 1 .. Len(queues[Home[want[n]]]) : ~PutAt(n, Home[want[n]], i)
    BY <2>1 DEF OwnPutsApplied
  <2>3. Home[want[n]] \in Nodes
    BY <2>1, WantedKey
  <2> QED
    BY <1>1, <1>2, <1>3, <2>2, <2>3, SendOwnPuts
<1> QED
  BY <1>9, <1>10, <1>11, <1>12, <1>13, <1>14, <1>15

\* No step of any thread breaks the invariant.
LEMMA NextInv == IInv /\ [Next]_vars => IInv'
<1> SUFFICES ASSUME IInv, [Next]_vars PROVE IInv'
  OBVIOUS
<1> USE DEF IInv
<1>0. TypeOK'
  BY NextType
<1>1. CASE UNCHANGED vars
  <2>1. StoreKept'
    BY <1>1 DEF vars, StoreKept
  <2> QED
    BY <1>0, <1>1, <2>1, QuietStep DEF vars
<1>2. ASSUME NEW n \in Nodes, Start(n) PROVE IInv'
  <2>1. StoreKept' /\ \A c \in Nodes : (phase'[c] = "await") <=> (phase[c] = "await")
    BY <1>2 DEF Start, StoreKept, TypeOK
  <2> QED
    BY <1>0, <1>2, <2>1, QuietStep DEF Start
<1>3. ASSUME NEW n \in Nodes, NEW k \in Keys, NEW d \in Data, Put(n, k, d) PROVE IInv'
  <2> DEFINE b == [of |-> k, data |-> d]
             m == PutMessage(n, k, b)
  <2>1. b \in Blob /\ b.of = k /\ b # Nil /\ Home[k] \in Nodes
    BY DEF Blob
  <2>2. CASE Home[k] = n
    <3>1. store' = [store EXCEPT ![n][k] = b] /\ UNCHANGED queues
      BY <1>3, <2>2 DEF Put, StoreLocally
    <3>2. StoreKept'
      BY <2>1, <2>2, <3>1, StorePutKept
    <3> QED
      BY <1>0, <1>3, <3>1, <3>2, QuietStep DEF Put, servicerVars, appVars
  <2>3. CASE Home[k] # n
    <3>1. Send(Home[k], m) /\ UNCHANGED <<store, cur, repliers, want, phase>>
      BY <1>3, <2>3 DEF Put, servicerVars, appVars
    <3>2. m \in Message /\ m.kind = "Put" /\ m.sender = n /\ MessageKept(Home[k], m)
      BY <2>1, MessageTypes DEF PutMessage, MessageKept
    <3>3. phase[n] # "await"
      BY <1>3 DEF Put
    <3> QED
      BY <1>0, <2>1, <3>1, <3>2, <3>3, QuietSend
  <2> QED
    BY <2>2, <2>3
<1>4. ASSUME NEW n \in Nodes, NEW k \in Keys, GetLocal(n, k) PROVE IInv'
  <2>1. StoreKept'
    BY <1>4 DEF GetLocal, StoreKept
  <2> QED
    BY <1>0, <1>4, <2>1, QuietStep DEF GetLocal, servicerVars
<1>5. ASSUME NEW n \in Nodes, NEW k \in Keys, GetRemote(n, k) PROVE IInv'
  BY <1>0, <1>5, GetRemoteInv
<1>6. ASSUME NEW n \in Nodes, NextValue(n) PROVE IInv'
  BY <1>0, <1>6, NextValueInv
<1>7. ASSUME NEW n \in Nodes, StopAll(n) PROVE IInv'
  <2>1. StoreKept' /\ \A c \in Nodes : (phase'[c] = "await") <=> (phase[c] = "await")
    BY <1>7 DEF StopAll, StoreKept, TypeOK
  <2> QED
    BY <1>0, <1>7, <2>1, QuietStep DEF StopAll, servicerVars
<1>8. ASSUME NEW n \in Nodes, SendKill(n) PROVE IInv'
  <2>1. PICK i \in toKill[n] :
          /\ Send(i, KillMessage(n))
          /\ phase' = [phase EXCEPT ![n] = IF i = n THEN "joining" ELSE "stop"]
    BY <1>8 DEF SendKill
  <2>2. i \in Nodes
    BY DEF TypeOK
  <2>3. /\ KillMessage(n) \in Message
        /\ KillMessage(n).kind = "Kill"
        /\ KillMessage(n).sender = n
        /\ MessageKept(i, KillMessage(n))
    BY DEF KillMessage, Message, MessageKept
  <2>4. /\ phase[n] # "await"
        /\ \A c \in Nodes : (phase'[c] = "await") <=> (phase[c] = "await")
    BY <1>8, <2>1 DEF SendKill, TypeOK
  <2> QED
    BY <1>0, <1>8, <2>1, <2>2, <2>3, <2>4, QuietSend DEF SendKill, servicerVars
<1>9. ASSUME NEW n \in Nodes, FinishRun(n) PROVE IInv'
  <2>1. StoreKept' /\ \A c \in Nodes : (phase'[c] = "await") <=> (phase[c] = "await")
    BY <1>9 DEF FinishRun, StoreKept, TypeOK
  <2> QED
    BY <1>0, <1>9, <2>1, QuietStep DEF FinishRun, servicerVars
<1>10. ASSUME NEW n \in Nodes, Close(n) PROVE IInv'
  <2>1. StoreKept' /\ \A c \in Nodes : (phase'[c] = "await") <=> (phase[c] = "await")
    BY <1>10 DEF Close, StoreKept, TypeOK
  <2> QED
    BY <1>0, <1>10, <2>1, QuietStep DEF Close, servicerVars
<1>11. ASSUME NEW n \in Nodes, HandlePut(n) PROVE IInv'
  <2> DEFINE m == Head(queues[n])
  <2>1. Receive(n, "Put") /\ UNCHANGED <<cur, repliers, phase, want>>
    BY <1>11 DEF HandlePut, servicerVars, appVars
  <2>2. m.kind = "Put" /\ m.key \in Keys /\ m.value \in Blob
    BY <2>1, ReceiveType, MessageParts
  <2>3. m.value # Nil /\ m.value.of = m.key /\ Home[m.key] = n
    BY <2>1, <2>2, ReceiveKept DEF MessageKept
  <2>4. store' = [store EXCEPT ![n][m.key] = m.value]
    BY <1>11 DEF HandlePut, StoreLocally
  <2>5. StoreKept'
    BY <2>2, <2>3, <2>4, StorePutKept
  <2> QED
    BY <1>0, <2>1, <2>5, QuietReceive
<1>12. ASSUME NEW n \in Nodes, HandleGet(n) PROVE IInv'
  BY <1>0, <1>12, HandleGetInv
<1>13. ASSUME NEW n \in Nodes, HandleReply(n) PROVE IInv'
  BY <1>0, <1>13, HandleReplyInv
<1>14. ASSUME NEW n \in Nodes, HandleKill(n) PROVE IInv'
  <2>1. Receive(n, "Kill") /\ UNCHANGED <<store, cur, repliers, phase, want>>
    BY <1>14 DEF HandleKill, appVars
  <2>2. StoreKept'
    BY <2>1 DEF StoreKept
  <2> QED
    BY <1>0, <2>1, <2>2, QuietReceive
<1>15. ASSUME NEW r \in repliers, Fetch(r) PROVE IInv'
  BY <1>0, <1>15, FetchInv
<1>16. ASSUME NEW r \in repliers, Answer(r) PROVE IInv'
  BY <1>0, <1>16, AnswerInv
<1> QED
  BY <1>1, <1>2, <1>3, <1>4, <1>5, <1>6, <1>7, <1>8, <1>9, <1>10, <1>11, <1>12,
     <1>13, <1>14, <1>15, <1>16
     DEF Next, Operation, Background, Servicer, ReplierFor

LEMMA Invariance == Spec => []IInv
BY InitInv, NextInv, PTL DEF Spec

\* A remote get has exactly one Get, replier, Reply or filled slot while its
\* application waits, and none when it does not.
THEOREM OneAnswerCorrect == Spec => []OneAnswerInFlight
<1>1. IInv => OneAnswerInFlight
  BY DEF IInv
<1> QED
  BY <1>1, Invariance, PTL

\* Values are stored at the home of the key they were put under.
THEOREM KeptCorrect == Spec => []KeptUnderItsKey
<1>1. IInv => KeptUnderItsKey
  BY DEF IInv
<1> QED
  BY <1>1, Invariance, PTL

\* What a waiting application will be handed belongs to the key it asked for.
THEOREM AnswerCorrect == Spec => []AnswerIsForTheKey
<1>1. IInv => AnswerIsForTheKey
  BY DEF IInv
<1> QED
  BY <1>1, Invariance, PTL

\* A replier never looks for a key before the puts of its client are applied.
THEOREM ReadYourWritesCorrect == Spec => []ReadYourWrites
<1>1. IInv => ReadYourWrites
  BY DEF IInv
<1> QED
  BY <1>1, Invariance, PTL

\* Only handle_reply() fills a slot.
LEMMA SlotStep == IInv /\ [Next]_vars => SlotFilledInTurn
<1> SUFFICES ASSUME IInv, [Next]_vars, NEW n \in Nodes, cur'[n] \notin {cur[n], Nil}
             PROVE  cur[n] = Nil /\ phase[n] = "await" /\ cur'[n].of = want[n]
  BY DEF SlotFilledInTurn
<1> USE DEF IInv
<1>1. PICK c \in Nodes : HandleReply(c) \/ NextValue(c)
  BY DEF Next, Operation, Background, Servicer, ReplierFor, vars, servicerVars, appVars,
         Start, Put, GetLocal, GetRemote, StopAll, SendKill, FinishRun, Close, HandlePut,
         HandleGet, HandleKill, Fetch, Answer
<1>2. ~NextValue(c)
  BY DEF NextValue, TypeOK
<1>3. Receive(c, "Reply") /\ cur' = [cur EXCEPT ![c] = Head(queues[c]).value]
  BY <1>1, <1>2 DEF HandleReply
<1>4. c = n /\ cur'[n] = Head(queues[n]).value
  BY <1>3 DEF TypeOK
<1>5. Head(queues[n]).value.of = want[n]
  <2>1. Head(queues[n]).value.of = Head(queues[n]).key
    BY <1>3, <1>4, ReceiveKept, ReceiveType DEF MessageKept
  <2>2. want' = want
    BY <1>1, <1>2 DEF HandleReply, appVars
  <2> QED
    BY <1>3, <1>4, <2>1, <2>2, ReceiveForTheKey
<1>6. Replied(n)
  BY <1>3, <1>4, ReceiveTokens
<1>7. ~Filled(n) /\ phase[n] = "await"
  BY <1>6 DEF OneAtATime, OneWhileWaiting
<1> QED
  BY <1>4, <1>5, <1>7 DEF Filled

\* handle_reply() never overwrites an answer, and never fills the slot of an
\* application that does not wait for that key.
THEOREM NoAnswerLostCorrect == Spec => NoAnswerLost
BY Invariance, SlotStep, PTL DEF Spec, NoAnswerLost

-----------------------------------------------------------------------------
\* What a value rests on: rests[b] are keys that were put before b was, such as the
\* chunks of a frame before its schema.  However the messages of different nodes
\* interleave, who holds b finds those of the keys that are homed on its node.

Stored(k) == store[Home[k]][k] # Nil
PutAmong(h, k, j) ==
  \E i \in 1 .. Len(queues[h]) : i <= j /\ queues[h][i].kind = "Put" /\ queues[h][i].key = k
Underway(k) == Stored(k) \/ PutAmong(Home[k], k, Len(queues[Home[k]]))

\* The value b is in a map, a message, a slot or the hands of a replier.
Somewhere(b) ==
  \/ \E n \in Nodes, k \in Keys : store[n][k] = b
  \/ \E n \in Nodes : \E i \in 1 .. Len(queues[n]) : queues[n][i].value = b
  \/ \E n \in Nodes : cur[n] = b
  \/ \E r \in repliers : r.value = b

\* Wherever a value is, the keys it rests on are stored or at least sent, and those
\* homed on the node where it is are stored or in front of it in the queue.
CausesUnderway(rests) == \A b \in Blob : Somewhere(b) => \A k \in rests[b] : Underway(k)
CausesStored(rests) ==
  \A n \in Nodes, q \in Keys : \A k \in rests[store[n][q]] : Home[k] = n => Stored(k)
CausesAhead(rests) ==
  \A n \in Nodes : \A i \in 1 .. Len(queues[n]) : \A k \in rests[queues[n][i].value] :
    Home[k] = n => Stored(k) \/ PutAmong(n, k, i - 1)
CausesInSlot(rests) ==
  \A n \in Nodes : \A k \in rests[cur[n]] : Home[k] = n => Stored(k)

Causal(rests) ==
  /\ CausesUnderway(rests)
  /\ CausesStored(rests)
  /\ CausesAhead(rests)
  /\ CausesInSlot(rests)

\* A node puts b after the keys that b rests on.
PutsInOrder(rests, n, b) ==
  \A k \in rests[b] : Underway(k) /\ (Home[k] = n => Stored(k))

\* A step that puts nothing but values of puts, which are pairs of a node and a value.
StepPuts(puts) ==
  \E n \in Nodes :
    \/ \E k \in Keys, d \in Data : <<n, [of |-> k, data |-> d]>> \in puts /\ Put(n, k, d)
    \/ \E k \in Keys : GetLocal(n, k) \/ GetRemote(n, k)
    \/ StopAll(n)
    \/ FinishRun(n)
    \/ Background(n)

NewValue(puts, b) == \E n \in Nodes : <<n, b>> \in puts

LEMMA NextPuts ==
  /\ [Next]_vars => [StepPuts(Nodes \X Blob)]_vars
  /\ \A puts : [StepPuts(puts)]_vars => [Next]_vars
<1>1. \A n \in Nodes, k \in Keys, d \in Data : <<n, [of |-> k, data |-> d]>> \in Nodes \X Blob
  BY DEF Blob
<1> QED
  BY <1>1 DEF Next, Operation, StepPuts

\* How a step may change the maps and the queues,
PutsHere(puts) == \E n \in Nodes, k \in Keys, d \in Data :
  /\ <<n, [of |-> k, data |-> d]>> \in puts
  /\ store' = [store EXCEPT ![n][k] = [of |-> k, data |-> d]]
  /\ UNCHANGED queues
Sends(puts, t, m) ==
  /\ Send(t, m)
  /\ UNCHANGED store
  /\ m.value = Nil \/ NewValue(puts, m.value) \/ \E r \in repliers : r.value = m.value
Receives(n, kind) ==
  /\ Receive(n, kind)
  /\ IF kind = "Put" THEN store' = [store EXCEPT ![n][Head(queues[n]).key] = Head(queues[n]).value]
                     ELSE UNCHANGED store

LEMMA Moves ==
  ASSUME TypeOK, NEW puts, [StepPuts(puts)]_vars
  PROVE  \/ UNCHANGED <<store, queues>>
         \/ PutsHere(puts)
         \/ \E t \in Nodes, m \in Message : Sends(puts, t, m)
         \/ \E n \in Nodes, kind \in {"Put", "Get", "Reply", "Kill"} : Receives(n, kind)
<1> DEFINE Goal == \/ UNCHANGED <<store, queues>>
                   \/ PutsHere(puts)
                   \/ \E t \in Nodes, m \in Message : Sends(puts, t, m)
                   \/ \E n \in Nodes, kind \in {"Put", "Get", "Reply", "Kill"} : Receives(n, kind)
<1>1. ASSUME UNCHANGED vars PROVE Goal
  BY <1>1 DEF vars
<1>2. ASSUME NEW n \in Nodes, NEW k \in Keys, NEW d \in Data, Put(n, k, d),
             <<n, [of |-> k, data |-> d]>> \in puts
      PROVE  Goal
  <2> DEFINE b == [of |-> k, data |-> d]
             m == PutMessage(n, k, b)
  <2>1. b \in Blob /\ Home[k] \in Nodes
    BY DEF Blob
  <2>2. CASE Home[k] = n
    <3>1. store' = [store EXCEPT ![n][k] = b] /\ UNCHANGED queues
      BY <1>2, <2>2 DEF Put, StoreLocally
    <3> QED
      BY <1>2, <3>1 DEF PutsHere
  <2>3. CASE Home[k] # n
    <3>1. Send(Home[k], m) /\ UNCHANGED store
      BY <1>2, <2>3 DEF Put
    <3>2. m \in Message /\ m.value = b
      BY <2>1, MessageTypes DEF PutMessage
    <3>3. NewValue(puts, b)
      BY <1>2 DEF NewValue
    <3> QED
      BY <2>1, <3>1, <3>2, <3>3 DEF Sends
  <2> QED
    BY <2>2, <2>3
<1>3. ASSUME NEW n \in Nodes, NEW k \in Keys, GetRemote(n, k) PROVE Goal
  <2>1. GetMessage(n, k) \in Message /\ Home[k] \in Nodes /\ GetMessage(n, k).value = Nil
    BY DEF GetMessage, Message
  <2>2. Send(Home[k], GetMessage(n, k)) /\ UNCHANGED store
    BY <1>3 DEF GetRemote
  <2> QED
    BY <2>1, <2>2 DEF Sends
<1>4. ASSUME NEW n \in Nodes, SendKill(n) PROVE Goal
  <2>1. PICK i \in toKill[n] : Send(i, KillMessage(n))
    BY <1>4 DEF SendKill
  <2>2. i \in Nodes /\ KillMessage(n) \in Message /\ KillMessage(n).value = Nil
    BY DEF TypeOK, KillMessage, Message
  <2>3. UNCHANGED store
    BY <1>4 DEF SendKill
  <2> QED
    BY <2>1, <2>2, <2>3 DEF Sends
<1>5. ASSUME NEW n \in Nodes, Servicer(n) PROVE Goal
  <2>1. CASE HandlePut(n)
    <3>1. Receives(n, "Put")
      BY <2>1 DEF HandlePut, Receives, StoreLocally
    <3> QED
      BY <3>1
  <2>2. CASE HandleGet(n)
    <3>1. Receives(n, "Get")
      BY <2>2 DEF HandleGet, Receives
    <3> QED
      BY <3>1
  <2>3. CASE HandleReply(n)
    <3>1. Receives(n, "Reply")
      BY <2>3 DEF HandleReply, Receives
    <3> QED
      BY <3>1
  <2>4. CASE HandleKill(n)
    <3>1. Receives(n, "Kill")
      BY <2>4 DEF HandleKill, Receives
    <3> QED
      BY <3>1
  <2> QED
    BY <1>5, <2>1, <2>2, <2>3, <2>4 DEF Servicer
<1>6. ASSUME NEW r \in repliers, Fetch(r) PROVE Goal
  BY <1>6 DEF Fetch
<1>7. ASSUME NEW r \in repliers, Answer(r) PROVE Goal
  <2> DEFINE m == ReplyMessage(r.at, r.key, r.value)
  <2>1. r \in Replier /\ r.value \in Blob
    BY <1>7 DEF Answer, TypeOK, Replier
  <2>2. r.client \in Nodes /\ m \in Message /\ m.value = r.value
    BY <2>1 DEF Replier, ReplyMessage, Message
  <2>3. Send(r.client, m) /\ UNCHANGED store
    BY <1>7 DEF Answer
  <2> QED
    BY <2>2, <2>3 DEF Sends
<1>8. ASSUME NEW n \in Nodes,
             \/ Start(n) \/ NextValue(n) \/ StopAll(n) \/ FinishRun(n) \/ Close(n)
             \/ \E k \in Keys : GetLocal(n, k)
      PROVE  Goal
  BY <1>8 DEF Start, NextValue, StopAll, FinishRun, Close, GetLocal
<1> HIDE DEF Goal
<1> QED
  <2>2. ASSUME NEW n \in Nodes, ReplierFor(n) PROVE Goal
    BY <2>2, <1>6, <1>7 DEF ReplierFor
  <2>3. ASSUME NEW n \in Nodes, Background(n) PROVE Goal
    BY <2>3, <2>2, <1>4, <1>5, <1>8 DEF Background
  <2>4. Goal
    BY <1>1, <1>2, <1>3, <1>8, <2>3 DEF StepPuts
  <2> QED
    BY <2>4 DEF Goal

\* and the slots and the repliers.
LEMMA Hands ==
  ASSUME TypeOK, [Next]_vars
  PROVE  /\ \A n \in Nodes :
              \/ cur'[n] \in {cur[n], Nil}
              \/ Receives(n, "Reply") /\ cur'[n] = Head(queues[n]).value
         /\ \A r \in repliers' : \/ r.value = Nil
                                 \/ \E s \in repliers : s.value = r.value
                                 \/ \E n \in Nodes, k \in Keys : store[n][k] = r.value
<1> DEFINE Goal1 == \A n \in Nodes :
             \/ cur'[n] \in {cur[n], Nil}
             \/ Receives(n, "Reply") /\ cur'[n] = Head(queues[n]).value
           Goal2 == \A r \in repliers' : \/ r.value = Nil
                                         \/ \E s \in repliers : s.value = r.value
                                         \/ \E n \in Nodes, k \in Keys : store[n][k] = r.value
<1>1. ASSUME UNCHANGED <<cur, repliers>> PROVE Goal1 /\ Goal2
  BY <1>1
<1>2. ASSUME NEW n \in Nodes, NextValue(n) PROVE Goal1 /\ Goal2
  BY <1>2 DEF NextValue, TypeOK
<1>3. ASSUME NEW n \in Nodes, HandleGet(n) PROVE Goal1 /\ Goal2
  <2>1. NewReplier(n, Head(queues[n])).value = Nil
    BY DEF NewReplier
  <2> QED
    BY <1>3, <2>1 DEF HandleGet
<1>4. ASSUME NEW n \in Nodes, HandleReply(n) PROVE Goal1 /\ Goal2
  <2>1. Receives(n, "Reply") /\ UNCHANGED repliers
    BY <1>4 DEF HandleReply, Receives
  <2>2. cur' = [cur EXCEPT ![n] = Head(queues[n]).value]
    BY <1>4 DEF HandleReply
  <2> QED
    BY <2>1, <2>2 DEF TypeOK
<1>5. ASSUME NEW r \in repliers, Fetch(r) PROVE Goal1 /\ Goal2
  <2>1. r \in Replier
    BY DEF TypeOK
  <2>2. /\ repliers' = (repliers \ {r}) \cup {[r EXCEPT !.value = store[r.at][r.key]]}
        /\ UNCHANGED cur
    BY <1>5 DEF Fetch
  <2>3. [r EXCEPT !.value = store[r.at][r.key]].value = store[r.at][r.key]
        /\ r.at \in Nodes /\ r.key \in Keys
    BY <2>1 DEF Replier
  <2> QED
    BY <2>2, <2>3
<1>6. ASSUME NEW r \in repliers, Answer(r) PROVE Goal1 /\ Goal2
  BY <1>6 DEF Answer
<1> HIDE DEF Goal1, Goal2
<1>7. ASSUME NEW n \in Nodes, Servicer(n) PROVE Goal1 /\ Goal2
  BY <1>7, <1>1, <1>3, <1>4 DEF Servicer, HandlePut, HandleKill, servicerVars
<1>8. ASSUME NEW n \in Nodes, Operation(n) PROVE Goal1 /\ Goal2
  BY <1>8, <1>1 DEF Operation, Put, GetLocal, GetRemote, StopAll, FinishRun, servicerVars
<1>9. ASSUME NEW n \in Nodes, ReplierFor(n) PROVE Goal1 /\ Goal2
  BY <1>9, <1>5, <1>6 DEF ReplierFor
<1>10. ASSUME NEW n \in Nodes, Background(n) PROVE Goal1 /\ Goal2
  BY <1>10, <1>1, <1>2, <1>7, <1>9 DEF Background, Start, SendKill, Close, servicerVars
<1>11. Goal1 /\ Goal2
  BY <1>1, <1>8, <1>10 DEF Next, vars
<1> QED
  BY <1>11 DEF Goal1, Goal2

\* A put that is under way stays so until it is stored, and is stored for good.
LEMMA StaysUnderway ==
  ASSUME TypeOK, QueuesKept, [Next]_vars, NEW k \in Keys
  PROVE  /\ Stored(k) => Stored(k)'
         /\ \A h \in Nodes, j \in Nat : PutAmong(h, k, j) =>
              \/ PutAmong(h, k, j)'
              \/ \E kind \in {"Put", "Get", "Reply", "Kill"} :
                   Receives(h, kind) /\ ((h = Home[k] /\ Stored(k)') \/ PutAmong(h, k, j - 1)')
         /\ Underway(k) => Underway(k)'
<1> DEFINE Kinds == {"Put", "Get", "Reply", "Kill"}
           Moved(h, j) == \/ PutAmong(h, k, j)'
                          \/ \E kind \in Kinds :
                               Receives(h, kind) /\ ((h = Home[k] /\ Stored(k)') \/ PutAmong(h, k, j - 1)')
           Goal == /\ Stored(k) => Stored(k)'
                   /\ \A h \in Nodes, j \in Nat : PutAmong(h, k, j) => Moved(h, j)
<1> DEFINE all == Nodes \X Blob
<1>1. Home[k] \in Nodes
  OBVIOUS
<1>2. ASSUME UNCHANGED <<store, queues>> PROVE Goal
  BY <1>2 DEF Stored, PutAmong
<1>3. ASSUME PutsHere(all) PROVE Goal
  <2>1. PICK n \in Nodes, q \in Keys, d \in Data :
          store' = [store EXCEPT ![n][q] = [of |-> q, data |-> d]] /\ UNCHANGED queues
    BY <1>3 DEF PutsHere
  <2>2. [of |-> q, data |-> d] # Nil
    BY DEF Blob
  <2>3. Stored(k) => Stored(k)'
    BY <1>1, <2>1, <2>2 DEF Stored, TypeOK
  <2> QED
    BY <2>1, <2>3 DEF PutAmong
<1>4. ASSUME NEW t \in Nodes, NEW m \in Message, Sends(all, t, m) PROVE Goal
  <2>1. Send(t, m) /\ UNCHANGED store
    BY <1>4 DEF Sends
  <2>2. Stored(k) => Stored(k)'
    BY <2>1 DEF Stored
  <2>3. ASSUME NEW h \in Nodes, NEW j \in Nat, PutAmong(h, k, j)
        PROVE  PutAmong(h, k, j)'
    <3>1. PICK i \in 1 .. Len(queues[h]) :
            i <= j /\ queues[h][i].kind = "Put" /\ queues[h][i].key = k
      BY <2>3 DEF PutAmong
    <3>2. i \in 1 .. Len(queues'[h]) /\ queues'[h][i] = queues[h][i]
      BY <2>1, SendParts
    <3> QED
      BY <3>1, <3>2 DEF PutAmong
  <2> QED
    BY <2>2, <2>3
<1>5. ASSUME NEW n \in Nodes, NEW kind \in Kinds, Receives(n, kind) PROVE Goal
  <2>1. Receive(n, kind)
    BY <1>5 DEF Receives
  <2> DEFINE m == Head(queues[n])
  <2>2. m \in Message /\ m.kind = kind /\ MessageKept(n, m) /\ m = queues[n][1]
    BY <2>1, ReceiveType, ReceiveKept, ReceiveParts
  <2>3. kind = "Put" => m.key \in Keys /\ m.value \in Blob /\ Home[m.key] = n
                        /\ store' = [store EXCEPT ![n][m.key] = m.value]
    BY <1>5, <2>2, MessageParts DEF Receives, MessageKept
  <2>4. kind # "Put" => UNCHANGED store
    BY <1>5 DEF Receives
  <2>5. Stored(k) => Stored(k)'
    <3>1. CASE kind = "Put"
      <4>1. m.value # Nil /\ m.key \in Keys /\ store' = [store EXCEPT ![n][m.key] = m.value]
        BY <2>3, <3>1 DEF Blob
      <4> HIDE DEF m
      <4> QED
        BY <1>1, <4>1 DEF Stored, TypeOK
    <3>2. CASE kind # "Put"
      BY <2>4, <3>2 DEF Stored
    <3> QED
      BY <3>1, <3>2
  <2>6. ASSUME NEW h \in Nodes, NEW j \in Nat, PutAmong(h, k, j)
        PROVE  Moved(h, j)
    <3>1. PICK i \in 1 .. Len(queues[h]) :
            i <= j /\ queues[h][i].kind = "Put" /\ queues[h][i].key = k
      BY <2>6 DEF PutAmong
    <3>2. Len(queues[h]) \in Nat
      BY DEF TypeOK
    <3>3. CASE h = n /\ i = 1
      <4>1. m.kind = "Put" /\ m.key = k
        BY <2>2, <3>1, <3>3
      <4>2. h = Home[k] /\ Stored(k)'
        <5>1. /\ m.value # Nil /\ m.key = k /\ Home[k] = n
              /\ store' = [store EXCEPT ![n][m.key] = m.value]
          BY <2>2, <2>3, <4>1 DEF Blob
        <5> HIDE DEF m
        <5> QED
          BY <3>3, <5>1 DEF Stored, TypeOK
      <4> QED
        BY <1>5, <3>3, <4>2
    <3>4. CASE ~(h = n /\ i = 1)
      <4>1. After(n, h, i) \in 1 .. Len(queues'[h]) /\ queues'[h][After(n, h, i)] = queues[h][i]
        BY <2>1, <3>2, <3>4, ReceiveParts
      <4>2. CASE h = n
        <5>1. After(n, h, i) <= j - 1
          BY <3>1, <4>1, <4>2 DEF After
        <5>2. PutAmong(h, k, j - 1)'
          BY <3>1, <4>1, <5>1 DEF PutAmong
        <5> QED
          BY <1>5, <4>2, <5>2
      <4>3. CASE h # n
        <5>1. After(n, h, i) = i
          BY <4>3 DEF After
        <5> QED
          BY <3>1, <4>1, <5>1 DEF PutAmong
      <4> QED
        BY <4>2, <4>3
    <3> QED
      BY <3>3, <3>4
  <2> QED
    BY <2>5, <2>6
<1> HIDE DEF Goal
<1> HIDE DEF all
<1>6. Goal
  <2>1. [StepPuts(all)]_vars
    BY NextPuts DEF all
  <2> QED
    BY <2>1, Moves, <1>2, <1>3, <1>4, <1>5
<1>7. Underway(k) => Underway(k)'
  <2> DEFINE h == Home[k]
  <2>0. PICK j \in Nat : j = Len(queues[h])
    BY <1>1 DEF TypeOK
  <2> SUFFICES ASSUME PutAmong(h, k, j), ~Stored(k)' PROVE Underway(k)'
    BY <1>6, <2>0 DEF Underway, Goal
  <2>1. Len(queues'[h]) \in Nat /\ h \in Nodes
    BY <1>1, NextType DEF TypeOK
  <2>2. Moved(h, j)
    BY <1>6, <2>1 DEF Goal
  <2>3. PutAmong(h, k, j)' \/ PutAmong(h, k, j - 1)'
    BY <2>2
  <2>4. \E i \in 1 .. Len(queues'[h]) : queues'[h][i].kind = "Put" /\ queues'[h][i].key = k
    BY <2>3 DEF PutAmong
  <2>5. PutAmong(Home[k], k, Len(queues[Home[k]]))'
    BY <2>1, <2>4 DEF PutAmong
  <2> QED
    BY <2>5 DEF Underway
<1> QED
  BY <1>6, <1>7 DEF Goal

\* A value is put or passed on, never made up.
LEMMA ValuesPassedOn ==
  ASSUME TypeOK, NEW puts, [StepPuts(puts)]_vars, NEW b \in Blob, Somewhere(b)'
  PROVE  Somewhere(b) \/ NewValue(puts, b)
<1>00. [Next]_vars
  BY NextPuts
<1>0. b # Nil
  BY DEF Blob
<1>1. ASSUME NEW n \in Nodes, NEW kind, Receives(n, kind)
      PROVE  /\ Head(queues[n]) \in Message
             /\ Head(queues[n]) = queues[n][1]
             /\ 1 \in 1 .. Len(queues[n])
             /\ kind = "Put" => Head(queues[n]).key \in Keys /\ Head(queues[n]).value \in Blob
  BY <1>1, ReceiveType, ReceiveParts, MessageParts DEF Receives
<1>2. ASSUME NEW n \in Nodes, NEW k \in Keys, store'[n][k] = b
      PROVE  Somewhere(b) \/ NewValue(puts, b)
  <2>1. CASE UNCHANGED store
    BY <1>2, <2>1 DEF Somewhere
  <2>2. CASE PutsHere(puts)
    <3>1. PICK i \in Nodes, q \in Keys, d \in Data :
            <<i, [of |-> q, data |-> d]>> \in puts
            /\ store' = [store EXCEPT ![i][q] = [of |-> q, data |-> d]]
      BY <2>2 DEF PutsHere
    <3>2. store'[n][k] = store[n][k] \/ store'[n][k] = [of |-> q, data |-> d]
      BY <3>1 DEF TypeOK
    <3> QED
      BY <1>2, <3>1, <3>2 DEF Somewhere, NewValue
  <2>3. ASSUME NEW i \in Nodes, Receives(i, "Put") PROVE Somewhere(b)
    <3> DEFINE m == Head(queues[i])
    <3>1. store' = [store EXCEPT ![i][m.key] = m.value]
      BY <2>3 DEF Receives
    <3>2. m.key \in Keys /\ m = queues[i][1] /\ 1 \in 1 .. Len(queues[i])
      BY <1>1, <2>3
    <3>3. store'[n][k] = store[n][k] \/ store'[n][k] = m.value
      <4> HIDE DEF m
      <4> QED
        BY <3>1, <3>2 DEF TypeOK
    <3> QED
      BY <1>2, <3>2, <3>3 DEF Somewhere
  <2> QED
    BY <2>1, <2>2, <2>3, Moves DEF Sends, Receives
<1>3. ASSUME NEW n \in Nodes, NEW i \in 1 .. Len(queues'[n]), queues'[n][i].value = b
      PROVE  Somewhere(b) \/ NewValue(puts, b)
  <2>1. CASE UNCHANGED queues
    BY <1>3, <2>1 DEF Somewhere
  <2>2. ASSUME NEW t \in Nodes, NEW m \in Message, Sends(puts, t, m)
        PROVE  Somewhere(b) \/ NewValue(puts, b)
    <3>1. Send(t, m)
      BY <2>2 DEF Sends
    <3>2. \/ i \in 1 .. Len(queues[n]) /\ queues'[n][i] = queues[n][i]
          \/ queues'[n][i] = m
      BY <3>1, SendParts
    <3> QED
      BY <1>0, <1>3, <2>2, <3>2 DEF Somewhere, Sends
  <2>3. ASSUME NEW h \in Nodes, NEW kind, Receives(h, kind) PROVE Somewhere(b)
    <3>1. Receive(h, kind)
      BY <2>3 DEF Receives
    <3>2. Before(h, n, i) \in 1 .. Len(queues[n]) /\ queues'[n][i] = queues[n][Before(h, n, i)]
      BY <3>1, ReceiveParts
    <3> QED
      BY <1>3, <3>2 DEF Somewhere
  <2> QED
    BY <2>1, <2>2, <2>3, Moves DEF PutsHere
<1>4. ASSUME NEW n \in Nodes, cur'[n] = b PROVE Somewhere(b)
  <2>1. cur[n] = b \/ (Receives(n, "Reply") /\ Head(queues[n]).value = b)
    BY <1>00, <1>0, <1>4, Hands
  <2> QED
    BY <1>1, <2>1 DEF Somewhere
<1>5. ASSUME NEW r \in repliers', r.value = b PROVE Somewhere(b)
  BY <1>00, <1>0, <1>5, Hands DEF Somewhere
<1> QED
  BY <1>2, <1>3, <1>4, <1>5 DEF Somewhere

\* A put is under way at once, and stored where it was made.
LEMMA PutLands ==
  ASSUME TypeOK, NEW n \in Nodes, NEW k \in Keys, NEW d \in Data, Put(n, k, d)
  PROVE  Underway(k)' /\ (Home[k] = n => Stored(k)')
<1> DEFINE b == [of |-> k, data |-> d]
<1>1. b \in Blob /\ b # Nil /\ Home[k] \in Nodes
  BY DEF Blob
<1>2. CASE Home[k] = n
  <2>1. store' = [store EXCEPT ![n][k] = b]
    BY <1>2 DEF Put, StoreLocally
  <2> HIDE DEF b
  <2>2. Stored(k)'
    BY <1>1, <1>2, <2>1 DEF Stored, TypeOK
  <2> QED
    BY <2>2 DEF Underway
<1>3. CASE Home[k] # n
  <2> DEFINE m == PutMessage(n, k, b)
  <2>1. Send(Home[k], m)
    BY <1>3 DEF Put
  <2>2. m \in Message /\ m.kind = "Put" /\ m.key = k
    BY <1>1, MessageTypes DEF PutMessage
  <2>3. PICK l \in Nat : l = Len(queues[Home[k]]) + 1
    BY <1>1 DEF TypeOK
  <2>4. l \in 1 .. Len(queues'[Home[k]]) /\ queues'[Home[k]][l] = m
    BY <1>1, <2>1, <2>2, <2>3, SendParts
  <2>5. l <= Len(queues'[Home[k]])
    BY <2>4
  <2>6. PutAmong(Home[k], k, Len(queues[Home[k]]))'
    BY <2>2, <2>4, <2>5 DEF PutAmong
  <2> QED
    BY <1>3, <2>6 DEF Underway
<1> QED
  BY <1>2, <1>3

\* A node is in or past stop_all(), is told to halt, or has halted.
Halting(n) ==
  \/ phase[n] \in {"stop", "closed"}
  \/ ~running[n] /\ phase[n] # "new"
  \/ \E i \in 1 .. Len(queues[n]) : queues[n][i].kind = "Kill"

\* Nobody halts before one calls stop_all(), and nobody leaves it for anything else.
LEMMA HaltsAfterStop ==
  ASSUME TypeOK, [Next]_vars
  PROVE  /\ \A n \in Nodes : phase[n] \in {"stop", "joining", "closed"} =>
              phase'[n] \in {"stop", "joining", "closed"}
         /\ \A n \in Nodes : Halting(n)' =>
              \/ \E m \in Nodes : Halting(m)
              \/ phase[n] = "run" /\ phase'[n] = "stop"
<1> DEFINE Late == {"stop", "joining", "closed"}
           Kept == \A n \in Nodes : phase[n] \in Late => phase'[n] \in Late
           Kill(n) == \E i \in 1 .. Len(queues[n]) : queues[n][i].kind = "Kill"
           Later(n) == Halting(n)' => \/ \E m \in Nodes : Halting(m)
                                      \/ phase[n] = "run" /\ phase'[n] = "stop"
<1>1. /\ phase \in [Nodes -> Phase] /\ running \in [Nodes -> BOOLEAN]
      /\ \A n \in Nodes : queues[n] \in Seq(Message)
  BY DEF TypeOK
<1>2. ASSUME NEW t \in Nodes, NEW m \in Message, Send(t, m), m.kind # "Kill", NEW n \in Nodes
      PROVE  Kill(n)' => Kill(n)
  <2> SUFFICES ASSUME NEW i \in 1 .. Len(queues'[n]), queues'[n][i].kind = "Kill"
               PROVE  Kill(n)
    OBVIOUS
  <2>1. i \in 1 .. Len(queues[n]) /\ queues'[n][i] = queues[n][i]
    BY <1>1, <1>2, SendParts
  <2> QED
    BY <2>1
<1>3. ASSUME NEW t \in Nodes, NEW kind, Receive(t, kind), NEW n \in Nodes
      PROVE  Kill(n)' => Kill(n)
  <2> SUFFICES ASSUME NEW i \in 1 .. Len(queues'[n]), queues'[n][i].kind = "Kill"
               PROVE  Kill(n)
    OBVIOUS
  <2>1. PICK j \in 1 .. Len(queues[n]) : queues'[n][i] = queues[n][j]
    BY <1>3, ReceiveParts
  <2> QED
    BY <2>1
<1>4. ASSUME \A n \in Nodes : Kill(n)' => Kill(n), UNCHANGED running,
             \A n \in Nodes :
               \/ phase'[n] = phase[n]
               \/ phase'[n] \in {"run", "await"} /\ phase[n] \in {"run", "await"}
      PROVE  Kept /\ \A n \in Nodes : Later(n)
  BY <1>4 DEF Halting
<1>5. ASSUME UNCHANGED queues PROVE \A n \in Nodes : Kill(n)' => Kill(n)
  BY <1>5
<1>6. ASSUME NEW n \in Nodes, Start(n) PROVE Kept /\ \A m \in Nodes : Later(m)
  <2>1. /\ phase[n] = "new" /\ phase' = [phase EXCEPT ![n] = "run"]
        /\ running' = [running EXCEPT ![n] = TRUE] /\ UNCHANGED queues
    BY <1>6 DEF Start
  <2> QED
    BY <1>1, <2>1 DEF Halting
<1>7. ASSUME NEW n \in Nodes, NEW k \in Keys, NEW d \in Data, Put(n, k, d)
      PROVE  Kept /\ \A m \in Nodes : Later(m)
  <2> DEFINE b == [of |-> k, data |-> d]
             m == PutMessage(n, k, b)
  <2>1. b \in Blob /\ Home[k] \in Nodes
    BY DEF Blob
  <2>2. m \in Message /\ m.kind # "Kill"
    BY <2>1, MessageTypes DEF PutMessage
  <2>3. UNCHANGED queues \/ Send(Home[k], m)
    BY <1>7 DEF Put
  <2>4. \A i \in Nodes : Kill(i)' => Kill(i)
    BY <1>2, <2>1, <2>2, <2>3
  <2>5. UNCHANGED <<running, phase>>
    BY <1>7 DEF Put, servicerVars, appVars
  <2> QED
    BY <1>4, <2>4, <2>5
<1>8. ASSUME NEW n \in Nodes, NEW k \in Keys, GetLocal(n, k)
      PROVE  Kept /\ \A m \in Nodes : Later(m)
  <2>1. UNCHANGED <<queues, running, phase>>
    BY <1>8 DEF GetLocal, servicerVars
  <2> QED
    BY <1>4, <1>5, <2>1
<1>9. ASSUME NEW n \in Nodes, NEW k \in Keys, GetRemote(n, k)
      PROVE  Kept /\ \A m \in Nodes : Later(m)
  <2>1. GetMessage(n, k) \in Message /\ GetMessage(n, k).kind # "Kill" /\ Home[k] \in Nodes
    BY DEF GetMessage, Message
  <2>4. Send(Home[k], GetMessage(n, k)) /\ UNCHANGED running
    BY <1>9 DEF GetRemote, servicerVars
  <2>2. \A i \in Nodes : Kill(i)' => Kill(i)
    BY <1>2, <2>1, <2>4
  <2>3. \A i \in Nodes : phase'[i] = phase[i] \/ (phase'[i] = "await" /\ phase[i] = "run")
    BY <1>1, <1>9 DEF GetRemote
  <2> QED
    BY <1>4, <2>2, <2>3, <2>4
<1>10. ASSUME NEW n \in Nodes, NextValue(n) PROVE Kept /\ \A m \in Nodes : Later(m)
  <2>1. \A i \in Nodes : phase'[i] = phase[i] \/ (phase'[i] = "run" /\ phase[i] = "await")
    BY <1>1, <1>10 DEF NextValue
  <2>2. UNCHANGED <<queues, running>>
    BY <1>10 DEF NextValue
  <2> QED
    BY <1>4, <1>5, <2>1, <2>2
<1>11. ASSUME NEW n \in Nodes, StopAll(n) PROVE Kept /\ \A m \in Nodes : Later(m)
  <2>1. /\ phase[n] = "run" /\ phase' = [phase EXCEPT ![n] = "stop"]
        /\ UNCHANGED <<running, queues>>
    BY <1>11 DEF StopAll, servicerVars
  <2> QED
    BY <1>1, <2>1 DEF Halting
<1>12. ASSUME NEW n \in Nodes, SendKill(n) PROVE Kept /\ \A m \in Nodes : Later(m)
  <2>1. PICK i : phase' = [phase EXCEPT ![n] = IF i = n THEN "joining" ELSE "stop"]
    BY <1>12 DEF SendKill
  <2>2. phase[n] = "stop"
    BY <1>12 DEF SendKill
  <2>3. Halting(n)
    BY <2>2 DEF Halting
  <2> QED
    BY <1>1, <2>1, <2>3
<1>13. ASSUME NEW n \in Nodes, FinishRun(n) PROVE Kept /\ \A m \in Nodes : Later(m)
  <2>1. /\ phase[n] = "run" /\ phase' = [phase EXCEPT ![n] = "joining"]
        /\ UNCHANGED <<running, queues>>
    BY <1>13 DEF FinishRun, servicerVars
  <2> QED
    BY <1>1, <2>1 DEF Halting
<1>14. ASSUME NEW n \in Nodes, Close(n) PROVE Kept /\ \A m \in Nodes : Later(m)
  <2>1. phase[n] = "joining" /\ ~running[n] /\ phase' = [phase EXCEPT ![n] = "closed"]
    BY <1>14 DEF Close
  <2>2. Halting(n)
    BY <2>1 DEF Halting
  <2> QED
    BY <1>1, <2>1, <2>2
<1>15. ASSUME NEW n \in Nodes, Servicer(n) PROVE Kept /\ \A m \in Nodes : Later(m)
  <2>1. ASSUME HandleKill(n) PROVE Halting(n) /\ phase' = phase
    <3>1. Receive(n, "Kill")
      BY <2>1 DEF HandleKill
    <3> QED
      BY <2>1, <3>1, ReceiveParts DEF Halting, HandleKill, appVars
  <2>2. CASE HandlePut(n) \/ HandleGet(n) \/ HandleReply(n)
    <3>1. /\ Receive(n, "Put") \/ Receive(n, "Get") \/ Receive(n, "Reply")
          /\ UNCHANGED <<running, phase>>
      BY <2>2 DEF HandlePut, HandleGet, HandleReply, servicerVars, appVars
    <3>2. \A i \in Nodes : Kill(i)' => Kill(i)
      BY <1>3, <3>1
    <3> QED
      BY <1>4, <3>1, <3>2
  <2> QED
    BY <1>15, <2>1, <2>2 DEF Servicer
<1>16. ASSUME NEW r \in repliers, Fetch(r) PROVE Kept /\ \A m \in Nodes : Later(m)
  <2>1. UNCHANGED <<queues, running, phase>>
    BY <1>16 DEF Fetch, appVars
  <2> QED
    BY <1>4, <1>5, <2>1
<1>17. ASSUME NEW r \in repliers, Answer(r) PROVE Kept /\ \A m \in Nodes : Later(m)
  <2> DEFINE m == ReplyMessage(r.at, r.key, r.value)
  <2>1. r \in Replier /\ r.value \in Blob
    BY <1>17 DEF Answer, TypeOK, Replier
  <2>2. r.client \in Nodes /\ m \in Message /\ m.kind # "Kill"
    BY <2>1 DEF Replier, ReplyMessage, Message
  <2>3. Send(r.client, m) /\ UNCHANGED <<running, phase>>
    BY <1>17 DEF Answer, appVars
  <2>4. \A i \in Nodes : Kill(i)' => Kill(i)
    BY <1>2, <2>2, <2>3
  <2> QED
    BY <1>4, <2>3, <2>4
<1> DEFINE Goal == Kept /\ \A m \in Nodes : Later(m)
<1>19. ASSUME UNCHANGED vars PROVE Goal
  <2>1. UNCHANGED <<queues, running, phase>>
    BY <1>19 DEF vars
  <2> QED
    BY <1>4, <1>5, <2>1
<1> HIDE DEF Kept, Later
<1>18. Goal
  <2>1. ASSUME NEW n \in Nodes, Operation(n) PROVE Goal
    BY <2>1, <1>7, <1>8, <1>9, <1>11, <1>13 DEF Operation
  <2>2. ASSUME NEW n \in Nodes, ReplierFor(n) PROVE Goal
    BY <2>2, <1>16, <1>17 DEF ReplierFor
  <2>3. ASSUME NEW n \in Nodes, Background(n) PROVE Goal
    BY <2>2, <2>3, <1>6, <1>10, <1>12, <1>14, <1>15 DEF Background
  <2>4. ASSUME UNCHANGED vars PROVE Goal
    BY <2>4, <1>19
  <2> QED
    BY <2>1, <2>3, <2>4 DEF Next
<1> QED
  BY <1>18 DEF Kept, Later

LEMMA CausalInit == ASSUME Init, NEW rests, rests[Nil] = {} PROVE Causal(rests)
BY DEF Init, Causal, CausesUnderway, CausesStored, CausesAhead, CausesInSlot, Somewhere, Blob

\* If every node puts a value after the keys it rests on, the order of causes holds.
LEMMA CausalNext ==
  ASSUME TypeOK, QueuesKept, NEW puts, [StepPuts(puts)]_vars,
         NEW rests \in [Blob \cup {Nil} -> SUBSET Keys], rests[Nil] = {},
         Causal(rests),
         \A n \in Nodes, b \in Blob : <<n, b>> \in puts => PutsInOrder(rests, n, b)
  PROVE  Causal(rests)'
<1> USE DEF Causal
<1>00. [Next]_vars
  BY NextPuts
<1>0. TypeOK' /\ \A n \in Nodes : Len(queues[n]) \in Nat /\ Len(queues'[n]) \in Nat
  <2>1. TypeOK'
    BY <1>00, NextType
  <2> QED
    BY <2>1 DEF TypeOK
<1>1. ASSUME NEW k \in Keys PROVE (Stored(k) => Stored(k)') /\ (Underway(k) => Underway(k)')
  BY <1>00, StaysUnderway
<1>2. CausesUnderway(rests)'
  <2> SUFFICES ASSUME NEW b \in Blob, Somewhere(b)', NEW k \in rests[b] PROVE Underway(k)'
    BY DEF CausesUnderway
  <2>1. k \in Keys
    OBVIOUS
  <2>2. Somewhere(b) \/ NewValue(puts, b)
    BY ValuesPassedOn
  <2>3. Underway(k)
    BY <2>2 DEF CausesUnderway, NewValue, PutsInOrder
  <2> QED
    BY <1>1, <2>1, <2>3
<1>3. ASSUME NEW n \in Nodes, NEW kind, Receives(n, kind)
      PROVE  /\ Head(queues[n]).value \in Blob \cup {Nil}
             /\ kind = "Put" => Head(queues[n]).key \in Keys
             /\ \A k \in rests[Head(queues[n]).value] : Home[k] = n => Stored(k)
  <2>1. /\ Head(queues[n]) \in Message
        /\ Head(queues[n]) = queues[n][1]
        /\ Head(queues[n]).kind = kind
        /\ 1 \in 1 .. Len(queues[n])
    BY <1>3, ReceiveType, ReceiveParts DEF Receives
  <2>2. \A k \in Keys : ~PutAmong(n, k, 1 - 1)
    BY DEF PutAmong
  <2>3. Head(queues[n]).value \in Blob \cup {Nil}
    BY <2>1 DEF Message
  <2> QED
    BY <2>1, <2>2, <2>3, MessageParts DEF CausesAhead
<1>4. CausesStored(rests)'
  <2> SUFFICES ASSUME NEW n \in Nodes, NEW q \in Keys, NEW k \in rests[store'[n][q]],
                      Home[k] = n
               PROVE  Stored(k)'
    BY DEF CausesStored
  <2>1. k \in Keys /\ (Stored(k) => Stored(k)')
    BY <1>0, <1>1 DEF TypeOK
  <2>2. CASE store'[n][q] = store[n][q]
    BY <2>1, <2>2 DEF CausesStored
  <2>3. CASE PutsHere(puts) /\ store'[n][q] # store[n][q]
    <3>1. PICK i \in Nodes, p \in Keys, d \in Data :
            <<i, [of |-> p, data |-> d]>> \in puts
            /\ store' = [store EXCEPT ![i][p] = [of |-> p, data |-> d]]
      BY <2>3 DEF PutsHere
    <3>2. n = i /\ store'[n][q] = [of |-> p, data |-> d]
      BY <2>3, <3>1 DEF TypeOK
    <3> QED
      BY <2>1, <3>1, <3>2 DEF PutsInOrder, Blob
  <2>4. ASSUME NEW i \in Nodes, Receives(i, "Put"), store'[n][q] # store[n][q] PROVE Stored(k)
    <3> DEFINE m == Head(queues[i])
    <3>1. store' = [store EXCEPT ![i][m.key] = m.value]
      BY <2>4 DEF Receives
    <3>2. m.key \in Keys
      BY <1>3, <2>4
    <3>3. n = i /\ store'[n][q] = m.value
      <4> HIDE DEF m
      <4> QED
        BY <2>4, <3>1, <3>2 DEF TypeOK
    <3> QED
      BY <1>3, <2>4, <3>3
  <2> QED
    BY <2>1, <2>2, <2>3, <2>4, Moves DEF Sends, Receives
<1>5. CausesInSlot(rests)'
  <2> SUFFICES ASSUME NEW n \in Nodes, NEW k \in rests[cur'[n]], Home[k] = n PROVE Stored(k)'
    BY DEF CausesInSlot
  <2>1. k \in Keys /\ (Stored(k) => Stored(k)')
    BY <1>0, <1>1 DEF TypeOK
  <2>2. cur'[n] = cur[n] \/ (Receives(n, "Reply") /\ cur'[n] = Head(queues[n]).value)
    BY <1>00, Hands
  <2> QED
    BY <1>3, <2>1, <2>2 DEF CausesInSlot
<1>6. CausesAhead(rests)'
  <2> SUFFICES ASSUME NEW n \in Nodes, NEW i \in 1 .. Len(queues'[n]),
                      NEW k \in rests[queues'[n][i].value], Home[k] = n, ~Stored(k)'
               PROVE  PutAmong(n, k, i - 1)'
    BY DEF CausesAhead
  <2>1. queues'[n][i] \in Message
    BY <1>0 DEF TypeOK
  <2>2. queues'[n][i].value \in Blob \cup {Nil}
    BY <2>1 DEF Message
  <2>3. k \in Keys /\ ~Stored(k)
    BY <1>1, <2>2
  <2>4. \A j \in Nat : PutAmong(n, k, j) =>
          \/ PutAmong(n, k, j)'
          \/ \E kind \in {"Put", "Get", "Reply", "Kill"} :
               Receives(n, kind) /\ PutAmong(n, k, j - 1)'
    BY <1>00, <2>3, StaysUnderway
  <2>5. CASE UNCHANGED queues
    BY <2>3, <2>5 DEF CausesAhead, PutAmong
  <2>6. ASSUME NEW t \in Nodes, NEW m \in Message, Sends(puts, t, m) PROVE PutAmong(n, k, i - 1)'
    <3>1. Send(t, m)
      BY <2>6 DEF Sends
    <3>2. \A j \in Nat : PutAmong(n, k, j) => PutAmong(n, k, j)'
      <4> SUFFICES ASSUME NEW j \in Nat, NEW x \in 1 .. Len(queues[n]),
                          x <= j, queues[n][x].kind = "Put", queues[n][x].key = k
                   PROVE  PutAmong(n, k, j)'
        BY DEF PutAmong
      <4>1. x \in 1 .. Len(queues'[n]) /\ queues'[n][x] = queues[n][x]
        BY <3>1, SendParts
      <4> QED
        BY <4>1 DEF PutAmong
    <3>3. CASE i \in 1 .. Len(queues[n]) /\ queues'[n][i] = queues[n][i]
      <4>1. PutAmong(n, k, i - 1)
        BY <2>3, <3>3 DEF CausesAhead
      <4>2. i - 1 \in Nat
        BY <3>3
      <4> QED
        BY <3>2, <4>1, <4>2
    <3>4. CASE n = t /\ i = Len(queues[n]) + 1 /\ queues'[n][i] = m
      <4>1. m.value \in Blob /\ (NewValue(puts, m.value) \/ Somewhere(m.value))
        BY <2>2, <2>6, <3>4 DEF Sends, Somewhere
      <4>2. Underway(k)
        BY <3>4, <4>1 DEF CausesUnderway, NewValue, PutsInOrder
      <4>3. PICK l \in Nat : l = Len(queues[n])
        BY <1>0
      <4>4. PutAmong(n, k, l)
        BY <2>3, <4>2, <4>3 DEF Underway
      <4>5. i - 1 = l
        BY <3>4, <4>3
      <4> QED
        BY <3>2, <4>4, <4>5
    <3> QED
      BY <3>1, <3>3, <3>4, SendParts
  <2>7. ASSUME NEW h \in Nodes, NEW kind, Receives(h, kind) PROVE PutAmong(n, k, i - 1)'
    <3>1. Receive(h, kind)
      BY <2>7 DEF Receives
    <3> DEFINE j == Before(h, n, i)
    <3>2. j \in 1 .. Len(queues[n]) /\ queues'[n][i] = queues[n][j]
      BY <3>1, ReceiveParts
    <3>3. PICK x \in 1 .. Len(queues[n]) :
            x <= j - 1 /\ queues[n][x].kind = "Put" /\ queues[n][x].key = k
      <4> HIDE DEF j
      <4>1. k \in rests[queues[n][j].value]
        BY <3>2
      <4>2. PutAmong(n, k, j - 1)
        BY <2>3, <3>2, <4>1 DEF CausesAhead
      <4> QED
        BY <4>2 DEF PutAmong
    <3>4. CASE n = h /\ x = 1
      <4>1. kind = "Put" /\ Head(queues[n]) = queues[n][1] /\ Head(queues[n]) \in Message
        BY <3>1, <3>3, <3>4, ReceiveParts, ReceiveType
      <4>2. store' = [store EXCEPT ![n][k] = Head(queues[n]).value] /\ Head(queues[n]).value \in Blob
        BY <2>7, <3>3, <3>4, <4>1, MessageParts DEF Receives
      <4>3. Head(queues[n]).value # Nil
        BY <4>2 DEF Blob
      <4>4. Stored(k)'
        BY <2>3, <4>2, <4>3 DEF Stored, TypeOK
      <4> QED
        BY <4>4
    <3>5. CASE ~(n = h /\ x = 1)
      <4>1. After(h, n, x) \in 1 .. Len(queues'[n]) /\ queues'[n][After(h, n, x)] = queues[n][x]
        BY <3>1, <3>5, ReceiveParts
      <4>2. After(h, n, x) <= i - 1
        BY <1>0, <3>2, <3>3, <3>5 DEF After, Before
      <4> QED
        BY <3>3, <4>1, <4>2 DEF PutAmong
    <3> QED
      BY <3>4, <3>5
  <2> QED
    BY <2>5, <2>6, <2>7, Moves DEF PutsHere
<1> QED
  BY <1>2, <1>4, <1>5, <1>6

-----------------------------------------------------------------------------
\* The puts among the first i messages, for every i up to l.
Among(f, ms, n, k, l) ==
  f = [i \in 0 .. l |->
        IF i = 0 THEN <<>>
        ELSE IF IsPutOf(ms[i], n, k) THEN Append(f[i - 1], ms[i].value)
        ELSE f[i - 1]]

LEMMA AmongExists ==
  ASSUME NEW ms, NEW n, NEW k
  PROVE  \A l \in Nat : \E f : Among(f, ms, n, k, l)
<1> DEFINE S == {l \in Nat : \E f : Among(f, ms, n, k, l)}
           Next1(f, i) == IF IsPutOf(ms[i], n, k) THEN Append(f[i - 1], ms[i].value)
                          ELSE f[i - 1]
<1>1. 0 \in S
  <2> DEFINE f == [i \in 0 .. 0 |-> <<>>]
  <2>1. Among(f, ms, n, k, 0)
    BY DEF Among
  <2> QED
    BY <2>1
<1>2. ASSUME NEW l \in Nat, l \in S PROVE l + 1 \in S
  <2>1. PICK f : Among(f, ms, n, k, l)
    BY <1>2
  <2> DEFINE g == [i \in 0 .. l + 1 |-> IF i = l + 1 THEN Next1(f, i) ELSE f[i]]
  <2>2. \A i \in 0 .. l : f[i] = IF i = 0 THEN <<>> ELSE Next1(f, i)
    BY <2>1 DEF Among
  <2>3. \A i \in 0 .. l : g[i] = f[i]
    OBVIOUS
  <2>4. g[l + 1] = Next1(f, l + 1)
    OBVIOUS
  <2>5. \A i \in 1 .. l + 1 : i - 1 \in 0 .. l /\ Next1(g, i) = Next1(f, i)
    BY <2>3
  <2> HIDE DEF Next1
  <2>6. \A i \in 0 .. l + 1 : g[i] = IF i = 0 THEN <<>> ELSE Next1(g, i)
    BY <2>2, <2>3, <2>4, <2>5
  <2> USE DEF Next1
  <2>7. g = [i \in 0 .. l + 1 |-> IF i = 0 THEN <<>> ELSE Next1(g, i)]
    <3> HIDE DEF Next1
    <3>1. DOMAIN g = 0 .. l + 1 /\ g = [i \in 0 .. l + 1 |-> g[i]]
      OBVIOUS
    <3> HIDE DEF g
    <3> QED
      BY <2>6, <3>1
  <2>8. Among(g, ms, n, k, l + 1)
    <3> HIDE DEF g
    <3> QED
      BY <2>7 DEF Among
  <2> QED
    BY <2>8
<1> HIDE DEF S
<1>3. Nat \subseteq S
  BY <1>1, <1>2, SetInduction
<1> QED
  BY <1>3 DEF S

\* What ValuesPut() gathers, message by message.
Gathers(f, ms, n, k) ==
  /\ ValuesPut(ms, n, k) = f[Len(ms)]
  /\ f[0] = <<>>
  /\ \A i \in 1 .. Len(ms) :
       f[i] = IF IsPutOf(ms[i], n, k) THEN Append(f[i - 1], ms[i].value) ELSE f[i - 1]

LEMMA ValuesPutAmong ==
  ASSUME NEW ms \in Seq(Message), NEW n, NEW k
  PROVE  \E f : Gathers(f, ms, n, k)
<1> DEFINE F == CHOOSE f : Among(f, ms, n, k, Len(ms))
<1>1. Len(ms) \in Nat
  OBVIOUS
<1>2. Among(F, ms, n, k, Len(ms))
  BY <1>1, AmongExists
<1>3. ValuesPut(ms, n, k) = F[Len(ms)]
  BY DEF ValuesPut, Among
<1> HIDE DEF F
<1>4. \A i \in 0 .. Len(ms) :
        F[i] = IF i = 0 THEN <<>>
               ELSE IF IsPutOf(ms[i], n, k) THEN Append(F[i - 1], ms[i].value)
               ELSE F[i - 1]
  BY <1>1, <1>2 DEF Among
<1>5. F[0] = <<>>
  BY <1>1, <1>4
<1>6. \A i \in 1 .. Len(ms) :
        F[i] = IF IsPutOf(ms[i], n, k) THEN Append(F[i - 1], ms[i].value) ELSE F[i - 1]
  BY <1>4
<1> QED
  BY <1>3, <1>5, <1>6 DEF Gathers

\* Nobody has put anything with no messages at all,
LEMMA NoPutsYet == ASSUME NEW n, NEW k PROVE ValuesPut(<<>>, n, k) = <<>>
<1>1. <<>> \in Seq(Message) /\ Len(<<>>) = 0
  OBVIOUS
<1>2. PICK f : Gathers(f, <<>>, n, k)
  BY <1>1, ValuesPutAmong
<1> QED
  BY <1>1, <1>2 DEF Gathers

\* and what is put are values.
LEMMA ValuesPutType ==
  ASSUME NEW ms \in Seq(Message), NEW n, NEW k
  PROVE  ValuesPut(ms, n, k) \in Seq(Blob)
<1>1. PICK f : Gathers(f, ms, n, k)
  BY ValuesPutAmong
<1> DEFINE S == {i \in Nat : i <= Len(ms) => f[i] \in Seq(Blob)}
<1>2. 0 \in S
  <2>1. f[0] = <<>> /\ <<>> \in Seq(Blob)
    BY <1>1 DEF Gathers
  <2> QED
    BY <2>1
<1>3. ASSUME NEW i \in Nat, i \in S PROVE i + 1 \in S
  <2> SUFFICES ASSUME i + 1 <= Len(ms) PROVE f[i + 1] \in Seq(Blob)
    OBVIOUS
  <2>1. f[i] \in Seq(Blob) /\ i + 1 \in 1 .. Len(ms) /\ i + 1 - 1 = i
    BY <1>3
  <2>2. ms[i + 1] \in Message
    BY <2>1
  <2>3. IsPutOf(ms[i + 1], n, k) => ms[i + 1].value \in Blob
    BY <2>2, MessageParts DEF IsPutOf
  <2>4. f[i + 1] = IF IsPutOf(ms[i + 1], n, k) THEN Append(f[i], ms[i + 1].value) ELSE f[i]
    BY <1>1, <2>1 DEF Gathers
  <2> QED
    BY <2>1, <2>3, <2>4
<1> HIDE DEF S
<1>4. Nat \subseteq S
  BY <1>2, <1>3, SetInduction
<1>5. Len(ms) \in S
  BY <1>4
<1> QED
  BY <1>1, <1>5 DEF S, Gathers

\* A message that is sent counts as the last one,
LEMMA PutSent ==
  ASSUME NEW ms \in Seq(Message), NEW m \in Message, NEW n, NEW k
  PROVE  ValuesPut(Append(ms, m), n, k) =
           IF IsPutOf(m, n, k) THEN Append(ValuesPut(ms, n, k), m.value)
           ELSE ValuesPut(ms, n, k)
<1> DEFINE mt == Append(ms, m)
           l == Len(ms)
<1>1. /\ mt \in Seq(Message) /\ Len(mt) = l + 1 /\ l \in Nat
      /\ mt[l + 1] = m
      /\ \A i \in 1 .. l : mt[i] = ms[i]
  OBVIOUS
<1> HIDE DEF mt
<1>2. PICK f : Gathers(f, ms, n, k)
  BY ValuesPutAmong
<1>3. PICK g : Gathers(g, mt, n, k)
  BY <1>1, ValuesPutAmong
<1> DEFINE S == {i \in Nat : i <= l => g[i] = f[i]}
<1>4. 0 \in S
  BY <1>2, <1>3 DEF Gathers
<1>5. ASSUME NEW i \in Nat, i \in S PROVE i + 1 \in S
  <2> SUFFICES ASSUME i + 1 <= l PROVE g[i + 1] = f[i + 1]
    OBVIOUS
  <2>1. g[i] = f[i] /\ i + 1 \in 1 .. Len(ms) /\ i + 1 \in 1 .. Len(mt) /\ i + 1 - 1 = i
    BY <1>1, <1>5
  <2>2. mt[i + 1] = ms[i + 1]
    BY <1>1, <2>1
  <2> QED
    BY <1>2, <1>3, <2>1, <2>2 DEF Gathers
<1> HIDE DEF S
<1>6. Nat \subseteq S
  BY <1>4, <1>5, SetInduction
<1>7. g[l] = f[l]
  BY <1>1, <1>6 DEF S
<1>8. l + 1 \in 1 .. Len(mt) /\ l + 1 - 1 = l
  BY <1>1
<1>9. g[l + 1] = IF IsPutOf(m, n, k) THEN Append(g[l], m.value) ELSE g[l]
  BY <1>1, <1>3, <1>8 DEF Gathers
<1> QED
  BY <1>1, <1>2, <1>3, <1>7, <1>9 DEF mt, Gathers

\* The first of several values stays the first when another one is added.
LEMMA AppendBehind ==
  ASSUME NEW S, NEW s \in Seq(S), s # <<>>, NEW v \in S
  PROVE  /\ Append(s, v) # <<>>
         /\ Head(Append(s, v)) = Head(s)
         /\ Tail(Append(s, v)) = Append(Tail(s), v)
OBVIOUS

\* and one that is received as the first one.
LEMMA PutReceived ==
  ASSUME NEW ms \in Seq(Message), ms # <<>>, NEW n, NEW k
  PROVE  IF IsPutOf(Head(ms), n, k)
         THEN /\ ValuesPut(ms, n, k) # <<>>
              /\ Head(ValuesPut(ms, n, k)) = Head(ms).value
              /\ Tail(ValuesPut(ms, n, k)) = ValuesPut(Tail(ms), n, k)
         ELSE ValuesPut(ms, n, k) = ValuesPut(Tail(ms), n, k)
<1> DEFINE mt == Tail(ms)
           l == Len(mt)
<1>1. /\ mt \in Seq(Message) /\ Len(ms) = l + 1 /\ l \in Nat
      /\ ms[1] = Head(ms) /\ ms[1] \in Message
      /\ \A i \in 1 .. l : mt[i] = ms[i + 1]
  OBVIOUS
<1> HIDE DEF mt
<1>2. PICK f : Gathers(f, ms, n, k)
  BY ValuesPutAmong
<1>3. PICK g : Gathers(g, mt, n, k)
  BY <1>1, ValuesPutAmong
<1>4. f[1] = IF IsPutOf(ms[1], n, k) THEN Append(<<>>, ms[1].value) ELSE <<>>
  <2>1. 1 \in 1 .. Len(ms) /\ 1 - 1 = 0
    BY <1>1
  <2> QED
    BY <1>2, <2>1 DEF Gathers
<1>5. \A i \in 1 .. l :
        /\ g[i] = IF IsPutOf(ms[i + 1], n, k) THEN Append(g[i - 1], ms[i + 1].value)
                  ELSE g[i - 1]
        /\ f[i + 1] = IF IsPutOf(ms[i + 1], n, k) THEN Append(f[i], ms[i + 1].value)
                      ELSE f[i]
        /\ IsPutOf(ms[i + 1], n, k) => ms[i + 1].value \in Blob
  <2> SUFFICES ASSUME NEW i \in 1 .. l
               PROVE  /\ g[i] = IF IsPutOf(ms[i + 1], n, k)
                                THEN Append(g[i - 1], ms[i + 1].value) ELSE g[i - 1]
                      /\ f[i + 1] = IF IsPutOf(ms[i + 1], n, k)
                                    THEN Append(f[i], ms[i + 1].value) ELSE f[i]
                      /\ IsPutOf(ms[i + 1], n, k) => ms[i + 1].value \in Blob
    OBVIOUS
  <2>1. i + 1 \in 1 .. Len(ms) /\ i + 1 - 1 = i /\ mt[i] = ms[i + 1]
    BY <1>1
  <2>2. ms[i + 1] \in Message
    BY <2>1
  <2> QED
    BY <1>2, <1>3, <2>1, <2>2, MessageParts DEF IsPutOf, Gathers
<1>6. CASE IsPutOf(ms[1], n, k)
  <2> DEFINE v == ms[1].value
             S == {i \in Nat : i <= l =>
                     /\ f[i + 1] \in Seq(Blob) /\ f[i + 1] # <<>>
                     /\ Head(f[i + 1]) = v /\ Tail(f[i + 1]) = g[i]}
  <2>1. 0 \in S
    <3>1. v \in Blob
      BY <1>1, <1>6, MessageParts DEF IsPutOf
    <3> HIDE DEF v
    <3>2. f[1] = <<v>> /\ g[0] = <<>>
      BY <1>3, <1>4, <1>6 DEF v, Gathers
    <3>3. <<v>> \in Seq(Blob) /\ <<v>> # <<>> /\ Head(<<v>>) = v /\ Tail(<<v>>) = <<>>
      BY <3>1
    <3>4. 0 + 1 = 1
      OBVIOUS
    <3> QED
      BY <3>2, <3>3, <3>4
  <2>2. ASSUME NEW i \in Nat, i \in S PROVE i + 1 \in S
    <3> SUFFICES ASSUME i + 1 <= l
                 PROVE  /\ f[i + 1 + 1] \in Seq(Blob) /\ f[i + 1 + 1] # <<>>
                        /\ Head(f[i + 1 + 1]) = v /\ Tail(f[i + 1 + 1]) = g[i + 1]
      OBVIOUS
    <3>1. /\ f[i + 1] \in Seq(Blob) /\ f[i + 1] # <<>>
          /\ Head(f[i + 1]) = v /\ Tail(f[i + 1]) = g[i]
      BY <1>1, <2>2
    <3>2. i + 1 \in 1 .. l /\ i + 1 - 1 = i
      BY <1>1
    <3>3. CASE IsPutOf(ms[i + 1 + 1], n, k)
      <4> DEFINE w == ms[i + 1 + 1].value
      <4>1. w \in Blob
        BY <1>5, <3>2, <3>3
      <4>2. g[i + 1] = Append(g[i], w)
        <5>1. g[i + 1] = IF IsPutOf(ms[i + 1 + 1], n, k)
                         THEN Append(g[i + 1 - 1], ms[i + 1 + 1].value)
                         ELSE g[i + 1 - 1]
          BY <1>5, <3>2
        <5> QED
          BY <3>2, <3>3, <5>1
      <4>3. f[i + 1 + 1] = Append(f[i + 1], w)
        BY <1>5, <3>2, <3>3
      <4> HIDE DEF v, w
      <4>4. /\ Append(f[i + 1], w) # <<>>
            /\ Head(Append(f[i + 1], w)) = v
            /\ Tail(Append(f[i + 1], w)) = Append(g[i], w)
        <5> DEFINE s == f[i + 1]
        <5>1. s \in Seq(Blob) /\ s # <<>> /\ Head(s) = v /\ Tail(s) = g[i]
          BY <3>1
        <5> HIDE DEF s
        <5>2. /\ Append(s, w) # <<>>
              /\ Head(Append(s, w)) = Head(s)
              /\ Tail(Append(s, w)) = Append(Tail(s), w)
          BY <4>1, <5>1, AppendBehind
        <5>3. /\ Append(s, w) # <<>>
              /\ Head(Append(s, w)) = v
              /\ Tail(Append(s, w)) = Append(g[i], w)
          BY <5>1, <5>2
        <5> QED
          BY <5>3 DEF s
      <4>5. Append(f[i + 1], w) \in Seq(Blob)
        BY <3>1, <4>1
      <4> QED
        BY <4>2, <4>3, <4>4, <4>5
    <3>4. CASE ~IsPutOf(ms[i + 1 + 1], n, k)
      BY <1>5, <3>1, <3>2, <3>4
    <3> QED
      BY <3>3, <3>4
  <2> HIDE DEF S
  <2>3. Nat \subseteq S
    BY <2>1, <2>2, SetInduction
  <2>4. l \in S
    BY <1>1, <2>3
  <2> QED
    <3>1. ValuesPut(ms, n, k) = f[l + 1] /\ ValuesPut(mt, n, k) = g[l]
      BY <1>1, <1>2, <1>3 DEF Gathers
    <3>2. f[l + 1] # <<>> /\ Head(f[l + 1]) = v /\ Tail(f[l + 1]) = g[l]
      BY <1>1, <2>4 DEF S
    <3> QED
      BY <1>1, <1>6, <3>1, <3>2 DEF mt
<1>7. CASE ~IsPutOf(ms[1], n, k)
  <2> DEFINE S == {i \in Nat : i <= l => f[i + 1] = g[i]}
  <2>1. 0 \in S
    BY <1>3, <1>4, <1>7 DEF Gathers
  <2>2. ASSUME NEW i \in Nat, i \in S PROVE i + 1 \in S
    <3> SUFFICES ASSUME i + 1 <= l PROVE f[i + 1 + 1] = g[i + 1]
      OBVIOUS
    <3>1. f[i + 1] = g[i] /\ i + 1 \in 1 .. l /\ i + 1 - 1 = i
      BY <1>1, <2>2
    <3> QED
      BY <1>5, <3>1
  <2> HIDE DEF S
  <2>3. Nat \subseteq S
    BY <2>1, <2>2, SetInduction
  <2>4. l \in S
    BY <1>1, <2>3
  <2> QED
    <3>1. ValuesPut(ms, n, k) = f[l + 1] /\ ValuesPut(mt, n, k) = g[l]
      BY <1>1, <1>2, <1>3 DEF Gathers
    <3>2. f[l + 1] = g[l]
      BY <1>1, <2>4 DEF S
    <3> QED
      BY <1>1, <1>7, <3>1, <3>2 DEF mt
<1> QED
  BY <1>6, <1>7

\* Who has sent no put has nothing pending.
LEMMA NoPutNoValue ==
  ASSUME NEW ms \in Seq(Message), NEW n, NEW k,
         \A i \in 1 .. Len(ms) : ~IsPutOf(ms[i], n, k)
  PROVE  ValuesPut(ms, n, k) = <<>>
<1>1. PICK f : Gathers(f, ms, n, k)
  BY ValuesPutAmong
<1> DEFINE S == {i \in Nat : i <= Len(ms) => f[i] = <<>>}
<1>2. 0 \in S
  BY <1>1 DEF Gathers
<1>3. ASSUME NEW i \in Nat, i \in S PROVE i + 1 \in S
  <2> SUFFICES ASSUME i + 1 <= Len(ms) PROVE f[i + 1] = <<>>
    OBVIOUS
  <2>1. f[i] = <<>> /\ i + 1 \in 1 .. Len(ms) /\ i + 1 - 1 = i
    BY <1>3
  <2> QED
    BY <1>1, <2>1 DEF Gathers
<1> HIDE DEF S
<1>4. Nat \subseteq S
  BY <1>2, <1>3, SetInduction
<1>5. Len(ms) \in S
  BY <1>4
<1> QED
  BY <1>1, <1>5 DEF S, Gathers

-----------------------------------------------------------------------------
\* The registers, read from the store.
DbOf == [k \in Keys |-> store[Home[k]][k]]
PendingOf == [n \in Nodes |-> [k \in Keys |-> Pending(n, k)]]
AskingOf == [n \in Nodes |-> IF phase[n] = "await" THEN want[n] ELSE Nil]
AnswerOf == [n \in Nodes |-> AnswerTo(n)]

\* The values in the Replies of a queue, and the values the repliers of n hold.
ReplyValues(q) == {q[i].value : i \in {j \in 1 .. Len(q) : q[j].kind = "Reply"}}
FoundValues(rs, n) == {r.value : r \in {s \in rs : s.client = n}}

LEMMA AnswersSplit ==
  \A n \in Nodes :
    AnswersTo(n) = ({cur[n]} \cup ReplyValues(queues[n]) \cup FoundValues(repliers, n)) \ {Nil}
BY DEF AnswersTo, ReplyValues, FoundValues, ReplyAt

LEMMA AnswersSplitNext ==
  \A n \in Nodes :
    AnswersTo(n)' =
      ({cur'[n]} \cup ReplyValues(queues'[n]) \cup FoundValues(repliers', n)) \ {Nil}
BY DEF AnswersTo, ReplyValues, FoundValues, ReplyAt

LEMMA ReplySent ==
  ASSUME NEW q \in Seq(Message), NEW m \in Message
  PROVE  ReplyValues(Append(q, m)) =
           ReplyValues(q) \cup (IF m.kind = "Reply" THEN {m.value} ELSE {})
<1> DEFINE qm == Append(q, m)
           l == Len(q)
<1>1. /\ Len(qm) = l + 1 /\ l \in Nat /\ qm[l + 1] = m
      /\ \A i \in 1 .. l : qm[i] = q[i]
  OBVIOUS
<1> HIDE DEF qm
<1>2. ASSUME NEW v \in ReplyValues(qm)
      PROVE  v \in ReplyValues(q) \cup (IF m.kind = "Reply" THEN {m.value} ELSE {})
  <2>1. PICK i \in 1 .. l + 1 : qm[i].kind = "Reply" /\ v = qm[i].value
    BY <1>1, <1>2 DEF ReplyValues
  <2>2. CASE i = l + 1
    BY <1>1, <2>1, <2>2
  <2>3. CASE i # l + 1
    <3>1. i \in 1 .. l
      BY <1>1, <2>1, <2>3
    <3> QED
      BY <1>1, <2>1, <3>1 DEF ReplyValues
  <2> QED
    BY <2>2, <2>3
<1>3. ReplyValues(q) \subseteq ReplyValues(qm)
  <2> SUFFICES ASSUME NEW v \in ReplyValues(q) PROVE v \in ReplyValues(qm)
    OBVIOUS
  <2>1. PICK i \in 1 .. l : q[i].kind = "Reply" /\ v = q[i].value
    BY DEF ReplyValues
  <2>2. i \in 1 .. Len(qm)
    BY <1>1
  <2> QED
    BY <1>1, <2>1, <2>2 DEF ReplyValues
<1>4. ASSUME m.kind = "Reply" PROVE m.value \in ReplyValues(qm)
  <2>1. l + 1 \in 1 .. Len(qm)
    BY <1>1
  <2> QED
    BY <1>1, <1>4, <2>1 DEF ReplyValues
<1>5. ReplyValues(qm) = ReplyValues(q) \cup (IF m.kind = "Reply" THEN {m.value} ELSE {})
  BY <1>2, <1>3, <1>4
<1> QED
  BY <1>5 DEF qm

LEMMA ReplyReceived ==
  ASSUME NEW q \in Seq(Message), q # <<>>
  PROVE  ReplyValues(q) =
           ReplyValues(Tail(q)) \cup (IF Head(q).kind = "Reply" THEN {Head(q).value} ELSE {})
<1> DEFINE qt == Tail(q)
           l == Len(qt)
<1>1. /\ Len(q) = l + 1 /\ l \in Nat /\ q[1] = Head(q)
      /\ \A i \in 1 .. l : qt[i] = q[i + 1]
  OBVIOUS
<1> HIDE DEF qt
<1>2. ASSUME NEW v \in ReplyValues(q)
      PROVE  v \in ReplyValues(qt) \cup (IF q[1].kind = "Reply" THEN {q[1].value} ELSE {})
  <2>1. PICK i \in 1 .. l + 1 : q[i].kind = "Reply" /\ v = q[i].value
    BY <1>1, <1>2 DEF ReplyValues
  <2>2. CASE i = 1
    BY <2>1, <2>2
  <2>3. CASE i # 1
    <3>1. i - 1 \in 1 .. l /\ i - 1 + 1 = i
      BY <1>1, <2>1, <2>3
    <3>2. qt[i - 1] = q[i]
      BY <1>1, <3>1
    <3> QED
      BY <2>1, <3>1, <3>2 DEF ReplyValues
  <2> QED
    BY <2>2, <2>3
<1>3. ReplyValues(qt) \subseteq ReplyValues(q)
  <2> SUFFICES ASSUME NEW v \in ReplyValues(qt) PROVE v \in ReplyValues(q)
    OBVIOUS
  <2>1. PICK i \in 1 .. l : qt[i].kind = "Reply" /\ v = qt[i].value
    BY DEF ReplyValues
  <2>2. i + 1 \in 1 .. Len(q) /\ qt[i] = q[i + 1]
    BY <1>1
  <2> QED
    BY <2>1, <2>2 DEF ReplyValues
<1>4. ASSUME q[1].kind = "Reply" PROVE q[1].value \in ReplyValues(q)
  <2>1. 1 \in 1 .. Len(q)
    BY <1>1
  <2> QED
    BY <1>4, <2>1 DEF ReplyValues
<1>5. ReplyValues(q) = ReplyValues(qt) \cup (IF q[1].kind = "Reply" THEN {q[1].value} ELSE {})
  BY <1>2, <1>3, <1>4
<1> QED
  BY <1>1, <1>5 DEF qt

-----------------------------------------------------------------------------
\* What a send and a receive do to the registers.

LEMMA SendPending ==
  ASSUME TypeOK, NEW t \in Nodes, NEW m \in Message, Send(t, m)
  PROVE  \A n \in Nodes, k \in Keys :
           Pending(n, k)' = IF Home[k] = t /\ IsPutOf(m, n, k)
                            THEN Append(Pending(n, k), m.value) ELSE Pending(n, k)
<1> SUFFICES ASSUME NEW n \in Nodes, NEW k \in Keys
             PROVE  Pending(n, k)' = IF Home[k] = t /\ IsPutOf(m, n, k)
                                     THEN Append(Pending(n, k), m.value) ELSE Pending(n, k)
  OBVIOUS
<1>1. Home[k] \in Nodes
  OBVIOUS
<1>2. queues[Home[k]] \in Seq(Message)
  BY <1>1 DEF TypeOK
<1>3. queues'[Home[k]] = IF Home[k] = t THEN Append(queues[Home[k]], m)
                         ELSE queues[Home[k]]
  BY <1>1 DEF Send, TypeOK
<1>4. Pending(n, k)' = ValuesPut(queues'[Home[k]], n, k)
  BY DEF Pending
<1>5. ValuesPut(Append(queues[Home[k]], m), n, k) =
        IF IsPutOf(m, n, k) THEN Append(Pending(n, k), m.value) ELSE Pending(n, k)
  <2>1. Pending(n, k) = ValuesPut(queues[Home[k]], n, k)
    BY DEF Pending
  <2>2. ValuesPut(Append(queues[Home[k]], m), n, k) =
          IF IsPutOf(m, n, k) THEN Append(ValuesPut(queues[Home[k]], n, k), m.value)
          ELSE ValuesPut(queues[Home[k]], n, k)
    <3> DEFINE q == queues[Home[k]]
    <3>1. q \in Seq(Message)
      BY <1>2
    <3> HIDE DEF q
    <3>2. ValuesPut(Append(q, m), n, k) =
            IF IsPutOf(m, n, k) THEN Append(ValuesPut(q, n, k), m.value)
            ELSE ValuesPut(q, n, k)
      BY ONLY <3>1, PutSent, m \in Message
    <3> QED
      BY <3>2 DEF q
  <2> QED
    BY <2>1, <2>2
<1>6. CASE Home[k] = t
  BY <1>3, <1>4, <1>5, <1>6
<1>7. CASE Home[k] # t
  BY <1>3, <1>4, <1>7 DEF Pending
<1> QED
  BY <1>6, <1>7

LEMMA ReceivePending ==
  ASSUME TypeOK, NEW h \in Nodes, NEW kind, Receive(h, kind)
  PROVE  \A n \in Nodes, k \in Keys :
           IF Home[k] = h /\ IsPutOf(Head(queues[h]), n, k)
           THEN /\ Pending(n, k) # <<>>
                /\ Head(Pending(n, k)) = Head(queues[h]).value
                /\ Pending(n, k)' = Tail(Pending(n, k))
           ELSE Pending(n, k)' = Pending(n, k)
<1> SUFFICES ASSUME NEW n \in Nodes, NEW k \in Keys
             PROVE  IF Home[k] = h /\ IsPutOf(Head(queues[h]), n, k)
                    THEN /\ Pending(n, k) # <<>>
                         /\ Head(Pending(n, k)) = Head(queues[h]).value
                         /\ Pending(n, k)' = Tail(Pending(n, k))
                    ELSE Pending(n, k)' = Pending(n, k)
  OBVIOUS
<1>1. queues[h] \in Seq(Message) /\ queues[h] # <<>>
  BY DEF TypeOK, Receive
<1>2. Home[k] \in Nodes
  OBVIOUS
<1>3. queues'[Home[k]] = IF Home[k] = h THEN Tail(queues[h]) ELSE queues[Home[k]]
  BY <1>1, <1>2 DEF Receive, TypeOK
<1>4. Pending(n, k)' = ValuesPut(queues'[Home[k]], n, k)
  BY DEF Pending
<1>5. CASE Home[k] = h
  BY <1>1, <1>3, <1>4, <1>5, PutReceived DEF Pending
<1>6. CASE Home[k] # h
  BY <1>3, <1>4, <1>6 DEF Pending
<1> QED
  BY <1>5, <1>6

LEMMA SendReplyValues ==
  ASSUME TypeOK, NEW t \in Nodes, NEW m \in Message, Send(t, m)
  PROVE  \A n \in Nodes :
           ReplyValues(queues'[n]) =
             ReplyValues(queues[n])
               \cup (IF n = t /\ m.kind = "Reply" THEN {m.value} ELSE {})
<1> SUFFICES ASSUME NEW n \in Nodes
             PROVE  ReplyValues(queues'[n]) =
                      ReplyValues(queues[n])
                        \cup (IF n = t /\ m.kind = "Reply" THEN {m.value} ELSE {})
  OBVIOUS
<1>1. queues[n] \in Seq(Message)
  BY DEF TypeOK
<1>2. queues'[n] = IF n = t THEN Append(queues[n], m) ELSE queues[n]
  BY DEF Send, TypeOK
<1> QED
  BY <1>1, <1>2, ReplySent

LEMMA ReceiveReplyValues ==
  ASSUME TypeOK, NEW h \in Nodes, NEW kind, Receive(h, kind)
  PROVE  \A n \in Nodes :
           ReplyValues(queues[n]) =
             ReplyValues(queues'[n])
               \cup (IF n = h /\ kind = "Reply" THEN {Head(queues[h]).value} ELSE {})
<1> SUFFICES ASSUME NEW n \in Nodes
             PROVE  ReplyValues(queues[n]) =
                      ReplyValues(queues'[n])
                        \cup (IF n = h /\ kind = "Reply" THEN {Head(queues[h]).value} ELSE {})
  OBVIOUS
<1>1. queues[h] \in Seq(Message) /\ queues[h] # <<>> /\ Head(queues[h]).kind = kind
  BY DEF TypeOK, Receive
<1>2. queues'[n] = IF n = h THEN Tail(queues[h]) ELSE queues[n]
  BY DEF Receive, TypeOK
<1> QED
  BY <1>1, <1>2, ReplyReceived

LEMMA ReceiveNoReply ==
  ASSUME TypeOK, NEW h \in Nodes, NEW kind, Receive(h, kind), kind # "Reply"
  PROVE  \A n \in Nodes : ReplyValues(queues'[n]) = ReplyValues(queues[n])
BY ReceiveReplyValues

-----------------------------------------------------------------------------
\* What the steps do to the registers.

LEMMA AnswersToSame ==
  ASSUME NEW c \in Nodes,
         ({cur'[c]} \cup ReplyValues(queues'[c]) \cup FoundValues(repliers', c)) \ {Nil}
           = ({cur[c]} \cup ReplyValues(queues[c]) \cup FoundValues(repliers, c)) \ {Nil}
  PROVE  AnswersTo(c)' = AnswersTo(c)
BY AnswersSplit, AnswersSplitNext

LEMMA AnswerSame ==
  ASSUME \A n \in Nodes : AnswersTo(n)' = AnswersTo(n)
  PROVE  AnswerOf' = AnswerOf
BY DEF AnswerOf, AnswerTo

\* A message that is neither a Put nor a Reply is nothing to the registers, nor is
\* its receipt.
LEMMA SendSame ==
  ASSUME TypeOK, NEW t \in Nodes, NEW m \in Message, Send(t, m),
         m.kind \notin {"Put", "Reply"}, UNCHANGED <<cur, repliers>>
  PROVE  PendingOf' = PendingOf /\ AnswerOf' = AnswerOf
<1>1. \A n \in Nodes, k \in Keys : Pending(n, k)' = Pending(n, k)
  BY SendPending DEF IsPutOf
<1>2. \A n \in Nodes : ReplyValues(queues'[n]) = ReplyValues(queues[n])
  BY SendReplyValues
<1>3. ASSUME NEW n \in Nodes PROVE AnswersTo(n)' = AnswersTo(n)
  BY <1>2, AnswersSplit, AnswersSplitNext
<1> QED
  BY <1>1, <1>3, AnswerSame DEF PendingOf

LEMMA ReceiveSame ==
  ASSUME TypeOK, NEW h \in Nodes, NEW kind, Receive(h, kind), kind # "Put"
  PROVE  PendingOf' = PendingOf
<1>1. Head(queues[h]).kind = kind
  BY DEF Receive
<1>2. \A n \in Nodes, k \in Keys : Pending(n, k)' = Pending(n, k)
  BY <1>1, ReceivePending DEF IsPutOf
<1> QED
  BY <1>2 DEF PendingOf

\* Without a step of a queue, a slot or a replier there is no change of these two.
LEMMA QuietSame ==
  ASSUME UNCHANGED <<queues, cur, repliers>>
  PROVE  PendingOf' = PendingOf /\ AnswerOf' = AnswerOf
<1>1. \A n \in Nodes, k \in Keys : Pending(n, k)' = Pending(n, k)
  BY DEF Pending
<1>2. \A n \in Nodes : AnswersTo(n)' = AnswersTo(n)
  BY AnswersSplit, AnswersSplitNext
<1> QED
  BY <1>1, <1>2, AnswerSame DEF PendingOf

Same == UNCHANGED <<DbOf, PendingOf, AskingOf, AnswerOf, got>>

LEMMA Stutters == Same => UNCHANGED Register!vars
BY DEF Same, Register!vars, DbOf, PendingOf, AskingOf, AnswerOf

LEMMA PutStep ==
  ASSUME IInv, NEW n \in Nodes, NEW k \in Keys, NEW d \in Data, Put(n, k, d)
  PROVE  \E v \in Blob : Register!PutHere(n, k, v) \/ Register!PutElsewhere(n, k, v)
<1> DEFINE b == [of |-> k, data |-> d]
<1>1. TypeOK /\ b \in Blob /\ phase[n] = "run"
  BY DEF IInv, Put, Blob
<1>2. AskingOf[n] = Nil /\ AskingOf' = AskingOf
  BY <1>1 DEF AskingOf, Put, appVars
<1>3. UNCHANGED <<got, cur, repliers>>
  BY DEF Put, appVars, servicerVars
<1>4. CASE Home[k] = n
  <2>1. store' = [store EXCEPT ![n][k] = b] /\ UNCHANGED queues
    BY <1>4 DEF Put, StoreLocally
  <2>2. DbOf' = [DbOf EXCEPT ![k] = b]
    BY <1>1, <1>4, <2>1 DEF DbOf, TypeOK
  <2>3. PendingOf' = PendingOf /\ AnswerOf' = AnswerOf
    BY <1>3, <2>1, QuietSame
  <2>4. Register!PutHere(n, k, b)
    BY <1>2, <1>3, <1>4, <2>2, <2>3 DEF Register!PutHere, DbOf, PendingOf, AskingOf, AnswerOf
  <2> QED
    BY <1>1, <2>4
<1>5. CASE Home[k] # n
  <2> DEFINE m == PutMessage(n, k, b)
  <2>1. Send(Home[k], m) /\ UNCHANGED store
    BY <1>5 DEF Put
  <2>2. m \in Message /\ Home[k] \in Nodes
    BY <1>1, MessageTypes
  <2>3. m.kind = "Put" /\ m.sender = n /\ m.key = k /\ m.value = b
    BY DEF PutMessage
  <2> HIDE DEF m, b
  <2>4. \A c \in Nodes, j \in Keys :
          Pending(c, j)' = IF c = n /\ j = k THEN Append(Pending(c, j), b) ELSE Pending(c, j)
    <3> SUFFICES ASSUME NEW c \in Nodes, NEW j \in Keys
                 PROVE  Pending(c, j)' = IF c = n /\ j = k THEN Append(Pending(c, j), b)
                                         ELSE Pending(c, j)
      OBVIOUS
    <3>1. Pending(c, j)' = IF Home[j] = Home[k] /\ IsPutOf(m, c, j)
                           THEN Append(Pending(c, j), m.value) ELSE Pending(c, j)
      BY <1>1, <2>1, <2>2, SendPending
    <3> QED
      BY <2>3, <3>1 DEF IsPutOf
  <2>5. PendingOf' = [PendingOf EXCEPT ![n][k] = Append(@, b)]
    BY <2>4 DEF PendingOf
  <2>6. AnswerOf' = AnswerOf
    <3>1. \A c \in Nodes : ReplyValues(queues'[c]) = ReplyValues(queues[c])
      BY <1>1, <2>1, <2>2, <2>3, SendReplyValues
    <3>2. ASSUME NEW c \in Nodes PROVE AnswersTo(c)' = AnswersTo(c)
      BY <1>3, <3>1, AnswersToSame
    <3> QED
      BY <3>2, AnswerSame
  <2>7. DbOf' = DbOf
    BY <2>1 DEF DbOf
  <2>8. Register!PutElsewhere(n, k, b)
    BY <1>2, <1>3, <1>5, <2>5, <2>6, <2>7
       DEF Register!PutElsewhere, DbOf, PendingOf, AskingOf, AnswerOf
  <2> QED
    BY <1>1, <2>8
<1> QED
  BY <1>4, <1>5

LEMMA GetLocalStep ==
  ASSUME IInv, NEW n \in Nodes, NEW k \in Keys, GetLocal(n, k)
  PROVE  Register!GetHere(n, k)
<1>1. phase[n] = "run" /\ Home[k] = n /\ store[n][k] # Nil
  BY DEF GetLocal
<1>2. UNCHANGED <<queues, store, cur, repliers, phase, want>>
  BY DEF GetLocal, servicerVars
<1>3. AskingOf[n] = Nil /\ AskingOf' = AskingOf
  BY <1>1, <1>2 DEF AskingOf
<1>4. DbOf[k] = store[n][k] /\ DbOf' = DbOf
  BY <1>1, <1>2 DEF DbOf
<1>5. PendingOf' = PendingOf /\ AnswerOf' = AnswerOf
  BY <1>2, QuietSame
<1>6. got' = [got EXCEPT ![n] = DbOf[k]]
  BY <1>4 DEF GetLocal
<1> QED
  BY <1>1, <1>3, <1>4, <1>5, <1>6
     DEF Register!GetHere, DbOf, PendingOf, AskingOf, AnswerOf

LEMMA GetRemoteStep ==
  ASSUME IInv, NEW n \in Nodes, NEW k \in Keys, GetRemote(n, k)
  PROVE  Register!Ask(n, k)
<1>1. phase[n] = "run" /\ Home[k] # n /\ TypeOK /\ Home[k] \in Nodes
  BY DEF GetRemote, IInv
<1>2. /\ UNCHANGED <<store, cur, repliers, got>>
      /\ phase' = [phase EXCEPT ![n] = "await"]
      /\ want' = [want EXCEPT ![n] = k]
      /\ Send(Home[k], GetMessage(n, k))
  BY DEF GetRemote, servicerVars
<1>3. AskingOf[n] = Nil /\ AskingOf' = [AskingOf EXCEPT ![n] = k]
  BY <1>1, <1>2 DEF AskingOf, TypeOK
<1>4. DbOf' = DbOf
  BY <1>2 DEF DbOf
<1>5. GetMessage(n, k) \in Message /\ GetMessage(n, k).kind = "Get"
  BY DEF GetMessage, Message
<1>6. PendingOf' = PendingOf /\ AnswerOf' = AnswerOf
  BY <1>1, <1>2, <1>5, SendSame
<1> QED
  BY <1>1, <1>2, <1>3, <1>4, <1>6
     DEF Register!Ask, DbOf, PendingOf, AskingOf, AnswerOf

LEMMA NextValueStep ==
  ASSUME IInv, NEW n \in Nodes, NextValue(n)
  PROVE  Register!Return(n)
<1>1. /\ phase[n] = "await" /\ cur[n] # Nil /\ TypeOK
      /\ got' = [got EXCEPT ![n] = cur[n]]
      /\ cur' = [cur EXCEPT ![n] = Nil]
      /\ phase' = [phase EXCEPT ![n] = "run"]
      /\ UNCHANGED <<queues, store, repliers, want>>
  BY DEF NextValue, IInv
<1>2. ~Replied(n) /\ ~Served(n)
  BY <1>1 DEF IInv, OneAnswerInFlight, OneAtATime, Filled
<1>3. ReplyValues(queues[n]) = {} /\ FoundValues(repliers, n) = {}
  BY <1>2 DEF Replied, Served, ReplyAt, ReplyValues, FoundValues
<1>4. AnswersTo(n) = {cur[n]}
  BY <1>1, <1>3, AnswersSplit
<1>5. AnswersTo(n)' = {}
  BY <1>1, <1>3, AnswersSplitNext DEF TypeOK
<1>6. \A c \in Nodes \ {n} : AnswersTo(c)' = AnswersTo(c)
  BY <1>1, AnswersSplit, AnswersSplitNext DEF TypeOK
<1>7. AnswerOf[n] = cur[n] /\ AnswerOf[n] # Nil
  <2>1. AnswerTo(n) = cur[n]
    BY <1>4 DEF AnswerTo, OneOf
  <2> QED
    BY <1>1, <2>1 DEF AnswerOf
<1>8. AnswerOf' = [AnswerOf EXCEPT ![n] = Nil]
  <2>1. AnswerTo(n)' = Nil
    BY <1>5 DEF AnswerTo
  <2>2. \A c \in Nodes \ {n} : AnswerTo(c)' = AnswerTo(c)
    BY <1>6 DEF AnswerTo
  <2> QED
    BY <2>1, <2>2 DEF AnswerOf
<1>9. AskingOf' = [AskingOf EXCEPT ![n] = Nil]
  BY <1>1 DEF AskingOf, TypeOK
<1>10. DbOf' = DbOf /\ PendingOf' = PendingOf
  <2>1. \A c \in Nodes, k \in Keys : Pending(c, k)' = Pending(c, k)
    BY <1>1 DEF Pending
  <2> QED
    BY <1>1, <2>1 DEF DbOf, PendingOf
<1>11. got' = [got EXCEPT ![n] = AnswerOf[n]]
  BY <1>1, <1>7
<1> QED
  BY <1>7, <1>8, <1>9, <1>10, <1>11
     DEF Register!Return, DbOf, PendingOf, AskingOf, AnswerOf

LEMMA HandlePutStep ==
  ASSUME IInv, NEW h \in Nodes, HandlePut(h)
  PROVE  \E n \in Nodes, k \in Keys : Register!TakeEffect(n, k)
<1> DEFINE m == Head(queues[h])
<1>1. /\ TypeOK /\ Receive(h, "Put") /\ StoreLocally(h, m.key, m.value)
      /\ UNCHANGED <<cur, repliers, phase, want, got>>
  BY DEF IInv, HandlePut, servicerVars, appVars
<1>2. m \in Message /\ m.kind = "Put"
  BY <1>1, ReceiveType
<1>3. m.sender \in Nodes /\ m.key \in Keys
  BY <1>2, MessageParts
<1>4. PICK n \in Nodes : n = m.sender
  BY <1>3
<1>5. PICK k \in Keys : k = m.key
  BY <1>3
<1>6. Home[k] = h
  <2>1. MessageKept(h, m)
    BY <1>1, ReceiveKept DEF IInv, KeptUnderItsKey
  <2> QED
    BY <1>2, <1>5, <2>1 DEF MessageKept
<1> HIDE DEF m
<1>7. \A c \in Nodes, j \in Keys :
        IF c = n /\ j = k
        THEN /\ Pending(c, j) # <<>>
             /\ Head(Pending(c, j)) = m.value
             /\ Pending(c, j)' = Tail(Pending(c, j))
        ELSE Pending(c, j)' = Pending(c, j)
  <2> SUFFICES ASSUME NEW c \in Nodes, NEW j \in Keys
               PROVE  IF c = n /\ j = k
                      THEN /\ Pending(c, j) # <<>>
                           /\ Head(Pending(c, j)) = m.value
                           /\ Pending(c, j)' = Tail(Pending(c, j))
                      ELSE Pending(c, j)' = Pending(c, j)
    OBVIOUS
  <2>1. IF Home[j] = h /\ IsPutOf(m, c, j)
        THEN /\ Pending(c, j) # <<>>
             /\ Head(Pending(c, j)) = m.value
             /\ Pending(c, j)' = Tail(Pending(c, j))
        ELSE Pending(c, j)' = Pending(c, j)
    BY <1>1, ReceivePending DEF m
  <2>2. (Home[j] = h /\ IsPutOf(m, c, j)) <=> (c = n /\ j = k)
    BY <1>2, <1>6, <1>4, <1>5 DEF IsPutOf
  <2> QED
    BY <2>1, <2>2
<1>8. PendingOf[n][k] # <<>> /\ Head(PendingOf[n][k]) = m.value
  BY <1>3, <1>7 DEF PendingOf
<1>9. PendingOf' = [PendingOf EXCEPT ![n][k] = Tail(@)]
  <2>1. \A c \in Nodes, j \in Keys :
          Pending(c, j)' = IF c = n /\ j = k THEN Tail(Pending(c, j)) ELSE Pending(c, j)
    BY <1>7
  <2> QED
    BY <1>3, <2>1 DEF PendingOf
<1>10. DbOf' = [DbOf EXCEPT ![k] = Head(PendingOf[n][k])]
  <2>1. store' = [store EXCEPT ![h][k] = m.value]
    BY <1>1, <1>5 DEF StoreLocally
  <2>2. \A j \in Keys : store'[Home[j]][j] = IF j = k THEN m.value ELSE store[Home[j]][j]
    BY <1>1, <1>3, <1>6, <2>1 DEF TypeOK
  <2> QED
    BY <1>8, <2>2 DEF DbOf
<1>11. AskingOf' = AskingOf
  BY <1>1 DEF AskingOf
<1>12. AnswerOf' = AnswerOf
  <2>1. \A c \in Nodes : ReplyValues(queues'[c]) = ReplyValues(queues[c])
    BY <1>1, ReceiveNoReply
  <2>2. ASSUME NEW c \in Nodes PROVE AnswersTo(c)' = AnswersTo(c)
    BY <1>1, <2>1, AnswersToSame
  <2> QED
    BY <2>2, AnswerSame
<1>13. Register!TakeEffect(n, k)
  BY <1>1, <1>8, <1>9, <1>10, <1>11, <1>12
     DEF Register!TakeEffect, DbOf, PendingOf, AskingOf, AnswerOf
<1> QED
  BY <1>13

LEMMA HandleGetStep ==
  ASSUME IInv, NEW h \in Nodes, HandleGet(h)
  PROVE  Same
<1> DEFINE m == Head(queues[h])
<1>1. /\ TypeOK /\ Receive(h, "Get")
      /\ repliers' = repliers \cup {NewReplier(h, m)}
      /\ UNCHANGED <<store, cur, phase, want, got>>
  BY DEF IInv, HandleGet, appVars
<1>2. PendingOf' = PendingOf
  BY <1>1, ReceiveSame
<1>3. \A c \in Nodes : ReplyValues(queues'[c]) = ReplyValues(queues[c])
  BY <1>1, ReceiveNoReply
<1>4. NewReplier(h, m).value = Nil
  BY DEF NewReplier
<1> HIDE DEF m
<1>5. ASSUME NEW c \in Nodes
      PROVE  FoundValues(repliers', c) \ {Nil} = FoundValues(repliers, c) \ {Nil}
  BY <1>1, <1>4 DEF FoundValues
<1>6. ASSUME NEW c \in Nodes PROVE AnswersTo(c)' = AnswersTo(c)
  BY <1>1, <1>3, <1>5, AnswersToSame
<1>7. AnswerOf' = AnswerOf
  BY <1>6, AnswerSame
<1> QED
  BY <1>1, <1>2, <1>7 DEF Same, DbOf, AskingOf

LEMMA HandleReplyStep ==
  ASSUME IInv, NEW h \in Nodes, HandleReply(h)
  PROVE  Same
<1> DEFINE v == Head(queues[h]).value
<1>1. /\ TypeOK /\ Receive(h, "Reply")
      /\ cur' = [cur EXCEPT ![h] = v]
      /\ UNCHANGED <<store, repliers, phase, want, got>>
  BY DEF IInv, HandleReply, appVars
<1>2. PendingOf' = PendingOf
  BY <1>1, ReceiveSame
<1>3. cur[h] = Nil
  <2>1. Replied(h)
    BY <1>1, ReceiveTokens DEF IInv, OneAnswerInFlight
  <2> QED
    BY <2>1 DEF IInv, OneAnswerInFlight, OneAtATime, Filled
<1> HIDE DEF v
<1>4. \A c \in Nodes : ReplyValues(queues[c]) =
        ReplyValues(queues'[c]) \cup (IF c = h THEN {v} ELSE {})
  BY <1>1, ReceiveReplyValues DEF v
<1>5. \A c \in Nodes : cur'[c] = IF c = h THEN v ELSE cur[c]
  BY <1>1 DEF TypeOK
<1>6. ASSUME NEW c \in Nodes PROVE AnswersTo(c)' = AnswersTo(c)
  BY <1>1, <1>3, <1>4, <1>5, AnswersToSame
<1>7. AnswerOf' = AnswerOf
  BY <1>6, AnswerSame
<1> QED
  BY <1>1, <1>2, <1>7 DEF Same, DbOf, AskingOf

LEMMA HandleKillStep ==
  ASSUME IInv, NEW h \in Nodes, HandleKill(h)
  PROVE  Same
<1>1. /\ TypeOK /\ Receive(h, "Kill")
      /\ UNCHANGED <<store, cur, repliers, phase, want, got>>
  BY DEF IInv, HandleKill, appVars
<1>2. PendingOf' = PendingOf
  BY <1>1, ReceiveSame
<1>3. \A c \in Nodes : ReplyValues(queues'[c]) = ReplyValues(queues[c])
  BY <1>1, ReceiveNoReply
<1>4. ASSUME NEW c \in Nodes PROVE AnswersTo(c)' = AnswersTo(c)
  BY <1>1, <1>3, AnswersToSame
<1>5. AnswerOf' = AnswerOf
  BY <1>4, AnswerSame
<1> QED
  BY <1>1, <1>2, <1>5 DEF Same, DbOf, AskingOf

LEMMA SendKillStep ==
  ASSUME IInv, NEW n \in Nodes, SendKill(n)
  PROVE  Same
<1>1. PICK i \in toKill[n] :
        /\ Send(i, KillMessage(n))
        /\ phase' = [phase EXCEPT ![n] = IF i = n THEN "joining" ELSE "stop"]
  BY DEF SendKill
<1>2. TypeOK /\ phase[n] = "stop" /\ UNCHANGED <<store, cur, repliers, want, got>>
  BY DEF IInv, SendKill, servicerVars
<1>3. i \in Nodes
  BY <1>2 DEF TypeOK
<1>4. KillMessage(n) \in Message /\ KillMessage(n).kind = "Kill"
  BY DEF KillMessage, Message
<1>5. PendingOf' = PendingOf /\ AnswerOf' = AnswerOf
  BY <1>1, <1>2, <1>3, <1>4, SendSame
<1>6. AskingOf' = AskingOf
  BY <1>1, <1>2 DEF AskingOf, TypeOK
<1> QED
  BY <1>2, <1>5, <1>6 DEF Same, DbOf

\* Starting, stopping and closing are no concern of the registers.
LEMMA PhaseStep ==
  ASSUME IInv, NEW n \in Nodes, Start(n) \/ StopAll(n) \/ FinishRun(n) \/ Close(n)
  PROVE  Same
<1>1. /\ TypeOK
      /\ UNCHANGED <<queues, store, cur, repliers, want, got>>
      /\ phase[n] # "await"
      /\ \E p \in Phase \ {"await"} : phase' = [phase EXCEPT ![n] = p]
  BY DEF IInv, Start, StopAll, FinishRun, Close, servicerVars, Phase
<1>2. AskingOf' = AskingOf
  BY <1>1 DEF AskingOf, TypeOK
<1>3. PendingOf' = PendingOf /\ AnswerOf' = AnswerOf
  BY <1>1, QuietSame
<1> QED
  BY <1>1, <1>2, <1>3 DEF Same, DbOf

\* A replier that looks for a key finds none of its client's own puts pending.
LEMMA FetchStep ==
  ASSUME IInv, NEW r \in repliers, Fetch(r)
  PROVE  \E n \in Nodes : Register!Sample(n)
<1> DEFINE n == r.client
           k == r.key
           v == store[r.at][r.key]
           q == [r EXCEPT !.value = v]
<1>1. /\ TypeOK /\ r.value = Nil /\ v # Nil
      /\ repliers' = (repliers \ {r}) \cup {q}
      /\ UNCHANGED <<queues, store, cur, phase, want, got>>
  BY DEF IInv, Fetch, appVars
<1>2. /\ n \in Nodes /\ k \in Keys /\ r.at \in Nodes
      /\ q.client = n /\ q.value = v
  BY <1>1 DEF TypeOK, Replier
<1>3. Served(n) /\ ~Replied(n) /\ ~Filled(n)
  BY <1>2 DEF IInv, OneAnswerInFlight, OneAtATime, Served
<1>4. phase[n] = "await" /\ want[n] = k /\ Home[k] = r.at
  BY <1>2, <1>3 DEF IInv, OneAnswerInFlight, OneWhileWaiting, AnswerIsForTheKey,
                    ReplierForTheKey, KeptUnderItsKey, RepliersKept
<1>5. \A s \in repliers : s.client = n => s = r
  BY DEF IInv, OneAnswerInFlight, OneReplier
<1>6. AskingOf[n] = k /\ AskingOf' = AskingOf
  BY <1>1, <1>2, <1>4 DEF AskingOf
<1>7. DbOf[k] = v /\ DbOf' = DbOf
  BY <1>1, <1>2, <1>4 DEF DbOf
<1>8. PendingOf[n][k] = <<>> /\ PendingOf' = PendingOf
  <2>1. queues[Home[k]] \in Seq(Message)
    BY <1>1, <1>2, <1>4 DEF TypeOK
  <2>2. \A i \in 1 .. Len(queues[Home[k]]) : ~PutAt(n, Home[k], i)
    BY <1>2, <1>3, <1>4 DEF IInv, ReadYourWrites, OwnPutsApplied
  <2>3. \A i \in 1 .. Len(queues[Home[k]]) : ~IsPutOf(queues[Home[k]][i], n, k)
    BY <2>2 DEF PutAt, IsPutOf
  <2> HIDE DEF n, k
  <2>4. Pending(n, k) = <<>>
    BY <2>1, <2>3, NoPutNoValue DEF Pending
  <2>5. \A c \in Nodes, j \in Keys : Pending(c, j)' = Pending(c, j)
    BY <1>1 DEF Pending
  <2> QED
    BY <1>2, <2>4, <2>5 DEF PendingOf
<1>9. ReplyValues(queues[n]) = {} /\ cur[n] = Nil
  BY <1>3 DEF Replied, ReplyAt, ReplyValues, Filled
<1> HIDE DEF n, k, v, q
<1>10. FoundValues(repliers, n) = {Nil}
  BY <1>1, <1>5 DEF FoundValues, n
<1>11. FoundValues(repliers', n) = {v}
  BY <1>1, <1>2, <1>5 DEF FoundValues
<1>12. AnswersTo(n) = {} /\ AnswersTo(n)' = {v}
  BY <1>1, <1>2, <1>9, <1>10, <1>11, AnswersSplit, AnswersSplitNext
<1>13. ASSUME NEW c \in Nodes \ {n} PROVE AnswersTo(c)' = AnswersTo(c)
  <2>1. FoundValues(repliers', c) = FoundValues(repliers, c)
    BY <1>1, <1>2 DEF FoundValues, n
  <2> QED
    BY <1>1, <2>1, AnswersToSame
<1>14. AnswerOf[n] = Nil /\ AnswerOf' = [AnswerOf EXCEPT ![n] = DbOf[k]]
  <2>1. AnswerTo(n) = Nil
    BY <1>12 DEF AnswerTo
  <2>2. AnswerTo(n)' = v
    BY <1>12 DEF AnswerTo, OneOf
  <2>3. \A c \in Nodes \ {n} : AnswerTo(c)' = AnswerTo(c)
    BY <1>13 DEF AnswerTo
  <2> QED
    BY <1>2, <1>7, <2>1, <2>2, <2>3 DEF AnswerOf
<1>15. k # Nil /\ DbOf[k] # Nil
  BY <1>1, <1>2, <1>7
<1>16. Register!Sample(n)
  BY <1>1, <1>6, <1>7, <1>8, <1>14, <1>15
     DEF Register!Sample, DbOf, PendingOf, AskingOf, AnswerOf
<1> QED
  BY <1>2, <1>16

LEMMA AnswerStep ==
  ASSUME IInv, NEW r \in repliers, Answer(r)
  PROVE  Same
<1> DEFINE n == r.client
           m == ReplyMessage(r.at, r.key, r.value)
<1>1. /\ TypeOK /\ r.value # Nil
      /\ Send(n, m)
      /\ repliers' = repliers \ {r}
      /\ UNCHANGED <<store, cur, phase, want, got>>
  BY DEF IInv, Answer, appVars
<1>2. n \in Nodes /\ r \in Replier /\ r.value \in Blob
  BY <1>1 DEF TypeOK, Replier
<1>3. m \in Message /\ m.kind = "Reply" /\ m.value = r.value
  BY <1>2 DEF ReplyMessage, Message, Replier
<1> HIDE DEF m, n
<1>4. \A c \in Nodes, j \in Keys : Pending(c, j)' = Pending(c, j)
  BY <1>1, <1>2, <1>3, SendPending DEF IsPutOf
<1>5. \A c \in Nodes : ReplyValues(queues'[c]) =
        ReplyValues(queues[c]) \cup (IF c = n THEN {r.value} ELSE {})
  BY <1>1, <1>2, <1>3, SendReplyValues
<1>6. ASSUME NEW c \in Nodes
      PROVE  FoundValues(repliers, c) =
               FoundValues(repliers', c) \cup (IF c = n THEN {r.value} ELSE {})
  BY <1>1 DEF FoundValues, n
<1>7. ASSUME NEW c \in Nodes PROVE AnswersTo(c)' = AnswersTo(c)
  BY <1>1, <1>5, <1>6, AnswersToSame
<1>8. AnswerOf' = AnswerOf
  BY <1>7, AnswerSame
<1>9. PendingOf' = PendingOf
  BY <1>4 DEF PendingOf
<1> QED
  BY <1>1, <1>8, <1>9 DEF Same, DbOf, AskingOf

LEMMA RegisterStep == IInv /\ [Next]_vars => [Register!Next]_(Register!vars)
<1> SUFFICES ASSUME IInv, [Next]_vars PROVE Register!Next \/ UNCHANGED Register!vars
  OBVIOUS
<1>1. CASE UNCHANGED vars
  <2>1. UNCHANGED <<queues, store, cur, repliers, phase, want, got>>
    BY <1>1 DEF vars
  <2>2. PendingOf' = PendingOf /\ AnswerOf' = AnswerOf
    BY <2>1, QuietSame
  <2>3. Same
    BY <2>1, <2>2 DEF Same, DbOf, AskingOf
  <2> QED
    BY <2>3, Stutters
<1>2. ASSUME NEW n \in Nodes, NEW k \in Keys, NEW d \in Data, Put(n, k, d)
      PROVE  Register!Next
  BY <1>2, PutStep DEF Register!Next
<1>3. ASSUME NEW n \in Nodes, NEW k \in Keys, GetLocal(n, k) \/ GetRemote(n, k)
      PROVE  Register!Next
  BY <1>3, GetLocalStep, GetRemoteStep DEF Register!Next
<1>4. ASSUME NEW n \in Nodes, NextValue(n) PROVE Register!Next
  BY <1>4, NextValueStep DEF Register!Next
<1>5. ASSUME NEW n \in Nodes, HandlePut(n) PROVE Register!Next
  BY <1>5, HandlePutStep DEF Register!Next
<1>6. ASSUME NEW n \in Nodes,
             HandleGet(n) \/ HandleReply(n) \/ HandleKill(n) \/ SendKill(n)
      PROVE  UNCHANGED Register!vars
  BY <1>6, HandleGetStep, HandleReplyStep, HandleKillStep, SendKillStep, Stutters
<1>7. ASSUME NEW n \in Nodes, Start(n) \/ StopAll(n) \/ FinishRun(n) \/ Close(n)
      PROVE  UNCHANGED Register!vars
  BY <1>7, PhaseStep, Stutters
<1>8. ASSUME NEW r \in repliers, Fetch(r) PROVE Register!Next
  BY <1>8, FetchStep DEF Register!Next
<1>9. ASSUME NEW r \in repliers, Answer(r) PROVE UNCHANGED Register!vars
  BY <1>9, AnswerStep, Stutters
<1> QED
  BY <1>1, <1>2, <1>3, <1>4, <1>5, <1>6, <1>7, <1>8, <1>9
     DEF Next, Operation, Background, Servicer, ReplierFor

LEMMA RegisterInit == Init => Register!Init
<1> SUFFICES ASSUME Init PROVE Register!Init
  OBVIOUS
<1>1. DbOf = [k \in Keys |-> Nil]
  BY DEF Init, DbOf
<1>2. PendingOf = [n \in Nodes |-> [k \in Keys |-> <<>>]]
  <2>1. \A n \in Nodes, k \in Keys : Pending(n, k) = <<>>
    BY NoPutsYet DEF Init, Pending
  <2> QED
    BY <2>1 DEF PendingOf
<1>3. AskingOf = [n \in Nodes |-> Nil]
  BY DEF Init, AskingOf
<1>4. AnswerOf = [n \in Nodes |-> Nil]
  <2>1. \A n \in Nodes : ReplyValues(queues[n]) = {} /\ FoundValues(repliers, n) = {}
    BY DEF Init, ReplyValues, FoundValues
  <2>2. ASSUME NEW n \in Nodes PROVE AnswersTo(n) = {}
    BY <2>1, AnswersSplit DEF Init
  <2> QED
    BY <2>2 DEF AnswerOf, AnswerTo
<1> QED
  BY <1>1, <1>2, <1>3, <1>4 DEF Register!Init, DbOf, PendingOf, AskingOf, AnswerOf, Init

\* KVStore implements KVRegister: over however many messages and threads, a get returns
\* a value that the register of its key held between the call and the return, after all
\* that the node itself had put there, and puts take effect in the order of their node.
THEOREM RegisterImplemented == Spec => ImplementsRegister
BY Invariance, RegisterInit, RegisterStep, PTL DEF Spec, ImplementsRegister, Register!Spec

=============================================================================
