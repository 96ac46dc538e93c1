-------------------------- MODULE TcpNetworkProofs --------------------------
(***************************************************************************)
(* Proofs about TcpNetwork for any number of nodes, any addresses and any  *)
(* number of messages.  What becomes of their bytes is proved in           *)
(* NetworkIPProofs.                                                        *)
(***************************************************************************)
EXTENDS TcpNetwork, FiniteSetTheorems, TLAPS

USE NumNodesAssumption DEF Nodes, Server, Clients

-----------------------------------------------------------------------------
\* Every message reaches the node it is for.

Addresses == {Address[n] : n \in Nodes}
Entries == Addresses \cup {Nil}
Kinds == {"Register", "Directory", "KV"}
Messages ==
  [kind : Kinds, sender : Nodes, target : Nodes, body : Entries \cup [Nodes -> Entries]]

Types ==
  /\ phase \in [Nodes -> {"off", "init", "up"}]
  /\ table \in [Nodes -> [Nodes -> Entries]]
  /\ registered \in 0 .. NumNodes - 1
  /\ directed \in 0 .. NumNodes - 1
  /\ inbox \in [Nodes -> Seq(Messages)]
  /\ heard \in [Nodes -> SUBSET Nodes]

\* The addresses that go around are the right ones or none.
Right(addresses) == \A i \in Nodes : addresses[i] \in {Nil, Address[i]}
TablesRight == \A n \in Nodes : Right(table[n])

\* What a message in the inbox of node n says, when the nodes are in the phases p.
MessageRight(n, m, p) ==
  /\ m.target = n /\ m.sender # n
  /\ m.kind = "Register" => /\ n = Server /\ m.body = Address[m.sender]
                            /\ p[m.sender] # "off"
  /\ m.kind = "Directory" => /\ m.sender = Server
                             /\ Right(m.body) /\ m.body \in [Nodes -> Entries]
  /\ m.kind = "KV" => p[m.sender] = "up"

Positions(n) == 1 .. Len(inbox[n])
MessagesRight == \A n \in Nodes : \A k \in Positions(n) : MessageRight(n, inbox[n][k], phase)

\* How far the rendezvous is.
Rounds ==
  /\ directed > 0 => registered = NumNodes - 1
  /\ phase[Server] = "up" => directed = NumNodes - 1
  /\ \A n \in Clients :
       /\ phase[n] = "up" => n <= directed
       /\ \A k \in Positions(n) : inbox[n][k].kind = "Directory" => n <= directed

IInv == Types /\ TablesRight /\ MessagesRight /\ Rounds

\* Sequences at their ends.
LEMMA AppendItems ==
  ASSUME NEW S, NEW s \in Seq(S), NEW e \in S
  PROVE  /\ Append(s, e) \in Seq(S) /\ Len(Append(s, e)) = Len(s) + 1
         /\ \A k \in 1 .. Len(s) : Append(s, e)[k] = s[k]
         /\ Append(s, e)[Len(s) + 1] = e
OBVIOUS

LEMMA TailItems ==
  ASSUME NEW S, NEW s \in Seq(S), s # <<>>
  PROVE  /\ Head(s) = s[1] /\ Head(s) \in S /\ 1 \in 1 .. Len(s)
         /\ Tail(s) \in Seq(S) /\ Len(Tail(s)) = Len(s) - 1
         /\ \A k \in 1 .. Len(s) - 1 : Tail(s)[k] = s[k + 1]
OBVIOUS

LEMMA InitInv == Init => IInv
<1> SUFFICES ASSUME Init PROVE IInv
  OBVIOUS
<1>1. Types
  BY DEF Init, Types, Entries, Addresses
<1>2. TablesRight
  BY DEF Init, TablesRight, Right
<1>3. MessagesRight /\ Rounds
  BY DEF Init, MessagesRight, Rounds, Positions
<1> QED
  BY <1>1, <1>2, <1>3 DEF IInv

\* A message is put into the inbox of its target.
Put(m) == inbox' = [inbox EXCEPT ![m.target] = Append(@, m)]

\* What a step that fails and one that does nothing leave alone.
Same == UNCHANGED <<phase, table, registered, directed, inbox, talked, heard>>

LEMMA FailedSame == ASSUME NEW n, Abort(n) \/ UNCHANGED vars PROVE Same
BY DEF Abort, vars, Same

LEMMA SendPuts ==
  ASSUME Types, TablesRight, NEW m \in Messages, Send(m)
  PROVE  Put(m)
<1>1. PICK n \in Nodes : /\ Address[n] = table[m.sender][m.target]
                         /\ inbox' = [inbox EXCEPT ![n] = Append(@, m)]
  BY DEF Send, AtAddress
<1>2. m.sender \in Nodes /\ m.target \in Nodes
  BY DEF Messages
<1>3. Address[n] = Address[m.target]
  BY <1>1, <1>2, AddressAssumption DEF TablesRight, Right
<1>4. n = m.target
  BY <1>2, <1>3, AddressAssumption DEF IsInjective
<1> QED
  BY <1>1, <1>4 DEF Put

LEMMA PutItems ==
  ASSUME Types, NEW m \in Messages, Put(m)
  PROVE  /\ inbox' \in [Nodes -> Seq(Messages)]
         /\ \A n \in Nodes : \A k \in 1 .. Len(inbox'[n]) :
              \/ k \in Positions(n) /\ inbox'[n][k] = inbox[n][k]
              \/ n = m.target /\ k = Len(inbox[n]) + 1 /\ inbox'[n][k] = m
         /\ \A n \in Nodes :
              /\ Len(inbox'[n]) >= Len(inbox[n])
              /\ inbox[n] # <<>> => inbox'[n] # <<>> /\ inbox'[n][1] = inbox[n][1]
         /\ inbox'[m.target] # <<>>
<1>1. /\ m.target \in Nodes /\ \A n \in Nodes : inbox[n] \in Seq(Messages)
  BY DEF Types, Messages
<1>2. /\ inbox'[m.target] = Append(inbox[m.target], m)
      /\ \A n \in Nodes : n # m.target => inbox'[n] = inbox[n]
  BY <1>1 DEF Put, Types
<1>3. inbox' \in [Nodes -> Seq(Messages)]
  BY <1>1, AppendItems DEF Put, Types
<1>4. ASSUME NEW n \in Nodes
      PROVE  /\ \A k \in 1 .. Len(inbox'[n]) :
                  \/ k \in Positions(n) /\ inbox'[n][k] = inbox[n][k]
                  \/ n = m.target /\ k = Len(inbox[n]) + 1 /\ inbox'[n][k] = m
             /\ Len(inbox'[n]) >= Len(inbox[n])
             /\ inbox[n] # <<>> => inbox'[n] # <<>> /\ inbox'[n][1] = inbox[n][1]
             /\ n = m.target => inbox'[n] # <<>>
  <2>1. CASE n = m.target
    <3>1. PICK s \in Seq(Messages) : s = inbox[n]
      BY <1>1
    <3>a. inbox'[n] = Append(s, m)
      BY <1>2, <2>1, <3>1, Zenon
    <3>b. Append(s, m) \in Seq(Messages)
      BY AppendItems
    <3>2. PICK t \in Seq(Messages) : t = inbox'[n] /\ t = Append(s, m)
      BY <3>a, <3>b, Zenon
    <3>3. /\ Len(t) = Len(s) + 1 /\ t[Len(s) + 1] = m /\ \A k \in 1 .. Len(s) : t[k] = s[k]
      BY <3>2
    <3>4. \A k \in 1 .. Len(t) : (k \in 1 .. Len(s) /\ t[k] = s[k]) \/ (k = Len(s) + 1 /\ t[k] = m)
      BY <3>3
    <3>5. Len(t) >= Len(s) /\ t # <<>> /\ (s # <<>> => t[1] = s[1])
      BY <3>2, <3>3
    <3> QED
      BY <2>1, <3>1, <3>2, <3>4, <3>5, Zenon DEF Positions
  <2>2. CASE n # m.target
    <3>1. inbox'[n] = inbox[n] /\ inbox[n] \in Seq(Messages)
      BY <1>1, <1>2, <2>2
    <3> QED
      BY <2>2, <3>1 DEF Positions
  <2> QED
    BY <2>1, <2>2
<1> QED
  BY <1>1, <1>3, <1>4

\* The first message is taken out of an inbox.
TakenFrom(n) == inbox[n] # <<>> /\ inbox' = [inbox EXCEPT ![n] = Tail(@)]

\* Where the message was that is now the k-th of node i.
Before(n, i, k) == IF i = n THEN k + 1 ELSE k

LEMMA TakenItems ==
  ASSUME Types, NEW n \in Nodes, TakenFrom(n)
  PROVE  /\ inbox' \in [Nodes -> Seq(Messages)]
         /\ Head(inbox[n]) = inbox[n][1] /\ Head(inbox[n]) \in Messages /\ 1 \in Positions(n)
         /\ \A i \in Nodes : \A k \in 1 .. Len(inbox'[i]) :
              /\ Before(n, i, k) \in Positions(i)
              /\ inbox'[i][k] = inbox[i][Before(n, i, k)]
         /\ \A i \in Nodes \ {n} : inbox'[i] = inbox[i]
<1>1. \A i \in Nodes : inbox[i] \in Seq(Messages)
  BY DEF Types
<1>2. inbox'[n] = Tail(inbox[n]) /\ \A i \in Nodes \ {n} : inbox'[i] = inbox[i]
  BY DEF TakenFrom, Types
<1>3. inbox' \in [Nodes -> Seq(Messages)]
  BY <1>1, TailItems DEF TakenFrom, Types
<1>4. Head(inbox[n]) = inbox[n][1] /\ Head(inbox[n]) \in Messages /\ 1 \in Positions(n)
  BY <1>1, TailItems DEF TakenFrom, Positions
<1>5. ASSUME NEW i \in Nodes, NEW k \in 1 .. Len(inbox'[i])
      PROVE  /\ Before(n, i, k) \in Positions(i)
             /\ inbox'[i][k] = inbox[i][Before(n, i, k)]
  <2>1. CASE i = n
    <3>1. PICK s \in Seq(Messages) : s = inbox[n] /\ s # <<>>
      BY <1>1 DEF TakenFrom
    <3>a. inbox'[n] = Tail(s)
      BY <1>2, <3>1, Zenon
    <3>b. Tail(s) \in Seq(Messages)
      BY <3>1, TailItems
    <3>2. PICK t \in Seq(Messages) : t = inbox'[n] /\ t = Tail(s)
      BY <3>a, <3>b, Zenon
    <3>3. Len(t) = Len(s) - 1 /\ \A j \in 1 .. Len(t) : t[j] = s[j + 1]
      BY <3>1, <3>2
    <3>4. k + 1 \in Positions(n) /\ inbox'[n][k] = inbox[n][k + 1]
      BY <2>1, <3>1, <3>2, <3>3 DEF Positions
    <3> QED
      BY <2>1, <3>4 DEF Before
  <2>2. CASE i # n
    BY <1>2, <2>2 DEF Positions, Before
  <2> QED
    BY <2>1, <2>2
<1> QED
  BY <1>2, <1>3, <1>4, <1>5

\* No node goes back, so a message stays right.
Onward ==
  \A n \in Nodes : /\ phase[n] # "off" => phase'[n] # "off"
                   /\ phase[n] = "up" => phase'[n] = "up"

LEMMA StaysRight ==
  ASSUME Onward, NEW n \in Nodes, NEW m \in Messages, MessageRight(n, m, phase)
  PROVE  MessageRight(n, m, phase')
<1>1. m.sender \in Nodes
  BY DEF Messages
<1> QED
  BY <1>1 DEF MessageRight, Onward

LEMMA MessagesHere ==
  ASSUME IInv, NEW n \in Nodes, NEW k \in Positions(n)
  PROVE  inbox[n][k] \in Messages /\ MessageRight(n, inbox[n][k], phase)
<1>1. inbox[n] \in Seq(Messages)
  BY DEF IInv, Types
<1>2. inbox[n][k] \in Messages
  BY <1>1 DEF Positions
<1> QED
  BY <1>2 DEF IInv, MessagesRight

LEMMA PutRight ==
  ASSUME IInv, NEW m \in Messages, Put(m), Onward, MessageRight(m.target, m, phase')
  PROVE  MessagesRight'
<1> SUFFICES ASSUME NEW n \in Nodes, NEW k \in 1 .. Len(inbox'[n])
             PROVE  MessageRight(n, inbox'[n][k], phase')
  BY DEF MessagesRight, Positions
<1>1. CASE k \in Positions(n) /\ inbox'[n][k] = inbox[n][k]
  BY <1>1, MessagesHere, StaysRight
<1>2. CASE n = m.target /\ inbox'[n][k] = m
  BY <1>2
<1> QED
  BY <1>1, <1>2, PutItems DEF IInv

LEMMA TakenRight ==
  ASSUME IInv, NEW n \in Nodes, TakenFrom(n), Onward
  PROVE  MessagesRight'
<1> SUFFICES ASSUME NEW i \in Nodes, NEW k \in 1 .. Len(inbox'[i])
             PROVE  MessageRight(i, inbox'[i][k], phase')
  BY DEF MessagesRight, Positions
<1>1. Before(n, i, k) \in Positions(i) /\ inbox'[i][k] = inbox[i][Before(n, i, k)]
  BY TakenItems DEF IInv
<1> QED
  BY <1>1, MessagesHere, StaysRight

\* One lemma per step.
LEMMA RegisterInv ==
  ASSUME IInv, NEW n \in Clients, Register(n), ~Abort(n)
  PROVE  IInv'
<1> DEFINE m == Message("Register", n, Server, Address[n])
<1>1. /\ m \in Messages /\ m.kind = "Register" /\ m.sender = n /\ m.target = Server
      /\ m.body = Address[n]
  BY DEF Message, Messages, Kinds, Entries, Addresses
<1>2. /\ Put(m) /\ phase' = [phase EXCEPT ![n] = "init"] /\ phase[n] = "off"
      /\ UNCHANGED <<table, registered, directed, talked, heard>>
  BY <1>1, SendPuts DEF Register, IInv
<1> HIDE DEF m
<1>3. phase \in [Nodes -> {"off", "init", "up"}] /\ phase'[n] = "init" /\ Onward
  BY <1>2 DEF IInv, Types, Onward
<1>4. Types'
  BY <1>1, <1>2, <1>3, PutItems DEF IInv, Types
<1>5. MessagesRight'
  <2>1. MessageRight(Server, m, phase')
    BY <1>1, <1>3 DEF MessageRight
  <2> QED
    BY <1>1, <1>2, <1>3, <2>1, PutRight
<1>6. Rounds'
  <2>1. ASSUME NEW i \in Clients, NEW k \in 1 .. Len(inbox'[i]), inbox'[i][k].kind = "Directory"
        PROVE  i <= directed
    <3>1. k \in Positions(i) /\ inbox'[i][k] = inbox[i][k]
      BY <1>1, <1>2, PutItems DEF IInv
    <3> QED
      BY <2>1, <3>1 DEF IInv, Rounds
  <2>2. \A i \in Nodes : phase'[i] = "up" => phase[i] = "up"
    BY <1>2, <1>3
  <2>3. Server \in Nodes /\ Clients \subseteq Nodes
    OBVIOUS
  <2>4. /\ directed' > 0 => registered' = NumNodes - 1
        /\ phase'[Server] = "up" => directed' = NumNodes - 1
        /\ \A i \in Clients : phase'[i] = "up" => i <= directed'
    BY <1>2, <2>2, <2>3 DEF IInv, Rounds
  <2> QED
    BY <1>2, <2>1, <2>4 DEF Rounds, Positions
<1> QED
  BY <1>2, <1>4, <1>5, <1>6 DEF IInv, TablesRight

LEMMA ReceiveDirectoryInv ==
  ASSUME IInv, NEW n \in Clients, ReceiveDirectory(n)
  PROVE  IInv'
<1> DEFINE m == Head(inbox[n])
           entries == [i \in Nodes |-> IF i = Server THEN table[n][i] ELSE m.body[i]]
<1>1. /\ TakenFrom(n) /\ phase' = [phase EXCEPT ![n] = "up"]
      /\ table' = [table EXCEPT ![n] = entries]
      /\ UNCHANGED <<registered, directed, talked, heard>>
  BY DEF ReceiveDirectory, TakenFrom
<1>2. /\ m = inbox[n][1] /\ m \in Messages /\ 1 \in Positions(n) /\ m.kind = "Directory"
  BY <1>1, TakenItems DEF ReceiveDirectory, IInv
<1>3. MessageRight(n, m, phase) /\ n <= directed
  BY <1>2, MessagesHere DEF IInv, Rounds
<1>4. Right(m.body) /\ m.body \in [Nodes -> Entries]
  BY <1>2, <1>3 DEF MessageRight
<1> HIDE DEF m
<1>5. phase \in [Nodes -> {"off", "init", "up"}] /\ phase'[n] = "up" /\ Onward
  BY <1>1 DEF IInv, Types, Onward
<1>6. entries \in [Nodes -> Entries] /\ Right(entries)
  <2>1. table[n] \in [Nodes -> Entries] /\ Right(table[n])
    BY DEF IInv, Types, TablesRight
  <2> QED
    BY <1>4, <2>1 DEF Right
<1> HIDE DEF entries
<1>7. Types'
  BY <1>1, <1>5, <1>6, TakenItems DEF IInv, Types
<1>8. TablesRight'
  BY <1>1, <1>6 DEF IInv, Types, TablesRight
<1>9. MessagesRight'
  BY <1>1, <1>5, TakenRight
<1>10. Rounds'
  <2>1. ASSUME NEW i \in Clients, NEW k \in 1 .. Len(inbox'[i]), inbox'[i][k].kind = "Directory"
        PROVE  i <= directed
    <3>1. /\ Before(n, i, k) \in Positions(i)
          /\ inbox'[i][k] = inbox[i][Before(n, i, k)]
      BY <1>1, TakenItems DEF IInv
    <3> QED
      BY <2>1, <3>1 DEF IInv, Rounds
  <2>2. \A i \in Nodes : phase'[i] = "up" => i = n \/ phase[i] = "up"
    BY <1>1, <1>5
  <2> QED
    BY <1>1, <1>3, <2>1, <2>2 DEF IInv, Rounds, Positions
<1> QED
  BY <1>7, <1>8, <1>9, <1>10 DEF IInv

LEMMA AcceptRegisterInv ==
  ASSUME IInv, AcceptRegister
  PROVE  IInv'
<1> DEFINE m == Head(inbox[Server])
<1>1. /\ Server \in Nodes /\ TakenFrom(Server) /\ m.kind = "Register"
      /\ registered < NumNodes - 1 /\ registered' = registered + 1
      /\ table' = [table EXCEPT ![Server][m.sender] = m.body]
      /\ UNCHANGED <<phase, directed, talked, heard>>
  BY DEF AcceptRegister, TakenFrom
<1>2. m = inbox[Server][1] /\ m \in Messages /\ 1 \in Positions(Server)
  BY <1>1, TakenItems DEF IInv
<1>3. MessageRight(Server, m, phase) /\ m.sender \in Nodes
  BY <1>1, <1>2, MessagesHere DEF Messages
<1>4. m.body = Address[m.sender] /\ m.body \in Entries
  BY <1>1, <1>3 DEF MessageRight, Entries, Addresses
<1> HIDE DEF m
<1>5. Onward
  BY <1>1 DEF Onward
<1> DEFINE entries == [table[Server] EXCEPT ![m.sender] = m.body]
<1>6. entries \in [Nodes -> Entries] /\ Right(entries)
  <2>1. table[Server] \in [Nodes -> Entries] /\ Right(table[Server])
    BY <1>1 DEF IInv, Types, TablesRight
  <2> QED
    BY <1>3, <1>4, <2>1 DEF Right
<1>7. table' = [table EXCEPT ![Server] = entries]
  BY <1>1
<1> HIDE DEF entries
<1>8. Types'
  <2>1. table' \in [Nodes -> [Nodes -> Entries]]
    BY <1>1, <1>6, <1>7 DEF IInv, Types
  <2>2. registered' \in 0 .. NumNodes - 1
    BY <1>1 DEF IInv, Types
  <2>3. inbox' \in [Nodes -> Seq(Messages)]
    BY <1>1, TakenItems DEF IInv
  <2> QED
    BY <1>1, <2>1, <2>2, <2>3 DEF IInv, Types
<1>9. TablesRight'
  BY <1>1, <1>6, <1>7 DEF IInv, Types, TablesRight
<1>10. MessagesRight'
  BY <1>1, <1>5, TakenRight
<1>11. Rounds'
  <2>1. ASSUME NEW i \in Clients, NEW k \in 1 .. Len(inbox'[i]), inbox'[i][k].kind = "Directory"
        PROVE  i <= directed
    <3>1. inbox'[i] = inbox[i]
      BY <1>1, TakenItems DEF IInv
    <3> QED
      BY <2>1, <3>1 DEF IInv, Rounds, Positions
  <2> QED
    BY <1>1, <2>1 DEF IInv, Types, Rounds, Positions
<1> QED
  BY <1>8, <1>9, <1>10, <1>11 DEF IInv

LEMMA SendDirectoryInv ==
  ASSUME IInv, SendDirectory, ~Abort(Server)
  PROVE  IInv'
<1> DEFINE m == Message("Directory", Server, directed + 1, table[Server])
<1>0. /\ Server \in Nodes /\ directed + 1 \in Clients /\ directed + 1 \in 1 .. NumNodes - 1
      /\ registered = NumNodes - 1
  BY DEF SendDirectory, AllRegistered, IInv, Types
<1>1. /\ m \in Messages /\ m.kind = "Directory" /\ m.sender = Server /\ m.target = directed + 1
      /\ m.body = table[Server]
  BY <1>0 DEF Message, Messages, Kinds, IInv, Types
<1>2. /\ Put(m) /\ directed' = directed + 1
      /\ UNCHANGED <<phase, table, registered, talked, heard>>
  BY <1>1, SendPuts DEF SendDirectory, IInv
<1> HIDE DEF m
<1>3. Onward
  BY <1>2 DEF Onward
<1>4. Types'
  BY <1>0, <1>1, <1>2, PutItems DEF IInv, Types
<1>5. MessagesRight'
  <2>1. table[Server] \in [Nodes -> Entries] /\ Right(table[Server])
    BY <1>0 DEF IInv, Types, TablesRight
  <2>2. MessageRight(m.target, m, phase')
    BY <1>0, <1>1, <2>1 DEF MessageRight
  <2> QED
    BY <1>1, <1>2, <1>3, <2>2, PutRight
<1>6. Rounds'
  <2>1. ASSUME NEW i \in Clients, NEW k \in 1 .. Len(inbox'[i]), inbox'[i][k].kind = "Directory"
        PROVE  i <= directed + 1
    <3>1. CASE i = directed + 1
      BY <3>1
    <3>2. CASE i # directed + 1
      <4>1. k \in Positions(i) /\ inbox'[i][k] = inbox[i][k]
        BY <1>1, <1>2, <3>2, PutItems DEF IInv
      <4> QED
        BY <2>1, <4>1 DEF IInv, Types, Rounds
    <3> QED
      BY <3>1, <3>2
  <2>2. phase[Server] # "up"
    BY DEF SendDirectory
  <2> QED
    BY <1>0, <1>2, <2>1, <2>2 DEF IInv, Types, Rounds, Positions
<1> QED
  BY <1>2, <1>4, <1>5, <1>6 DEF IInv, TablesRight

LEMMA ListenInv ==
  ASSUME IInv, Listen
  PROVE  IInv'
<1>1. /\ Server \in Nodes /\ phase' = [phase EXCEPT ![Server] = "init"] /\ phase[Server] = "off"
      /\ UNCHANGED <<table, registered, directed, inbox, talked, heard>>
  BY DEF Listen
<1>2. phase \in [Nodes -> {"off", "init", "up"}] /\ Onward
  BY <1>1 DEF IInv, Types, Onward
<1>3. Types'
  BY <1>1, <1>2 DEF IInv, Types
<1>4. MessagesRight'
  <2> SUFFICES ASSUME NEW i \in Nodes, NEW k \in Positions(i)
               PROVE  MessageRight(i, inbox[i][k], phase')
    BY <1>1 DEF MessagesRight, Positions
  <2> QED
    BY <1>2, MessagesHere, StaysRight
<1>5. Rounds'
  BY <1>1, <1>2 DEF IInv, Types, Rounds, Positions
<1> QED
  BY <1>1, <1>3, <1>4, <1>5 DEF IInv, TablesRight

LEMMA ServerUpInv ==
  ASSUME IInv, ServerUp
  PROVE  IInv'
<1>1. /\ Server \in Nodes /\ phase' = [phase EXCEPT ![Server] = "up"] /\ directed = NumNodes - 1
      /\ UNCHANGED <<table, registered, directed, inbox, talked, heard>>
  BY DEF ServerUp
<1>2. phase \in [Nodes -> {"off", "init", "up"}] /\ Onward
  BY <1>1 DEF IInv, Types, Onward
<1>3. Types'
  BY <1>1, <1>2 DEF IInv, Types
<1>4. MessagesRight'
  <2> SUFFICES ASSUME NEW i \in Nodes, NEW k \in Positions(i)
               PROVE  MessageRight(i, inbox[i][k], phase')
    BY <1>1 DEF MessagesRight, Positions
  <2> QED
    BY <1>2, MessagesHere, StaysRight
<1>5. Rounds'
  BY <1>1, <1>2 DEF IInv, Types, Rounds, Positions
<1> QED
  BY <1>1, <1>3, <1>4, <1>5 DEF IInv, TablesRight

LEMMA TalkInv ==
  ASSUME IInv, NEW n \in Nodes, Talk(n), ~Abort(n)
  PROVE  IInv'
<1>1. PICK i \in Nodes \ {n} :
        Send(Message("KV", n, i, Nil)) /\ UNCHANGED <<phase, table, registered, directed, heard>>
  BY DEF Talk
<1> DEFINE m == Message("KV", n, i, Nil)
<1>2. m \in Messages /\ m.kind = "KV" /\ m.sender = n /\ m.target = i
  BY DEF Message, Messages, Kinds, Entries
<1>3. /\ Put(m) /\ phase[n] = "up"
      /\ UNCHANGED <<phase, table, registered, directed, heard>>
  BY <1>1, <1>2, SendPuts DEF Talk, IInv
<1> HIDE DEF m
<1>4. Onward
  BY <1>3 DEF Onward
<1>5. Types'
  BY <1>2, <1>3, PutItems DEF IInv, Types
<1>6. MessagesRight'
  <2>1. MessageRight(m.target, m, phase')
    BY <1>2, <1>3 DEF MessageRight
  <2> QED
    BY <1>2, <1>3, <1>4, <2>1, PutRight
<1>7. Rounds'
  <2>1. ASSUME NEW j \in Clients, NEW k \in 1 .. Len(inbox'[j]), inbox'[j][k].kind = "Directory"
        PROVE  j <= directed
    <3>1. k \in Positions(j) /\ inbox'[j][k] = inbox[j][k]
      BY <1>2, <1>3, <2>1, PutItems DEF IInv
    <3> QED
      BY <2>1, <3>1 DEF IInv, Rounds
  <2> QED
    BY <1>3, <2>1 DEF IInv, Rounds, Positions
<1> QED
  BY <1>3, <1>5, <1>6, <1>7 DEF IInv, TablesRight

LEMMA ServeInv ==
  ASSUME IInv, NEW n \in Nodes, Serve(n)
  PROVE  IInv'
<1> DEFINE m == Head(inbox[n])
<1>1. /\ TakenFrom(n) /\ heard' = [heard EXCEPT ![n] = @ \cup {m.sender}]
      /\ UNCHANGED <<phase, table, registered, directed, talked>>
  BY DEF Serve, TakenFrom
<1>2. m \in Messages /\ m.sender \in Nodes
  BY <1>1, TakenItems DEF IInv, Messages
<1> HIDE DEF m
<1>3. Onward
  BY <1>1 DEF Onward
<1>4. Types'
  <2>1. inbox' \in [Nodes -> Seq(Messages)]
    BY <1>1, TakenItems DEF IInv
  <2>2. heard' \in [Nodes -> SUBSET Nodes]
    BY <1>1, <1>2 DEF IInv, Types
  <2> QED
    BY <1>1, <2>1, <2>2 DEF IInv, Types
<1>5. MessagesRight'
  BY <1>1, <1>3, TakenRight
<1>6. Rounds'
  <2>1. ASSUME NEW i \in Clients, NEW k \in 1 .. Len(inbox'[i]), inbox'[i][k].kind = "Directory"
        PROVE  i <= directed
    <3>1. /\ Before(n, i, k) \in Positions(i)
          /\ inbox'[i][k] = inbox[i][Before(n, i, k)]
      BY <1>1, TakenItems DEF IInv
    <3> QED
      BY <2>1, <3>1 DEF IInv, Rounds
  <2> QED
    BY <1>1, <2>1 DEF IInv, Rounds, Positions
<1> QED
  BY <1>1, <1>4, <1>5, <1>6 DEF IInv, TablesRight

LEMMA NextInv == IInv /\ [Next]_vars => IInv'
<1> SUFFICES ASSUME IInv, [Next]_vars PROVE IInv'
  OBVIOUS
<1>1. CASE Same
  BY <1>1 DEF Same, IInv, Types, TablesRight, MessagesRight, Rounds, Positions
<1>2. CASE UNCHANGED vars \/ \E n \in Nodes : Abort(n)
  BY <1>1, <1>2, FailedSame
<1>3. CASE Next /\ ~ \E n \in Nodes : Abort(n)
  <2>1. /\ \A n \in Nodes : ~Abort(n)
        /\ Server \in Nodes /\ Clients \subseteq Nodes
    BY <1>3
  <2> QED
    BY <1>3, <2>1, RegisterInv, ReceiveDirectoryInv, ListenInv, AcceptRegisterInv,
       SendDirectoryInv, ServerUpInv, TalkInv, ServeInv DEF Next, Connect
<1> QED
  BY <1>2, <1>3

LEMMA Invariance == Spec => []IInv
BY InitInv, NextInv, PTL DEF Spec

\* A behaviour of the network is, of its nodes, one of the rendezvous.
LEMMA TcpSpecIsSpec == TcpSpec => Spec
<1>1. TcpInit => Init
  BY DEF TcpInit
<1>2. [TcpNext]_tcpVars => [Next]_vars
  BY DEF TcpNext, OnNodes, OnBytes, tcpVars, vars
<1> QED
  BY <1>1, <1>2, PTL DEF TcpSpec, Spec

\* No message is ever delivered to another node than the one it is for, however the
\* nodes are started and register: for any number of nodes and any addresses.
THEOREM RightNodeCorrect == TcpSpec => []RightNode
<1>1. IInv => RightNode
  BY DEF IInv, MessagesRight, MessageRight, RightNode, Positions
<1> QED
  BY <1>1, Invariance, TcpSpecIsSpec, PTL

-----------------------------------------------------------------------------
\* With ServerFirst the Directory is the first message of every client: whoever could
\* write to it before has heard of the server, which had sent all Directories then.

Waiting(n) ==
  /\ Server \in heard[n] => phase[Server] = "up"
  /\ phase[n] # "up" /\ inbox[n] # <<>> => inbox[n][1].kind = "Directory"
  /\ phase[n] # "up" /\ n <= directed => inbox[n] # <<>>
  /\ \A k \in Positions(n) : inbox[n][k].kind = "Directory" => k = 1 /\ phase[n] # "up"

Turns == \A n \in Clients : Waiting(n)

LEMMA InitTurns == Init => Turns
BY DEF Init, Turns, Waiting, Positions

\* What a client waits for is not disturbed by the steps of others that leave its
\* inbox alone.
LEMMA StillWaiting ==
  ASSUME Onward, NEW n \in Clients, Waiting(n), phase'[n] = phase[n], heard'[n] = heard[n],
         inbox'[n] = inbox[n], directed' = directed
  PROVE  Waiting(n)'
<1>1. Server \in Nodes
  OBVIOUS
<1> QED
  BY <1>1 DEF Onward, Waiting, Positions

\* Nor does it matter what is put behind the Directory.
LEMMA BehindDirectory ==
  ASSUME IInv, NEW n \in Clients, Waiting(n), Onward, NEW m \in Messages, Put(m),
         m.kind # "Directory", phase[n] = "up" \/ n <= directed,
         phase' = phase, heard' = heard, directed' = directed
  PROVE  Waiting(n)'
<1>1. /\ inbox[n] # <<>> => inbox'[n] # <<>> /\ inbox'[n][1] = inbox[n][1]
      /\ \A k \in 1 .. Len(inbox'[n]) :
           inbox'[n][k].kind = "Directory" => k \in Positions(n) /\ inbox'[n][k] = inbox[n][k]
  <2>1. n \in Nodes
    OBVIOUS
  <2>2. inbox[n] # <<>> => inbox'[n] # <<>> /\ inbox'[n][1] = inbox[n][1]
    BY <2>1, PutItems DEF IInv
  <2>3. ASSUME NEW k \in 1 .. Len(inbox'[n]), inbox'[n][k].kind = "Directory"
        PROVE  k \in Positions(n) /\ inbox'[n][k] = inbox[n][k]
    BY <2>1, <2>3, PutItems DEF IInv
  <2> QED
    BY <2>2, <2>3
<1> QED
  BY <1>1 DEF Waiting, Positions

LEMMA NextTurns ==
  ASSUME ServerFirst, IInv, Turns, [Next]_vars
  PROVE  Turns'
<1>0. /\ Server \in Nodes /\ phase \in [Nodes -> {"off", "init", "up"}]
      /\ heard \in [Nodes -> SUBSET Nodes] /\ inbox \in [Nodes -> Seq(Messages)]
      /\ directed \in 0 .. NumNodes - 1
  BY DEF IInv, Types
<1> SUFFICES ASSUME NEW c \in Clients PROVE Waiting(c)'
  BY DEF Turns
<1>a. Waiting(c)
  BY DEF Turns
<1>1. ASSUME NEW n \in Clients, Register(n), ~Abort(n) PROVE Waiting(c)'
  <2> DEFINE m == Message("Register", n, Server, Address[n])
  <2>1. m \in Messages /\ m.target = Server
    BY DEF Message, Messages, Kinds, Entries, Addresses
  <2>2. Put(m) /\ heard' = heard /\ directed' = directed
    BY <1>1, <2>1, SendPuts DEF Register, IInv
  <2> HIDE DEF m
  <2>3. inbox'[c] = inbox[c]
    BY <1>0, <2>1, <2>2 DEF Put
  <2>4. phase' = [phase EXCEPT ![n] = "init"] /\ phase[n] = "off"
    BY <1>1 DEF Register
  <2>5. /\ phase'[Server] = phase[Server]
        /\ phase[c] # "up" <=> phase'[c] # "up"
    BY <1>0, <2>4
  <2> QED
    BY <1>a, <2>2, <2>3, <2>5 DEF Waiting, Positions
<1>2. ASSUME NEW n \in Clients, ReceiveDirectory(n) PROVE Waiting(c)'
  <2>1. TakenFrom(n) /\ heard' = heard /\ directed' = directed
    BY <1>2 DEF ReceiveDirectory, TakenFrom
  <2>2. phase' = [phase EXCEPT ![n] = "up"]
    BY <1>2 DEF ReceiveDirectory
  <2>3. phase'[Server] = phase[Server] /\ (c # n => phase'[c] = phase[c]) /\ Onward
    BY <1>0, <2>2 DEF Onward
  <2>4. CASE c # n
    <3>1. inbox'[c] = inbox[c]
      BY <2>1, <2>4, TakenItems DEF IInv
    <3> QED
      BY <1>a, <2>1, <2>3, <2>4, <3>1, StillWaiting
  <2>5. CASE c = n
    <3>1. phase'[c] = "up"
      BY <1>0, <2>2, <2>5
    <3>2. ASSUME NEW k \in 1 .. Len(inbox'[c]) PROVE inbox'[c][k].kind # "Directory"
      <4>1. k + 1 \in Positions(c) /\ inbox'[c][k] = inbox[c][k + 1]
        BY <2>1, <2>5, TakenItems DEF IInv, Before
      <4> QED
        BY <1>a, <4>1 DEF Waiting
    <3> QED
      BY <1>a, <2>1, <2>3, <3>1, <3>2 DEF Waiting, Positions
  <2> QED
    BY <2>4, <2>5
<1>3. CASE AcceptRegister
  <2>1. TakenFrom(Server) /\ UNCHANGED <<phase, directed, heard>> /\ Onward
    BY <1>3 DEF AcceptRegister, TakenFrom, Onward
  <2>2. inbox'[c] = inbox[c]
    BY <1>0, <2>1, TakenItems DEF IInv
  <2> QED
    BY <1>a, <2>1, <2>2, StillWaiting
<1>4. CASE SendDirectory /\ ~Abort(Server)
  <2> DEFINE m == Message("Directory", Server, directed + 1, table[Server])
  <2>0. directed + 1 \in Nodes /\ table[Server] \in [Nodes -> Entries]
    BY <1>0, <1>4 DEF SendDirectory, IInv, Types
  <2>1. m \in Messages /\ m.target = directed + 1 /\ m.kind = "Directory"
    BY <1>0, <2>0 DEF Message, Messages, Kinds
  <2>2. Put(m) /\ heard' = heard /\ directed' = directed + 1 /\ phase' = phase
    BY <1>4, <2>1, SendPuts DEF SendDirectory, IInv
  <2> HIDE DEF m
  <2>3. CASE c # directed + 1
    <3>1. inbox'[c] = inbox[c]
      BY <1>0, <2>1, <2>2, <2>3 DEF Put
    <3>2. c <= directed' => c <= directed
      BY <1>0, <2>2, <2>3
    <3> QED
      BY <1>a, <2>2, <3>1, <3>2 DEF Waiting, Positions
  <2>4. CASE c = directed + 1
    <3>1. phase[c] # "up"
      BY <1>0, <2>4 DEF IInv, Rounds
    <3>2. inbox[c] = <<>>
      <4> SUFFICES ASSUME inbox[c] # <<>> PROVE FALSE
        OBVIOUS
      <4>1. inbox[c] \in Seq(Messages)
        BY <1>0
      <4>2. 1 \in Positions(c) /\ inbox[c][1].kind = "Directory"
        BY <1>a, <3>1, <4>1 DEF Waiting, Positions
      <4>3. c <= directed
        BY <4>2 DEF IInv, Rounds
      <4> QED
        BY <1>0, <2>4, <4>3
    <3>3. /\ inbox'[c] # <<>>
          /\ \A k \in 1 .. Len(inbox'[c]) : k = 1 /\ inbox'[c][k] = m
      <4>1. inbox'[c] # <<>>
        BY <2>1, <2>2, <2>4, PutItems DEF IInv
      <4>2. Positions(c) = {} /\ Len(inbox[c]) = 0
        BY <3>2 DEF Positions
      <4> QED
        BY <2>1, <2>2, <4>1, <4>2, PutItems DEF IInv
    <3>4. inbox'[c][1].kind = "Directory"
      <4>1. inbox'[c] \in Seq(Messages)
        BY <2>1, <2>2, PutItems DEF IInv
      <4>2. 1 \in 1 .. Len(inbox'[c])
        BY <3>3, <4>1
      <4> QED
        BY <2>1, <3>3, <4>2
    <3> QED
      BY <1>a, <2>2, <3>1, <3>3, <3>4 DEF Waiting, Positions
  <2> QED
    BY <2>3, <2>4
<1>5. CASE ServerUp
  <2>1. /\ phase' = [phase EXCEPT ![Server] = "up"]
        /\ UNCHANGED <<inbox, heard, directed>>
    BY <1>5 DEF ServerUp
  <2>2. phase'[c] = phase[c] /\ Onward
    BY <1>0, <2>1 DEF Onward
  <2> QED
    BY <1>a, <2>1, <2>2, StillWaiting
<1>6. ASSUME NEW n \in Nodes, Talk(n), ~Abort(n) PROVE Waiting(c)'
  <2>1. PICK i \in Nodes \ {n} :
          /\ MayTalkTo(n, i) /\ Send(Message("KV", n, i, Nil))
          /\ UNCHANGED <<phase, heard, directed>>
    BY <1>6 DEF Talk
  <2> DEFINE m == Message("KV", n, i, Nil)
  <2>2. m \in Messages /\ m.kind = "KV" /\ m.target = i
    BY DEF Message, Messages, Kinds, Entries
  <2>3. Put(m) /\ UNCHANGED <<phase, heard, directed>> /\ Onward /\ phase[n] = "up"
    BY <1>6, <2>1, <2>2, SendPuts DEF Talk, IInv, Onward
  <2> HIDE DEF m
  <2>4. CASE c # i
    <3>1. inbox'[c] = inbox[c]
      BY <1>0, <2>2, <2>3, <2>4 DEF Put
    <3> QED
      BY <1>a, <2>3, <3>1, StillWaiting
  <2>5. CASE c = i
    <3>1. phase[Server] = "up"
      <4>1. CASE n = Server
        BY <2>3, <4>1
      <4>2. CASE n # Server
        <5>1. n \in Clients /\ Server \in heard[n]
          BY <2>1, <2>5, <4>2 DEF MayTalkTo
        <5> QED
          BY <5>1 DEF Turns, Waiting
      <4> QED
        BY <4>1, <4>2
    <3>2. c <= directed
      BY <1>0, <3>1 DEF IInv, Rounds
    <3> QED
      BY <1>a, <2>2, <2>3, <3>2, BehindDirectory
  <2> QED
    BY <2>4, <2>5
<1>7. ASSUME NEW n \in Nodes, Serve(n) PROVE Waiting(c)'
  <2>1. /\ TakenFrom(n) /\ phase[n] = "up" /\ UNCHANGED <<phase, directed>> /\ Onward
        /\ heard' = [heard EXCEPT ![n] = @ \cup {Head(inbox[n]).sender}]
    BY <1>7 DEF Serve, TakenFrom, Onward
  <2>2. CASE c # n
    <3>1. inbox'[c] = inbox[c] /\ heard'[c] = heard[c]
      BY <1>0, <2>1, <2>2, TakenItems DEF IInv
    <3> QED
      BY <1>a, <2>1, <3>1, StillWaiting
  <2>3. CASE c = n
    <3>1. ASSUME NEW k \in 1 .. Len(inbox'[c]) PROVE inbox'[c][k].kind # "Directory"
      <4>1. k + 1 \in Positions(c) /\ inbox'[c][k] = inbox[c][k + 1]
        BY <2>1, <2>3, TakenItems DEF IInv, Before
      <4> QED
        BY <1>a, <2>1, <2>3, <4>1 DEF Waiting
    <3>2. ASSUME Server \in heard'[c] PROVE phase[Server] = "up"
      <4> DEFINE m == Head(inbox[n])
      <4>1. m = inbox[n][1] /\ m \in Messages /\ 1 \in Positions(n)
        BY <2>1, TakenItems DEF IInv
      <4>2. MessageRight(n, m, phase) /\ m.kind # "Directory"
        BY <1>a, <2>1, <2>3, <4>1, MessagesHere DEF Waiting
      <4>3. CASE m.sender = Server
        BY <2>3, <4>1, <4>2, <4>3 DEF MessageRight, Messages, Kinds
      <4>4. CASE m.sender # Server
        <5>1. Server \in heard[c]
          BY <1>0, <2>1, <2>3, <3>2, <4>4
        <5> QED
          BY <1>a, <5>1 DEF Waiting
      <4> QED
        BY <4>3, <4>4
    <3> QED
      BY <1>a, <2>1, <2>3, <3>1, <3>2 DEF Waiting, Positions
  <2> QED
    BY <2>2, <2>3
<1>8. CASE Listen
  <2>1. /\ phase' = [phase EXCEPT ![Server] = "init"] /\ phase[Server] = "off"
        /\ UNCHANGED <<inbox, heard, directed>>
    BY <1>8 DEF Listen
  <2>2. phase'[c] = phase[c] /\ Onward
    BY <1>0, <2>1 DEF Onward
  <2> QED
    BY <1>a, <2>1, <2>2, StillWaiting
<1>9. CASE UNCHANGED vars \/ \E n \in Nodes : Abort(n)
  <2>1. Same
    BY <1>9, FailedSame
  <2> QED
    BY <1>a, <2>1 DEF Same, Waiting, Positions
<1>10. CASE Next /\ ~ \E n \in Nodes : Abort(n)
  <2>1. /\ \A n \in Nodes : ~Abort(n)
        /\ Clients \subseteq Nodes
    BY <1>10
  <2> QED
    BY <1>0, <1>1, <1>2, <1>3, <1>4, <1>5, <1>6, <1>7, <1>8, <1>10, <2>1 DEF Next, Connect
<1> QED
  BY <1>9, <1>10

\* What a client finds first in init_client() is the Directory of the server, and in
\* init_server() nothing arrives but Registers: for any number of nodes that start in
\* any order (a client that starts before the server is aborted), if clients write to each other only after hearing of the server.
THEOREM HeardInTurnCorrect == ASSUME ServerFirst PROVE TcpSpec => []HeardInTurn
<1>1. IInv /\ Turns /\ [Next]_vars => Turns'
  BY NextTurns
<1>2. IInv /\ Turns => HeardInTurn
  <2> SUFFICES ASSUME IInv, Turns PROVE DirectoryFirst /\ RegistersFirst
    BY DEF HeardInTurn
  <2>1. DirectoryFirst
    <3> SUFFICES ASSUME NEW n \in Clients, phase[n] = "init", inbox[n] # <<>>
                 PROVE  Head(inbox[n]).kind = "Directory" /\ Head(inbox[n]).sender = Server
      BY DEF DirectoryFirst
    <3>1. inbox[n] \in Seq(Messages)
      BY DEF IInv, Types
    <3>2. Head(inbox[n]) = inbox[n][1] /\ 1 \in Positions(n)
      BY <3>1 DEF Positions
    <3>3. inbox[n][1].kind = "Directory"
      BY DEF Turns, Waiting
    <3> QED
      BY <3>2, <3>3, MessagesHere DEF MessageRight
  <2>2. RegistersFirst
    <3> SUFFICES ASSUME registered < NumNodes - 1, NEW k \in Positions(Server)
                 PROVE  inbox[Server][k].kind = "Register"
      BY DEF RegistersFirst, Positions
    <3> DEFINE m == inbox[Server][k]
    <3>1. m \in Messages /\ MessageRight(Server, m, phase)
      BY MessagesHere
    <3>2. m.sender \in Clients /\ m.kind \in Kinds /\ m.kind # "Directory"
      BY <3>1 DEF MessageRight, Messages
    <3>3. directed = 0
      BY DEF IInv, Types, Rounds
    <3>4. phase[m.sender] # "up"
      BY <3>2, <3>3 DEF IInv, Rounds
    <3> QED
      BY <3>1, <3>2, <3>4 DEF MessageRight, Kinds
  <2> QED
    BY <2>1, <2>2
<1> QED
  BY <1>1, <1>2, InitTurns, InitInv, Invariance, NextInv, TcpSpecIsSpec, PTL DEF Spec

-----------------------------------------------------------------------------
\* Every client registers once, so the server that counts the Registers knows them
\* all in the end.

Known == {c \in Clients : table[Server][c] # Nil}
IsRegister(k) == inbox[Server][k].kind = "Register"

Counted ==
  /\ registered = Cardinality(Known)
  /\ \A c \in Known : phase[c] # "off"
  /\ \A k \in Positions(Server) : IsRegister(k) => inbox[Server][k].sender \notin Known
  /\ \A j, k \in Positions(Server) :
       IsRegister(j) /\ IsRegister(k) /\ inbox[Server][j].sender = inbox[Server][k].sender => j = k

Complete(addresses) == \A i \in Nodes : addresses[i] = Address[i]

DirectoriesComplete ==
  \A n \in Nodes : \A k \in Positions(n) :
    inbox[n][k].kind = "Directory" => Complete(inbox[n][k].body)
UpKnowsAll == \A n \in Nodes : phase[n] = "up" => Complete(table[n])

CInv ==
  /\ \A n \in Nodes : table[n][Server] = Address[Server]
  /\ Counted /\ DirectoriesComplete /\ UpKnowsAll

LEMMA KnownFinite == IsFiniteSet(Known) /\ IsFiniteSet(Clients) /\ Cardinality(Clients) = NumNodes - 1
<1>1. IsFiniteSet(1 .. NumNodes - 1) /\ Cardinality(1 .. NumNodes - 1) = NumNodes - 1
  BY FS_Interval
<1>2. Clients = 1 .. NumNodes - 1
  OBVIOUS
<1>3. Known \subseteq Clients
  BY DEF Known
<1> QED
  BY <1>1, <1>2, <1>3, FS_Subset

LEMMA InitCounted == Init => CInv
<1> SUFFICES ASSUME Init PROVE CInv
  OBVIOUS
<1>1. Known = {} /\ registered = 0
  BY DEF Init, Known
<1>2. Counted
  BY <1>1, FS_EmptySet DEF Init, Counted, Positions
<1>3. DirectoriesComplete /\ UpKnowsAll /\ \A n \in Nodes : table[n][Server] = Address[Server]
  BY DEF Init, DirectoriesComplete, UpKnowsAll, Positions
<1> QED
  BY <1>2, <1>3 DEF CInv

\* When all have registered the server has all addresses.
LEMMA AllRegisteredComplete ==
  ASSUME IInv, CInv, registered = NumNodes - 1
  PROVE  Complete(table[Server])
<1>1. Known = Clients
  <2>1. Known \in SUBSET Clients
    BY DEF Known
  <2> QED
    BY <2>1, KnownFinite, FS_Subset DEF CInv, Counted
<1>2. Server \in Nodes /\ table[Server][Server] = Address[Server]
  BY DEF CInv
<1>3. \A c \in Clients : table[Server][c] = Address[c]
  BY <1>1, <1>2 DEF Known, IInv, TablesRight, Right
<1> QED
  BY <1>2, <1>3 DEF Complete

\* The Registers in the inbox are of different clients, none of them known yet.
LEMMA RegisterNew ==
  ASSUME Counted, NEW k \in Positions(Server), inbox[Server][k].kind = "Register"
  PROVE  inbox[Server][k].sender \notin Known
BY DEF Counted, IsRegister

LEMMA RegistersApart ==
  ASSUME Counted, NEW j \in Positions(Server), NEW k \in Positions(Server),
         inbox[Server][j].kind = "Register", inbox[Server][k].kind = "Register",
         inbox[Server][j].sender = inbox[Server][k].sender
  PROVE  j = k
BY DEF Counted, IsRegister

\* What there is to show of a step that may change the count, with the inbox spelled out.
LEMMA CountedNext ==
  ASSUME registered' = Cardinality(Known'),
         \A c \in Known' : phase'[c] # "off",
         \A k \in 1 .. Len(inbox'[Server]) : inbox'[Server][k].kind = "Register" =>
           inbox'[Server][k].sender \notin Known',
         \A j, k \in 1 .. Len(inbox'[Server]) :
           /\ inbox'[Server][j].kind = "Register" /\ inbox'[Server][k].kind = "Register"
           /\ inbox'[Server][j].sender = inbox'[Server][k].sender
           => j = k
  PROVE  Counted'
BY DEF Counted, Positions, IsRegister

\* What becomes of the count when neither the table nor the Registers change.
LEMMA CountStays ==
  ASSUME Counted, Onward, Server \in Nodes, table'[Server] = table[Server],
         registered' = registered,
         NEW f \in [1 .. Len(inbox'[Server]) -> Int],
         \A k \in 1 .. Len(inbox'[Server]) : inbox'[Server][k].kind = "Register" =>
           f[k] \in Positions(Server) /\ inbox'[Server][k] = inbox[Server][f[k]],
         \A j, k \in 1 .. Len(inbox'[Server]) : f[j] = f[k] => j = k
  PROVE  Counted'
<1>1. Known' = Known
  BY DEF Known
<1>2. \A c \in Known : phase'[c] # "off"
  BY DEF Counted, Onward, Known
<1>3. ASSUME NEW k \in 1 .. Len(inbox'[Server]), inbox'[Server][k].kind = "Register"
      PROVE  inbox'[Server][k].sender \notin Known
  BY <1>3 DEF Counted, IsRegister
<1>4. ASSUME NEW j \in 1 .. Len(inbox'[Server]), NEW k \in 1 .. Len(inbox'[Server]),
             inbox'[Server][j].kind = "Register", inbox'[Server][k].kind = "Register",
             inbox'[Server][j].sender = inbox'[Server][k].sender
      PROVE  j = k
  <2>1. /\ f[j] \in Positions(Server) /\ inbox'[Server][j] = inbox[Server][f[j]]
        /\ f[k] \in Positions(Server) /\ inbox'[Server][k] = inbox[Server][f[k]]
    BY <1>4
  <2>2. f[j] = f[k]
    BY <1>4, <2>1, RegistersApart
  <2> QED
    BY <2>2
<1>5. registered' = Cardinality(Known')
  BY <1>1 DEF Counted
<1> QED
  BY <1>1, <1>2, <1>3, <1>4, <1>5, CountedNext

\* Messages other than Registers do not matter to the count, nor does taking a message
\* out of an inbox.
LEMMA PutCounts ==
  ASSUME IInv, Counted, Onward, table'[Server] = table[Server], registered' = registered,
         NEW m \in Messages, Put(m), m.kind # "Register"
  PROVE  Counted'
<1> DEFINE f == [k \in 1 .. Len(inbox'[Server]) |-> k]
<1>1. Server \in Nodes
  OBVIOUS
<1>2. \A k \in 1 .. Len(inbox'[Server]) : inbox'[Server][k].kind = "Register" =>
        k \in Positions(Server) /\ inbox'[Server][k] = inbox[Server][k]
  BY <1>1, PutItems DEF IInv
<1>3. f \in [1 .. Len(inbox'[Server]) -> Int]
  OBVIOUS
<1> QED
  BY <1>1, <1>2, <1>3, CountStays

LEMMA TakenCounts ==
  ASSUME IInv, Counted, Onward, table'[Server] = table[Server], registered' = registered,
         NEW n \in Nodes, TakenFrom(n)
  PROVE  Counted'
<1> DEFINE f == [k \in 1 .. Len(inbox'[Server]) |-> Before(n, Server, k)]
<1>1. Server \in Nodes
  OBVIOUS
<1>2. \A k \in 1 .. Len(inbox'[Server]) :
        /\ Before(n, Server, k) \in Positions(Server)
        /\ inbox'[Server][k] = inbox[Server][Before(n, Server, k)]
  BY <1>1, TakenItems DEF IInv
<1>3. f \in [1 .. Len(inbox'[Server]) -> Int]
  BY DEF Before
<1>4. \A j, k \in 1 .. Len(inbox'[Server]) : f[j] = f[k] => j = k
  BY DEF Before
<1>5. \A k \in 1 .. Len(inbox'[Server]) : f[k] = Before(n, Server, k)
  OBVIOUS
<1> HIDE DEF f
<1> QED
  BY <1>1, <1>2, <1>3, <1>4, <1>5, CountStays

LEMMA RegisterCounts ==
  ASSUME IInv, Counted, Onward, table'[Server] = table[Server], registered' = registered,
         NEW m \in Messages, Put(m), m.kind = "Register", m.target = Server,
         m.sender \in Clients, phase[m.sender] = "off", phase'[m.sender] # "off"
  PROVE  Counted'
<1>1. Server \in Nodes /\ Known' = Known
  BY DEF Known
<1>2. \A c \in Known : phase'[c] # "off"
  BY DEF Counted, Onward, Known
<1>3. m.sender \notin Known
  BY DEF Counted
<1>4. \A k \in Positions(Server) : IsRegister(k) => inbox[Server][k].sender # m.sender
  BY <1>1, MessagesHere DEF MessageRight, IsRegister
<1>5. \A k \in 1 .. Len(inbox'[Server]) :
        \/ k \in Positions(Server) /\ inbox'[Server][k] = inbox[Server][k]
        \/ k = Len(inbox[Server]) + 1 /\ inbox'[Server][k] = m
  <2>1. Types
    BY DEF IInv
  <2>2. \A n \in Nodes : \A k \in 1 .. Len(inbox'[n]) :
          \/ k \in Positions(n) /\ inbox'[n][k] = inbox[n][k]
          \/ n = m.target /\ k = Len(inbox[n]) + 1 /\ inbox'[n][k] = m
    BY <2>1, PutItems
  <2> QED
    BY ONLY <1>1, <2>2
<1>6. ASSUME NEW k \in 1 .. Len(inbox'[Server]), inbox'[Server][k].kind = "Register"
      PROVE  inbox'[Server][k].sender \notin Known
  <2>1. CASE k \in Positions(Server) /\ inbox'[Server][k] = inbox[Server][k]
    BY <1>6, <2>1, RegisterNew
  <2>2. CASE inbox'[Server][k] = m
    BY <1>3, <2>2
  <2> QED
    BY <1>5, <2>1, <2>2
<1>7. ASSUME NEW j \in 1 .. Len(inbox'[Server]), NEW k \in 1 .. Len(inbox'[Server]),
             inbox'[Server][j].kind = "Register", inbox'[Server][k].kind = "Register",
             inbox'[Server][j].sender = inbox'[Server][k].sender
      PROVE  j = k
  <2>1. CASE j \in Positions(Server) /\ k \in Positions(Server)
    <3>1. inbox'[Server][j] = inbox[Server][j] /\ inbox'[Server][k] = inbox[Server][k]
      BY <1>5, <2>1 DEF Positions
    <3> QED
      BY <1>7, <2>1, <3>1, RegistersApart
  <2>2. CASE j \notin Positions(Server) /\ k \in Positions(Server)
    <3>1. inbox'[Server][j] = m /\ inbox'[Server][k] = inbox[Server][k]
      BY <1>5, <2>2 DEF Positions
    <3> QED
      BY <1>4, <1>7, <2>2, <3>1 DEF IsRegister
  <2>3. CASE j \in Positions(Server) /\ k \notin Positions(Server)
    <3>1. inbox'[Server][k] = m /\ inbox'[Server][j] = inbox[Server][j]
      BY <1>5, <2>3 DEF Positions
    <3> QED
      BY <1>4, <1>7, <2>3, <3>1 DEF IsRegister
  <2>4. CASE j \notin Positions(Server) /\ k \notin Positions(Server)
    BY <1>5, <2>4
  <2> QED
    BY <2>1, <2>2, <2>3, <2>4
<1>8. registered' = Cardinality(Known')
  BY <1>1 DEF Counted
<1> QED
  BY <1>1, <1>2, <1>6, <1>7, <1>8, CountedNext

LEMMA AcceptCounts ==
  ASSUME IInv, CInv, AcceptRegister
  PROVE  Counted' /\ table'[Server][Server] = Address[Server]
<1> DEFINE m == Head(inbox[Server])
<1>1. /\ Server \in Nodes /\ TakenFrom(Server) /\ m.kind = "Register"
      /\ registered' = registered + 1 /\ phase' = phase
      /\ table' = [table EXCEPT ![Server][m.sender] = m.body]
  BY DEF AcceptRegister, TakenFrom
<1>2. m = inbox[Server][1] /\ m \in Messages /\ 1 \in Positions(Server)
  BY <1>1, TakenItems DEF IInv
<1>3. /\ m.sender \in Clients /\ m.body = Address[m.sender] /\ phase[m.sender] # "off"
      /\ m.sender \notin Known
  BY <1>1, <1>2, MessagesHere DEF MessageRight, Messages, CInv, Counted, IsRegister
<1>a. \A k \in Positions(Server) :
        IsRegister(k) /\ inbox[Server][k].sender = m.sender => k = 1
  BY <1>1, <1>2 DEF CInv, Counted, IsRegister
<1> HIDE DEF m
<1>4. /\ table'[Server][m.sender] = Address[m.sender]
      /\ \A i \in Nodes : i # m.sender => table'[Server][i] = table[Server][i]
  <2>1. table[Server] \in [Nodes -> Entries] /\ DOMAIN table = Nodes
    BY <1>1 DEF IInv, Types
  <2>2. table'[Server] = [table[Server] EXCEPT ![m.sender] = m.body]
    BY <1>1, <2>1
  <2> QED
    BY <1>3, <2>1, <2>2
<1>5. Known' = Known \cup {m.sender}
  BY <1>3, <1>4, AddressAssumption DEF Known
<1>6. registered' = Cardinality(Known')
  BY <1>1, <1>3, <1>5, KnownFinite, FS_AddElement DEF CInv, Counted
<1>7. \A k \in 1 .. Len(inbox'[Server]) :
        k + 1 \in Positions(Server) /\ inbox'[Server][k] = inbox[Server][k + 1]
  BY <1>1, TakenItems DEF IInv, Before
<1>8. ASSUME NEW k \in 1 .. Len(inbox'[Server]), inbox'[Server][k].kind = "Register"
      PROVE  inbox'[Server][k].sender \notin Known'
  <2>1. k + 1 \in Positions(Server) /\ IsRegister(k + 1) /\ k + 1 # 1
    BY <1>7, <1>8 DEF IsRegister
  <2>2. inbox[Server][k + 1].sender \notin Known
    BY <2>1 DEF CInv, Counted
  <2>3. inbox[Server][k + 1].sender # m.sender
    BY <1>a, <2>1
  <2> QED
    BY <1>5, <1>7, <2>2, <2>3
<1>9. ASSUME NEW j \in 1 .. Len(inbox'[Server]), NEW k \in 1 .. Len(inbox'[Server]),
             inbox'[Server][j].kind = "Register", inbox'[Server][k].kind = "Register",
             inbox'[Server][j].sender = inbox'[Server][k].sender
      PROVE  j = k
  <2>1. /\ j + 1 \in Positions(Server) /\ k + 1 \in Positions(Server)
        /\ inbox'[Server][j] = inbox[Server][j + 1] /\ inbox'[Server][k] = inbox[Server][k + 1]
    BY <1>7
  <2>2. j + 1 = k + 1
    BY <1>9, <2>1, RegistersApart DEF CInv
  <2> QED
    BY <2>2
<1>10. \A c \in Known' : phase'[c] # "off"
  BY <1>1, <1>3, <1>5 DEF CInv, Counted
<1>11. Counted'
  BY <1>6, <1>8, <1>9, <1>10, CountedNext
<1>12. table'[Server][Server] = Address[Server]
  BY <1>1, <1>3, <1>4 DEF CInv
<1> QED
  BY <1>11, <1>12

LEMMA PutComplete ==
  ASSUME IInv, DirectoriesComplete, NEW m \in Messages, Put(m),
         m.kind = "Directory" => Complete(m.body)
  PROVE  DirectoriesComplete'
<1> SUFFICES ASSUME NEW n \in Nodes, NEW k \in 1 .. Len(inbox'[n]),
                    inbox'[n][k].kind = "Directory"
             PROVE  Complete(inbox'[n][k].body)
  BY DEF DirectoriesComplete, Positions, Complete
<1>1. CASE k \in Positions(n) /\ inbox'[n][k] = inbox[n][k]
  BY <1>1 DEF DirectoriesComplete
<1>2. CASE inbox'[n][k] = m
  BY <1>2
<1> QED
  BY <1>1, <1>2, PutItems DEF IInv

LEMMA TakenComplete ==
  ASSUME IInv, DirectoriesComplete, NEW n \in Nodes, TakenFrom(n)
  PROVE  DirectoriesComplete'
<1> SUFFICES ASSUME NEW i \in Nodes, NEW k \in 1 .. Len(inbox'[i]),
                    inbox'[i][k].kind = "Directory"
             PROVE  Complete(inbox'[i][k].body)
  BY DEF DirectoriesComplete, Positions, Complete
<1>1. Before(n, i, k) \in Positions(i) /\ inbox'[i][k] = inbox[i][Before(n, i, k)]
  BY TakenItems DEF IInv
<1> QED
  BY <1>1 DEF DirectoriesComplete

LEMMA NextCounted ==
  ASSUME IInv, CInv, [Next]_vars
  PROVE  CInv'
<1>0. /\ Server \in Nodes /\ phase \in [Nodes -> {"off", "init", "up"}]
      /\ table \in [Nodes -> [Nodes -> Entries]]
  BY DEF IInv, Types
<1>1. ASSUME NEW n \in Clients, Register(n), ~Abort(n) PROVE CInv'
  <2> DEFINE m == Message("Register", n, Server, Address[n])
  <2>1. m \in Messages /\ m.target = Server /\ m.kind = "Register" /\ m.sender = n
    BY DEF Message, Messages, Kinds, Entries, Addresses
  <2>2. Put(m) /\ table' = table /\ registered' = registered
    BY <1>1, <2>1, SendPuts DEF Register, IInv
  <2> HIDE DEF m
  <2>3. phase' = [phase EXCEPT ![n] = "init"] /\ phase[n] = "off"
    BY <1>1 DEF Register
  <2>4. Onward /\ phase'[n] # "off" /\ \A i \in Nodes : phase'[i] = "up" => phase[i] = "up"
    BY <1>0, <2>3 DEF Onward
  <2>5. Counted'
    BY <2>1, <2>2, <2>3, <2>4, RegisterCounts DEF CInv
  <2>6. DirectoriesComplete'
    BY <2>1, <2>2, PutComplete DEF CInv
  <2>7. UpKnowsAll'
    BY <2>2, <2>4 DEF CInv, UpKnowsAll, Complete
  <2> QED
    BY <2>2, <2>5, <2>6, <2>7 DEF CInv
<1>2. ASSUME NEW n \in Clients, ReceiveDirectory(n) PROVE CInv'
  <2> DEFINE m == Head(inbox[n])
             entries == [i \in Nodes |-> IF i = Server THEN table[n][i] ELSE m.body[i]]
  <2>1. /\ TakenFrom(n) /\ m.kind = "Directory" /\ registered' = registered
        /\ phase' = [phase EXCEPT ![n] = "up"] /\ table' = [table EXCEPT ![n] = entries]
    BY <1>2 DEF ReceiveDirectory, TakenFrom
  <2>2. Complete(entries) /\ entries[Server] = table[n][Server]
    <3>1. m = inbox[n][1] /\ 1 \in Positions(n)
      BY <2>1, TakenItems DEF IInv
    <3>2. Complete(m.body)
      BY <2>1, <3>1 DEF CInv, DirectoriesComplete
    <3>3. table[n][Server] = Address[Server]
      BY DEF CInv
    <3> QED
      BY <1>0, <3>2, <3>3 DEF Complete
  <2> HIDE DEF entries, m
  <2>3. table'[n] = entries /\ \A i \in Nodes : i # n => table'[i] = table[i]
    BY <1>0, <2>1
  <2>4. /\ Onward /\ table'[Server] = table[Server]
        /\ \A i \in Nodes : phase'[i] = "up" => i = n \/ phase[i] = "up"
    BY <1>0, <2>1, <2>3 DEF Onward
  <2>5. Counted'
    BY <2>1, <2>4, TakenCounts DEF CInv
  <2>6. DirectoriesComplete'
    BY <2>1, TakenComplete DEF CInv
  <2>7. UpKnowsAll'
    <3> SUFFICES ASSUME NEW i \in Nodes, phase'[i] = "up" PROVE Complete(table'[i])
      BY DEF UpKnowsAll, Complete
    <3> QED
      BY <2>2, <2>3, <2>4 DEF CInv, UpKnowsAll
  <2>8. \A i \in Nodes : table'[i][Server] = Address[Server]
    BY <2>2, <2>3 DEF CInv
  <2> QED
    BY <2>5, <2>6, <2>7, <2>8 DEF CInv
<1>3. CASE AcceptRegister
  <2>1. TakenFrom(Server) /\ phase' = phase
    BY <1>3 DEF AcceptRegister, TakenFrom
  <2>2. \A i \in Nodes : i # Server => table'[i] = table[i]
    BY <1>0, <1>3 DEF AcceptRegister
  <2>3. Counted' /\ table'[Server][Server] = Address[Server]
    BY <1>3, AcceptCounts
  <2>4. DirectoriesComplete'
    BY <1>0, <2>1, TakenComplete DEF CInv
  <2>5. phase[Server] # "up"
    <3>1. registered < NumNodes - 1
      BY <1>3 DEF AcceptRegister
    <3> QED
      BY <3>1 DEF IInv, Types, Rounds
  <2>6. UpKnowsAll'
    <3> SUFFICES ASSUME NEW i \in Nodes, phase'[i] = "up" PROVE Complete(table'[i])
      BY DEF UpKnowsAll, Complete
    <3> QED
      BY <2>1, <2>2, <2>5 DEF CInv, UpKnowsAll
  <2>7. \A i \in Nodes : table'[i][Server] = Address[Server]
    BY <2>2, <2>3 DEF CInv
  <2> QED
    BY <2>3, <2>4, <2>6, <2>7 DEF CInv
<1>4. CASE SendDirectory /\ ~Abort(Server)
  <2> DEFINE m == Message("Directory", Server, directed + 1, table[Server])
  <2>0. /\ directed + 1 \in Nodes /\ table[Server] \in [Nodes -> Entries]
        /\ registered = NumNodes - 1
    BY <1>0, <1>4 DEF SendDirectory, AllRegistered, IInv, Types
  <2>1. m \in Messages /\ m.kind = "Directory" /\ m.body = table[Server]
    BY <1>0, <2>0 DEF Message, Messages, Kinds
  <2>2. Put(m) /\ UNCHANGED <<phase, table, registered>> /\ Onward
    BY <1>4, <2>1, SendPuts DEF SendDirectory, IInv, Onward
  <2> HIDE DEF m
  <2>3. Counted'
    BY <2>1, <2>2, PutCounts DEF CInv
  <2>4. DirectoriesComplete'
    BY <2>0, <2>1, <2>2, AllRegisteredComplete, PutComplete DEF CInv
  <2> QED
    BY <2>2, <2>3, <2>4 DEF CInv, UpKnowsAll, Complete
<1>5. CASE ServerUp
  <2>1. /\ phase' = [phase EXCEPT ![Server] = "up"] /\ directed = NumNodes - 1
        /\ UNCHANGED <<table, registered, inbox>>
    BY <1>5 DEF ServerUp
  <2>2. Onward /\ \A i \in Nodes : phase'[i] = "up" => i = Server \/ phase[i] = "up"
    BY <1>0, <2>1 DEF Onward
  <2>3. registered = NumNodes - 1
    BY <2>1 DEF IInv, Types, Rounds
  <2>4. Complete(table[Server])
    BY <2>3, AllRegisteredComplete
  <2>5. UpKnowsAll'
    <3> SUFFICES ASSUME NEW i \in Nodes, phase'[i] = "up" PROVE Complete(table'[i])
      BY DEF UpKnowsAll, Complete
    <3> QED
      BY <2>1, <2>2, <2>4 DEF CInv, UpKnowsAll
  <2>6. Known' = Known /\ \A c \in Known : phase'[c] # "off"
    BY <2>1, <2>2 DEF CInv, Counted, Onward, Known
  <2>7. Counted'
    BY <2>1, <2>6 DEF CInv, Counted, Positions, IsRegister
  <2> QED
    BY <2>1, <2>5, <2>7 DEF CInv, DirectoriesComplete, Positions, Complete
<1>6. ASSUME NEW n \in Nodes, Talk(n), ~Abort(n) PROVE CInv'
  <2>1. PICK i \in Nodes \ {n} :
          Send(Message("KV", n, i, Nil)) /\ UNCHANGED <<phase, table, registered>>
    BY <1>6 DEF Talk
  <2> DEFINE m == Message("KV", n, i, Nil)
  <2>2. m \in Messages /\ m.kind = "KV"
    BY DEF Message, Messages, Kinds, Entries
  <2>3. Put(m) /\ UNCHANGED <<phase, table, registered>> /\ Onward
    BY <1>6, <2>1, <2>2, SendPuts DEF Talk, IInv, Onward
  <2> HIDE DEF m
  <2>4. Counted' /\ DirectoriesComplete'
    BY <2>2, <2>3, PutCounts, PutComplete DEF CInv
  <2> QED
    BY <2>3, <2>4 DEF CInv, UpKnowsAll, Complete
<1>7. ASSUME NEW n \in Nodes, Serve(n) PROVE CInv'
  <2>1. TakenFrom(n) /\ UNCHANGED <<phase, table, registered>> /\ Onward
    BY <1>7 DEF Serve, TakenFrom, Onward
  <2>2. Counted' /\ DirectoriesComplete'
    BY <2>1, TakenCounts, TakenComplete DEF CInv
  <2> QED
    BY <2>1, <2>2 DEF CInv, UpKnowsAll, Complete
<1>8. CASE Listen
  <2>1. /\ phase' = [phase EXCEPT ![Server] = "init"] /\ phase[Server] = "off"
        /\ UNCHANGED <<table, registered, inbox>>
    BY <1>8 DEF Listen
  <2>2. Onward /\ \A i \in Nodes : phase'[i] = "up" => phase[i] = "up"
    BY <1>0, <2>1 DEF Onward
  <2>3. Known' = Known /\ \A c \in Known : phase'[c] # "off"
    BY <2>1, <2>2 DEF CInv, Counted, Onward, Known
  <2>4. Counted'
    BY <2>1, <2>3 DEF CInv, Counted, Positions, IsRegister
  <2> QED
    BY <2>1, <2>2, <2>4 DEF CInv, DirectoriesComplete, UpKnowsAll, Positions, Complete
<1>9. CASE UNCHANGED vars \/ \E n \in Nodes : Abort(n)
  <2>1. Same
    BY <1>9, FailedSame
  <2> QED
    BY <2>1 DEF Same, CInv, Counted, DirectoriesComplete, UpKnowsAll, Complete, Known,
                IsRegister, Positions
<1>10. CASE Next /\ ~ \E n \in Nodes : Abort(n)
  <2>1. /\ \A n \in Nodes : ~Abort(n)
        /\ Clients \subseteq Nodes
    BY <1>10
  <2> QED
    BY <1>0, <1>1, <1>2, <1>3, <1>4, <1>5, <1>6, <1>7, <1>8, <1>10, <2>1 DEF Next, Connect
<1> QED
  BY <1>9, <1>10

\* A node whose init function has returned has the address of every node, so its
\* application can send to any of them: no client is counted twice or left out, though
\* the server only counts the Registers.
THEOREM UpKnowsAllCorrect == TcpSpec => []UpKnowsAll
<1>1. IInv /\ CInv /\ [Next]_vars => CInv'
  BY NextCounted
<1>2. CInv => UpKnowsAll
  BY DEF CInv
<1> QED
  BY <1>1, <1>2, InitCounted, Invariance, TcpSpecIsSpec, PTL DEF Spec

-----------------------------------------------------------------------------
\* Nobody connects to a node that does not listen: a client registers behind the
\* server's listen(), and everybody else waits, in the end, for all the Registers.

Started == aborted = {} /\ \A c \in Clients : phase[c] # "off" => phase[Server] # "off"

LEMMA InitStarted == Init => Started
BY DEF Init, Started

\* When all have registered, all listen.
LEMMA AllListen ==
  ASSUME IInv, CInv, Started, registered = NumNodes - 1, phase[Server] # "off"
  PROVE  \A n \in Nodes : Listens(n)
<1>1. Known = Clients
  <2>1. Known \in SUBSET Clients
    BY DEF Known
  <2> QED
    BY <2>1, KnownFinite, FS_Subset DEF CInv, Counted
<1>2. \A n \in Nodes : phase[n] # "off"
  BY <1>1 DEF CInv, Counted
<1> QED
  BY <1>2 DEF Listens, Runs, Started

LEMMA UpMeansAll ==
  ASSUME IInv, NEW n \in Nodes, phase[n] = "up"
  PROVE  registered = NumNodes - 1
<1>1. CASE n = Server
  BY <1>1 DEF IInv, Types, Rounds
<1>2. CASE n # Server
  <2>1. n \in Clients /\ n >= 1
    BY <1>2
  <2>2. directed >= n /\ directed \in Nat
    BY <2>1 DEF IInv, Types, Rounds
  <2> QED
    BY <2>1, <2>2 DEF IInv, Rounds
<1> QED
  BY <1>1, <1>2

LEMMA NothingFails ==
  ASSUME StartedInOrder, IInv, CInv, Started, Next
  PROVE  aborted' = {}
<1>0. aborted = {} /\ Server \in Nodes /\ Clients \subseteq Nodes
  BY DEF Started
<1>1. ASSUME NEW n \in Clients, Register(n) PROVE aborted' = {}
  <2> DEFINE m == Message("Register", n, Server, Address[n])
  <2>1. Listens(Server) /\ Address[Server] = table[m.sender][m.target]
    BY <1>0, <1>1 DEF Register, CInv, Message
  <2>2. Connects(m)
    BY <1>0, <2>1 DEF Connects, AtAddress
  <2> QED
    BY <1>0, <1>1, <2>2 DEF Register
<1>2. CASE SendDirectory
  <2> DEFINE m == Message("Directory", Server, directed + 1, table[Server])
  <2>1. directed + 1 \in Nodes /\ registered = NumNodes - 1 /\ phase[Server] # "off"
    BY <1>2 DEF SendDirectory, AllRegistered, IInv, Types
  <2>2. Listens(directed + 1)
    BY <2>1, AllListen
  <2>3. Address[directed + 1] = table[m.sender][m.target]
    BY <2>1, AllRegisteredComplete DEF Complete, Message
  <2>4. Connects(m)
    BY <2>1, <2>2, <2>3 DEF Connects, AtAddress
  <2> QED
    BY <1>0, <1>2, <2>4 DEF SendDirectory
<1>3. ASSUME NEW n \in Nodes, Talk(n) PROVE aborted' = {}
  <2>1. ASSUME NEW i \in Nodes PROVE Connects(Message("KV", n, i, Nil))
    <3> DEFINE m == Message("KV", n, i, Nil)
    <3>1. phase[n] = "up"
      BY <1>3 DEF Talk
    <3>2. phase[Server] # "off"
      BY <3>1 DEF Started
    <3>3. Listens(i)
      BY <3>1, <3>2, UpMeansAll, AllListen
    <3>4. Address[i] = table[m.sender][m.target]
      BY <3>1 DEF CInv, UpKnowsAll, Complete, Message
    <3> QED
      BY <3>3, <3>4 DEF Connects, AtAddress
  <2> QED
    BY <1>0, <1>3, <2>1 DEF Talk
<1>4. ASSUME NEW n \in Nodes, Serve(n) PROVE aborted' = {}
  BY <1>0, <1>4 DEF Serve
<1>5. ASSUME NEW n \in Clients, ReceiveDirectory(n) PROVE aborted' = {}
  BY <1>0, <1>5 DEF ReceiveDirectory
<1>6. CASE Listen \/ AcceptRegister \/ ServerUp
  BY <1>0, <1>6 DEF Listen, AcceptRegister, ServerUp
<1> QED
  BY <1>1, <1>2, <1>3, <1>4, <1>5, <1>6 DEF Next, Connect

LEMMA NextStarted ==
  ASSUME StartedInOrder, IInv, CInv, Started, [Next]_vars
  PROVE  Started'
<1>1. aborted' = {}
  BY NothingFails DEF Started, vars
<1>2. ASSUME NEW c \in Clients, phase'[c] # "off" PROVE phase'[Server] # "off"
  <2>0. phase \in [Nodes -> {"off", "init", "up"}] /\ Server \in Nodes /\ c \in Nodes /\ c # Server
    BY DEF IInv, Types
  <2>1. phase[Server] # "off" => phase'[Server] # "off"
    BY <2>0 DEF Next, Connect, Register, ReceiveDirectory, Listen, AcceptRegister, SendDirectory,
       ServerUp, Talk, Serve, Abort, vars
  <2>2. CASE phase'[c] = phase[c]
    BY <1>2, <2>1, <2>2 DEF Started
  <2>3. CASE phase'[c] # phase[c]
    <3>1. \E n \in Clients : Register(n) \/ ReceiveDirectory(n)
      BY <2>0, <2>3 DEF Next, Connect, Listen, AcceptRegister, SendDirectory,
         ServerUp, Talk, Serve, Abort, vars
    <3>2. PICK n \in Clients : Register(n) \/ ReceiveDirectory(n)
      BY <3>1
    <3>3. phase[Server] # "off"
      <4>1. CASE Register(n)
        BY <4>1 DEF Register, Listens
      <4>2. CASE ReceiveDirectory(n)
        BY <4>2 DEF ReceiveDirectory, Started
      <4> QED
        BY <3>2, <4>1, <4>2
    <3> QED
      BY <2>1, <3>3
  <2> QED
    BY <2>2, <2>3
<1> QED
  BY <1>1, <1>2 DEF Started

\* If the clients are started when the server listens, no connect() ever fails
\* (network-ip.h:138), whatever the number of nodes and the order in which the clients
\* register: who sends to a node knows that it has registered.
THEOREM ConnectsSucceedCorrect == ASSUME StartedInOrder PROVE TcpSpec => []ConnectsSucceed
<1>1. IInv /\ CInv /\ [Next]_vars => CInv'
  BY NextCounted
<1>2. IInv /\ CInv /\ Started /\ [Next]_vars => Started'
  BY NextStarted
<1>3. Started => ConnectsSucceed
  BY DEF Started, ConnectsSucceed
<1> QED
  BY <1>1, <1>2, <1>3, InitCounted, InitStarted, InitInv, NextInv, TcpSpecIsSpec, PTL DEF Spec

-----------------------------------------------------------------------------
\* The bytes of the messages.

Bytes == INSTANCE NetworkIPProofs WITH Nodes <- Receivers

LEMMA BytesProper == ASSUME ~ShortReads PROVE Bytes!Proper
<1>1. Bytes!Message = IP!Message
  BY DEF Bytes!Message, IP!Message
<1>2. Bytes!IsFiniteSet(Sizes)
  BY SizesAssumption DEF Bytes!IsFiniteSet, IsFiniteSet
<1> QED
  BY <1>1, <1>2, SizesAssumption, NilAssumption DEF Bytes!Proper

LEMMA BytesBegin == ASSUME TcpInit PROVE Bytes!Init
BY DEF TcpInit, IP!Init, Bytes!Init, IP!EmptyBuffer, Bytes!EmptyBuffer, IP!Junk, Bytes!Junk,
       IP!Connections, Bytes!Connections

\* The steps of the network are those that are proved about.
LEMMA SameByteSteps == IP!Next <=> Bytes!Next
<1>1. IP!NumChunks = Bytes!NumChunks
  BY DEF IP!NumChunks, Bytes!NumChunks, IP!Max, Bytes!Max
<1>2. \A m, i : IP!PieceLength(m, i) = Bytes!PieceLength(m, i)
  BY <1>1 DEF IP!PieceLength, Bytes!PieceLength
<1>3. \A m, i : IP!Piece(m, i) = Bytes!Piece(m, i)
  BY <1>2 DEF IP!Piece, Bytes!Piece, IP!Junk, Bytes!Junk
<1>4. \A t \in Threads : IP!SendSize(t) <=> Bytes!SendSize(t)
  BY DEF IP!SendSize, Bytes!SendSize, IP!Connection, Bytes!Connection, IP!Header, Bytes!Header,
         IP!receiverVars, Bytes!receiverVars
<1>5. \A t \in Threads : IP!SendChunk(t) <=> Bytes!SendChunk(t)
  BY <1>1, <1>2, <1>3 DEF IP!SendChunk, Bytes!SendChunk, IP!Connection, Bytes!Connection,
         IP!receiverVars, Bytes!receiverVars
<1>6. \A t \in Threads : IP!SendReturns(t) <=> Bytes!SendReturns(t)
  BY <1>1 DEF IP!SendReturns, Bytes!SendReturns, IP!receiverVars, Bytes!receiverVars
<1>7. \A t \in Threads, n \in Receivers, s \in Sizes :
        IP!Connect(t, n, s) <=> Bytes!Connect(t, n, s)
  BY DEF IP!Connect, Bytes!Connect, IP!receiverVars, Bytes!receiverVars
<1>8. \A n \in Receivers : IP!Accept(n) <=> Bytes!Accept(n)
  BY DEF IP!Accept, Bytes!Accept, IP!senderVars, Bytes!senderVars
<1>9. \A n \in Receivers : IP!ReadSize(n) <=> Bytes!ReadSize(n)
  BY DEF IP!ReadSize, Bytes!ReadSize, IP!Connection, Bytes!Connection,
         IP!senderVars, Bytes!senderVars
<1>10. \A n \in Receivers : IP!ReadChunk(n) <=> Bytes!ReadChunk(n)
  BY DEF IP!ReadChunk, Bytes!ReadChunk, IP!Connection, Bytes!Connection, IP!Min, Bytes!Min,
         IP!ReadResults, Bytes!ReadResults, IP!senderVars, Bytes!senderVars
<1>11. \A n \in Receivers : IP!Deliver(n) <=> Bytes!Deliver(n)
  BY DEF IP!Deliver, Bytes!Deliver, IP!Deserialized, Bytes!Deserialized, IP!Junk, Bytes!Junk,
         IP!EmptyBuffer, Bytes!EmptyBuffer, IP!senderVars, Bytes!senderVars
<1> QED
  BY <1>4, <1>5, <1>6, <1>7, <1>8, <1>9, <1>10, <1>11
  DEF IP!Next, Bytes!Next, IP!SendMsg, Bytes!SendMsg, IP!SendsOn, Bytes!SendsOn,
      IP!ReceiveMsg, Bytes!ReceiveMsg

\* The network and the one that is proved about are one mailbox.
LEMMA SameMailbox ==
  /\ Bytes!Mail!Init <=> IP!Mail!Init
  /\ [Bytes!Mail!Next]_(Bytes!Mail!vars) <=> [IP!Mail!Next]_(IP!Mail!vars)
<1> USE DEF IP!Inbox, Bytes!Inbox
<1>1. Bytes!Mail!Init <=> IP!Mail!Init
  BY DEF IP!Mail!Init, Bytes!Mail!Init
<1>2. Bytes!Mail!Next <=> IP!Mail!Next
  BY DEF IP!Mail!Next, Bytes!Mail!Next, IP!Mail!Send, Bytes!Mail!Send, IP!Mail!Receive,
         Bytes!Mail!Receive, IP!Message, Bytes!Message
<1>3. UNCHANGED (Bytes!Mail!vars) <=> UNCHANGED (IP!Mail!vars)
  BY DEF IP!Mail!vars, Bytes!Mail!vars
<1> QED
  BY <1>1, <1>2, <1>3

\* The connections to a node are a mailbox (network-ip.h: send_msg(), receive_msg()):
\* what is sent to a node is received once, whole and in the order of the connect()
\* calls, however the bytes are cut up and the senders interleave, if read() returns
\* what it is asked for.
THEOREM ImplementsMailboxCorrect == ASSUME ~ShortReads PROVE TcpSpec => ImplementsMailbox
<1>1. TcpInit => Bytes!Init
  BY BytesBegin
<1>2. [TcpNext]_tcpVars => [Bytes!Next]_(Bytes!vars)
  BY SameByteSteps DEF TcpNext, OnNodes, OnBytes, tcpVars, byteVars, Bytes!vars,
                       Bytes!senderVars, Bytes!receiverVars
<1>3. Bytes!Spec => Bytes!ImplementsMailbox
  BY BytesProper, Bytes!MailboxImplemented
<1>4. /\ Bytes!Mail!Init <=> IP!Mail!Init
      /\ [Bytes!Mail!Next]_(Bytes!Mail!vars) <=> [IP!Mail!Next]_(IP!Mail!vars)
  BY SameMailbox
<1> QED
  BY <1>1, <1>2, <1>3, <1>4, PTL
  DEF TcpSpec, Bytes!Spec, Bytes!ImplementsMailbox, Bytes!Mail!Spec,
      ImplementsMailbox, IP!ImplementsMailbox, IP!Mail!Spec

=============================================================================
