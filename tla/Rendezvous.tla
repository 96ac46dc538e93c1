----------------------------- MODULE Rendezvous -----------------------------
(***************************************************************************)
(* How the nodes of the TCP network find each other (client/network-ip.h). *)
(* Node 0 is the server: it waits for a Register of every client and then  *)
(* sends each of them the Directory of all addresses.  A node whose init   *)
(* function has returned starts its application, which sends to others.    *)
(* The connections to a node are an inbox (see NetworkIP).  The nodes are  *)
(* processes, started one by one: a node that connects to another before   *)
(* that listens is aborted by an assertion.                                *)
(***************************************************************************)
EXTENDS Integers, SequencesExt

CONSTANTS
  NumNodes,   \* arg.num_nodes
  Address,    \* node |-> the address it listens at
  Talks,      \* bound: how many messages an application sends
  StartedInOrder, \* TRUE if clients are started when the server listens
  ServerFirst,\* TRUE if a client talks to clients only when it has heard of node 0
  Nil

Nodes == 0 .. NumNodes - 1
Server == 0
Clients == Nodes \ {Server}

ASSUME NumNodesAssumption == NumNodes \in Nat \ {0}
ASSUME AddressAssumption ==
  IsInjective(Address) /\ DOMAIN Address = Nodes /\ \A n \in Nodes : Address[n] # Nil

VARIABLES
  phase,      \* node |-> "off", "init" while in its init function, or "up"
  aborted,    \* the nodes that an assertion has ended
  table,      \* node |-> node_information_: index |-> address, or Nil
  registered, \* the Registers the server has received
  directed,   \* the last client the server has sent the Directory to
  inbox,      \* node |-> the messages on connections it has not accepted
  talked,     \* node |-> how many messages its application has sent
  heard       \* node |-> the nodes its servicer has had a message from

vars == <<phase, aborted, table, registered, directed, inbox, talked, heard>>

\* The server knows itself, a client the server's address.
Init ==
  /\ phase = [n \in Nodes |-> "off"]
  /\ aborted = {}
  /\ table = [n \in Nodes |-> [i \in Nodes |-> IF i = Server THEN Address[i] ELSE Nil]]
  /\ registered = 0
  /\ directed = 0
  /\ inbox = [n \in Nodes |-> <<>>]
  /\ talked = [n \in Nodes |-> 0]
  /\ heard = [n \in Nodes |-> {}]

Runs(n) == n \notin aborted

\* create_socket_(): whoever is in its init function or behind it has a socket.
Listens(n) == phase[n] # "off" /\ Runs(n)

\* send_msg_(): the message goes to whoever listens at the address that the sender
\* has for the index of the target.
Message(kind, n, i, body) == [kind |-> kind, sender |-> n, target |-> i, body |-> body]
AtAddress(m) == {n \in Nodes : Listens(n) /\ Address[n] = table[m.sender][m.target]}
Connects(m) == AtAddress(m) # {}
Send(m) == \E n \in AtAddress(m) : inbox' = [inbox EXCEPT ![n] = Append(@, m)]

\* Nobody listens there: connect() fails, and the assertion ends the sender.
Abort(n) ==
  /\ aborted' = aborted \cup {n}
  /\ UNCHANGED <<phase, table, registered, directed, inbox, talked, heard>>

-----------------------------------------------------------------------------
\* init_client()

\* create_socket_() and the Register.
Register(n) ==
  LET m == Message("Register", n, Server, Address[n])
  IN  /\ Runs(n)
      /\ phase[n] = "off"
      /\ StartedInOrder => Listens(Server)
      /\ IF Connects(m)
           THEN /\ Send(m)
                /\ phase' = [phase EXCEPT ![n] = "init"]
                /\ UNCHANGED <<aborted, table, registered, directed, talked, heard>>
           ELSE Abort(n)

\* The message is cast to a Directory and asserted to come from the server.
ReceiveDirectory(n) ==
  LET m == Head(inbox[n])
  IN  /\ n # Server
      /\ Runs(n)
      /\ phase[n] = "init"
      /\ inbox[n] # <<>>
      /\ m.kind = "Directory" /\ m.sender = Server
      /\ table' = [table EXCEPT ![n] =
                     [i \in Nodes |-> IF i = Server THEN @[i] ELSE m.body[i]]]
      /\ phase' = [phase EXCEPT ![n] = "up"]
      /\ inbox' = [inbox EXCEPT ![n] = Tail(@)]
      /\ UNCHANGED <<aborted, registered, directed, talked, heard>>

-----------------------------------------------------------------------------
\* init_server()

\* create_socket_()
Listen ==
  /\ phase[Server] = "off"
  /\ phase' = [phase EXCEPT ![Server] = "init"]
  /\ UNCHANGED <<aborted, table, registered, directed, inbox, talked, heard>>

\* Mutation: the clients are numbered in the order they register.
AcceptInOrder ==
  LET m == Head(inbox[Server])
  IN  /\ Runs(Server) /\ phase[Server] = "init"
      /\ registered < NumNodes - 1
      /\ inbox[Server] # <<>>
      /\ m.kind = "Register"
      /\ table' = [table EXCEPT ![Server][registered + 1] = m.body]
      /\ registered' = registered + 1
      /\ inbox' = [inbox EXCEPT ![Server] = Tail(@)]
      /\ UNCHANGED <<phase, aborted, directed, talked, heard>>

AcceptRegister ==
  LET m == Head(inbox[Server])
  IN  /\ Runs(Server) /\ phase[Server] = "init"
      /\ registered < NumNodes - 1
      /\ inbox[Server] # <<>>
      /\ m.kind = "Register"
      /\ table' = [table EXCEPT ![Server][m.sender] = m.body]
      /\ registered' = registered + 1
      /\ inbox' = [inbox EXCEPT ![Server] = Tail(@)]
      /\ UNCHANGED <<phase, aborted, directed, talked, heard>>

\* Mutation: one Register too few is waited for.
LastMissing == registered >= NumNodes - 2

AllRegistered == registered = NumNodes - 1

SendDirectory ==
  LET m == Message("Directory", Server, directed + 1, table[Server])
  IN  /\ Runs(Server) /\ phase[Server] = "init"
      /\ AllRegistered
      /\ directed < NumNodes - 1
      /\ IF Connects(m)
           THEN /\ Send(m)
                /\ directed' = directed + 1
                /\ UNCHANGED <<phase, aborted, table, registered, talked, heard>>
           ELSE Abort(Server)

\* Mutation: the loop that sends the Directory leaves out the last client.
ServerUpTooSoon ==
  /\ Runs(Server) /\ phase[Server] = "init"
  /\ AllRegistered
  /\ directed = NumNodes - 2
  /\ phase' = [phase EXCEPT ![Server] = "up"]
  /\ UNCHANGED <<aborted, table, registered, directed, inbox, talked, heard>>

ServerUp ==
  /\ Runs(Server) /\ phase[Server] = "init"
  /\ directed = NumNodes - 1
  /\ phase' = [phase EXCEPT ![Server] = "up"]
  /\ UNCHANGED <<aborted, table, registered, directed, inbox, talked, heard>>

-----------------------------------------------------------------------------
\* The applications and their servicers.  With ServerFirst a client is as in the
\* applications of the repository: it first waits for a frame of node 0.

MayTalkTo(n, i) == ServerFirst /\ n # Server => i = Server \/ Server \in heard[n]

Talk(n) ==
  /\ Runs(n) /\ phase[n] = "up"
  /\ talked[n] < Talks
  /\ \E i \in Nodes \ {n} :
       LET m == Message("KV", n, i, Nil)
       IN  /\ MayTalkTo(n, i)
           /\ IF Connects(m)
                THEN /\ Send(m)
                     /\ talked' = [talked EXCEPT ![n] = @ + 1]
                     /\ UNCHANGED <<phase, aborted, table, registered, directed, heard>>
                ELSE Abort(n)

Serve(n) ==
  /\ Runs(n) /\ phase[n] = "up"
  /\ inbox[n] # <<>>
  /\ heard' = [heard EXCEPT ![n] = @ \cup {Head(inbox[n]).sender}]
  /\ inbox' = [inbox EXCEPT ![n] = Tail(@)]
  /\ UNCHANGED <<phase, aborted, table, registered, directed, talked>>

-----------------------------------------------------------------------------
Connect ==
  \/ \E n \in Clients : Register(n) \/ ReceiveDirectory(n)
  \/ Listen
  \/ AcceptRegister
  \/ SendDirectory
  \/ ServerUp

Next == Connect \/ \E n \in Nodes : Talk(n) \/ Serve(n)

\* Every node is started and runs its init function, whatever order they are
\* scheduled in.
Fairness ==
  /\ \A n \in Clients : WF_vars(Register(n)) /\ WF_vars(ReceiveDirectory(n))
  /\ WF_vars(Listen) /\ WF_vars(AcceptRegister) /\ WF_vars(SendDirectory) /\ WF_vars(ServerUp)

Spec == Init /\ [][Next]_vars
FairSpec == Spec /\ Fairness

-----------------------------------------------------------------------------
\* network-ip.h:105 "Make sure it came from the server": what a client in
\* init_client() finds first is the Directory, and the server in init_server()
\* finds nothing but Registers.
DirectoryFirst ==
  \A n \in Clients : phase[n] = "init" /\ inbox[n] # <<>> =>
    Head(inbox[n]).kind = "Directory" /\ Head(inbox[n]).sender = Server
RegistersFirst ==
  registered < NumNodes - 1 =>
    \A i \in 1 .. Len(inbox[Server]) : inbox[Server][i].kind = "Register"

HeardInTurn == DirectoryFirst /\ RegistersFirst

\* kvstore.h:140: a message is for the node it reaches.  Clients may register in
\* any order, and each node still finds every other one under its index.
RightNode ==
  \A n \in Nodes : \A i \in 1 .. Len(inbox[n]) : inbox[n][i].target = n

\* network-ip.h:138 asserts that a node listens when another connects to it: no
\* node is ended by that assertion.
ConnectsSucceed == aborted = {}

\* All nodes find each other.
EverybodyUp == <>(\A n \in Nodes : phase[n] = "up")

=============================================================================
