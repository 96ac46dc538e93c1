----------------------------- MODULE TcpNetwork -----------------------------
(***************************************************************************)
(* The TCP network of eau2: how its nodes find each other (Rendezvous) and *)
(* what becomes of the bytes of a message (NetworkIP).  The one takes the  *)
(* connections for an inbox, which the other shows them to be; a behaviour *)
(* is about one of them.                                                   *)
(***************************************************************************)
EXTENDS Rendezvous

CONSTANTS Receivers, Threads, Sends, Sizes, ChunkSize, SocketSpace, ShortReads

ASSUME SizesAssumption ==
  /\ Sizes \subseteq Nat \ {0} /\ IsFiniteSet(Sizes)
  /\ ChunkSize \in Nat \ {0} /\ Sends \in Nat /\ ShortReads \in BOOLEAN

VARIABLES
  part,      \* "bytes" or "nodes"
  nth, sending, piece, wire, backlog, reading, left, buffer, chars, received

byteVars == <<nth, sending, piece, wire, backlog, reading, left, buffer, chars, received>>
tcpVars == <<part, vars, byteVars>>

IP == INSTANCE NetworkIP WITH Nodes <- Receivers

ASSUME NilAssumption == Nil \notin Nat /\ Nil \notin IP!Message

TcpInit == part \in {"bytes", "nodes"} /\ Init /\ IP!Init

OnNodes(step) == part = "nodes" /\ step /\ UNCHANGED <<part, byteVars>>
OnBytes(step) == part = "bytes" /\ step /\ UNCHANGED <<part, vars>>

TcpNext == OnNodes(Next) \/ OnBytes(IP!Next)

\* Every node is started and runs its init function, a thread goes on with a
\* message it has begun to send, and every servicer receives one after the other.
TcpFairness ==
  /\ \A n \in Clients :
       WF_tcpVars(OnNodes(Register(n))) /\ WF_tcpVars(OnNodes(ReceiveDirectory(n)))
  /\ WF_tcpVars(OnNodes(Listen))
  /\ WF_tcpVars(OnNodes(AcceptRegister))
  /\ WF_tcpVars(OnNodes(SendDirectory))
  /\ WF_tcpVars(OnNodes(ServerUp))
  /\ \A t \in Threads : WF_tcpVars(OnBytes(IP!SendsOn(t)))
  /\ \A n \in Receivers : WF_tcpVars(OnBytes(IP!ReceiveMsg(n)))

TcpSpec == TcpInit /\ [][TcpNext]_tcpVars /\ TcpFairness

-----------------------------------------------------------------------------
\* The connections to a node are a mailbox: every message arrives whole, in the
\* order of the connect() calls.
ImplementsMailbox == IP!ImplementsMailbox

\* What a thread begins to send is received.
EverySendArrives == IP!EverySendArrives

\* send_msg() returns.
EverySendReturns == IP!EverySendReturns

\* All nodes find each other.
AllNodesUp == part = "nodes" => EverybodyUp

=============================================================================
