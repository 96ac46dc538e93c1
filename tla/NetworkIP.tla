----------------------------- MODULE NetworkIP -----------------------------
(***************************************************************************)
(* The TCP network of eau2 (client/network-ip.h).  Every message goes over *)
(* a connection of its own: the sender connects, sends the size of the     *)
(* serialized message and then the chunks of the serializer's array; the   *)
(* receiver accepts the oldest connection, reads the size and then that    *)
(* many bytes.  Nobody closes a connection.                                *)
(*                                                                         *)
(* The bytes of a message are the numbers 1 .. size.                       *)
(***************************************************************************)
EXTENDS Naturals, SequencesExt, FiniteSetsExt

CONSTANTS
  Nodes,
  Threads,     \* the threads that send, application threads and repliers
  Sends,       \* bound: how many messages a thread sends
  Sizes,       \* the sizes serialized messages may have
  ChunkSize,   \* CHUNK_SIZE
  SocketSpace, \* how many bytes a connection holds that were not read
  ShortReads,  \* TRUE if read() may return less than it was asked for
  Nil

Message == [by : Threads, no : 1 .. Sends, to : Nodes, size : Sizes]

\* Every message has a connection of its own.
Connections == Threads \X (1 .. Sends)
Connection(m) == <<m.by, m.no>>

Junk == 0       \* a byte nobody wrote
Header == 0     \* the size_t in front of a message

VARIABLES
  nth,       \* thread |-> how many messages it has begun to send
  sending,   \* thread |-> the message it sends, or Nil
  piece,     \* thread |-> the next piece: 0 for the size, i for chunk i - 1
  wire,      \* connection |-> the bytes sent over it that were not read
  backlog,   \* node |-> the connections to it that it has not accepted
  reading,   \* node |-> the message whose connection it has accepted, or Nil
  left,      \* node |-> how many bytes it has still to read, Nil before the size
  buffer,    \* node |-> what is in the buffer it reads into
  chars,     \* node |-> the bytes it has gathered
  received   \* node |-> the messages receive_msg() has returned

senderVars == <<nth, sending, piece>>
receiverVars == <<reading, left, buffer, chars, received>>
vars == <<senderVars, wire, backlog, receiverVars>>

EmptyBuffer == [i \in 1 .. ChunkSize |-> Junk]

Init ==
  /\ nth = [t \in Threads |-> 0]
  /\ sending = [t \in Threads |-> Nil]
  /\ piece = [t \in Threads |-> 0]
  /\ wire = [c \in Connections |-> <<>>]
  /\ backlog = [n \in Nodes |-> <<>>]
  /\ reading = [n \in Nodes |-> Nil]
  /\ left = [n \in Nodes |-> Nil]
  /\ buffer = [n \in Nodes |-> EmptyBuffer]
  /\ chars = [n \in Nodes |-> <<>>]
  /\ received = [n \in Nodes |-> <<>>]

-----------------------------------------------------------------------------
\* Sending

\* How many chunks the serializer's array has allocated when s bytes have been
\* pushed to it one by one (grow_to_fit_()).
NumChunks[s \in 0 .. Max(Sizes)] ==
  IF s = 0 THEN 1
  ELSE IF s <= ChunkSize * NumChunks[s - 1] THEN NumChunks[s - 1]
  ELSE (2 * s) \div ChunkSize + 1

\* Mutation: the loop over the chunks leaves out the last one.
PieceLengthDropsLast(m, i) ==
  IF i = NumChunks[m.size] - 1 THEN 0 ELSE ChunkSize

\* Mutation: the last chunk is sent like the others.
PieceLengthAlwaysFull(m, i) == ChunkSize

\* How many bytes of chunk i are sent.  The last allocated chunk is taken to
\* hold the rest of the message.
PieceLength(m, i) ==
  IF i = NumChunks[m.size] - 1 THEN m.size % ChunkSize ELSE ChunkSize

\* Those bytes.  A chunk behind the end of the message holds junk.
Piece(m, i) ==
  [j \in 1 .. PieceLength(m, i) |->
     IF i * ChunkSize + j <= m.size THEN i * ChunkSize + j ELSE Junk]

\* socket() and connect(): the connection queues at the target.
Connect(t, n, s) ==
  LET m == [by |-> t, no |-> nth[t] + 1, to |-> n, size |-> s]
  IN  /\ sending[t] = Nil
      /\ nth[t] < Sends
      /\ nth' = [nth EXCEPT ![t] = @ + 1]
      /\ sending' = [sending EXCEPT ![t] = m]
      /\ backlog' = [backlog EXCEPT ![n] = Append(@, m)]
      /\ UNCHANGED <<piece, wire, receiverVars>>

SendSize(t) ==
  /\ sending[t] # Nil
  /\ piece[t] = 0
  /\ wire' = [wire EXCEPT ![Connection(sending[t])] = Append(@, Header)]
  /\ piece' = [piece EXCEPT ![t] = 1]
  /\ UNCHANGED <<nth, sending, backlog, receiverVars>>

\* send() blocks while the connection has no room for the chunk.
SendChunk(t) ==
  LET m == sending[t]
      c == Connection(m)
  IN  /\ m # Nil
      /\ piece[t] \in 1 .. NumChunks[m.size]
      /\ Len(wire[c]) + PieceLength(m, piece[t] - 1) <= SocketSpace
      /\ wire' = [wire EXCEPT ![c] = @ \o Piece(m, piece[t] - 1)]
      /\ piece' = [piece EXCEPT ![t] = @ + 1]
      /\ UNCHANGED <<nth, sending, backlog, receiverVars>>

SendReturns(t) ==
  /\ sending[t] # Nil
  /\ piece[t] > NumChunks[sending[t].size]
  /\ sending' = [sending EXCEPT ![t] = Nil]
  /\ piece' = [piece EXCEPT ![t] = 0]
  /\ UNCHANGED <<nth, wire, backlog, receiverVars>>

-----------------------------------------------------------------------------
\* Receiving

Accept(n) ==
  /\ reading[n] = Nil
  /\ backlog[n] # <<>>
  /\ reading' = [reading EXCEPT ![n] = Head(backlog[n])]
  /\ backlog' = [backlog EXCEPT ![n] = Tail(@)]
  /\ UNCHANGED <<senderVars, wire, left, buffer, chars, received>>

ReadSize(n) ==
  /\ reading[n] # Nil
  /\ left[n] = Nil
  /\ wire[Connection(reading[n])] # <<>>
  /\ left' = [left EXCEPT ![n] = reading[n].size]
  /\ wire' = [wire EXCEPT ![Connection(reading[n])] = Tail(@)]
  /\ UNCHANGED <<senderVars, backlog, reading, buffer, chars, received>>

\* How much a read() that asks for `asked` bytes may return when `there` have
\* arrived.  It blocks when it can return nothing.
ReadResults(asked, there) ==
  IF ShortReads THEN 1 .. Min({asked, there})
                ELSE IF asked <= there THEN {asked} ELSE {}

\* Mutation: the bytes are gathered before they are read.
ReadChunkTooLate(n) ==
  /\ reading[n] # Nil
  /\ left[n] \notin {Nil, 0}
  /\ LET c == Connection(reading[n])
         asked == Min({left[n], ChunkSize})
     IN  \E r \in ReadResults(asked, Len(wire[c])) :
           /\ buffer' = [buffer EXCEPT ![n] =
                           [i \in 1 .. ChunkSize |-> IF i <= r THEN wire[c][i] ELSE @[i]]]
           /\ chars' = [chars EXCEPT ![n] = @ \o SubSeq(buffer[n], 1, asked)]
           /\ wire' = [wire EXCEPT ![c] = SubSeq(@, r + 1, Len(@))]
           /\ left' = [left EXCEPT ![n] = @ - r]
  /\ UNCHANGED <<senderVars, backlog, reading, received>>

\* One turn of the loop.  It gathers as many bytes as it asked for, whatever
\* read() returned.
ReadChunk(n) ==
  /\ reading[n] # Nil
  /\ left[n] \notin {Nil, 0}
  /\ LET c == Connection(reading[n])
         asked == Min({left[n], ChunkSize})
     IN  \E r \in ReadResults(asked, Len(wire[c])) :
           /\ buffer' = [buffer EXCEPT ![n] =
                           [i \in 1 .. ChunkSize |-> IF i <= r THEN wire[c][i] ELSE @[i]]]
           /\ chars' = [chars EXCEPT ![n] = @ \o SubSeq(buffer'[n], 1, asked)]
           /\ wire' = [wire EXCEPT ![c] = SubSeq(@, r + 1, Len(@))]
           /\ left' = [left EXCEPT ![n] = @ - r]
  /\ UNCHANGED <<senderVars, backlog, reading, received>>

\* The deserializer gets the message back if its bytes are in their places; what
\* follows them is not looked at.
Deserialized(n) ==
  IF \A i \in 1 .. reading[n].size : chars[n][i] = i THEN reading[n] ELSE Nil

Deliver(n) ==
  /\ reading[n] # Nil
  /\ left[n] = 0
  /\ received' = [received EXCEPT ![n] = Append(@, Deserialized(n))]
  /\ reading' = [reading EXCEPT ![n] = Nil]
  /\ left' = [left EXCEPT ![n] = Nil]
  /\ buffer' = [buffer EXCEPT ![n] = EmptyBuffer]
  /\ chars' = [chars EXCEPT ![n] = <<>>]
  /\ UNCHANGED <<senderVars, wire, backlog>>

-----------------------------------------------------------------------------
\* send_msg() from the first byte on.
SendsOn(t) == SendSize(t) \/ SendChunk(t) \/ SendReturns(t)

SendMsg(t) == (\E n \in Nodes, s \in Sizes : Connect(t, n, s)) \/ SendsOn(t)

ReceiveMsg(n) == Accept(n) \/ ReadSize(n) \/ ReadChunk(n) \/ Deliver(n)

Next == (\E t \in Threads : SendMsg(t)) \/ (\E n \in Nodes : ReceiveMsg(n))

\* A thread goes on with a message it has begun to send, and the servicer of
\* every node receives one message after the other.
Fairness ==
  /\ \A t \in Threads : WF_vars(SendsOn(t))
  /\ \A n \in Nodes : WF_vars(ReceiveMsg(n))

Spec == Init /\ [][Next]_vars
FairSpec == Spec /\ Fairness

-----------------------------------------------------------------------------
\* Concurrent senders, a receiver that takes the bytes out in pieces and a wire
\* that holds only part of a message are a mailbox: every message arrives whole
\* and the messages to a node arrive in the order of their connect().
Inbox(n) == (IF reading[n] = Nil THEN <<>> ELSE <<reading[n]>>) \o backlog[n]
Mail == INSTANCE Mailbox WITH Messages <- Message, inbox <- [n \in Nodes |-> Inbox(n)]

ImplementsMailbox == Mail!Spec

\* The same of short reads: network-ip.h:163 "Receives a message.", doc.md:156
\* "Our networkIP implementation is fixed".
ReceivedIntact == \A n \in Nodes : \A i \in 1 .. Len(received[n]) : received[n][i] # Nil

\* What a thread begins to send is received: no receiver waits for bytes nobody
\* sends, and no sender keeps another one's message from being read.  (The threads
\* begin only so many messages; in the end all of them have arrived.)
Arrived(t, k) ==
  \E n \in Nodes : \E i \in 1 .. Len(received[n]) :
    LET m == received[n][i] IN m # Nil /\ m.by = t /\ m.no = k
EverySendArrives == <>[](\A t \in Threads : \A k \in 1 .. nth[t] : Arrived(t, k))

\* send_msg() returns: in the end no sender is left with bytes nobody reads.
EverySendReturns == <>[](\A t \in Threads : sending[t] = Nil)

=============================================================================
