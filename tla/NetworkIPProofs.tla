-------------------------- MODULE NetworkIPProofs --------------------------
(***************************************************************************)
(* Proofs about NetworkIP: if read() returns what it is asked for, the     *)
(* connections to a node are a mailbox, for any number of nodes, threads   *)
(* and messages, any sizes and any size of the chunks.                     *)
(***************************************************************************)
EXTENDS NetworkIP, WellOrdering

\* What is assumed of the constants.
Proper ==
  /\ Sends \in Nat
  /\ Sizes \subseteq Nat \ {0} /\ IsFiniteSet(Sizes)
  /\ ChunkSize \in Nat \ {0}
  /\ Nil \notin Nat /\ Nil \notin Message
  /\ ~ShortReads

-----------------------------------------------------------------------------
\* The array of the serializer has at least one chunk.

LargestSize == Max(Sizes)

LEMMA SizesBounded ==
  ASSUME Proper, Sizes # {}
  PROVE  LargestSize \in Nat /\ \A s \in Sizes : s \in 0 .. LargestSize
<1>1. Sizes \in SUBSET Nat /\ IsFiniteSet(Sizes)
  BY DEF Proper
<1>2. PICK m \in Sizes : \A s \in Sizes : s <= m
  BY <1>1, GreatestNatural
<1>3. \E x \in Sizes : \A y \in Sizes : x >= y
  BY <1>1, <1>2
<1>4. LargestSize \in Sizes /\ \A s \in Sizes : LargestSize >= s
  BY <1>3 DEF LargestSize, Max
<1> QED
  BY <1>1, <1>4

\* The chunks after one more byte, when there were c.
Grown(c, s) == IF s <= ChunkSize * c THEN c ELSE (2 * s) \div ChunkSize + 1
Counts(f, n) == f = [s \in 0 .. n |-> IF s = 0 THEN 1 ELSE Grown(f[s - 1], s)]

LEMMA CountsExist == \A n \in Nat : \E f : Counts(f, n)
<1> DEFINE S == {n \in Nat : \E f : Counts(f, n)}
<1>1. 0 \in S
  <2> DEFINE f == [s \in 0 .. 0 |-> 1]
  <2>1. Counts(f, 0)
    BY DEF Counts
  <2> QED
    BY <2>1
<1>2. ASSUME NEW n \in Nat, n \in S PROVE n + 1 \in S
  <2>1. PICK f : Counts(f, n)
    BY <1>2
  <2> DEFINE g == [s \in 0 .. n + 1 |-> IF s = n + 1 THEN Grown(f[n], s) ELSE f[s]]
  <2>2. \A s \in 0 .. n + 1 : g[s] = IF s = 0 THEN 1 ELSE Grown(g[s - 1], s)
    BY <2>1 DEF Counts
  <2>3. Counts(g, n + 1)
    BY <2>2 DEF Counts
  <2> QED
    BY <2>3
<1> HIDE DEF S
<1>3. Nat \subseteq S
  BY <1>1, <1>2, SetInduction
<1> QED
  BY <1>3 DEF S

LEMMA GrownIsCount ==
  ASSUME Proper, NEW c \in Nat \ {0}, NEW s \in Nat
  PROVE  Grown(c, s) \in Nat \ {0}
<1>1. ChunkSize \in Nat \ {0} /\ 2 * s \in Nat
  BY DEF Proper
<1>2. (2 * s) \div ChunkSize \in Nat
  BY <1>1
<1> QED
  BY <1>2 DEF Grown

LEMMA ChunksCounted ==
  ASSUME Proper, NEW s \in Sizes
  PROVE  NumChunks[s] \in Nat \ {0}
<1> DEFINE N == CHOOSE f : Counts(f, LargestSize)
<1>1. LargestSize \in Nat /\ s \in 0 .. LargestSize
  BY SizesBounded
<1>2. Counts(N, LargestSize)
  BY <1>1, CountsExist
<1>3. NumChunks = N
  BY DEF NumChunks, Counts, Grown, LargestSize
<1> HIDE DEF N
<1>4. \A r \in 0 .. LargestSize : N[r] = IF r = 0 THEN 1 ELSE Grown(N[r - 1], r)
  BY <1>1, <1>2 DEF Counts
<1> DEFINE S == {n \in Nat : n <= LargestSize => N[n] \in Nat \ {0}}
<1>5. 0 \in S
  BY <1>1, <1>4
<1>6. ASSUME NEW n \in Nat, n \in S PROVE n + 1 \in S
  <2> SUFFICES ASSUME n + 1 <= LargestSize PROVE N[n + 1] \in Nat \ {0}
    OBVIOUS
  <2>1. n + 1 \in 0 .. LargestSize /\ n + 1 # 0 /\ n + 1 - 1 = n /\ n <= LargestSize
    BY <1>1
  <2>2. N[n + 1] = Grown(N[n], n + 1)
    <3>1. N[n + 1] = Grown(N[n + 1 - 1], n + 1)
      BY <1>4, <2>1
    <3> QED
      BY <2>1, <3>1
  <2>3. N[n] \in Nat \ {0}
    BY <1>6, <2>1
  <2> QED
    BY <2>2, <2>3, GrownIsCount
<1> HIDE DEF S
<1>7. Nat \subseteq S
  BY <1>5, <1>6, SetInduction
<1>8. N[s] \in Nat \ {0}
  BY <1>1, <1>7 DEF S
<1> QED
  BY <1>3, <1>8

-----------------------------------------------------------------------------
\* The invariant: what is on a connection is the next part of its message.

Types ==
  /\ nth \in [Threads -> Nat]
  /\ sending \in [Threads -> Message \cup {Nil}]
  /\ piece \in [Threads -> Nat]
  /\ wire \in [Connections -> Seq(Nat)]
  /\ backlog \in [Nodes -> Seq(Message)]
  /\ reading \in [Nodes -> Message \cup {Nil}]
  /\ left \in [Nodes -> Nat \cup {Nil}]
  /\ chars \in [Nodes -> Seq(Nat)]
  /\ buffer \in [Nodes -> [1 .. ChunkSize -> Nat]]
  /\ received \in [Nodes -> Seq(Message)]

\* The messages to node n that it has not received: the one it reads has number 0.
Slots(n) == {k \in 0 .. Len(backlog[n]) : k = 0 => reading[n] # Nil}
Slot(n, k) == IF k = 0 THEN reading[n] ELSE backlog[n][k]

\* The wire of that message, and how many things were taken from it.
WireOf(n, k) == wire[Connection(Slot(n, k))]
Taken(n, k) == IF k = 0 /\ left[n] # Nil THEN reading[n].size - left[n] + 1 ELSE 0

\* The j-th thing that is sent over the connection of message m.
Stream(m, j) == IF j = 1 THEN Header ELSE IF j - 1 <= m.size THEN j - 1 ELSE Junk

\* Over the wire w, from which some things were taken, comes the message m next,
Follows(m, taken, w) == \A j \in 1 .. Len(w) : w[j] = Stream(m, taken + j)

\* and all there is has been sent with the pieces before the p-th.
SentBefore(m, taken, w, p) ==
  p <= NumChunks[m.size] =>
    taken + Len(w) = IF p = 0 THEN 0 ELSE (p - 1) * ChunkSize + 1

WiresRight ==
  \A n \in Nodes : \A k \in Slots(n) :
    /\ Follows(Slot(n, k), Taken(n, k), WireOf(n, k))
    /\ sending[Slot(n, k).by] = Slot(n, k) =>
         SentBefore(Slot(n, k), Taken(n, k), WireOf(n, k), piece[Slot(n, k).by])

\* Every message has a connection of its own, which nobody has used before.
Begun ==
  /\ \A n \in Nodes : \A k \in Slots(n) : Slot(n, k).no <= nth[Slot(n, k).by]
  /\ \A n, i \in Nodes : \A k \in Slots(n), j \in Slots(i) :
       Connection(Slot(n, k)) = Connection(Slot(i, j)) => n = i /\ k = j
  /\ \A c \in Connections : c[2] > nth[c[1]] => wire[c] = <<>>

SendersRight ==
  \A t \in Threads :
    /\ sending[t] = Nil => piece[t] = 0
    /\ sending[t] # Nil =>
         /\ sending[t].by = t /\ sending[t].no = nth[t]
         /\ \A n \in Nodes : \A k \in Slots(n) :
              Connection(Slot(n, k)) = Connection(sending[t]) => Slot(n, k) = sending[t]

\* A reader has the first bytes of its message.
ReadersRight ==
  \A n \in Nodes :
    /\ reading[n] = Nil => left[n] = Nil
    /\ left[n] = Nil => chars[n] = <<>>
    /\ left[n] # Nil =>
         /\ left[n] <= reading[n].size
         /\ Len(chars[n]) = reading[n].size - left[n]
         /\ \A i \in 1 .. Len(chars[n]) : chars[n][i] = i

IInv == Types /\ WiresRight /\ Begun /\ SendersRight /\ ReadersRight

LEMMA InitInv == ASSUME Proper, Init PROVE IInv
<1>1. Types
  BY DEF Init, Types, EmptyBuffer, Junk
<1>2. \A n \in Nodes : Slots(n) = {}
  BY DEF Init, Slots
<1>3. WiresRight
  BY <1>2 DEF WiresRight
<1>4. Begun
  BY <1>2 DEF Init, Begun
<1>5. SendersRight
  BY DEF Init, SendersRight
<1>6. ReadersRight
  BY DEF Init, ReadersRight
<1> QED
  BY <1>1, <1>3, <1>4, <1>5, <1>6 DEF IInv

LEMMA MessageFacts ==
  ASSUME Proper, NEW m \in Message
  PROVE  /\ m.by \in Threads /\ m.no \in 1 .. Sends /\ m.to \in Nodes /\ m.size \in Sizes
         /\ m.no \in Nat /\ m.size \in Nat \ {0}
         /\ Connection(m) \in Connections /\ Connection(m)[1] = m.by /\ Connection(m)[2] = m.no
         /\ m # Nil
<1>1. /\ m.by \in Threads /\ m.no \in 1 .. Sends /\ m.to \in Nodes /\ m.size \in Sizes
  BY DEF Message
<1>2. m.no \in Nat /\ m.size \in Nat \ {0} /\ m # Nil
  <2>1. Sends \in Nat /\ Sizes \subseteq Nat \ {0} /\ Nil \notin Message
    BY DEF Proper
  <2>2. m # Nil
    BY <2>1, Zenon
  <2>3. m.no \in Nat
    BY <1>1, <2>1
  <2>4. m.size \in Nat \ {0}
    BY <1>1, <2>1
  <2> QED
    BY <2>2, <2>3, <2>4
<1>3. Connection(m) = <<m.by, m.no>>
  BY DEF Connection
<1>4. Connection(m) \in Connections /\ Connection(m)[1] = m.by /\ Connection(m)[2] = m.no
  BY <1>1, <1>3 DEF Connections
<1> QED
  BY <1>1, <1>2, <1>4

LEMMA SlotFacts ==
  ASSUME Proper, Types, NEW n \in Nodes, NEW k \in Slots(n)
  PROVE  /\ Slot(n, k) \in Message /\ Connection(Slot(n, k)) \in Connections
         /\ WireOf(n, k) \in Seq(Nat)
<1>1. Slot(n, k) \in Message
  <2>1. CASE k = 0
    BY <2>1 DEF Slots, Slot, Types
  <2>2. CASE k # 0
    <3>1. backlog[n] \in Seq(Message) /\ k \in 1 .. Len(backlog[n])
      BY <2>2 DEF Slots, Types
    <3> QED
      BY <2>2, <3>1 DEF Slot
  <2> QED
    BY <2>1, <2>2
<1>2. Connection(Slot(n, k)) \in Connections
  BY <1>1, MessageFacts
<1> QED
  BY <1>1, <1>2 DEF Types, WireOf

LEMMA PieceFacts ==
  ASSUME Proper, NEW m \in Message, NEW p \in 1 .. NumChunks[m.size]
  PROVE  /\ NumChunks[m.size] \in Nat /\ p \in Nat
         /\ PieceLength(m, p - 1) \in Nat
         /\ p < NumChunks[m.size] => PieceLength(m, p - 1) = ChunkSize
         /\ Piece(m, p - 1) \in Seq(Nat)
         /\ Len(Piece(m, p - 1)) = PieceLength(m, p - 1)
         /\ \A j \in 1 .. PieceLength(m, p - 1) :
              Piece(m, p - 1)[j] = Stream(m, (p - 1) * ChunkSize + 1 + j)
<1>1. /\ NumChunks[m.size] \in Nat /\ p \in Nat /\ ChunkSize \in Nat \ {0}
      /\ m.size \in Nat
  BY MessageFacts, ChunksCounted DEF Proper
<1>2. m.size % ChunkSize \in Nat
  BY <1>1
<1>3. /\ PieceLength(m, p - 1) \in Nat
      /\ p < NumChunks[m.size] => PieceLength(m, p - 1) = ChunkSize
  BY <1>1, <1>2 DEF PieceLength
<1>4. (p - 1) * ChunkSize \in Nat
  BY <1>1
<1> DEFINE o == (p - 1) * ChunkSize
           L == PieceLength(m, p - 1)
<1>5. Piece(m, p - 1) = [j \in 1 .. L |-> IF o + j <= m.size THEN o + j ELSE Junk]
  BY DEF Piece
<1>6. o \in Nat /\ L \in Nat
  BY <1>3, <1>4
<1> HIDE DEF o, L
<1>7. \A j \in 1 .. L : (IF o + j <= m.size THEN o + j ELSE Junk) \in Nat
  BY <1>1, <1>6 DEF Junk
<1>8. Piece(m, p - 1) \in Seq(Nat) /\ Len(Piece(m, p - 1)) = L
  <2>1. PICK f \in [1 .. L -> Nat] : f = Piece(m, p - 1)
    BY <1>5, <1>7
  <2>2. f \in Seq(Nat) /\ Len(f) = L
    BY <1>6
  <2> QED
    BY <2>1, <2>2
<1>9. \A j \in 1 .. L : Piece(m, p - 1)[j] = Stream(m, o + 1 + j)
  <2> SUFFICES ASSUME NEW j \in 1 .. L PROVE Piece(m, p - 1)[j] = Stream(m, o + 1 + j)
    OBVIOUS
  <2>1. PICK q : q = o + 1 + j /\ q # 1 /\ q - 1 = o + j
    BY <1>6
  <2>2. Stream(m, q) = IF o + j <= m.size THEN o + j ELSE Junk
    BY <2>1 DEF Stream
  <2>3. Piece(m, p - 1)[j] = IF o + j <= m.size THEN o + j ELSE Junk
    BY <1>5
  <2> QED
    BY <2>1, <2>2, <2>3
<1> QED
  BY <1>1, <1>3, <1>8, <1>9 DEF o, L

-----------------------------------------------------------------------------
\* The steps of a sender.

LEMMA SlotsStay ==
  ASSUME UNCHANGED <<backlog, reading, left>>
  PROVE  \A n \in Nodes :
           /\ Slots(n)' = Slots(n)
           /\ \A k \in Slots(n) : Slot(n, k)' = Slot(n, k) /\ Taken(n, k)' = Taken(n, k)
BY DEF Slots, Slot, Taken

\* A sender only disturbs the connection of the message it sends.
LEMMA SenderKeeps ==
  ASSUME Proper, IInv, NEW t \in Threads, sending[t] # Nil,
         UNCHANGED <<nth, backlog, receiverVars>>,
         \A d \in Connections : d # Connection(sending[t]) => wire'[d] = wire[d],
         \A u \in Threads \ {t} : sending'[u] = sending[u] /\ piece'[u] = piece[u],
         sending'[t] \in {sending[t], Nil}, sending'[t] = Nil => piece'[t] = 0,
         \A n \in Nodes : \A k \in Slots(n) : Slot(n, k) = sending[t] =>
           /\ Follows(sending[t], Taken(n, k), wire'[Connection(sending[t])])
           /\ sending'[t] = sending[t] =>
                SentBefore(sending[t], Taken(n, k), wire'[Connection(sending[t])], piece'[t])
  PROVE  WiresRight' /\ Begun' /\ SendersRight' /\ ReadersRight'
<1> DEFINE m == sending[t]
<1>1. /\ m \in Message /\ m.by = t /\ m.no = nth[t] /\ m # Nil
      /\ Connection(m) \in Connections
      /\ \A n \in Nodes : \A k \in Slots(n) :
           Connection(Slot(n, k)) = Connection(m) => Slot(n, k) = m
  <2>1. m \in Message
    BY DEF IInv, Types
  <2> QED
    BY <2>1, MessageFacts DEF IInv, SendersRight
<1>2. /\ \A n \in Nodes : Slots(n)' = Slots(n)
      /\ \A n \in Nodes : \A k \in Slots(n) :
           /\ Slot(n, k)' = Slot(n, k) /\ Taken(n, k)' = Taken(n, k)
           /\ WireOf(n, k)' = wire'[Connection(Slot(n, k))]
  BY SlotsStay DEF receiverVars, WireOf, Connection
<1> HIDE DEF m
<1>3. WiresRight'
  <2> SUFFICES ASSUME NEW n \in Nodes, NEW k \in Slots(n)
               PROVE  /\ Follows(Slot(n, k), Taken(n, k), wire'[Connection(Slot(n, k))])
                      /\ sending'[Slot(n, k).by] = Slot(n, k) =>
                           SentBefore(Slot(n, k), Taken(n, k), wire'[Connection(Slot(n, k))],
                                      piece'[Slot(n, k).by])
    BY <1>2 DEF WiresRight, Follows, SentBefore, Stream
  <2>1. CASE Slot(n, k) = m
    BY <1>1, <2>1 DEF m
  <2>2. CASE Slot(n, k) # m
    <3> DEFINE s == Slot(n, k)
    <3>1. s \in Message /\ Connection(s) \in Connections /\ s.by \in Threads /\ s # Nil
      BY SlotFacts, MessageFacts DEF IInv
    <3>2. wire'[Connection(s)] = wire[Connection(s)]
      BY <1>1, <2>2, <3>1 DEF m
    <3>3. sending'[s.by] = s => sending[s.by] = s /\ piece'[s.by] = piece[s.by]
      BY <2>2, <3>1 DEF m
    <3>4. /\ Follows(s, Taken(n, k), wire[Connection(s)])
          /\ sending[s.by] = s => SentBefore(s, Taken(n, k), wire[Connection(s)], piece[s.by])
      BY DEF IInv, WiresRight, WireOf
    <3> QED
      BY <3>2, <3>3, <3>4
  <2> QED
    BY <2>1, <2>2
<1>4. Begun'
  <2>1. ASSUME NEW c \in Connections, c[2] > nth[c[1]] PROVE wire'[c] = <<>>
    <3>1. Connection(m)[1] = t /\ Connection(m)[2] = nth[t] /\ nth[t] \in Nat
      BY <1>1, MessageFacts DEF IInv, Types
    <3>2. c # Connection(m)
      BY <2>1, <3>1
    <3> QED
      BY <2>1, <3>2 DEF IInv, Begun, m
  <2>2. /\ \A n \in Nodes : \A k \in Slots(n) : Slot(n, k).no <= nth[Slot(n, k).by]
        /\ \A n, i \in Nodes : \A k \in Slots(n), j \in Slots(i) :
             Connection(Slot(n, k)) = Connection(Slot(i, j)) => n = i /\ k = j
    BY DEF IInv, Begun
  <2>3. \A n \in Nodes : \A k \in Slots(n) : Connection(Slot(n, k))' = Connection(Slot(n, k))
    BY <1>2 DEF Connection
  <2> QED
    BY <1>2, <2>1, <2>2, <2>3 DEF Begun
<1>5. SendersRight'
  <2>1. ASSUME NEW u \in Threads
        PROVE  /\ sending'[u] = Nil => piece'[u] = 0
               /\ sending'[u] # Nil =>
                    /\ sending'[u].by = u /\ sending'[u].no = nth[u]
                    /\ \A n \in Nodes : \A k \in Slots(n) :
                         Connection(Slot(n, k)) = Connection(sending'[u]) =>
                           Slot(n, k) = sending'[u]
    <3>1. \/ sending'[u] = sending[u] /\ (u # t => piece'[u] = piece[u])
          \/ u = t /\ sending'[u] = Nil
      OBVIOUS
    <3> QED
      BY <3>1 DEF IInv, SendersRight
  <2>2. ASSUME NEW u \in Threads, sending'[u] # Nil, NEW n \in Nodes, NEW k \in Slots(n)
        PROVE  (Connection(Slot(n, k)) = Connection(sending[u]) =>
                  Slot(n, k) = sending[u])'
    <3>1. Slot(n, k)' = Slot(n, k)
      BY <1>2
    <3>2. Connection(Slot(n, k))' = Connection(Slot(n, k))
      BY <3>1 DEF Connection
    <3>3. Connection(sending[u])' = Connection(sending'[u])
      BY DEF Connection
    <3>4. Connection(Slot(n, k)) = Connection(sending'[u]) => Slot(n, k) = sending'[u]
      BY <2>1, <2>2
    <3> QED
      BY <3>1, <3>2, <3>3, <3>4
  <2>3. ASSUME NEW u \in Threads, sending'[u] # Nil
        PROVE  (\A n \in Nodes : \A k \in Slots(n) :
                  Connection(Slot(n, k)) = Connection(sending[u]) =>
                    Slot(n, k) = sending[u])'
    BY <1>2, <2>2, <2>3
  <2> QED
    BY <2>1, <2>3 DEF SendersRight
<1>6. ReadersRight'
  BY DEF IInv, ReadersRight, receiverVars
<1> QED
  BY <1>3, <1>4, <1>5, <1>6

LEMMA TakenFacts ==
  ASSUME Proper, IInv, NEW n \in Nodes, NEW k \in Slots(n)
  PROVE  Taken(n, k) \in Nat
<1>1. CASE k = 0 /\ left[n] # Nil
  <2>1. reading[n] \in Message /\ left[n] \in Nat /\ left[n] <= reading[n].size
    BY <1>1 DEF IInv, Types, Slots, ReadersRight
  <2>2. reading[n].size \in Nat
    BY <2>1, MessageFacts
  <2> QED
    BY <1>1, <2>1, <2>2 DEF Taken
<1>2. CASE ~(k = 0 /\ left[n] # Nil)
  BY <1>2 DEF Taken
<1> QED
  BY <1>1, <1>2

\* What follows on the wire when the right bytes are added to it.
LEMMA FollowsOn ==
  ASSUME NEW m, NEW taken \in Nat, NEW w \in Seq(Nat), NEW more \in Seq(Nat),
         Follows(m, taken, w),
         \A j \in 1 .. Len(more) : more[j] = Stream(m, taken + Len(w) + j)
  PROVE  Follows(m, taken, w \o more)
<1> SUFFICES ASSUME NEW j \in 1 .. Len(w \o more)
             PROVE  (w \o more)[j] = Stream(m, taken + j)
  BY DEF Follows
<1>1. CASE j <= Len(w)
  <2>1. (w \o more)[j] = w[j] /\ j \in 1 .. Len(w)
    BY <1>1
  <2> QED
    BY <2>1 DEF Follows
<1>2. CASE j > Len(w)
  <2>1. (w \o more)[j] = more[j - Len(w)] /\ j - Len(w) \in 1 .. Len(more)
    BY <1>2
  <2>2. taken + Len(w) + (j - Len(w)) = taken + j
    OBVIOUS
  <2> QED
    BY <2>1, <2>2
<1> QED
  BY <1>1, <1>2

LEMMA SendSizeKeeps ==
  ASSUME Proper, IInv, NEW t \in Threads, SendSize(t)
  PROVE  IInv'
<1> DEFINE m == sending[t]
           c == Connection(m)
           w == wire[c]
<1>1. m \in Message /\ m # Nil /\ c \in Connections /\ w \in Seq(Nat) /\ m.by = t
  BY MessageFacts DEF IInv, Types, SendSize, SendersRight
<1>2. wire' = [wire EXCEPT ![c] = Append(w, Header)] /\ wire'[c] = Append(w, Header)
  BY <1>1 DEF SendSize, IInv, Types
<1>3. piece' = [piece EXCEPT ![t] = 1] /\ piece'[t] = 1 /\ piece[t] = 0
  BY DEF SendSize, IInv, Types
<1>4. ASSUME NEW n \in Nodes, NEW k \in Slots(n), Slot(n, k) = m
      PROVE  /\ Follows(m, Taken(n, k), Append(w, Header))
             /\ SentBefore(m, Taken(n, k), Append(w, Header), 1)
  <2>1. Taken(n, k) \in Nat /\ NumChunks[m.size] \in Nat \ {0}
    BY <1>1, TakenFacts, MessageFacts, ChunksCounted
  <2>2. SentBefore(m, Taken(n, k), w, 0)
    BY <1>1, <1>3, <1>4 DEF IInv, WiresRight, WireOf
  <2>3. Taken(n, k) + Len(w) = 0
    BY <2>1, <2>2 DEF SentBefore
  <2>4. Taken(n, k) = 0 /\ Len(w) = 0
    BY <1>1, <2>1, <2>3
  <2>5. Append(w, Header) \in Seq(Nat) /\ Len(Append(w, Header)) = 1
        /\ Append(w, Header)[1] = Header
    BY <1>1, <2>4 DEF Header
  <2>6. Follows(m, 0, Append(w, Header))
    BY <2>5 DEF Follows, Stream
  <2>7. SentBefore(m, 0, Append(w, Header), 1)
    <3>1. (1 - 1) * ChunkSize + 1 = 1
      BY DEF Proper
    <3> QED
      BY <2>5, <3>1 DEF SentBefore
  <2> QED
    BY <2>4, <2>6, <2>7
<1>5. Types'
  <2>1. wire' \in [Connections -> Seq(Nat)]
    BY <1>1, <1>2 DEF IInv, Types, Header
  <2> QED
    BY <1>3, <2>1 DEF IInv, Types, SendSize, receiverVars
<1>6. sending' = sending /\ UNCHANGED <<nth, backlog, receiverVars>>
  BY DEF SendSize
<1>7. \A d \in Connections : d # c => wire'[d] = wire[d]
  BY <1>2 DEF IInv, Types
<1>8. \A u \in Threads \ {t} : sending'[u] = sending[u] /\ piece'[u] = piece[u]
  BY <1>3, <1>6 DEF IInv, Types
<1>9. WiresRight' /\ Begun' /\ SendersRight' /\ ReadersRight'
  <2>1. \A n \in Nodes : \A k \in Slots(n) : Slot(n, k) = sending[t] =>
          /\ Follows(sending[t], Taken(n, k), wire'[Connection(sending[t])])
          /\ sending'[t] = sending[t] =>
               SentBefore(sending[t], Taken(n, k), wire'[Connection(sending[t])], piece'[t])
    BY <1>2, <1>3, <1>4
  <2>2. sending'[t] = sending[t] /\ sending'[t] # Nil /\ sending[t] # Nil
    BY <1>1, <1>6
  <2> HIDE DEF w
  <2> QED
    BY <2>1, <2>2, <1>6, <1>7, <1>8, SenderKeeps
<1> QED
  BY <1>5, <1>9 DEF IInv

\* Where the stream ends after one more piece of C.
LEMMA PieceEnd ==
  ASSUME NEW T \in Nat, NEW l \in Nat, NEW o \in Nat, NEW C \in Nat, T + l = o + 1
  PROVE  T + (l + C) = o + C + 1
OBVIOUS

LEMMA SendChunkKeeps ==
  ASSUME Proper, IInv, NEW t \in Threads, SendChunk(t)
  PROVE  IInv'
<1> DEFINE m == sending[t]
           c == Connection(m)
           w == wire[c]
           p == piece[t]
           s == Piece(m, p - 1)
<1>1. m \in Message /\ m # Nil /\ c \in Connections /\ w \in Seq(Nat) /\ m.by = t
  BY MessageFacts DEF IInv, Types, SendChunk, SendersRight
<1>2. p \in 1 .. NumChunks[m.size] /\ NumChunks[m.size] \in Nat /\ p \in Nat
  <2>1. NumChunks[m.size] \in Nat
    BY <1>1, MessageFacts, ChunksCounted
  <2> QED
    BY <2>1 DEF SendChunk
<1>3. s \in Seq(Nat) /\ Len(s) \in Nat /\ Len(s) = PieceLength(m, p - 1)
  BY <1>1, <1>2, PieceFacts
<1>4. wire' = [wire EXCEPT ![c] = w \o s] /\ wire'[c] = w \o s
  BY <1>1 DEF SendChunk, IInv, Types
<1>5. piece' = [piece EXCEPT ![t] = p + 1] /\ piece'[t] = p + 1
  BY DEF SendChunk, IInv, Types
<1>6. ASSUME NEW n \in Nodes, NEW k \in Slots(n), Slot(n, k) = m
      PROVE  /\ Follows(m, Taken(n, k), w \o s)
             /\ SentBefore(m, Taken(n, k), w \o s, p + 1)
  <2> DEFINE T == Taken(n, k)
             o == (p - 1) * ChunkSize
  <2>1. T \in Nat /\ o \in Nat /\ ChunkSize \in Nat
    BY <1>2, TakenFacts DEF Proper
  <2>2. Follows(m, T, w) /\ SentBefore(m, T, w, p)
    BY <1>1, <1>6 DEF IInv, WiresRight, WireOf
  <2>3. T + Len(w) = o + 1
    BY <1>2, <2>2 DEF SentBefore
  <2>4. \A j \in 1 .. Len(s) : s[j] = Stream(m, o + 1 + j)
    BY <1>1, <1>2, <1>3, PieceFacts
  <2>5. p < NumChunks[m.size] => Len(s) = ChunkSize
    BY <1>1, <1>2, <1>3, PieceFacts
  <2>6. Follows(m, T, w \o s)
    <3> HIDE DEF T, o, w, s, m
    <3> QED
      BY <1>1, <1>3, <2>1, <2>2, <2>3, <2>4, FollowsOn
  <2>7. SentBefore(m, T, w \o s, p + 1)
    <3>1. p * ChunkSize = o + ChunkSize /\ p + 1 - 1 = p
      BY <1>2, <2>1
    <3>2. Len(w \o s) = Len(w) + Len(s) /\ Len(w) \in Nat
      BY <1>1, <1>3
    <3>3. p + 1 <= NumChunks[m.size] => T + Len(w \o s) = p * ChunkSize + 1
      <4>1. p + 1 <= NumChunks[m.size] => p < NumChunks[m.size]
        BY <1>2
      <4> HIDE DEF T, o, w, s, m, p
      <4>2. T + (Len(w) + ChunkSize) = o + ChunkSize + 1
        BY <2>1, <2>3, <3>2, PieceEnd
      <4> QED
        BY <2>5, <3>1, <3>2, <4>1, <4>2
    <3>4. p + 1 # 0
      BY <1>2
    <3>5. p \in Nat
      BY <1>2
    <3> HIDE DEF T, o, w, s, m, p
    <3>6. PICK q \in Nat : q = p + 1 /\ q # 0 /\ q - 1 = p
      BY <3>5
    <3>7. SentBefore(m, T, w \o s, q)
      BY <3>3, <3>6 DEF SentBefore
    <3> QED
      BY <3>7, <3>6
  <2> QED
    BY <2>6, <2>7
<1>7. Types'
  <2>1. wire' \in [Connections -> Seq(Nat)]
    BY <1>1, <1>3, <1>4 DEF IInv, Types
  <2>2. piece' \in [Threads -> Nat]
    BY <1>2, <1>5 DEF IInv, Types
  <2> QED
    BY <2>1, <2>2 DEF IInv, Types, SendChunk, receiverVars
<1>8. sending' = sending /\ UNCHANGED <<nth, backlog, receiverVars>>
  BY DEF SendChunk
<1>9. \A d \in Connections : d # c => wire'[d] = wire[d]
  BY <1>4 DEF IInv, Types
<1>10. \A u \in Threads \ {t} : sending'[u] = sending[u] /\ piece'[u] = piece[u]
  BY <1>5, <1>8 DEF IInv, Types
<1>11. WiresRight' /\ Begun' /\ SendersRight' /\ ReadersRight'
  <2>1. \A n \in Nodes : \A k \in Slots(n) : Slot(n, k) = sending[t] =>
          /\ Follows(sending[t], Taken(n, k), wire'[Connection(sending[t])])
          /\ sending'[t] = sending[t] =>
               SentBefore(sending[t], Taken(n, k), wire'[Connection(sending[t])], piece'[t])
    BY <1>4, <1>5, <1>6
  <2>2. sending'[t] = sending[t] /\ sending'[t] # Nil /\ sending[t] # Nil
    BY <1>1, <1>8
  <2> HIDE DEF w, s, p
  <2> QED
    BY <2>1, <2>2, <1>8, <1>9, <1>10, SenderKeeps
<1> QED
  BY <1>7, <1>11 DEF IInv

LEMMA SendReturnsKeeps ==
  ASSUME Proper, IInv, NEW t \in Threads, SendReturns(t)
  PROVE  IInv'
<1>1. /\ sending[t] # Nil /\ sending[t] \in Message
      /\ UNCHANGED <<nth, wire, backlog, receiverVars>>
      /\ sending' = [sending EXCEPT ![t] = Nil] /\ sending'[t] = Nil
      /\ piece' = [piece EXCEPT ![t] = 0] /\ piece'[t] = 0
  BY DEF IInv, Types, SendReturns
<1>2. Types'
  <2>1. sending' \in [Threads -> Message \cup {Nil}] /\ piece' \in [Threads -> Nat]
    BY <1>1 DEF IInv, Types
  <2> QED
    BY <1>1, <2>1 DEF IInv, Types, receiverVars
<1>3. \A u \in Threads \ {t} : sending'[u] = sending[u] /\ piece'[u] = piece[u]
  BY <1>1 DEF IInv, Types
<1>4. \A n \in Nodes : \A k \in Slots(n) : Slot(n, k) = sending[t] =>
        Follows(sending[t], Taken(n, k), wire[Connection(sending[t])])
  BY DEF IInv, WiresRight, WireOf
<1>5. WiresRight' /\ Begun' /\ SendersRight' /\ ReadersRight'
  BY <1>1, <1>3, <1>4, SenderKeeps
<1> QED
  BY <1>2, <1>5 DEF IInv

LEMMA ConnectKeeps ==
  ASSUME Proper, IInv, NEW t \in Threads, NEW n \in Nodes, NEW s \in Sizes, Connect(t, n, s)
  PROVE  IInv'
<1> DEFINE m == [by |-> t, no |-> nth[t] + 1, to |-> n, size |-> s]
<1>1. /\ m \in Message /\ m.by = t /\ m.no = nth[t] + 1 /\ m # Nil
      /\ Connection(m) = <<t, nth[t] + 1>> /\ Connection(m) \in Connections
  <2>1. nth[t] + 1 \in 1 .. Sends
    BY DEF Connect, IInv, Types, Proper
  <2>2. m \in Message
    BY <2>1 DEF Message
  <2> QED
    BY <2>2, MessageFacts DEF Connection
<1>2. /\ sending[t] = Nil /\ UNCHANGED <<piece, wire, receiverVars>>
      /\ nth' = [nth EXCEPT ![t] = nth[t] + 1] /\ nth'[t] = nth[t] + 1 /\ nth[t] \in Nat
      /\ sending' = [sending EXCEPT ![t] = m] /\ sending'[t] = m
      /\ backlog' = [backlog EXCEPT ![n] = Append(backlog[n], m)]
      /\ backlog[n] \in Seq(Message)
  BY DEF Connect, IInv, Types
<1> HIDE DEF m
<1>3. backlog'[n] = Append(backlog[n], m)
  BY <1>2 DEF IInv, Types
<1> PICK q : q = Len(backlog[n]) + 1
  OBVIOUS
<1>4. q \in Nat \ {0} /\ Len(backlog'[n]) = q /\ backlog'[n][q] = m
      /\ \A k \in 1 .. q - 1 : backlog'[n][k] = backlog[n][k]
  BY <1>1, <1>2, <1>3
<1>5. Slots(n)' = Slots(n) \cup {q} /\ q \notin Slots(n)
  <2>1. 0 .. q = (0 .. q - 1) \cup {q} /\ q # 0 /\ q - 1 = Len(backlog[n])
    BY <1>2, <1>4
  <2>2. \A k : k \in Slots(n)' <=> k \in 0 .. q /\ (k = 0 => reading[n] # Nil)
    BY <1>2, <1>4 DEF Slots, receiverVars
  <2>3. \A k : k \in Slots(n) <=> k \in 0 .. q - 1 /\ (k = 0 => reading[n] # Nil)
    BY <2>1 DEF Slots
  <2>4. q \notin 0 .. q - 1
    BY <1>4
  <2> QED
    BY <2>1, <2>2, <2>3, <2>4
<1>6. \A i \in Nodes \ {n} : Slots(i)' = Slots(i)
  BY <1>2 DEF Slots, receiverVars, IInv, Types
<1>7. \A i \in Nodes : \A k \in Slots(i) :
        /\ k \in Slots(i)' /\ Slot(i, k)' = Slot(i, k)
        /\ Taken(i, k)' = Taken(i, k) /\ WireOf(i, k)' = WireOf(i, k)
  <2> SUFFICES ASSUME NEW i \in Nodes, NEW k \in Slots(i)
               PROVE  /\ k \in Slots(i)' /\ Slot(i, k)' = Slot(i, k)
                      /\ Taken(i, k)' = Taken(i, k) /\ WireOf(i, k)' = WireOf(i, k)
    OBVIOUS
  <2>1. k \in Slots(i)'
    BY <1>5, <1>6
  <2>2. k # 0 => backlog'[i][k] = backlog[i][k]
    <3>1. CASE i = n
      BY <1>4, <3>1 DEF Slots
    <3>2. CASE i # n
      BY <1>2, <3>2 DEF IInv, Types
    <3> QED
      BY <3>1, <3>2
  <2>3. Slot(i, k)' = Slot(i, k)
    BY <1>2, <2>2 DEF Slot, receiverVars
  <2>4. Taken(i, k)' = Taken(i, k)
    BY <1>2 DEF Taken, receiverVars
  <2>5. WireOf(i, k)' = WireOf(i, k)
    BY <1>2, <2>3 DEF WireOf, Connection
  <2> QED
    BY <2>1, <2>3, <2>4, <2>5
<1>8. Slot(n, q)' = m /\ Taken(n, q)' = 0 /\ WireOf(n, q)' = <<>>
  <2>1. Slot(n, q)' = m
    BY <1>4 DEF Slot
  <2>2. q # 0
    BY <1>3, <1>4
  <2>3. Connection(m)[1] = t /\ Connection(m)[2] = nth[t] + 1
    BY <1>1
  <2>4. wire[Connection(m)] = <<>>
    BY <1>1, <1>2, <2>3 DEF IInv, Begun
  <2>5. WireOf(n, q)' = wire'[Connection(Slot(n, q)')]
    BY DEF WireOf, Connection
  <2> QED
    BY <1>2, <2>1, <2>2, <2>4, <2>5 DEF Taken
<1>9. ASSUME NEW i \in Nodes, NEW k \in Slots(i)
      PROVE  /\ Slot(i, k).by \in Threads /\ Slot(i, k) # m
             /\ Connection(Slot(i, k)) # Connection(m)
             /\ sending'[Slot(i, k).by] = Slot(i, k) => sending[Slot(i, k).by] = Slot(i, k)
  <2>1. /\ Slot(i, k).by \in Threads
        /\ Connection(Slot(i, k))[1] = Slot(i, k).by /\ Connection(Slot(i, k))[2] = Slot(i, k).no
        /\ Slot(i, k).no \in Nat
    BY SlotFacts, MessageFacts DEF IInv
  <2>2. Slot(i, k).no <= nth[Slot(i, k).by]
    BY DEF IInv, Begun
  <2>3. Connection(Slot(i, k)) # Connection(m)
    <3> SUFFICES ASSUME Connection(Slot(i, k)) = Connection(m) PROVE FALSE
      OBVIOUS
    <3>1. Slot(i, k).by = t /\ Slot(i, k).no = nth[t] + 1
      BY <1>1, <2>1
    <3> QED
      BY <1>2, <2>2, <3>1
  <2>4. Slot(i, k) # m
    BY <2>3
  <2>5. Slot(i, k).by # t => sending'[Slot(i, k).by] = sending[Slot(i, k).by]
    BY <1>2, <2>1 DEF IInv, Types
  <2> QED
    BY <1>2, <2>1, <2>3, <2>4, <2>5
<1>10. Types'
  <2>1. nth' \in [Threads -> Nat]
    BY <1>2 DEF IInv, Types
  <2>2. sending' \in [Threads -> Message \cup {Nil}]
    BY <1>1, <1>2 DEF IInv, Types
  <2>3. backlog' \in [Nodes -> Seq(Message)]
    BY <1>1, <1>2 DEF IInv, Types
  <2> QED
    BY <1>2, <2>1, <2>2, <2>3 DEF IInv, Types, receiverVars
<1>11. WiresRight'
  <2>1. ASSUME NEW i \in Nodes, NEW k \in Slots(i)
        PROVE  (/\ Follows(Slot(i, k), Taken(i, k), WireOf(i, k))
                /\ sending[Slot(i, k).by] = Slot(i, k) =>
                     SentBefore(Slot(i, k), Taken(i, k), WireOf(i, k), piece[Slot(i, k).by]))'
    <3>1. /\ Follows(Slot(i, k), Taken(i, k), WireOf(i, k))
          /\ sending[Slot(i, k).by] = Slot(i, k) =>
               SentBefore(Slot(i, k), Taken(i, k), WireOf(i, k), piece[Slot(i, k).by])
      BY DEF IInv, WiresRight
    <3>2. sending'[Slot(i, k).by] = Slot(i, k) => sending[Slot(i, k).by] = Slot(i, k)
      BY <1>9
    <3> QED
      BY <1>2, <1>7, <3>1, <3>2 DEF Follows, SentBefore, Stream
  <2>2. (/\ Follows(Slot(n, q), Taken(n, q), WireOf(n, q))
         /\ sending[Slot(n, q).by] = Slot(n, q) =>
              SentBefore(Slot(n, q), Taken(n, q), WireOf(n, q), piece[Slot(n, q).by]))'
    <3>1. Follows(m, 0, <<>>)
      BY DEF Follows
    <3>2. piece[t] = 0
      BY <1>2 DEF IInv, SendersRight
    <3>3. SentBefore(m, 0, <<>>, 0)
      BY DEF SentBefore
    <3>4. (Follows(Slot(n, q), Taken(n, q), WireOf(n, q)))' = Follows(m, 0, <<>>)
      BY <1>8 DEF Follows, Stream
    <3>5. (SentBefore(Slot(n, q), Taken(n, q), WireOf(n, q), piece[t]))' = SentBefore(m, 0, <<>>, 0)
      BY <1>2, <1>8, <3>2 DEF SentBefore
    <3> QED
      BY <1>1, <1>8, <3>1, <3>3, <3>4, <3>5
  <2> QED
    BY <1>5, <1>6, <2>1, <2>2 DEF WiresRight
<1>12. Begun'
  <2>1. \A i \in Nodes : \A k \in Slots(i) : (Slot(i, k).no <= nth[Slot(i, k).by])'
    <3> SUFFICES ASSUME NEW i \in Nodes, NEW k \in Slots(i)
                 PROVE  Slot(i, k).no <= nth'[Slot(i, k).by]
      BY <1>7
    <3>1. Slot(i, k).by \in Threads /\ Slot(i, k).no \in Nat
      BY SlotFacts, MessageFacts DEF IInv
    <3>2. Slot(i, k).no <= nth[Slot(i, k).by]
      BY DEF IInv, Begun
    <3> QED
      BY <1>2, <3>1, <3>2 DEF IInv, Types
  <2>2. (Slot(n, q).no <= nth[Slot(n, q).by])'
    BY <1>1, <1>2, <1>8
  <2>3. \A i, j \in Nodes : \A k \in Slots(i), l \in Slots(j) :
          (Connection(Slot(i, k)) = Connection(Slot(j, l)))' => i = j /\ k = l
    <3> SUFFICES ASSUME NEW i \in Nodes, NEW j \in Nodes, NEW k \in Slots(i), NEW l \in Slots(j),
                        Connection(Slot(i, k)) = Connection(Slot(j, l))
                 PROVE  i = j /\ k = l
      BY <1>7 DEF Connection
    <3> QED
      BY DEF IInv, Begun
  <2>4. \A i \in Nodes : \A k \in Slots(i) :
          /\ ~(Connection(Slot(i, k)) = Connection(Slot(n, q)))'
          /\ ~(Connection(Slot(n, q)) = Connection(Slot(i, k)))'
    BY <1>7, <1>8, <1>9 DEF Connection
  <2>5. \A c \in Connections : c[2] > nth'[c[1]] => wire'[c] = <<>>
    <3> SUFFICES ASSUME NEW c \in Connections, c[2] > nth'[c[1]]
                 PROVE  wire[c] = <<>>
      BY <1>2
    <3>1. c[1] \in Threads /\ c[2] \in Nat
      BY DEF Connections, Proper
    <3>2. c[2] > nth[c[1]]
      BY <1>2, <3>1 DEF IInv, Types
    <3> QED
      BY <3>2 DEF IInv, Begun
  <2>6. ASSUME NEW i \in Nodes, NEW k \in Slots(i)'
        PROVE  k \in Slots(i) \/ (i = n /\ k = q)
    BY <1>5, <1>6
  <2>7. (\A i \in Nodes : \A k \in Slots(i) : Slot(i, k).no <= nth[Slot(i, k).by])'
    BY <2>1, <2>2, <2>6
  <2>8. (\A i, j \in Nodes : \A k \in Slots(i), l \in Slots(j) :
           Connection(Slot(i, k)) = Connection(Slot(j, l)) => i = j /\ k = l)'
    BY <2>3, <2>4, <2>6
  <2> QED
    BY <2>5, <2>7, <2>8 DEF Begun
<1>13. SendersRight'
  <2>1. ASSUME NEW u \in Threads, u # t
        PROVE  /\ sending'[u] = sending[u] /\ nth'[u] = nth[u]
    BY <1>2, <2>1 DEF IInv, Types
  <2>2. ASSUME NEW u \in Threads, u # t, sending[u] # Nil, NEW i \in Nodes, NEW k \in Slots(i)'
        PROVE  (Connection(Slot(i, k)) = Connection(sending[u]) => Slot(i, k) = sending[u])'
    <3>1. CASE k \in Slots(i)
      <4>1. Connection(Slot(i, k)) = Connection(sending[u]) => Slot(i, k) = sending[u]
        BY <2>2, <3>1 DEF IInv, SendersRight
      <4>2. Slot(i, k)' = Slot(i, k) /\ sending'[u] = sending[u]
        BY <1>7, <2>1, <2>2, <3>1
      <4> QED
        BY <4>1, <4>2 DEF Connection
    <3>2. CASE i = n /\ k = q
      <4>1. sending[u] \in Message /\ sending[u].by = u
        BY <2>2 DEF IInv, Types, SendersRight
      <4>2. Connection(m) # Connection(sending[u])
        BY <1>1, <2>2, <4>1, MessageFacts
      <4> QED
        BY <1>8, <2>1, <2>2, <3>2, <4>2 DEF Connection
    <3> QED
      BY <1>5, <1>6, <3>1, <3>2
  <2>3. ASSUME NEW i \in Nodes, NEW k \in Slots(i)'
        PROVE  (Connection(Slot(i, k)) = Connection(sending[t]) => Slot(i, k) = sending[t])'
    <3>1. CASE k \in Slots(i)
      BY <1>2, <1>7, <1>9, <3>1 DEF Connection
    <3>2. CASE i = n /\ k = q
      BY <1>2, <1>8, <3>2
    <3> QED
      BY <1>5, <1>6, <3>1, <3>2
  <2>4. ASSUME NEW u \in Threads
        PROVE  /\ sending'[u] = Nil => piece'[u] = 0
               /\ sending'[u] # Nil => sending'[u].by = u /\ sending'[u].no = nth'[u]
    <3>1. CASE u = t
      BY <1>1, <1>2, <3>1
    <3>2. CASE u # t
      BY <1>2, <2>1, <3>2 DEF IInv, SendersRight
    <3> QED
      BY <3>1, <3>2
  <2>5. ASSUME NEW u \in Threads, sending'[u] # Nil
        PROVE  (\A i \in Nodes : \A k \in Slots(i) :
                  Connection(Slot(i, k)) = Connection(sending[u]) => Slot(i, k) = sending[u])'
    BY <2>1, <2>2, <2>3, <2>5
  <2> QED
    BY <2>4, <2>5 DEF SendersRight
<1>14. ReadersRight'
  BY <1>2 DEF IInv, ReadersRight, receiverVars
<1> QED
  BY <1>10, <1>11, <1>12, <1>13, <1>14 DEF IInv

-----------------------------------------------------------------------------
\* The steps of a receiver.

\* A receiver may move its messages on by a slot and take things from a wire.
LEMMA ReceiverKeeps ==
  ASSUME Proper, IInv, UNCHANGED senderVars,
         NEW moved \in [Nodes -> Nat],
         \A i \in Nodes : \A k \in Slots(i)' :
           /\ k + moved[i] \in Slots(i) /\ Slot(i, k)' = Slot(i, k + moved[i])
           /\ (Follows(Slot(i, k), Taken(i, k), WireOf(i, k)))'
           /\ (Taken(i, k) + Len(WireOf(i, k)))' =
                Taken(i, k + moved[i]) + Len(WireOf(i, k + moved[i])),
         \A c \in Connections : wire[c] = <<>> => wire'[c] = <<>>
  PROVE  WiresRight' /\ Begun' /\ SendersRight'
<1>1. WiresRight'
  <2> SUFFICES ASSUME NEW i \in Nodes, NEW k \in Slots(i)'
               PROVE  (sending[Slot(i, k).by] = Slot(i, k) =>
                        SentBefore(Slot(i, k), Taken(i, k), WireOf(i, k), piece[Slot(i, k).by]))'
    BY DEF WiresRight
  <2>1. PICK j \in Slots(i) :
          /\ Slot(i, k)' = Slot(i, j)
          /\ (Taken(i, k) + Len(WireOf(i, k)))' = Taken(i, j) + Len(WireOf(i, j))
    OBVIOUS
  <2>2. sending[Slot(i, j).by] = Slot(i, j) =>
          SentBefore(Slot(i, j), Taken(i, j), WireOf(i, j), piece[Slot(i, j).by])
    BY DEF IInv, WiresRight
  <2> QED
    BY <2>1, <2>2 DEF SentBefore, senderVars
<1>2. Begun'
  <2>1. ASSUME NEW i \in Nodes, NEW k \in Slots(i)'
        PROVE  (Slot(i, k).no <= nth[Slot(i, k).by])'
    BY DEF IInv, Begun, senderVars
  <2>2. ASSUME NEW i \in Nodes, NEW j \in Nodes, NEW k \in Slots(i)', NEW l \in Slots(j)',
               (Connection(Slot(i, k)) = Connection(Slot(j, l)))'
        PROVE  i = j /\ k = l
    <3>1. Connection(Slot(i, k + moved[i])) = Connection(Slot(j, l + moved[j]))
      BY <2>2 DEF Connection
    <3>2. i = j /\ k + moved[i] = l + moved[j]
      BY <3>1 DEF IInv, Begun
    <3>3. k \in Nat /\ l \in Nat
      BY DEF Slots
    <3> QED
      BY <3>2, <3>3
  <2>3. \A c \in Connections : c[2] > nth'[c[1]] => wire'[c] = <<>>
    BY DEF IInv, Begun, senderVars
  <2> QED
    BY <2>1, <2>2, <2>3 DEF Begun
<1>3. SendersRight'
  <2>1. ASSUME NEW u \in Threads, sending'[u] # Nil, NEW i \in Nodes, NEW k \in Slots(i)'
        PROVE  (Connection(Slot(i, k)) = Connection(sending[u]) => Slot(i, k) = sending[u])'
    <3>1. PICK j \in Slots(i) : Slot(i, k)' = Slot(i, j)
      OBVIOUS
    <3>2. sending'[u] = sending[u]
      BY DEF senderVars
    <3>3. Connection(Slot(i, j)) = Connection(sending[u]) => Slot(i, j) = sending[u]
      BY <2>1, <3>2 DEF IInv, SendersRight
    <3> QED
      BY <3>1, <3>2, <3>3 DEF Connection
  <2>2. ASSUME NEW u \in Threads
        PROVE  /\ sending'[u] = Nil => piece'[u] = 0
               /\ sending'[u] # Nil => sending'[u].by = u /\ sending'[u].no = nth'[u]
    BY DEF IInv, SendersRight, senderVars
  <2>3. ASSUME NEW u \in Threads, sending'[u] # Nil
        PROVE  (\A i \in Nodes : \A k \in Slots(i) :
                  Connection(Slot(i, k)) = Connection(sending[u]) => Slot(i, k) = sending[u])'
    BY <2>1, <2>3
  <2> QED
    BY <2>2, <2>3 DEF SendersRight
<1> QED
  BY <1>1, <1>2, <1>3

LEMMA AcceptKeeps ==
  ASSUME Proper, IInv, NEW n \in Nodes, Accept(n)
  PROVE  IInv'
<1>1. /\ reading[n] = Nil /\ left[n] = Nil /\ backlog[n] # <<>>
      /\ UNCHANGED <<senderVars, wire, left, buffer, chars, received>>
      /\ reading' = [reading EXCEPT ![n] = Head(backlog[n])]
      /\ backlog' = [backlog EXCEPT ![n] = Tail(backlog[n])]
  BY DEF Accept, IInv, ReadersRight
<1>2. PICK s \in Seq(Message) : s = backlog[n]
  BY DEF IInv, Types
<1>3. Head(s) = s[1] /\ Head(s) \in Message /\ Tail(s) \in Seq(Message)
      /\ Len(Tail(s)) = Len(s) - 1 /\ Len(s) \in Nat \ {0}
      /\ \A k \in 1 .. Len(s) - 1 : Tail(s)[k] = s[k + 1]
  BY <1>1, <1>2
<1>4. reading'[n] = s[1] /\ backlog'[n] = Tail(s) /\ s[1] # Nil
  <2>1. s[1] # Nil
    BY <1>3, MessageFacts
  <2> QED
    BY <1>1, <1>2, <1>3, <2>1 DEF IInv, Types
<1>5. \A i \in Nodes \ {n} : reading'[i] = reading[i] /\ backlog'[i] = backlog[i]
  BY <1>1 DEF IInv, Types
<1> DEFINE moved == [i \in Nodes |-> IF i = n THEN 1 ELSE 0]
<1>6. ASSUME NEW i \in Nodes, NEW k \in Slots(i)'
      PROVE  /\ k + moved[i] \in Slots(i) /\ Slot(i, k)' = Slot(i, k + moved[i])
             /\ Taken(i, k)' = Taken(i, k + moved[i])
  <2>1. CASE i = n
    <3>1. k \in 0 .. Len(s) - 1 /\ k + 1 \in 1 .. Len(s) /\ k + 1 # 0 /\ moved[i] = 1
      BY <1>3, <1>4, <2>1 DEF Slots
    <3>2. k + 1 \in Slots(n)
      BY <1>2, <3>1 DEF Slots
    <3>3. Slot(n, k)' = s[k + 1]
      <4>1. CASE k = 0
        BY <1>4, <4>1 DEF Slot
      <4>2. CASE k # 0
        BY <1>3, <1>4, <3>1, <4>2 DEF Slot
      <4> QED
        BY <4>1, <4>2
    <3>4. Slot(n, k + 1) = s[k + 1] /\ Taken(n, k + 1) = 0
      BY <1>2, <3>1 DEF Slot, Taken
    <3>5. Taken(n, k)' = 0
      BY <1>1 DEF Taken
    <3> QED
      BY <2>1, <3>1, <3>2, <3>3, <3>4, <3>5
  <2>2. CASE i # n
    <3>1. k \in Slots(i) /\ Slot(i, k)' = Slot(i, k) /\ Taken(i, k)' = Taken(i, k)
      BY <1>1, <1>5, <2>2 DEF Slots, Slot, Taken
    <3>2. k + moved[i] = k
      BY <2>2 DEF Slots
    <3> QED
      BY <3>1, <3>2
  <2> QED
    BY <2>1, <2>2
<1>7. ASSUME NEW i \in Nodes, NEW k \in Slots(i)'
      PROVE  /\ (Follows(Slot(i, k), Taken(i, k), WireOf(i, k)))'
             /\ (Taken(i, k) + Len(WireOf(i, k)))' =
                  Taken(i, k + moved[i]) + Len(WireOf(i, k + moved[i]))
  <2>1. PICK j \in Slots(i) : j = k + moved[i]
    BY <1>6
  <2>2. Slot(i, k)' = Slot(i, j) /\ Taken(i, k)' = Taken(i, j)
    BY <1>6, <2>1
  <2>3. WireOf(i, k)' = WireOf(i, j)
    BY <1>1, <2>2 DEF WireOf, Connection
  <2>4. Follows(Slot(i, j), Taken(i, j), WireOf(i, j))
    BY DEF IInv, WiresRight
  <2>5. (Follows(Slot(i, k), Taken(i, k), WireOf(i, k)))'
    BY <2>2, <2>3, <2>4 DEF Follows, Stream
  <2> HIDE DEF moved
  <2> QED
    BY <2>1, <2>2, <2>3, <2>5
<1>8. moved \in [Nodes -> Nat]
  OBVIOUS
<1>9. WiresRight' /\ Begun' /\ SendersRight'
  <2> HIDE DEF moved
  <2> QED
    BY <1>1, <1>6, <1>7, <1>8, ReceiverKeeps
<1>10. Types'
  <2>1. reading' \in [Nodes -> Message \cup {Nil}] /\ backlog' \in [Nodes -> Seq(Message)]
    BY <1>1, <1>2, <1>3 DEF IInv, Types
  <2> QED
    BY <1>1, <2>1 DEF IInv, Types, senderVars
<1>11. ReadersRight'
  <2>1. ASSUME NEW i \in Nodes
        PROVE  (/\ reading[i] = Nil => left[i] = Nil
                /\ left[i] = Nil => chars[i] = <<>>
                /\ left[i] # Nil =>
                     /\ left[i] <= reading[i].size
                     /\ Len(chars[i]) = reading[i].size - left[i]
                     /\ \A j \in 1 .. Len(chars[i]) : chars[i][j] = j)'
    <3>1. CASE i = n
      BY <1>1, <3>1 DEF IInv, ReadersRight
    <3>2. CASE i # n
      BY <1>1, <1>5, <3>2 DEF IInv, ReadersRight
    <3> QED
      BY <3>1, <3>2
  <2> QED
    BY <2>1 DEF ReadersRight
<1> QED
  BY <1>9, <1>10, <1>11 DEF IInv

LEMMA StreamInside ==
  ASSUME NEW m, m.size \in Nat, NEW d \in Nat, NEW j \in Nat \ {0}, d + j <= m.size
  PROVE  Stream(m, d + 1 + j) = d + j
<1>1. PICK q \in Nat : q = d + 1 + j /\ q # 1 /\ q - 1 = d + j
  OBVIOUS
<1> QED
  BY <1>1 DEF Stream

LEMMA Regrouped ==
  ASSUME NEW a \in Nat, NEW b \in Nat, NEW c \in Nat
  PROVE  a + b + (c - b) = a + c
OBVIOUS

\* Numbers that go on where others end.
LEMMA CountedOn ==
  ASSUME NEW old \in Seq(Nat), NEW more \in Seq(Nat),
         \A j \in 1 .. Len(old) : old[j] = j,
         \A j \in 1 .. Len(more) : more[j] = Len(old) + j
  PROVE  /\ old \o more \in Seq(Nat) /\ Len(old \o more) = Len(old) + Len(more)
         /\ \A j \in 1 .. Len(old \o more) : (old \o more)[j] = j
<1>1. old \o more \in Seq(Nat) /\ Len(old \o more) = Len(old) + Len(more)
  OBVIOUS
<1>2. ASSUME NEW j \in 1 .. Len(old \o more) PROVE (old \o more)[j] = j
  <2>1. CASE j <= Len(old)
    BY <2>1
  <2>2. CASE j > Len(old)
    <3>1. (old \o more)[j] = more[j - Len(old)] /\ j - Len(old) \in 1 .. Len(more)
      BY <2>2
    <3>2. Len(old) + (j - Len(old)) = j
      OBVIOUS
    <3> QED
      BY <3>1, <3>2
  <2> QED
    BY <2>1, <2>2
<1> QED
  BY <1>1, <1>2

\* A place in what is left of l things after r of them.
LEMMA PlaceBefore ==
  ASSUME NEW T \in Nat, NEW l \in Nat, NEW r \in 0 .. l, NEW k \in Nat, k = l - r,
         NEW j \in 1 .. k
  PROVE  r + j \in 1 .. l /\ T + (r + j) = T + r + j
OBVIOUS

\* A reader that takes r things from the wire w leaves the rest.
LEMMA TakerKeeps ==
  ASSUME Proper, IInv, NEW n \in Nodes, reading[n] # Nil,
         UNCHANGED <<senderVars, backlog, reading>>,
         \A i \in Nodes \ {n} : left'[i] = left[i],
         NEW w \in Seq(Nat), w = wire[Connection(reading[n])], NEW r \in 0 .. Len(w),
         NEW rest \in Seq(Nat), Len(rest) = Len(w) - r,
         \A j \in 1 .. Len(rest) : rest[j] = w[r + j],
         wire' = [wire EXCEPT ![Connection(reading[n])] = rest],
         Taken(n, 0)' = Taken(n, 0) + r
  PROVE  WiresRight' /\ Begun' /\ SendersRight'
<1> DEFINE m == reading[n]
           c == Connection(m)
<1>1. 0 \in Slots(n) /\ Slot(n, 0) = m /\ c \in Connections /\ WireOf(n, 0) = w
      /\ Taken(n, 0) \in Nat
  <2>1. 0 \in Slots(n) /\ Slot(n, 0) = m
    <3>1. Len(backlog[n]) \in Nat
      BY DEF IInv, Types
    <3> QED
      BY <3>1 DEF Slots, Slot
  <2> QED
    BY <2>1, SlotFacts, TakenFacts DEF IInv, WireOf
<1>2. \A i \in Nodes : Slots(i)' = Slots(i) /\ \A k \in Slots(i) : Slot(i, k)' = Slot(i, k)
  BY DEF Slots, Slot
<1>3. wire'[c] = rest /\ \A d \in Connections : d # c => wire'[d] = wire[d]
  BY <1>1 DEF IInv, Types
<1>4. /\ (Follows(Slot(n, 0), Taken(n, 0), WireOf(n, 0)))'
      /\ (Taken(n, 0) + Len(WireOf(n, 0)))' = Taken(n, 0) + Len(WireOf(n, 0))
  <2>1. Slot(n, 0)' = m /\ WireOf(n, 0)' = rest
    BY <1>1, <1>2, <1>3 DEF WireOf, Connection
  <2>2. Follows(m, Taken(n, 0), w)
    BY <1>1 DEF IInv, WiresRight
  <2>3. PICK T \in Nat : T = Taken(n, 0)
    BY <1>1
  <2>4. ASSUME NEW j \in 1 .. Len(rest)
        PROVE  rest[j] = Stream(m, T + r + j)
    <3>0. Len(w) \in Nat /\ Len(rest) \in Nat
      OBVIOUS
    <3>1. r + j \in 1 .. Len(w) /\ T + (r + j) = T + r + j
      BY <2>3, <3>0, PlaceBefore
    <3>2. w[r + j] = Stream(m, T + (r + j))
      BY <2>2, <2>3, <3>1 DEF Follows
    <3> QED
      BY <3>1, <3>2
  <2>5. Follows(m, T + r, rest)
    BY <2>4 DEF Follows
  <2>6. (Follows(Slot(n, 0), Taken(n, 0), WireOf(n, 0)))' = Follows(m, T + r, rest)
    BY <2>1, <2>3 DEF Follows, Stream
  <2>7. T + r + Len(rest) = T + Len(w)
    <3>1. PICK l \in Nat : l = Len(w)
      OBVIOUS
    <3>2. r \in Nat /\ Len(rest) = l - r
      BY <3>1
    <3>3. T + r + (l - r) = T + l
      <4> HIDE DEF m, c
      <4>1. T \in Nat /\ l \in Nat /\ r \in Nat
        BY <2>3, <3>1, <3>2
      <4> QED
        BY ONLY <4>1, Regrouped
    <3> QED
      BY <3>1, <3>2, <3>3
  <2> QED
    BY <1>1, <2>1, <2>3, <2>5, <2>6, <2>7
<1>5. ASSUME NEW i \in Nodes, NEW k \in Slots(i), ~(i = n /\ k = 0)
      PROVE  /\ (Follows(Slot(i, k), Taken(i, k), WireOf(i, k)))'
             /\ (Taken(i, k) + Len(WireOf(i, k)))' = Taken(i, k) + Len(WireOf(i, k))
  <2>1. Connection(Slot(i, k)) # c /\ Connection(Slot(i, k)) \in Connections
    BY <1>1, <1>5, SlotFacts DEF IInv, Begun
  <2>2. WireOf(i, k)' = WireOf(i, k) /\ Slot(i, k)' = Slot(i, k)
    BY <1>2, <1>3, <2>1 DEF WireOf, Connection
  <2>3. Taken(i, k)' = Taken(i, k)
    BY <1>5 DEF Taken
  <2>4. Follows(Slot(i, k), Taken(i, k), WireOf(i, k))
    BY DEF IInv, WiresRight
  <2> QED
    BY <2>2, <2>3, <2>4 DEF Follows, Stream
<1> DEFINE moved == [i \in Nodes |-> 0]
<1>6. ASSUME NEW i \in Nodes, NEW k \in Slots(i)'
      PROVE  /\ k + moved[i] \in Slots(i) /\ Slot(i, k)' = Slot(i, k + moved[i])
             /\ (Follows(Slot(i, k), Taken(i, k), WireOf(i, k)))'
             /\ (Taken(i, k) + Len(WireOf(i, k)))' =
                  Taken(i, k + moved[i]) + Len(WireOf(i, k + moved[i]))
  <2>1. k + moved[i] = k /\ k \in Slots(i)
    BY <1>2 DEF Slots
  <2> QED
    BY <1>2, <1>4, <1>5, <2>1
<1>7. \A d \in Connections : wire[d] = <<>> => wire'[d] = <<>>
  BY <1>1, <1>3
<1>8. moved \in [Nodes -> Nat]
  OBVIOUS
<1> QED
  <2> HIDE DEF moved
  <2> QED
    BY <1>6, <1>7, <1>8, ReceiverKeeps

LEMMA ReadSizeKeeps ==
  ASSUME Proper, IInv, NEW n \in Nodes, ReadSize(n)
  PROVE  IInv'
<1> DEFINE m == reading[n]
           c == Connection(m)
<1>1. m # Nil /\ m \in Message /\ m.size \in Nat \ {0} /\ c \in Connections
  BY MessageFacts DEF ReadSize, IInv, Types
<1>2. /\ left[n] = Nil /\ wire[c] # <<>>
      /\ UNCHANGED <<senderVars, backlog, reading, buffer, chars, received>>
      /\ left' = [left EXCEPT ![n] = m.size]
      /\ left'[n] = m.size /\ \A i \in Nodes \ {n} : left'[i] = left[i]
      /\ wire' = [wire EXCEPT ![c] = Tail(wire[c])]
  BY DEF ReadSize, IInv, Types
<1>3. m.size # Nil
  BY <1>1 DEF Proper
<1>4. PICK w \in Seq(Nat) : w = wire[c]
  BY <1>1 DEF IInv, Types
<1>5. /\ Tail(w) \in Seq(Nat) /\ Len(Tail(w)) = Len(w) - 1 /\ 1 \in 0 .. Len(w)
      /\ \A j \in 1 .. Len(Tail(w)) : Tail(w)[j] = w[1 + j]
  BY <1>2, <1>4
<1>6. Taken(n, 0)' = Taken(n, 0) + 1
  <2>1. Taken(n, 0) = 0
    BY <1>2 DEF Taken
  <2>2. Taken(n, 0)' = m.size - m.size + 1
    BY <1>2, <1>3 DEF Taken
  <2> QED
    BY <1>1, <2>1, <2>2
<1>7. WiresRight' /\ Begun' /\ SendersRight'
  BY <1>1, <1>2, <1>4, <1>5, <1>6, TakerKeeps
<1>8. Types'
  <2>1. wire' \in [Connections -> Seq(Nat)] /\ left' \in [Nodes -> Nat \cup {Nil}]
    BY <1>1, <1>2, <1>4, <1>5 DEF IInv, Types
  <2> QED
    BY <1>2, <2>1 DEF IInv, Types, senderVars
<1>9. ReadersRight'
  <2>1. chars[n] = <<>>
    BY <1>2 DEF IInv, ReadersRight
  <2>2. ASSUME NEW i \in Nodes
        PROVE  (/\ reading[i] = Nil => left[i] = Nil
                /\ left[i] = Nil => chars[i] = <<>>
                /\ left[i] # Nil =>
                     /\ left[i] <= reading[i].size
                     /\ Len(chars[i]) = reading[i].size - left[i]
                     /\ \A j \in 1 .. Len(chars[i]) : chars[i][j] = j)'
    <3>1. CASE i = n
      BY <1>1, <1>2, <1>3, <2>1, <3>1
    <3>2. CASE i # n
      BY <1>2, <3>2 DEF IInv, ReadersRight
    <3> QED
      BY <3>1, <3>2
  <2> QED
    BY <2>2 DEF ReadersRight
<1> QED
  BY <1>7, <1>8, <1>9 DEF IInv

LEMMA LesserOfTwo ==
  ASSUME NEW a \in Nat, NEW b \in Nat
  PROVE  Min({a, b}) = IF a <= b THEN a ELSE b
<1>1. \E x \in {a, b} : \A y \in {a, b} : x <= y
  OBVIOUS
<1>2. Min({a, b}) \in {a, b} /\ \A y \in {a, b} : Min({a, b}) <= y
  BY <1>1 DEF Min
<1> QED
  BY <1>2

LEMMA ReadChunkKeeps ==
  ASSUME Proper, IInv, NEW n \in Nodes, ReadChunk(n)
  PROVE  IInv'
<1> DEFINE m == reading[n]
           c == Connection(m)
<1>1. m # Nil /\ m \in Message /\ m.size \in Nat \ {0} /\ c \in Connections
  BY MessageFacts DEF ReadChunk, IInv, Types
<1>2. PICK w \in Seq(Nat) : w = wire[c]
  BY <1>1 DEF IInv, Types
<1>3. PICK l \in Nat \ {0} : l = left[n] /\ l # Nil
  BY DEF ReadChunk, IInv, Types
<1>4. l <= m.size
  BY <1>3 DEF IInv, ReadersRight
<1> PICK d \in Nat : d = m.size - l /\ m.size = d + l
  BY <1>1, <1>4
<1>5. PICK r : r = Min({l, ChunkSize})
  OBVIOUS
<1>6. r \in Nat \ {0} /\ r <= l /\ r <= ChunkSize
  BY <1>5, LesserOfTwo DEF Proper
<1>7. /\ r <= Len(w)
      /\ buffer' = [buffer EXCEPT ![n] =
                      [i \in 1 .. ChunkSize |-> IF i <= r THEN w[i] ELSE buffer[n][i]]]
      /\ chars' = [chars EXCEPT ![n] = chars[n] \o SubSeq(buffer'[n], 1, r)]
      /\ wire' = [wire EXCEPT ![c] = SubSeq(w, r + 1, Len(w))]
      /\ left' = [left EXCEPT ![n] = l - r]
      /\ UNCHANGED <<senderVars, backlog, reading, received>>
  <2>1. PICK q \in ReadResults(Min({left[n], ChunkSize}), Len(wire[c])) :
          /\ buffer' = [buffer EXCEPT ![n] =
                          [i \in 1 .. ChunkSize |-> IF i <= q THEN wire[c][i] ELSE buffer[n][i]]]
          /\ chars' = [chars EXCEPT ![n] =
                         chars[n] \o SubSeq(buffer'[n], 1, Min({left[n], ChunkSize}))]
          /\ wire' = [wire EXCEPT ![c] = SubSeq(wire[c], q + 1, Len(wire[c]))]
          /\ left' = [left EXCEPT ![n] = left[n] - q]
    BY DEF ReadChunk
  <2>2. ReadResults(r, Len(w)) = IF r <= Len(w) THEN {r} ELSE {}
    BY DEF ReadResults, Proper
  <2>3. q = r /\ r <= Len(w)
    BY <1>2, <1>3, <1>5, <2>1, <2>2
  <2>4. UNCHANGED <<senderVars, backlog, reading, received>>
    BY DEF ReadChunk
  <2> QED
    BY <1>2, <1>3, <1>5, <2>1, <2>3, <2>4
<1>8. /\ buffer[n] \in [1 .. ChunkSize -> Nat] /\ chars[n] \in Seq(Nat)
      /\ \A j \in 1 .. r : w[j] \in Nat
  <2>1. \A j \in 1 .. r : j \in 1 .. Len(w)
    BY <1>6, <1>7
  <2> QED
    BY <2>1 DEF IInv, Types
<1>9. PICK b \in [1 .. ChunkSize -> Nat] :
        b = [i \in 1 .. ChunkSize |-> IF i <= r THEN w[i] ELSE buffer[n][i]]
  <2> DEFINE new == [i \in 1 .. ChunkSize |-> IF i <= r THEN w[i] ELSE buffer[n][i]]
  <2>1. ASSUME NEW i \in 1 .. ChunkSize PROVE (IF i <= r THEN w[i] ELSE buffer[n][i]) \in Nat
    <3>1. i <= r => i \in 1 .. r
      BY <1>6 DEF Proper
    <3> QED
      BY <1>8, <3>1
  <2>2. new \in [1 .. ChunkSize -> Nat]
    BY <2>1
  <2> QED
    BY <2>2
<1>10. /\ buffer'[n] = b /\ \A j \in 1 .. r : b[j] = w[j]
  <2>1. \A j \in 1 .. r : j \in 1 .. ChunkSize
    BY <1>6 DEF Proper
  <2>2. buffer'[n] = b
    BY <1>7, <1>9 DEF IInv, Types
  <2> QED
    BY <1>6, <1>9, <2>1, <2>2
<1>11. PICK got \in Seq(Nat) :
         got = SubSeq(b, 1, r) /\ Len(got) = r /\ \A j \in 1 .. r : got[j] = w[j]
  <2>1. b \in Seq(Nat) /\ Len(b) = ChunkSize
    BY DEF Proper
  <2>2. SubSeq(b, 1, r) \in Seq(Nat) /\ Len(SubSeq(b, 1, r)) = r
        /\ \A j \in 1 .. r : SubSeq(b, 1, r)[j] = b[j]
    BY <1>6, <2>1 DEF Proper
  <2> QED
    BY <1>10, <2>2
<1>12. PICK rest \in Seq(Nat) :
         /\ rest = SubSeq(w, r + 1, Len(w)) /\ Len(rest) = Len(w) - r
         /\ \A j \in 1 .. Len(rest) : rest[j] = w[r + j]
  <2> DEFINE new == SubSeq(w, r + 1, Len(w))
  <2>1. r \in Nat /\ Len(w) \in Nat /\ r <= Len(w)
    BY <1>6, <1>7
  <2>2. new \in Seq(Nat) /\ Len(new) = Len(w) - r
    BY <2>1
  <2>3. ASSUME NEW j \in 1 .. Len(w) - r PROVE new[j] = w[r + j]
    <3>1. new[j] = w[r + 1 + j - 1] /\ r + 1 + j - 1 = r + j
      BY <2>1
    <3> QED
      BY <3>1
  <2> HIDE DEF new
  <2>4. \A j \in 1 .. Len(new) : new[j] = w[r + j]
    BY <2>2, <2>3
  <2> QED
    BY <2>2, <2>4 DEF new
<1>13. l - r \in Nat /\ l - r # Nil /\ left'[n] = l - r
       /\ \A i \in Nodes \ {n} : left'[i] = left[i]
  <2>1. l - r \in Nat
    BY <1>6
  <2> QED
    BY <1>7, <2>1 DEF IInv, Types, Proper
<1>14. Taken(n, 0) = d + 1 /\ Taken(n, 0)' = Taken(n, 0) + r
  <2>1. Taken(n, 0) = m.size - l + 1
    BY <1>3 DEF Taken
  <2>2. Taken(n, 0)' = m.size - (l - r) + 1
    BY <1>7, <1>13 DEF Taken
  <2>3. m.size - l + 1 = d + 1 /\ m.size - (l - r) + 1 = d + 1 + r
    BY <1>6
  <2> QED
    BY <2>1, <2>2, <2>3
<1>15. WiresRight' /\ Begun' /\ SendersRight'
  <2>1. wire' = [wire EXCEPT ![c] = rest]
    BY <1>7, <1>12
  <2>2. r \in 0 .. Len(w)
    BY <1>6, <1>7
  <2>3. UNCHANGED <<senderVars, backlog, reading>>
    BY <1>7
  <2> QED
    <3>1. reading[n] # Nil /\ w = wire[Connection(reading[n])]
      BY <1>1, <1>2
    <3>2. Len(rest) = Len(w) - r /\ \A j \in 1 .. Len(rest) : rest[j] = w[r + j]
      BY <1>12
    <3>3. (\A i \in Nodes \ {n} : left'[i] = left[i]) /\ Taken(n, 0)' = Taken(n, 0) + r
      BY <1>13, <1>14
    <3> QED
      BY <2>1, <2>2, <2>3, <3>1, <3>2, <3>3, TakerKeeps
<1>16. Types'
  <2>1. wire' \in [Connections -> Seq(Nat)]
    BY <1>1, <1>7, <1>12 DEF IInv, Types
  <2>2. left' \in [Nodes -> Nat \cup {Nil}]
    BY <1>7, <1>13 DEF IInv, Types
  <2>3. chars' \in [Nodes -> Seq(Nat)]
    <3>1. chars' = [chars EXCEPT ![n] = chars[n] \o got]
      BY <1>7, <1>10, <1>11
    <3>2. chars[n] \o got \in Seq(Nat)
      BY <1>8
    <3> QED
      BY <3>1, <3>2 DEF IInv, Types
  <2>4. buffer' \in [Nodes -> [1 .. ChunkSize -> Nat]]
    BY <1>7, <1>9 DEF IInv, Types
  <2> QED
    BY <1>7, <2>1, <2>2, <2>3, <2>4 DEF IInv, Types, senderVars
<1>17. \A j \in 1 .. r : w[j] = d + j
  <2> SUFFICES ASSUME NEW j \in 1 .. r PROVE w[j] = d + j
    OBVIOUS
  <2>1. Follows(m, d + 1, w)
    <3>1. 0 \in Slots(n) /\ Slot(n, 0) = m
      BY <1>1 DEF Slots, Slot, IInv, Types
    <3> QED
      BY <1>2, <1>14, <3>1 DEF IInv, WiresRight, WireOf
  <2>2. j \in 1 .. Len(w)
    BY <1>6, <1>7
  <2>3. w[j] = Stream(m, d + 1 + j)
    BY <2>1, <2>2 DEF Follows
  <2>4. j \in Nat \ {0} /\ j <= r /\ d + j <= d + l
    BY <1>6
  <2>5. m.size = d + l /\ m.size \in Nat
    BY <1>1
  <2>6. Stream(m, d + 1 + j) = d + j
    <3> HIDE DEF m
    <3> QED
      BY <2>4, <2>5, StreamInside
  <2> QED
    BY <2>3, <2>6
<1>18. ReadersRight'
  <2>1. PICK old \in Seq(Nat) : old = chars[n] /\ Len(old) = d
                                /\ \A j \in 1 .. Len(old) : old[j] = j
    BY <1>3, <1>8 DEF IInv, ReadersRight
  <2>2. chars'[n] = old \o got
    BY <1>7, <1>10, <1>11, <2>1 DEF IInv, Types
  <2>3. Len(old \o got) = m.size - (l - r) /\ \A j \in 1 .. Len(old \o got) : (old \o got)[j] = j
    <3>1. \A j \in 1 .. Len(got) : got[j] = Len(old) + j
      BY <1>11, <1>17, <2>1
    <3>2. d + r = m.size - (l - r)
      BY <1>6
    <3>3. /\ Len(old \o got) = Len(old) + Len(got)
          /\ \A j \in 1 .. Len(old \o got) : (old \o got)[j] = j
      <4> HIDE DEF m
      <4> QED
        BY <2>1, <3>1, CountedOn
    <3> QED
      BY <1>11, <2>1, <3>2, <3>3
  <2>4. l - r <= m.size
    BY <1>1, <1>4, <1>6
  <2>5. ASSUME NEW i \in Nodes
        PROVE  (/\ reading[i] = Nil => left[i] = Nil
                /\ left[i] = Nil => chars[i] = <<>>
                /\ left[i] # Nil =>
                     /\ left[i] <= reading[i].size
                     /\ Len(chars[i]) = reading[i].size - left[i]
                     /\ \A j \in 1 .. Len(chars[i]) : chars[i][j] = j)'
    <3>1. CASE i = n
      BY <1>1, <1>7, <1>13, <2>2, <2>3, <2>4, <3>1
    <3>2. CASE i # n
      <4>1. chars'[i] = chars[i]
        BY <1>7, <3>2 DEF IInv, Types
      <4> QED
        BY <1>7, <1>13, <3>2, <4>1 DEF IInv, ReadersRight
    <3> QED
      BY <3>1, <3>2
  <2> QED
    BY <2>5 DEF ReadersRight
<1> QED
  BY <1>15, <1>16, <1>18 DEF IInv

\* A reader that waits for no more bytes has the message.
LEMMA WholeMessage ==
  ASSUME Proper, IInv, NEW n \in Nodes, Deliver(n)
  PROVE  Deserialized(n) = reading[n]
<1>1. reading[n] \in Message /\ left[n] = 0 /\ 0 # Nil
  BY DEF Deliver, IInv, Types, Proper
<1>2. reading[n].size \in Nat
  BY <1>1, MessageFacts
<1>3. Len(chars[n]) = reading[n].size - 0 /\ \A j \in 1 .. Len(chars[n]) : chars[n][j] = j
  BY <1>1 DEF IInv, ReadersRight
<1>4. \A j \in 1 .. reading[n].size : chars[n][j] = j
  BY <1>2, <1>3
<1> QED
  BY <1>4 DEF Deserialized

LEMMA DeliverKeeps ==
  ASSUME Proper, IInv, NEW n \in Nodes, Deliver(n)
  PROVE  IInv'
<1>1. /\ reading[n] \in Message /\ left[n] = 0 /\ 0 # Nil
      /\ UNCHANGED senderVars /\ UNCHANGED <<wire, backlog>>
      /\ received' = [received EXCEPT ![n] = Append(received[n], Deserialized(n))]
      /\ reading' = [reading EXCEPT ![n] = Nil] /\ reading'[n] = Nil
      /\ left' = [left EXCEPT ![n] = Nil] /\ left'[n] = Nil
      /\ buffer' = [buffer EXCEPT ![n] = EmptyBuffer]
      /\ chars' = [chars EXCEPT ![n] = <<>>] /\ chars'[n] = <<>>
  BY DEF Deliver, IInv, Types, Proper
<1>2. \A i \in Nodes \ {n} :
        reading'[i] = reading[i] /\ left'[i] = left[i] /\ chars'[i] = chars[i]
  BY <1>1 DEF IInv, Types
<1>3. Deserialized(n) \in Message
  BY <1>1, WholeMessage
<1>4. Types'
  <2>1. received' \in [Nodes -> Seq(Message)]
    BY <1>1, <1>3 DEF IInv, Types
  <2>2. reading' \in [Nodes -> Message \cup {Nil}] /\ left' \in [Nodes -> Nat \cup {Nil}]
    BY <1>1 DEF IInv, Types
  <2>3. chars' \in [Nodes -> Seq(Nat)]
    BY <1>1 DEF IInv, Types
  <2>4. EmptyBuffer \in [1 .. ChunkSize -> Nat]
    BY DEF EmptyBuffer, Junk
  <2>5. buffer' \in [Nodes -> [1 .. ChunkSize -> Nat]]
    BY <1>1, <2>4 DEF IInv, Types
  <2> QED
    BY <1>1, <2>1, <2>2, <2>3, <2>5 DEF IInv, Types, senderVars
<1> DEFINE moved == [i \in Nodes |-> 0]
<1>5. ASSUME NEW i \in Nodes, NEW k \in Slots(i)'
      PROVE  /\ k + moved[i] \in Slots(i) /\ Slot(i, k)' = Slot(i, k + moved[i])
             /\ (Follows(Slot(i, k), Taken(i, k), WireOf(i, k)))'
             /\ (Taken(i, k) + Len(WireOf(i, k)))' =
                  Taken(i, k + moved[i]) + Len(WireOf(i, k + moved[i]))
  <2>1. k + moved[i] = k
    BY DEF Slots
  <2>2. i = n => k # 0
    BY <1>1 DEF Slots
  <2>3. k \in Slots(i)
    BY <1>1, <1>2, <2>2 DEF Slots
  <2>4. Slot(i, k)' = Slot(i, k) /\ Taken(i, k)' = Taken(i, k)
    BY <1>1, <1>2, <2>2 DEF Slot, Taken
  <2>5. WireOf(i, k)' = WireOf(i, k)
    BY <1>1, <2>4 DEF WireOf, Connection
  <2>6. Follows(Slot(i, k), Taken(i, k), WireOf(i, k))
    BY <2>3 DEF IInv, WiresRight
  <2>7. (Follows(Slot(i, k), Taken(i, k), WireOf(i, k)))'
    BY <2>4, <2>5, <2>6 DEF Follows, Stream
  <2> HIDE DEF moved
  <2> QED
    BY <2>1, <2>3, <2>4, <2>5, <2>7
<1>6. WiresRight' /\ Begun' /\ SendersRight'
  <2>1. moved \in [Nodes -> Nat]
    OBVIOUS
  <2>2. \A d \in Connections : wire[d] = <<>> => wire'[d] = <<>>
    BY <1>1
  <2> HIDE DEF moved
  <2> QED
    BY <1>1, <1>5, <2>1, <2>2, ReceiverKeeps
<1>7. ReadersRight'
  <2>1. ASSUME NEW i \in Nodes
        PROVE  (/\ reading[i] = Nil => left[i] = Nil
                /\ left[i] = Nil => chars[i] = <<>>
                /\ left[i] # Nil =>
                     /\ left[i] <= reading[i].size
                     /\ Len(chars[i]) = reading[i].size - left[i]
                     /\ \A j \in 1 .. Len(chars[i]) : chars[i][j] = j)'
    <3>1. CASE i = n
      BY <1>1, <3>1
    <3>2. CASE i # n
      BY <1>2, <3>2 DEF IInv, ReadersRight
    <3> QED
      BY <3>1, <3>2
  <2> QED
    BY <2>1 DEF ReadersRight
<1> QED
  BY <1>4, <1>6, <1>7 DEF IInv

-----------------------------------------------------------------------------

LEMMA StutterKeeps == ASSUME IInv, UNCHANGED vars PROVE IInv'
<1> USE DEF vars, senderVars, receiverVars
<1>1. Types'
  BY DEF IInv, Types
<1>2. WiresRight'
  <2>1. \A n \in Nodes : Slots(n)' = Slots(n)
    BY DEF Slots
  <2>2. ASSUME NEW n \in Nodes, NEW k \in Slots(n)
        PROVE  (/\ Follows(Slot(n, k), Taken(n, k), WireOf(n, k))
                /\ sending[Slot(n, k).by] = Slot(n, k) =>
                     SentBefore(Slot(n, k), Taken(n, k), WireOf(n, k), piece[Slot(n, k).by]))'
    <3>1. Slot(n, k)' = Slot(n, k) /\ Taken(n, k)' = Taken(n, k)
      BY DEF Slot, Taken
    <3>2. WireOf(n, k)' = WireOf(n, k)
      BY <3>1 DEF WireOf, Connection
    <3>3. /\ Follows(Slot(n, k), Taken(n, k), WireOf(n, k))
          /\ sending[Slot(n, k).by] = Slot(n, k) =>
               SentBefore(Slot(n, k), Taken(n, k), WireOf(n, k), piece[Slot(n, k).by])
      BY DEF IInv, WiresRight
    <3> QED
      BY <3>1, <3>2, <3>3 DEF Follows, Stream, SentBefore
  <2> QED
    BY <2>1, <2>2 DEF WiresRight
<1>3. Begun'
  BY DEF IInv, Begun, Slots, Slot, Connection
<1>4. SendersRight'
  BY DEF IInv, SendersRight, Slots, Slot, Connection
<1>5. ReadersRight'
  BY DEF IInv, ReadersRight
<1> QED
  BY <1>1, <1>2, <1>3, <1>4, <1>5 DEF IInv

LEMMA NextKeeps == ASSUME Proper, IInv, [Next]_vars PROVE IInv'
<1>1. CASE UNCHANGED vars
  BY <1>1, StutterKeeps
<1>2. ASSUME NEW t \in Threads, SendMsg(t) PROVE IInv'
  BY <1>2, ConnectKeeps, SendSizeKeeps, SendChunkKeeps, SendReturnsKeeps DEF SendMsg, SendsOn
<1>3. ASSUME NEW n \in Nodes, ReceiveMsg(n) PROVE IInv'
  BY <1>3, AcceptKeeps, ReadSizeKeeps, ReadChunkKeeps, DeliverKeeps DEF ReceiveMsg
<1> QED
  BY <1>1, <1>2, <1>3 DEF Next

\* At every moment a connection holds the next bytes of its message and nothing else
\* (network-ip.h: send_msg_(), receive_msg()).
THEOREM WiresAreRight == ASSUME Proper PROVE Spec => []IInv
<1>1. Init => IInv
  BY InitInv
<1>2. IInv /\ [Next]_vars => IInv'
  BY NextKeeps
<1> QED
  BY <1>1, <1>2, PTL DEF Spec

-----------------------------------------------------------------------------
\* The steps of the network are those of a mailbox.

LEMMA ConnectSends ==
  ASSUME Proper, IInv, NEW t \in Threads, NEW n \in Nodes, NEW s \in Sizes, Connect(t, n, s)
  PROVE  \E m \in Message : Mail!Send(n, m)
<1> DEFINE m == [by |-> t, no |-> nth[t] + 1, to |-> n, size |-> s]
           box == [i \in Nodes |-> Inbox(i)]
           late == [i \in Nodes |-> Inbox(i)']
<1>1. m \in Message
  <2>1. nth[t] + 1 \in 1 .. Sends
    BY DEF Connect, IInv, Types, Proper
  <2> QED
    BY <2>1 DEF Message
<1>2. /\ UNCHANGED <<reading, received>> /\ backlog[n] \in Seq(Message)
      /\ backlog'[n] = Append(backlog[n], m)
      /\ \A i \in Nodes \ {n} : backlog'[i] = backlog[i]
  BY DEF Connect, IInv, Types, receiverVars
<1> HIDE DEF m
<1>3. Inbox(n)' = Append(Inbox(n), m)
  <2>1. CASE reading[n] = Nil
    BY <1>1, <1>2, <2>1 DEF Inbox
  <2>2. CASE reading[n] # Nil
    <3>1. reading[n] \in Message
      BY <2>2 DEF IInv, Types
    <3> QED
      BY <1>1, <1>2, <2>2, <3>1 DEF Inbox
  <2> QED
    BY <2>1, <2>2
<1>4. \A i \in Nodes \ {n} : Inbox(i)' = Inbox(i)
  BY <1>2 DEF Inbox
<1>5. late = [box EXCEPT ![n] = Append(box[n], m)]
  BY <1>3, <1>4
<1>6. Mail!Send(n, m)
  BY <1>2, <1>5 DEF Mail!Send
<1> QED
  BY <1>1, <1>6

LEMMA AcceptStutters ==
  ASSUME Proper, IInv, NEW n \in Nodes, Accept(n)
  PROVE  UNCHANGED Mail!vars
<1>1. /\ reading[n] = Nil /\ UNCHANGED received
      /\ backlog[n] \in Seq(Message) /\ backlog[n] # <<>>
      /\ reading'[n] = Head(backlog[n]) /\ backlog'[n] = Tail(backlog[n])
      /\ \A i \in Nodes \ {n} : backlog'[i] = backlog[i] /\ reading'[i] = reading[i]
  BY DEF Accept, IInv, Types
<1>2. Head(backlog[n]) \in Message /\ Head(backlog[n]) # Nil
  <2>1. Head(backlog[n]) \in Message
    BY <1>1
  <2> QED
    BY <2>1, MessageFacts
<1>3. <<Head(backlog[n])>> \o Tail(backlog[n]) = <<>> \o backlog[n]
  BY <1>1
<1>4. Inbox(n)' = Inbox(n)
  BY <1>1, <1>2, <1>3 DEF Inbox
<1>5. \A i \in Nodes \ {n} : Inbox(i)' = Inbox(i)
  BY <1>1 DEF Inbox
<1> QED
  BY <1>1, <1>4, <1>5 DEF Mail!vars

LEMMA DeliverReceives ==
  ASSUME Proper, IInv, NEW n \in Nodes, Deliver(n)
  PROVE  Mail!Receive(n)
<1> DEFINE box == [i \in Nodes |-> Inbox(i)]
           late == [i \in Nodes |-> Inbox(i)']
<1>1. /\ reading[n] \in Message /\ reading[n] # Nil /\ UNCHANGED backlog
      /\ backlog[n] \in Seq(Message) /\ reading'[n] = Nil
      /\ \A i \in Nodes \ {n} : reading'[i] = reading[i]
  BY DEF Deliver, IInv, Types
<1>2. received' = [received EXCEPT ![n] = Append(received[n], reading[n])]
  BY WholeMessage DEF Deliver
<1>3. Inbox(n) = <<reading[n]>> \o backlog[n] /\ Inbox(n)' = <<>> \o backlog[n]
  BY <1>1 DEF Inbox
<1>4. Inbox(n) # <<>> /\ Head(Inbox(n)) = reading[n] /\ Tail(Inbox(n)) = Inbox(n)'
  BY <1>1, <1>3
<1>5. \A i \in Nodes \ {n} : Inbox(i)' = Inbox(i)
  BY <1>1 DEF Inbox
<1>6. late = [box EXCEPT ![n] = Tail(box[n])]
  BY <1>4, <1>5
<1>7. box[n] = Inbox(n)
  OBVIOUS
<1> QED
  BY <1>2, <1>4, <1>6, <1>7 DEF Mail!Receive

LEMMA OthersStutter ==
  ASSUME UNCHANGED <<reading, backlog, received>>
  PROVE  UNCHANGED Mail!vars
BY DEF Mail!vars, Inbox

LEMMA StepsAreMail == ASSUME Proper, IInv, [Next]_vars PROVE [Mail!Next]_(Mail!vars)
<1>1. CASE UNCHANGED vars
  BY <1>1, OthersStutter DEF vars, receiverVars
<1>2. ASSUME NEW t \in Threads, SendsOn(t) PROVE UNCHANGED Mail!vars
  BY <1>2, OthersStutter DEF SendsOn, SendSize, SendChunk, SendReturns, receiverVars
<1>3. ASSUME NEW t \in Threads, NEW n \in Nodes, NEW s \in Sizes, Connect(t, n, s)
      PROVE  Mail!Next
  BY <1>3, ConnectSends DEF Mail!Next
<1>4. ASSUME NEW n \in Nodes, Accept(n) PROVE UNCHANGED Mail!vars
  BY <1>4, AcceptStutters
<1>5. ASSUME NEW n \in Nodes, ReadSize(n) \/ ReadChunk(n) PROVE UNCHANGED Mail!vars
  BY <1>5, OthersStutter DEF ReadSize, ReadChunk
<1>6. ASSUME NEW n \in Nodes, Deliver(n) PROVE Mail!Next
  BY <1>6, DeliverReceives DEF Mail!Next
<1> QED
  BY <1>1, <1>2, <1>3, <1>4, <1>5, <1>6 DEF Next, SendMsg, ReceiveMsg

LEMMA BeginsAsMail == ASSUME Init PROVE Mail!Init
<1>1. \A n \in Nodes : Inbox(n) = <<>>
  BY DEF Init, Inbox
<1> QED
  BY <1>1 DEF Init, Mail!Init

\* The connections to the nodes are a mailbox (network-ip.h: send_msg() and
\* receive_msg()): what is sent to a node is received once, whole and in the order of
\* the connect() calls, however the bytes are cut up and the senders interleave, if
\* read() returns what it is asked for.
THEOREM MailboxImplemented == ASSUME Proper PROVE Spec => ImplementsMailbox
<1>1. Init => Mail!Init
  BY BeginsAsMail
<1>2. IInv /\ [Next]_vars => [Mail!Next]_(Mail!vars)
  BY StepsAreMail
<1>3. Spec => []IInv
  BY WiresAreRight
<1> QED
  BY <1>1, <1>2, <1>3, PTL DEF Spec, ImplementsMailbox, Mail!Spec

=============================================================================
