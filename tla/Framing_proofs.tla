--------------------------- MODULE Framing_proofs ---------------------------
(***************************************************************************)
(* Proofs about Framing, for every length of header, every set of calls    *)
(* with any number of blocks of any sizes, and every way of cutting the    *)
(* stream up.                                                              *)
(***************************************************************************)
EXTENDS Framing, SequenceLemmas

\* What each block holds of what was sent.
Filled == [i \in DOMAIN arguments |-> SubSeq(arguments[i], 1, from[i] - 1)]

Stream == FlattenSeq(Sent)

\* While the header is read, what has been read and what is on the wire begin
\* the stream; a part at its end may be lost.
HeaderInv ==
    phase = "header" =>
        /\ arguments = <<>>
        /\ IsPrefix(buffer \o wire, HeaderText \o Stream)

\* Blocks are prepared only for parameters they fit, and read only when they
\* were prepared for all parameters.
AcceptInv ==
    /\ Len(arguments) <= Len(message.blocks)
    /\ arguments # <<>> => message.wanted /\ Len(message.blocks) = Len(message.params)
    /\ \A i \in DOMAIN arguments : message.params[i] = "int" => message.blocks[i] = IntSize
    /\ phase \in {"payload", "received"} => Proper /\ Len(arguments) = Len(message.blocks)

\* A block holds its own bytes up to where the reading goes on, and is blank
\* from there on.
CopyInv ==
    \A i \in DOMAIN arguments :
        /\ from[i] \in 1 .. message.blocks[i] + 1
        /\ arguments[i] = [j \in 1 .. message.blocks[i] |-> IF j < from[i] THEN <<i, j>> ELSE Blank]

\* A block that lacks bytes was prepared when the buffer was used up, and so
\* were those after it, of which nothing has arrived.
OrderInv ==
    \A i \in Unread : buffer = <<>> /\ \A k \in DOMAIN arguments : k > i => from[k] = 1

\* Placement, whether the message is proper or not, up to the end.
StreamInv ==
    phase \in {"blocks", "payload", "received"} =>
        IsPrefix((FlattenSeq(Filled) \o buffer) \o wire, Stream)

DoneInv == phase = "received" => Unread = {}

IInv ==
    /\ TypeOK
    /\ HeaderInv
    /\ AcceptInv
    /\ CopyInv
    /\ OrderInv
    /\ StreamInv
    /\ DoneInv

-----------------------------------------------------------------------------
(* The message and the stream.                                             *)

LEMMA MessageType ==
    ASSUME message \in Calls
    PROVE  /\ message.params \in Seq(Types)
           /\ message.blocks \in Seq(Nat)
           /\ message.wanted \in BOOLEAN
           /\ Len(message.blocks) \in Nat
           /\ DOMAIN message.blocks = 1 .. Len(message.blocks)
           /\ \A i \in DOMAIN message.blocks : message.blocks[i] \in Nat
           /\ Len(message.params) \in Nat
           /\ DOMAIN message.params = 1 .. Len(message.params)
<1>1. message \in [params : Seq(Types), blocks : Seq(Nat), wanted : BOOLEAN]
  BY FramingAssumption
<1>2. message.params \in Seq(Types) /\ message.blocks \in Seq(Nat) /\ message.wanted \in BOOLEAN
  BY <1>1
<1> QED
  BY <1>2, LenProperties, ElementOfSeq

\* A sequence given by a function on the first numbers.
LEMMA FunctionIsSeq ==
    ASSUME NEW S, NEW n \in Nat, NEW f \in [1 .. n -> S]
    PROVE  f \in Seq(S) /\ Len(f) = n
  OBVIOUS

LEMMA BlockType ==
    ASSUME message \in Calls, NEW i \in DOMAIN message.blocks
    PROVE  /\ Block(i) \in Seq(Bytes)
           /\ Len(Block(i)) = message.blocks[i]
           /\ \A j \in 1 .. message.blocks[i] : Block(i)[j] = <<i, j>>
<1>1. i \in Nat /\ message.blocks[i] \in Nat
  BY MessageType
<1>2. Block(i) \in [1 .. message.blocks[i] -> Bytes]
  BY <1>1 DEF Block, Bytes
<1> QED
  BY <1>1, <1>2, FunctionIsSeq DEF Block

LEMMA SentType ==
    ASSUME message \in Calls
    PROVE  /\ Sent \in Seq(Seq(Bytes))
           /\ Len(Sent) = Len(message.blocks)
           /\ \A i \in 1 .. Len(message.blocks) : Sent[i] = Block(i)
           /\ Stream \in Seq(Bytes)
<1>1. Len(message.blocks) \in Nat /\ DOMAIN message.blocks = 1 .. Len(message.blocks)
  BY MessageType
<1>2. Sent \in [1 .. Len(message.blocks) -> Seq(Bytes)]
  BY <1>1, BlockType DEF Sent
<1>3. Sent \in Seq(Seq(Bytes)) /\ Len(Sent) = Len(message.blocks)
  BY <1>1, <1>2, FunctionIsSeq
<1>4. Stream \in Seq(Bytes)
  BY <1>3, FlattenType DEF Stream
<1> QED
  BY <1>1, <1>3, <1>4 DEF Sent

LEMMA HeaderTextType ==
    /\ HeaderText \in Seq(Bytes)
    /\ Len(HeaderText) = Header
    /\ \A k \in 1 .. Header : HeaderText[k] = <<0, k>>
<1>1. HeaderText \in [1 .. Header -> Bytes]
  BY FramingAssumption DEF HeaderText, Bytes
<1> QED
  BY <1>1, FunctionIsSeq, FramingAssumption DEF HeaderText

\* The parts of the invariant that speak of the blocks, with their types.
LEMMA BlocksType ==
    ASSUME TypeOK, AcceptInv, CopyInv
    PROVE  /\ Len(arguments) \in 0 .. Len(message.blocks)
           /\ DOMAIN arguments = 1 .. Len(arguments)
           /\ DOMAIN arguments \subseteq DOMAIN message.blocks
           /\ \A i \in DOMAIN arguments :
                 /\ arguments[i] \in Seq(Bytes)
                 /\ Len(arguments[i]) = message.blocks[i]
                 /\ from[i] \in 1 .. message.blocks[i] + 1
<1>1. Len(arguments) \in Nat /\ DOMAIN arguments = 1 .. Len(arguments)
  BY LenProperties DEF TypeOK
<1>2. /\ Len(message.blocks) \in Nat
      /\ DOMAIN message.blocks = 1 .. Len(message.blocks)
      /\ \A i \in DOMAIN message.blocks : message.blocks[i] \in Nat
  BY MessageType DEF TypeOK
<1>3. Len(arguments) \in 0 .. Len(message.blocks)
  BY <1>1, <1>2 DEF AcceptInv
<1>4. DOMAIN arguments \subseteq DOMAIN message.blocks
  BY <1>1, <1>2, <1>3
<1>5. ASSUME NEW i \in DOMAIN arguments
      PROVE  /\ arguments[i] \in Seq(Bytes)
             /\ Len(arguments[i]) = message.blocks[i]
             /\ from[i] \in 1 .. message.blocks[i] + 1
  <2>1. arguments[i] \in Seq(Bytes)
    BY <1>1, ElementOfSeq DEF TypeOK
  <2>2. message.blocks[i] \in Nat
    BY <1>2, <1>4
  <2>3. DOMAIN arguments[i] = 1 .. message.blocks[i]
    BY DEF CopyInv
  <2>4. DOMAIN arguments[i] = 1 .. Len(arguments[i]) /\ Len(arguments[i]) \in Nat
    BY <2>1, LenProperties
  <2>5. Len(arguments[i]) = message.blocks[i]
    BY <2>2, <2>3, <2>4
  <2> QED
    BY <2>1, <2>5 DEF CopyInv
<1> QED
  BY <1>1, <1>3, <1>4, <1>5

LEMMA FilledType ==
    ASSUME TypeOK, AcceptInv, CopyInv
    PROVE  /\ Filled \in Seq(Seq(Bytes))
           /\ Len(Filled) = Len(arguments)
           /\ FlattenSeq(Filled) \in Seq(Bytes)
           /\ \A i \in DOMAIN arguments :
                 /\ Filled[i] = SubSeq(arguments[i], 1, from[i] - 1)
                 /\ Filled[i] \in Seq(Bytes)
                 /\ Len(Filled[i]) = from[i] - 1
<1>1. Len(arguments) \in Nat /\ DOMAIN arguments = 1 .. Len(arguments)
  BY LenProperties DEF TypeOK
<1>2. ASSUME NEW i \in DOMAIN arguments
      PROVE  /\ Filled[i] = SubSeq(arguments[i], 1, from[i] - 1)
             /\ Filled[i] \in Seq(Bytes)
             /\ Len(Filled[i]) = from[i] - 1
  <2>1. /\ arguments[i] \in Seq(Bytes)
        /\ Len(arguments[i]) = message.blocks[i]
        /\ from[i] \in 1 .. message.blocks[i] + 1
    BY BlocksType
  <2>2. message.blocks[i] \in Nat
    BY BlocksType, MessageType DEF TypeOK
  <2>3. from[i] - 1 \in 0 .. Len(arguments[i])
    BY <2>1, <2>2
  <2>4. Filled[i] = SubSeq(arguments[i], 1, from[i] - 1)
    BY DEF Filled
  <2> QED
    BY <2>1, <2>3, <2>4, FrontProperties
<1>3. Filled \in [1 .. Len(arguments) -> Seq(Bytes)]
  BY <1>1, <1>2 DEF Filled
<1>4. Filled \in Seq(Seq(Bytes)) /\ Len(Filled) = Len(arguments)
  BY <1>1, <1>3, FunctionIsSeq
<1> QED
  BY <1>2, <1>4, FlattenType

\* A block that lacks nothing holds what was sent; the rest of it are the bytes
\* from where the reading goes on.
LEMMA FilledBlock ==
    ASSUME TypeOK, AcceptInv, CopyInv, NEW i \in DOMAIN arguments
    PROVE  /\ i \notin Unread => arguments[i] = Block(i) /\ Filled[i] = Sent[i]
           /\ i \in Unread =>
                 \E r \in Seq(Bytes) :
                     /\ Sent[i] = Filled[i] \o r
                     /\ r # <<>>
                     /\ Head(r) = <<i, from[i]>>
<1> DEFINE n == from[i]
           m == message.blocks[i]
<1>1. /\ arguments[i] \in Seq(Bytes)
      /\ Len(arguments[i]) = m
      /\ n \in 1 .. m + 1
      /\ i \in DOMAIN message.blocks
  BY BlocksType
<1>2. m \in Nat /\ i \in 1 .. Len(message.blocks) /\ i \in Nat
  BY <1>1, MessageType DEF TypeOK
<1>3. Sent[i] = Block(i)
  BY <1>2, SentType DEF TypeOK
<1>4. Block(i) \in Seq(Bytes) /\ Len(Block(i)) = m /\ \A j \in 1 .. m : Block(i)[j] = <<i, j>>
  BY <1>1, BlockType DEF TypeOK
<1>5. arguments[i] = [j \in 1 .. m |-> IF j < n THEN <<i, j>> ELSE Blank]
  BY DEF CopyInv
<1>6. Filled[i] = SubSeq(arguments[i], 1, n - 1)
  BY FilledType
<1> HIDE DEF n, m
<1>7. ASSUME i \notin Unread
      PROVE  arguments[i] = Block(i) /\ Filled[i] = Sent[i]
  <2>1. n = m + 1
    BY <1>1, <1>2, <1>7 DEF Unread, n
  <2>2. \A j \in 1 .. m : arguments[i][j] = Block(i)[j]
    BY <1>2, <1>4, <1>5, <2>1
  <2>3. arguments[i] = Block(i)
    BY <1>1, <1>4, <2>2, SeqEqual
  <2>4. n - 1 = Len(arguments[i])
    BY <1>1, <1>2, <2>1
  <2>5. Filled[i] = arguments[i]
    BY <1>1, <1>6, <2>4, SubSeqFull
  <2> QED
    BY <1>3, <2>3, <2>5
<1>8. ASSUME i \in Unread
      PROVE  \E r \in Seq(Bytes) : Sent[i] = Filled[i] \o r /\ r # <<>> /\ Head(r) = <<i, n>>
  <2>1. n \in 1 .. m
    BY <1>1, <1>2, <1>8 DEF Unread, n
  <2>2. n - 1 \in 0 .. m /\ n - 1 + 1 = n
    BY <1>2, <2>1
  <2>3. Filled[i] = SubSeq(Block(i), 1, n - 1)
    <3>1. /\ SubSeq(arguments[i], 1, n - 1) \in Seq(Bytes)
          /\ Len(SubSeq(arguments[i], 1, n - 1)) = n - 1
          /\ \A j \in 1 .. n - 1 : SubSeq(arguments[i], 1, n - 1)[j] = arguments[i][j]
      BY <1>1, <2>2, FrontProperties
    <3>2. /\ SubSeq(Block(i), 1, n - 1) \in Seq(Bytes)
          /\ Len(SubSeq(Block(i), 1, n - 1)) = n - 1
          /\ \A j \in 1 .. n - 1 : SubSeq(Block(i), 1, n - 1)[j] = Block(i)[j]
      BY <1>4, <2>2, FrontProperties
    <3>3. \A j \in 1 .. n - 1 : arguments[i][j] = Block(i)[j]
      <4>1. \A j \in 1 .. n - 1 : j \in 1 .. m /\ j < n
        BY <1>2, <2>1
      <4>2. \A j \in 1 .. m : j < n => arguments[i][j] = <<i, j>>
        BY <1>5
      <4> QED
        BY Zenon, <1>4, <4>1, <4>2
    <3>4. \A j \in 1 .. n - 1 : SubSeq(arguments[i], 1, n - 1)[j] = SubSeq(Block(i), 1, n - 1)[j]
      BY Zenon, <3>1, <3>2, <3>3
    <3> QED
      BY <1>6, <3>1, <3>2, <3>4, SeqEqual
  <2> DEFINE r == SubSeq(Block(i), n, m)
  <2>4. SubSeq(Block(i), 1, n - 1) \o r = Block(i)
    <3>1. 1 \in 1 .. m + 1 /\ n - 1 \in 1 - 1 .. m /\ m \in n - 1 .. m
      BY <1>2, <2>1
    <3>2. SubSeq(Block(i), 1, n - 1) \o SubSeq(Block(i), n - 1 + 1, m) = SubSeq(Block(i), 1, m)
      BY <1>4, <3>1, ConcatAdjacentSubSeq
    <3>3. SubSeq(Block(i), 1, m) = Block(i)
      BY <1>4, SubSeqFull
    <3> QED
      BY <2>2, <3>2, <3>3
  <2>5. r \in Seq(Bytes) /\ Len(r) = m - n + 1 /\ r[1] = <<i, n>>
    <3>1. n \in Int /\ m \in Int /\ \A j \in n .. m : Block(i)[j] \in Bytes
      BY <1>2, <1>4, <2>1, ElementOfSeq
    <3>2. /\ r \in Seq(Bytes)
          /\ Len(r) = IF n <= m THEN m - n + 1 ELSE 0
          /\ \A j \in 1 .. m - n + 1 : r[j] = Block(i)[n + j - 1]
      BY <3>1, SubSeqProperties
    <3>3. n <= m /\ 1 \in 1 .. m - n + 1 /\ n + 1 - 1 = n
      BY <1>2, <2>1
    <3>4. Len(r) = m - n + 1
      BY <3>2, <3>3
    <3>5. r[1] = Block(i)[n]
      BY Zenon, <3>2, <3>3
    <3> QED
      BY Zenon, <1>4, <2>1, <3>2, <3>4, <3>5
  <2> HIDE DEF r
  <2>6. r # <<>> /\ Head(r) = <<i, n>>
    BY <1>2, <2>1, <2>5
  <2> QED
    BY <1>3, <2>3, <2>4, <2>5, <2>6
<1> QED
  BY <1>7, <1>8 DEF n

\* When no block lacks anything the blocks are the first that were sent.
LEMMA FilledIsSent ==
    ASSUME TypeOK, AcceptInv, CopyInv, Unread = {}
    PROVE  /\ Filled = SubSeq(Sent, 1, Len(arguments))
           /\ arguments = SubSeq(Sent, 1, Len(arguments))
<1> DEFINE n == Len(arguments)
           front == SubSeq(Sent, 1, n)
<1>1. /\ n \in 0 .. Len(message.blocks)
      /\ DOMAIN arguments = 1 .. n
  BY BlocksType
<1>2. /\ Sent \in Seq(Seq(Bytes))
      /\ Len(Sent) = Len(message.blocks)
      /\ \A i \in 1 .. Len(message.blocks) : Sent[i] = Block(i)
  BY SentType DEF TypeOK
<1>3. /\ front \in Seq(Seq(Bytes))
      /\ Len(front) = n
      /\ \A i \in 1 .. n : front[i] = Sent[i]
  BY <1>1, <1>2, FrontProperties
<1>4. Filled \in Seq(Seq(Bytes)) /\ Len(Filled) = n
  BY FilledType
<1>5. arguments \in Seq(Seq(Bytes))
  BY DEF TypeOK
<1>6. \A i \in 1 .. n : Filled[i] = Sent[i] /\ arguments[i] = Sent[i]
  <2>1. \A i \in 1 .. n : i \in 1 .. Len(message.blocks)
    BY <1>1, MessageType DEF TypeOK
  <2> QED
    BY <1>1, <1>2, <2>1, FilledBlock
<1> HIDE DEF n, front
<1>7. Filled = front
  BY <1>3, <1>4, <1>6, SeqEqual
<1>8. arguments = front
  <2>1. Len(arguments) = n
    BY DEF n
  <2> QED
    BY <1>3, <1>5, <1>6, <2>1, SeqEqual
<1> QED
  BY <1>7, <1>8 DEF n, front

\* Up to a block after which none has anything, the flattened blocks end with it.
LEMMA FlattenUpTo ==
    ASSUME NEW S, NEW s \in Seq(Seq(S)), NEW n \in 1 .. Len(s),
           \A i \in n + 1 .. Len(s) : s[i] = <<>>
    PROVE  FlattenSeq(s) = FlattenSeq(SubSeq(s, 1, n - 1)) \o s[n]
<1>1. Len(s) \in Nat
  BY LenProperties
<1>2. n \in 0 .. Len(s) /\ n - 1 \in 0 .. Len(s) - 1 /\ n - 1 + 1 = n
  BY <1>1
<1>3. FlattenSeq(s) = FlattenSeq(SubSeq(s, 1, n))
  BY <1>2, FlattenEmptyTail
<1>4. FlattenSeq(SubSeq(s, 1, n - 1 + 1)) = FlattenSeq(SubSeq(s, 1, n - 1)) \o s[n - 1 + 1]
  BY <1>2, FlattenFront
<1> QED
  BY Zenon, <1>2, <1>3, <1>4

LEMMA SameMessage ==
    ASSUME message' = message
    PROVE  Sent' = Sent /\ Stream' = Stream /\ (Proper <=> Proper')
  BY DEF Sent, Block, Stream, Proper

-----------------------------------------------------------------------------
(* The invariant holds initially, and every step keeps it.                 *)

LEMMA InitHolds == Init => IInv
<1> SUFFICES ASSUME Init
             PROVE  IInv
  OBVIOUS
<1> USE DEF Init
<1>1. HeaderText \in Seq(Bytes) /\ Stream \in Seq(Bytes) /\ <<>> \in Seq(Bytes)
  BY HeaderTextType, SentType, EmptySeq
<1>2. wire = HeaderText \o Stream
  BY DEF Stream
<1>3. wire \in Seq(Bytes)
  BY <1>1, <1>2, ConcatProperties
<1>4. TypeOK
  <2>1. <<>> \in Seq(Seq(Bytes)) /\ <<>> \in Seq(Nat \ {0})
    BY EmptySeq
  <2> QED
    BY <1>1, <1>3, <2>1 DEF TypeOK
<1>5. DOMAIN arguments = {}
  OBVIOUS
<1>6. HeaderInv
  <2>1. <<>> \o wire = wire /\ wire \o <<>> = wire
    BY <1>3, ConcatEmptySeq
  <2>2. IsPrefix(wire, HeaderText \o Stream)
    BY <1>1, <1>2, <1>3, <2>1, PrefixIsConcat
  <2> QED
    BY <2>1, <2>2 DEF HeaderInv
<1>7. AcceptInv
  <2>1. Len(arguments) = 0 /\ Len(message.blocks) \in Nat
    BY MessageType
  <2>2. Len(arguments) <= Len(message.blocks)
    BY <2>1
  <2>3. arguments = <<>> /\ phase = "header"
    OBVIOUS
  <2> HIDE DEF Init
  <2> QED
    BY <1>5, <2>2, <2>3 DEF AcceptInv
<1>8. CopyInv /\ OrderInv /\ StreamInv /\ DoneInv
  BY <1>5 DEF CopyInv, OrderInv, Unread, StreamInv, DoneInv
<1> QED
  BY <1>4, <1>6, <1>7, <1>8 DEF IInv

\* A step that touches nothing but the phase.
LEMMA PhaseOnly ==
    ASSUME IInv, UNCHANGED <<message, wire, sender, buffer, arguments, from>>,
           phase' \in {"header", "blocks", "payload", "received", "failed"}
    PROVE  /\ TypeOK' /\ CopyInv' /\ OrderInv'
           /\ Unread' = Unread
           /\ Filled' = Filled
           /\ Stream' = Stream
           /\ (Proper <=> Proper')
<1>1. TypeOK'
  BY DEF IInv, TypeOK
<1>2. CopyInv'
  BY DEF IInv, CopyInv
<1>3. Unread' = Unread /\ Filled' = Filled
  BY DEF Unread, Filled
<1>4. OrderInv'
  BY <1>3 DEF IInv, OrderInv
<1> QED
  BY <1>1, <1>2, <1>3, <1>4, SameMessage

LEMMA StutterKept ==
    ASSUME IInv, UNCHANGED vars
    PROVE  IInv'
<1>1. UNCHANGED <<message, wire, sender, buffer, arguments, from>> /\ phase' = phase
  BY DEF vars
<1>2. phase' \in {"header", "blocks", "payload", "received", "failed"}
  BY <1>1 DEF IInv, TypeOK
<1>3. /\ TypeOK' /\ CopyInv' /\ OrderInv'
      /\ Unread' = Unread
      /\ Filled' = Filled
      /\ Stream' = Stream
      /\ (Proper <=> Proper')
  BY <1>1, <1>2, PhaseOnly
<1>4. HeaderInv' /\ StreamInv' /\ DoneInv'
  BY <1>1, <1>3 DEF IInv, HeaderInv, StreamInv, DoneInv, HeaderText
<1>5. AcceptInv'
  BY <1>1, <1>3 DEF IInv, AcceptInv
<1> QED
  BY <1>3, <1>4, <1>5 DEF IInv

\* The steps that fail: nothing is said of a message that failed but what was
\* said of its blocks.
LEMMA FailureKept ==
    ASSUME IInv, Refuse \/ OnError
    PROVE  IInv'
<1>1. UNCHANGED <<message, wire, sender, buffer, arguments, from>> /\ phase' = "failed"
  BY DEF Refuse, OnError
<1>2. /\ TypeOK' /\ CopyInv' /\ OrderInv'
  BY <1>1, PhaseOnly
<1>3. HeaderInv' /\ StreamInv' /\ DoneInv'
  BY <1>1 DEF HeaderInv, StreamInv, DoneInv
<1>4. AcceptInv'
  BY <1>1 DEF IInv, AcceptInv
<1> QED
  BY <1>2, <1>3, <1>4 DEF IInv

LEMMA ReadPayloadKept ==
    ASSUME IInv, ReadPayload
    PROVE  IInv'
<1>1. /\ UNCHANGED <<message, wire, sender, buffer, arguments, from>>
      /\ phase = "blocks"
      /\ phase' = "payload"
  BY DEF ReadPayload
<1>2. /\ TypeOK' /\ CopyInv' /\ OrderInv'
      /\ Filled' = Filled
      /\ Stream' = Stream
      /\ (Proper <=> Proper')
  BY <1>1, PhaseOnly
<1>3. HeaderInv' /\ StreamInv' /\ DoneInv'
  BY <1>1, <1>2 DEF IInv, HeaderInv, StreamInv, DoneInv
<1>4. Proper /\ Len(arguments) = Len(message.blocks)
  <2>1. /\ message.wanted
        /\ Len(message.blocks) = Len(message.params)
        /\ Len(arguments) = Len(message.params)
    BY DEF ReadPayload, Acceptable
  <2>2. DOMAIN arguments = DOMAIN message.params
    BY <2>1, MessageType, BlocksType DEF IInv, TypeOK
  <2> QED
    BY <2>1, <2>2 DEF IInv, AcceptInv, Proper
<1>5. AcceptInv'
  BY <1>1, <1>2, <1>4 DEF IInv, AcceptInv
<1> QED
  BY <1>2, <1>3, <1>5 DEF IInv

LEMMA OnPayloadReceivedKept ==
    ASSUME IInv, OnPayloadReceived
    PROVE  IInv'
<1>1. /\ UNCHANGED <<message, wire, sender, buffer, arguments, from>>
      /\ phase = "payload"
      /\ phase' = "received"
      /\ Unread = {}
  BY DEF OnPayloadReceived
<1>2. /\ TypeOK' /\ CopyInv' /\ OrderInv'
      /\ Unread' = Unread
      /\ Filled' = Filled
      /\ Stream' = Stream
      /\ (Proper <=> Proper')
  BY <1>1, PhaseOnly
<1>3. HeaderInv' /\ StreamInv' /\ DoneInv'
  BY <1>1, <1>2 DEF IInv, HeaderInv, StreamInv, DoneInv
<1>4. AcceptInv'
  BY <1>1, <1>2 DEF IInv, AcceptInv
<1> QED
  BY <1>2, <1>3, <1>4 DEF IInv

LEMMA DieKept ==
    ASSUME IInv, Die
    PROVE  IInv'
<1>1. UNCHANGED <<message, buffer, arguments, from, phase>> /\ sender' = FALSE
  BY DEF Die
<1>2. PICK n \in 0 .. Len(wire) : wire' = SubSeq(wire, 1, n)
  BY DEF Die
<1>3. wire \in Seq(Bytes) /\ buffer \in Seq(Bytes)
  BY DEF IInv, TypeOK
<1>4. wire' \in Seq(Bytes)
  BY <1>2, <1>3, FrontProperties
<1>5. TypeOK'
  BY <1>1, <1>4 DEF IInv, TypeOK
<1>6. /\ Sent' = Sent /\ Stream' = Stream /\ (Proper <=> Proper')
      /\ Unread' = Unread /\ Filled' = Filled /\ HeaderText' = HeaderText
  BY <1>1, SameMessage DEF Unread, Filled, HeaderText
<1>7. Stream \in Seq(Bytes) /\ HeaderText \in Seq(Bytes) /\ FlattenSeq(Filled) \in Seq(Bytes)
  BY SentType, HeaderTextType, FilledType DEF IInv, TypeOK
<1>8. HeaderInv'
  <2>1. ASSUME phase = "header"
        PROVE  IsPrefix(buffer \o wire', HeaderText \o Stream)
    <3>1. HeaderText \o Stream \in Seq(Bytes)
      BY <1>7, ConcatProperties
    <3>2. IsPrefix(buffer \o wire, HeaderText \o Stream)
      BY <2>1 DEF IInv, HeaderInv
    <3> QED
      BY <1>2, <1>3, <3>1, <3>2, PrefixCut
  <2> QED
    BY <1>1, <1>6, <2>1 DEF IInv, HeaderInv
<1>9. StreamInv'
  <2>1. ASSUME phase \in {"blocks", "payload", "received"}
        PROVE  IsPrefix((FlattenSeq(Filled) \o buffer) \o wire', Stream)
    <3>1. FlattenSeq(Filled) \o buffer \in Seq(Bytes)
      BY <1>3, <1>7, ConcatProperties
    <3>2. IsPrefix((FlattenSeq(Filled) \o buffer) \o wire, Stream)
      BY <2>1 DEF IInv, StreamInv
    <3> QED
      BY <1>2, <1>3, <1>7, <3>1, <3>2, PrefixCut
  <2> QED
    BY <1>1, <1>6, <2>1 DEF StreamInv
<1>10. AcceptInv' /\ CopyInv' /\ OrderInv' /\ DoneInv'
  BY <1>1, <1>6 DEF IInv, AcceptInv, CopyInv, OrderInv, DoneInv
<1> QED
  BY <1>5, <1>8, <1>9, <1>10 DEF IInv

\* The end of the header is found when all of it has been read, and what is
\* left of the reads is the beginning of the blocks.
LEMMA HeaderRead ==
    ASSUME NEW read \in Seq(Bytes), NEW rest \in Seq(Bytes), NEW stream \in Seq(Bytes),
           IsPrefix(read \o rest, HeaderText \o stream), Contains(read, NUL)
    PROVE  /\ SubSeq(read, Header + 1, Len(read)) \in Seq(Bytes)
           /\ IsPrefix(SubSeq(read, Header + 1, Len(read)) \o rest, stream)
<1>1. Len(read) \in Nat /\ Header \in Nat \ {0} /\ HeaderText \in Seq(Bytes) /\ Len(HeaderText) = Header
  BY LenProperties, HeaderTextType, FramingAssumption
<1>2. Header <= Len(read)
  <2>1. PICK k \in 1 .. Len(read) : read[k] = <<0, Header>>
    BY DEF Contains, NUL
  <2>2. SUFFICES ASSUME Len(read) < Header
                 PROVE  FALSE
    BY <1>1
  <2>3. k \in 1 .. Header /\ k <= Len(HeaderText) /\ k # Header
    BY <1>1, <2>2
  <2>4. read[k] = HeaderText[k]
    BY <1>1, <2>3, PrefixStart
  <2>5. HeaderText[k] = <<0, k>>
    BY <2>3, HeaderTextType
  <2> QED
    BY <2>1, <2>3, <2>4, <2>5
<1>3. SubSeq(read, Header + 1, Len(read)) \in Seq(Bytes)
  BY <1>1, <1>2, Split
<1>4. IsPrefix(SubSeq(read, Len(HeaderText) + 1, Len(read)) \o rest, stream)
  BY <1>1, <1>2, AfterStart
<1> QED
  BY Zenon, <1>1, <1>3, <1>4

LEMMA ReadHeaderKept ==
    ASSUME IInv, ReadHeader
    PROVE  IInv'
<1>1. phase = "header" /\ UNCHANGED <<message, sender, arguments, from>>
  BY DEF ReadHeader
<1>2. /\ arguments = <<>>
      /\ IsPrefix(buffer \o wire, HeaderText \o Stream)
  BY <1>1 DEF IInv, HeaderInv
<1>3. wire \in Seq(Bytes) /\ buffer \in Seq(Bytes) /\ Stream \in Seq(Bytes)
  BY SentType DEF IInv, TypeOK
<1>4. Len(wire) \in Nat
  BY <1>3, LenProperties
<1>5. PICK read :
         /\ read \in Seq(Bytes)
         /\ wire' \in Seq(Bytes)
         /\ read \o wire' = buffer \o wire
         /\ \/ /\ Contains(read, NUL)
               /\ buffer' = SubSeq(read, Header + 1, Len(read))
               /\ phase' = "blocks"
            \/ buffer' = read /\ phase' = phase
  <2>1. PICK n \in 1 .. Len(wire) :
           LET read == buffer \o SubSeq(wire, 1, n)
           IN  /\ wire' = SubSeq(wire, n + 1, Len(wire))
               /\ IF Contains(read, NUL)
                  THEN /\ buffer' = SubSeq(read, Header + 1, Len(read))
                       /\ phase' = "blocks"
                  ELSE /\ buffer' = read
                       /\ UNCHANGED phase
    BY DEF ReadHeader
  <2> DEFINE v == SubSeq(wire, 1, n)
             u == SubSeq(wire, n + 1, Len(wire))
  <2>2. v \in Seq(Bytes) /\ u \in Seq(Bytes) /\ v \o u = wire
    <3>1. n \in 0 .. Len(wire)
      BY <1>4
    <3> QED
      BY <1>3, <3>1, Split
  <2>3. \/ /\ Contains(buffer \o v, NUL)
           /\ buffer' = SubSeq(buffer \o v, Header + 1, Len(buffer \o v))
           /\ phase' = "blocks"
        \/ buffer' = buffer \o v /\ phase' = phase
    BY Zenon, <2>1
  <2>4. wire' = u
    BY <2>1
  <2> HIDE DEF v, u
  <2>5. buffer \o v \in Seq(Bytes)
    BY <1>3, <2>2, ConcatProperties
  <2>6. u \in Seq(Bytes) /\ v \in Seq(Bytes)
    BY <2>2
  <2>7. (buffer \o v) \o u = buffer \o (v \o u)
    BY <1>3, <2>6
  <2>8. (buffer \o v) \o wire' = buffer \o wire /\ wire' \in Seq(Bytes)
    BY Zenon, <2>2, <2>4, <2>7
  <2> QED
    BY Zenon, <2>3, <2>5, <2>8
<1>6. read \in Seq(Bytes) /\ wire' \in Seq(Bytes) /\ IsPrefix(read \o wire', HeaderText \o Stream)
  BY Zenon, <1>2, <1>5
<1>7. Stream' = Stream /\ HeaderText' = HeaderText /\ arguments' = <<>> /\ DOMAIN arguments' = {}
  BY <1>1, <1>2, SameMessage DEF HeaderText
<1>8. Unread' = {} /\ Filled' = <<>>
  <2>1. Unread' = {}
    BY <1>7 DEF Unread
  <2>2. Filled' = [i \in {} |-> SubSeq(arguments'[i], 1, from'[i] - 1)]
    BY <1>7 DEF Filled
  <2> QED
    BY <2>1, <2>2
<1>9. AcceptInv' /\ CopyInv' /\ OrderInv' /\ phase' \in {"header", "blocks"}
  <2>1. phase' \in {"header", "blocks"}
    BY <1>1, <1>5
  <2>2. AcceptInv'
    BY <1>1, <1>2, <2>1 DEF IInv, AcceptInv
  <2> QED
    BY <1>7, <1>8, <2>1, <2>2 DEF CopyInv, OrderInv
<1>10. CASE Contains(read, NUL) /\ buffer' = SubSeq(read, Header + 1, Len(read)) /\ phase' = "blocks"
  <2>1. buffer' \in Seq(Bytes) /\ IsPrefix(buffer' \o wire', Stream)
    BY <1>3, <1>6, <1>10, HeaderRead
  <2>2. TypeOK'
    BY <1>1, <1>6, <1>10, <2>1 DEF IInv, TypeOK
  <2>3. FlattenSeq(Filled') \o buffer' = buffer'
    <3>1. FlattenSeq(Filled') = <<>>
      BY Zenon, <1>8, FlattenOfEmpty
    <3>2. <<>> \o buffer' = buffer'
      BY <2>1, ConcatEmptySeq
    <3> QED
      BY Zenon, <3>1, <3>2
  <2>4. StreamInv'
    BY Zenon, <1>7, <2>1, <2>3 DEF StreamInv
  <2> QED
    BY <1>9, <1>10, <2>2, <2>4 DEF IInv, HeaderInv, DoneInv
<1>11. CASE buffer' = read /\ phase' = phase
  <2>1. TypeOK'
    BY <1>1, <1>6, <1>11 DEF IInv, TypeOK
  <2>2. HeaderInv'
    BY Zenon, <1>6, <1>7, <1>11 DEF HeaderInv
  <2> QED
    BY <1>1, <1>9, <1>11, <2>1, <2>2 DEF IInv, StreamInv, DoneInv
<1> QED
  BY <1>5, <1>10, <1>11

\* What the header's read brought of the next block is how that block begins.
LEMMA BufferContinues ==
    ASSUME IInv, phase = "blocks", Len(arguments) + 1 \in 1 .. Len(message.blocks),
           NEW j \in 1 .. Len(buffer), j <= message.blocks[Len(arguments) + 1]
    PROVE  buffer[j] = <<Len(arguments) + 1, j>>
<1> DEFINE n == Len(arguments)
           block == Block(n + 1)
           placed == FlattenSeq(Filled)
<1>1. /\ buffer \in Seq(Bytes) /\ wire \in Seq(Bytes)
      /\ n \in Nat /\ Len(buffer) \in Nat /\ Len(message.blocks) \in Nat
  BY LenProperties, MessageType DEF IInv, TypeOK
<1>2. Unread = {}
  <2>1. buffer # <<>>
    <3>1. Len(buffer) # 0
      BY <1>1
    <3> QED
      BY <3>1, <1>1, EmptySeq
  <2> QED
    BY <2>1 DEF IInv, OrderInv
<1>3. /\ Sent \in Seq(Seq(Bytes))
      /\ Len(Sent) = Len(message.blocks)
      /\ Sent[n + 1] = block
      /\ Stream \in Seq(Bytes)
  BY SentType DEF IInv, TypeOK
<1>4. /\ block \in Seq(Bytes)
      /\ Len(block) = message.blocks[n + 1]
      /\ \A k \in 1 .. message.blocks[n + 1] : block[k] = <<n + 1, k>>
  <2>1. n + 1 \in DOMAIN message.blocks
    BY MessageType DEF IInv, TypeOK
  <2> QED
    BY <2>1, BlockType DEF IInv, TypeOK
<1>5. placed \in Seq(Bytes) /\ placed = FlattenSeq(SubSeq(Sent, 1, n))
  BY <1>2, FilledIsSent, FilledType DEF IInv
<1> HIDE DEF n, block, placed
<1>6. PICK r \in Seq(Bytes) : Stream = FlattenSeq(SubSeq(Sent, 1, n + 1)) \o r
  <2>1. n + 1 \in 0 .. Len(Sent)
    BY <1>1, <1>3 DEF n
  <2> QED
    BY <1>3, <2>1, FlattenGrows DEF Stream
<1>7. FlattenSeq(SubSeq(Sent, 1, n + 1)) = placed \o block
  <2>1. n \in 0 .. Len(Sent) - 1
    BY <1>1, <1>3 DEF n
  <2>2. FlattenSeq(SubSeq(Sent, 1, n + 1)) = FlattenSeq(SubSeq(Sent, 1, n)) \o Sent[n + 1]
    BY <1>3, <2>1, FlattenFront
  <2> QED
    BY Zenon, <1>3, <1>5, <2>2
<1>8. block \o r \in Seq(Bytes) /\ (placed \o block) \o r = placed \o (block \o r)
  <2>1. placed \in Seq(Bytes) /\ block \in Seq(Bytes)
    BY <1>4, <1>5
  <2> QED
    BY <2>1
<1>9. Stream = placed \o (block \o r)
  BY Zenon, <1>6, <1>7, <1>8
<1>10. IsPrefix((placed \o buffer) \o wire, placed \o (block \o r))
  <2>1. IsPrefix((placed \o buffer) \o wire, Stream)
    BY DEF IInv, StreamInv, placed
  <2> QED
    BY Zenon, <1>9, <2>1
<1>11. IsPrefix(buffer \o wire, block \o r)
  BY <1>1, <1>5, <1>8, <1>10, AfterCommonStart
<1>12. Len(block) = message.blocks[n + 1] /\ j <= Len(block)
  BY <1>4 DEF n
<1>13. buffer[j] = block[j]
  BY <1>1, <1>4, <1>11, <1>12, PrefixStart
<1>14. j \in 1 .. message.blocks[n + 1]
  BY <1>1, <1>4, <1>12, LenProperties
<1> QED
  BY <1>4, <1>13, <1>14 DEF n

LEMMA PrepareKept ==
    ASSUME IInv, Prepare
    PROVE  IInv'
<1> DEFINE n == Len(arguments)
           size == message.blocks[n + 1]
           have == Lesser(size, Len(buffer))
           block == [j \in 1 .. size |-> IF j <= have THEN buffer[j] ELSE Blank]
           front == SubSeq(buffer, 1, have)
           back == SubSeq(buffer, have + 1, Len(buffer))
<1>1. /\ phase = "blocks"
      /\ UNCHANGED <<message, wire, sender, phase>>
      /\ message.wanted
      /\ Len(message.blocks) = Len(message.params)
      /\ n < Len(message.params)
      /\ n + 1 \in DOMAIN message.params /\ message.params[n + 1] = "int" =>
            message.blocks[n + 1] = IntSize
  BY DEF Prepare, CanPrepare, Acceptable
<1>2. /\ arguments' = Append(arguments, block)
      /\ from' = Append(from, have + 1)
      /\ buffer' = back
  BY DEF Prepare, Placed
<1>3. /\ buffer \in Seq(Bytes) /\ wire \in Seq(Bytes)
      /\ arguments \in Seq(Seq(Bytes)) /\ from \in Seq(Nat \ {0})
      /\ Len(from) = n /\ n \in Nat /\ Len(buffer) \in Nat
      /\ Len(message.blocks) \in Nat
      /\ n + 1 \in 1 .. Len(message.blocks)
      /\ n + 1 \in DOMAIN message.params
      /\ size \in Nat
  BY <1>1, LenProperties, MessageType DEF IInv, TypeOK
<1>4. /\ have \in 0 .. size /\ have \in 0 .. Len(buffer)
      /\ have < size => have = Len(buffer)
  BY <1>3 DEF Lesser
<1>5. /\ front \in Seq(Bytes) /\ back \in Seq(Bytes) /\ front \o back = buffer
      /\ Len(front) = have /\ \A j \in 1 .. have : front[j] = buffer[j]
  BY <1>3, <1>4, Split, FrontProperties
<1>6. block \in [1 .. size -> Bytes]
  <2>1. \A j \in 1 .. size : j <= have => buffer[j] \in Bytes
    BY <1>3, <1>4, ElementOfSeq
  <2>2. Blank \in Bytes
    BY DEF Blank, Bytes
  <2> QED
    BY <2>1, <2>2
<1>7. block \in Seq(Bytes) /\ Len(block) = size
  <2> HIDE DEF block, size
  <2> QED
    BY <1>3, <1>6, FunctionIsSeq
<1>8. block = [j \in 1 .. size |-> IF j < have + 1 THEN <<n + 1, j>> ELSE Blank]
  <2>1. \A j \in 1 .. have : buffer[j] = <<n + 1, j>>
    <3>1. \A j \in 1 .. have : j \in 1 .. Len(buffer) /\ j <= message.blocks[Len(arguments) + 1]
      BY <1>3, <1>4
    <3> QED
      BY <1>1, <1>3, <3>1, BufferContinues
  <2>2. ASSUME NEW j \in 1 .. size
        PROVE  (j <= have <=> j < have + 1) /\ (j <= have => j \in 1 .. have)
    BY <1>3, <1>4
  <2> QED
    BY <2>1, <2>2
<1>9. SubSeq(block, 1, have) = front
  <2>1. have \in 0 .. Len(block)
    BY <1>4, <1>7
  <2>2. /\ SubSeq(block, 1, have) \in Seq(Bytes)
        /\ Len(SubSeq(block, 1, have)) = have
        /\ \A j \in 1 .. have : SubSeq(block, 1, have)[j] = block[j]
    BY <1>7, <2>1, FrontProperties
  <2>3. \A j \in 1 .. have : j \in 1 .. size /\ j <= have
    BY <1>3, <1>4
  <2>4. \A j \in 1 .. have : block[j] = buffer[j]
    BY <2>3
  <2> HIDE DEF have, front, block
  <2>5. \A j \in 1 .. have : SubSeq(block, 1, have)[j] = front[j]
    BY Zenon, <1>5, <2>2, <2>4
  <2> QED
    BY <1>5, <2>2, <2>5, SeqEqual
<1> HIDE DEF block, front, back, have, size
<1>10. have + 1 \in Nat \ {0} /\ have + 1 \in 1 .. size + 1 /\ have + 1 - 1 = have
  BY <1>3, <1>4
<1>11. /\ arguments' \in Seq(Seq(Bytes)) /\ Len(arguments') = n + 1
       /\ \A i \in 1 .. n : arguments'[i] = arguments[i]
       /\ arguments'[n + 1] = block
  BY <1>2, <1>3, <1>7, AppendProperties
<1>12. /\ from' \in Seq(Nat \ {0}) /\ Len(from') = n + 1
       /\ \A i \in 1 .. n : from'[i] = from[i]
       /\ from'[n + 1] = have + 1
  BY <1>2, <1>3, <1>10, AppendProperties
<1> HIDE DEF n
<1>13. DOMAIN arguments = 1 .. n /\ DOMAIN arguments' = 1 .. n + 1
  BY <1>3, <1>11, LenProperties DEF n
<1>14. \A i \in 1 .. n + 1 : i \in 1 .. n \/ i = n + 1
  BY <1>3
<1>15. TypeOK'
  BY <1>1, <1>2, <1>5, <1>11, <1>12 DEF IInv, TypeOK
<1>16. AcceptInv'
  <2>1. Len(arguments') <= Len(message.blocks)
    BY <1>3, <1>11
  <2>2. \A i \in 1 .. n + 1 : message.params[i] = "int" => message.blocks[i] = IntSize
    BY <1>1, <1>3, <1>13, <1>14 DEF IInv, AcceptInv
  <2> QED
    BY <1>1, <1>13, <2>1, <2>2 DEF AcceptInv
<1>17. CopyInv'
  <2>1. ASSUME NEW i \in 1 .. n
        PROVE  /\ from'[i] \in 1 .. message'.blocks[i] + 1
               /\ arguments'[i] = [j \in 1 .. message'.blocks[i] |->
                                     IF j < from'[i] THEN <<i, j>> ELSE Blank]
    <3>1. /\ from[i] \in 1 .. message.blocks[i] + 1
          /\ arguments[i] = [j \in 1 .. message.blocks[i] |->
                               IF j < from[i] THEN <<i, j>> ELSE Blank]
      BY <1>13 DEF IInv, CopyInv
    <3>2. message' = message /\ arguments'[i] = arguments[i] /\ from'[i] = from[i]
      BY <1>1, <1>11, <1>12
    <3> QED
      BY Zenon, <3>1, <3>2
  <2>2. /\ from'[n + 1] \in 1 .. message'.blocks[n + 1] + 1
        /\ arguments'[n + 1] = [j \in 1 .. message'.blocks[n + 1] |->
                                  IF j < from'[n + 1] THEN <<n + 1, j>> ELSE Blank]
    BY <1>1, <1>8, <1>10, <1>11, <1>12 DEF size
  <2> QED
    BY <1>13, <1>14, <2>1, <2>2 DEF CopyInv
<1>18. OrderInv'
  <2>1. SUFFICES ASSUME NEW i \in Unread'
                 PROVE  buffer' = <<>> /\ \A k \in DOMAIN arguments' : k > i => from'[k] = 1
    BY DEF OrderInv
  <2>2. i \in 1 .. n + 1 /\ from'[i] <= Len(arguments'[i])
    BY <1>13, <2>1 DEF Unread
  <2>3. Len(buffer) = 0 => buffer' = <<>>
    <3>1. SUFFICES ASSUME Len(buffer) = 0
                   PROVE  buffer' = <<>>
      OBVIOUS
    <3>2. have + 1 \in Int /\ Len(buffer) \in Int /\ Len(buffer) < have + 1
      BY <1>4, <3>1
    <3> QED
      BY <1>2, <3>2, SubSeqEmpty DEF back
  <2>4. CASE i \in 1 .. n
    <3>1. i \in Unread
      BY <1>11, <1>12, <1>13, <2>2, <2>4 DEF Unread
    <3>2. buffer = <<>> /\ \A k \in 1 .. n : k > i => from[k] = 1
      BY <1>13, <3>1 DEF IInv, OrderInv
    <3>3. Len(buffer) = 0
      BY <3>2
    <3>4. have + 1 = 1
      BY <1>4, <3>3
    <3> QED
      BY <1>12, <1>13, <1>14, <2>3, <3>2, <3>3, <3>4
  <2>5. CASE i = n + 1
    <3>1. have + 1 <= size
      BY <1>7, <1>11, <1>12, <2>2, <2>5
    <3>2. have = Len(buffer)
      BY <1>3, <1>4, <3>1
    <3>3. buffer' = <<>>
      <4>1. have + 1 \in Int /\ Len(buffer) \in Int /\ Len(buffer) < have + 1
        BY <1>3, <3>2
      <4> QED
        BY <1>2, <4>1, SubSeqEmpty DEF back
    <3>4. \A k \in 1 .. n + 1 : ~(k > n + 1)
      BY <1>3
    <3> QED
      BY <1>13, <2>5, <3>3, <3>4
  <2> QED
    BY <1>14, <2>2, <2>4, <2>5
<1>19. Filled' = Append(Filled, front)
  <2>1. Filled \in Seq(Seq(Bytes)) /\ Len(Filled) = n
    BY FilledType DEF IInv, n
  <2> DEFINE longer == Append(Filled, front)
  <2>2. /\ longer \in Seq(Seq(Bytes)) /\ Len(longer) = n + 1
        /\ \A i \in 1 .. n : longer[i] = Filled[i]
        /\ longer[n + 1] = front
    BY <1>5, <2>1, AppendProperties
  <2> HIDE DEF longer
  <2>3. Filled' = [i \in 1 .. n + 1 |-> SubSeq(arguments'[i], 1, from'[i] - 1)]
    BY <1>13 DEF Filled
  <2>4. ASSUME NEW i \in 1 .. n
        PROVE  SubSeq(arguments'[i], 1, from'[i] - 1) = longer[i]
    <3>1. Filled[i] = SubSeq(arguments[i], 1, from[i] - 1)
      BY <1>13, FilledType DEF IInv
    <3> QED
      BY <1>11, <1>12, <2>2, <3>1
  <2>5. SubSeq(arguments'[n + 1], 1, from'[n + 1] - 1) = longer[n + 1]
    <3>1. from'[n + 1] = have + 1
      BY <1>12
    <3>2. from'[n + 1] - 1 = have
      BY <1>4, <3>1
    <3> QED
      BY Zenon, <1>9, <1>11, <2>2, <3>2
  <2>6. \A i \in 1 .. n + 1 : SubSeq(arguments'[i], 1, from'[i] - 1) = longer[i]
    BY Zenon, <1>14, <2>4, <2>5
  <2>7. DOMAIN longer = 1 .. n + 1
    BY <2>2, LenProperties
  <2>8. longer = [i \in 1 .. n + 1 |-> longer[i]]
    BY <2>2, <2>7, LenProperties
  <2>9. Filled' = longer
    BY <2>3, <2>6, <2>8
  <2> QED
    BY <2>9 DEF longer
<1>20. StreamInv'
  <2> DEFINE placed == FlattenSeq(Filled)
  <2>1. placed \in Seq(Bytes) /\ Filled \in Seq(Seq(Bytes))
    BY FilledType DEF IInv
  <2>2. FlattenSeq(Filled') = placed \o front
    BY <1>5, <1>19, <2>1, FlattenAppend
  <2> HIDE DEF placed
  <2>3. front \in Seq(Bytes) /\ back \in Seq(Bytes)
    BY <1>5
  <2>4. (placed \o front) \o back = placed \o (front \o back)
    BY <2>1, <2>3
  <2>5. FlattenSeq(Filled') \o buffer' = placed \o buffer
    BY Zenon, <1>2, <1>5, <2>2, <2>4
  <2>6. IsPrefix((placed \o buffer) \o wire, Stream)
    BY <1>1 DEF IInv, StreamInv, placed
  <2>7. Stream' = Stream /\ wire' = wire
    BY <1>1, SameMessage
  <2>8. IsPrefix((FlattenSeq(Filled') \o buffer') \o wire', Stream')
    BY Zenon, <2>5, <2>6, <2>7
  <2> QED
    BY <2>8 DEF StreamInv
<1> QED
  BY <1>1, <1>15, <1>16, <1>17, <1>18, <1>20 DEF IInv, HeaderInv, DoneInv

\* The block being read is the first that lacks bytes: those before it hold what
\* was sent, and those after it nothing.
LEMMA FirstUnread ==
    ASSUME IInv, Unread # {}
    PROVE  /\ First \in Unread
           /\ First \in 1 .. Len(arguments)
           /\ buffer = <<>>
           /\ \A k \in 1 .. First - 1 : k \in DOMAIN arguments /\ Filled[k] = Sent[k]
           /\ \A k \in First + 1 .. Len(arguments) :
                 from[k] = 1 /\ SubSeq(arguments[k], 1, from[k] - 1) = <<>>
           /\ \A k \in Unread : First <= k
<1> DEFINE i == First
<1>1. Len(arguments) \in Nat /\ DOMAIN arguments = 1 .. Len(arguments)
  BY BlocksType, LenProperties DEF IInv, TypeOK
<1>2. Unread \in SUBSET Nat
  BY <1>1 DEF Unread
<1>3. i \in Unread /\ \A k \in Unread : i <= k
  <2>1. \E m \in Unread : \A k \in Unread : m <= k
    BY <1>2, LeastNumber
  <2> QED
    BY <2>1 DEF First
<1> HIDE DEF i
<1>4. i \in 1 .. Len(arguments)
  BY <1>1, <1>3 DEF Unread
<1>5. buffer = <<>> /\ \A k \in 1 .. Len(arguments) : k > i => from[k] = 1
  BY <1>1, <1>3 DEF IInv, OrderInv
<1>6. ASSUME NEW k \in 1 .. i - 1
      PROVE  k \in DOMAIN arguments /\ Filled[k] = Sent[k]
  <2>1. k \in DOMAIN arguments /\ ~(i <= k)
    BY <1>1, <1>4
  <2>2. k \notin Unread
    BY <1>3, <2>1
  <2> QED
    BY <2>1, <2>2, FilledBlock DEF IInv
<1>7. ASSUME NEW k \in i + 1 .. Len(arguments)
      PROVE  from[k] = 1 /\ SubSeq(arguments[k], 1, from[k] - 1) = <<>>
  <2>1. k \in 1 .. Len(arguments) /\ k > i
    BY <1>1, <1>4
  <2>2. from[k] = 1
    BY <1>5, <2>1
  <2>3. 1 \in Int /\ from[k] - 1 \in Int /\ from[k] - 1 < 1
    BY <2>2
  <2> QED
    BY <2>2, <2>3, SubSeqEmpty
<1> QED
  BY <1>3, <1>4, <1>5, <1>6, <1>7 DEF i

\* The next byte on the wire is the one that the block being read lacks first.
LEMMA WireContinues ==
    ASSUME IInv, phase = "payload", Unread # {}, wire # <<>>
    PROVE  Head(wire) = <<First, from[First]>>
<1> DEFINE i == First
           placed == FlattenSeq(Filled)
           before == FlattenSeq(SubSeq(Sent, 1, i - 1))
<1>1. /\ i \in Unread
      /\ i \in 1 .. Len(arguments)
      /\ i \in DOMAIN arguments
      /\ buffer = <<>>
      /\ \A k \in 1 .. i - 1 : Filled[k] = Sent[k]
      /\ \A k \in i + 1 .. Len(arguments) : Filled[k] = <<>>
  <2>1. \A k \in i + 1 .. Len(arguments) : k \in DOMAIN arguments
    BY FirstUnread, BlocksType DEF IInv
  <2> QED
    BY <2>1, FirstUnread, FilledType, BlocksType DEF IInv
<1>2. /\ Filled \in Seq(Seq(Bytes)) /\ Len(Filled) = Len(arguments)
      /\ placed \in Seq(Bytes)
      /\ Filled[i] \in Seq(Bytes)
  BY <1>1, FilledType DEF IInv
<1>3. /\ Sent \in Seq(Seq(Bytes)) /\ Len(Sent) = Len(message.blocks)
      /\ Stream \in Seq(Bytes)
      /\ wire \in Seq(Bytes)
  BY SentType DEF IInv, TypeOK
<1>4. PICK c \in Seq(Bytes) : Sent[i] = Filled[i] \o c /\ c # <<>> /\ Head(c) = <<i, from[i]>>
  BY <1>1, FilledBlock DEF IInv
<1>5. Len(arguments) \in 0 .. Len(message.blocks) /\ Len(message.blocks) \in Nat
  BY BlocksType, MessageType DEF IInv, TypeOK
<1> HIDE DEF i, placed, before
<1>6. /\ i - 1 \in 0 .. Len(Filled) /\ i - 1 \in 0 .. Len(Sent) - 1 /\ i - 1 \in 0 .. Len(Sent)
      /\ i \in 0 .. Len(Sent) /\ i - 1 + 1 = i /\ i \in 1 .. Len(Filled)
  <2>1. i \in 1 .. Len(arguments) /\ Len(Filled) = Len(arguments) /\ Len(Sent) = Len(message.blocks)
    BY <1>1, <1>2, <1>3
  <2> QED
    BY <1>5, <2>1
<1>7. SubSeq(Filled, 1, i - 1) = SubSeq(Sent, 1, i - 1)
  <2> DEFINE a == SubSeq(Filled, 1, i - 1)
             b == SubSeq(Sent, 1, i - 1)
  <2>1. a \in Seq(Seq(Bytes)) /\ Len(a) = i - 1 /\ \A k \in 1 .. i - 1 : a[k] = Filled[k]
    BY <1>2, <1>6, FrontProperties
  <2>2. b \in Seq(Seq(Bytes)) /\ Len(b) = i - 1 /\ \A k \in 1 .. i - 1 : b[k] = Sent[k]
    BY <1>3, <1>6, FrontProperties
  <2> HIDE DEF a, b
  <2>3. \A k \in 1 .. i - 1 : a[k] = b[k]
    BY Zenon, <1>1, <2>1, <2>2
  <2>4. a = b
    BY <2>1, <2>2, <2>3, SeqEqual
  <2> QED
    BY <2>4 DEF a, b
<1>8. placed = before \o Filled[i]
  <2>1. \A k \in i + 1 .. Len(Filled) : Filled[k] = <<>>
    BY <1>1, <1>2
  <2>2. FlattenSeq(Filled) = FlattenSeq(SubSeq(Filled, 1, i - 1)) \o Filled[i]
    BY <1>2, <1>6, <2>1, FlattenUpTo
  <2> QED
    BY Zenon, <1>7, <2>2 DEF placed, before
<1>9. before \in Seq(Bytes)
  BY <1>3, <1>6, FrontProperties, FlattenType DEF before
<1>10. PICK r \in Seq(Bytes) : Stream = FlattenSeq(SubSeq(Sent, 1, i)) \o r
  BY <1>3, <1>6, FlattenGrows DEF Stream
<1>11. FlattenSeq(SubSeq(Sent, 1, i)) = before \o Sent[i]
  <2>1. FlattenSeq(SubSeq(Sent, 1, i - 1 + 1)) = before \o Sent[i - 1 + 1]
    BY <1>3, <1>6, FlattenFront DEF before
  <2> QED
    BY Zenon, <1>6, <2>1
<1>12. Stream = placed \o (c \o r)
  <2> DEFINE f == Filled[i]
  <2>1. f \in Seq(Bytes)
    BY <1>2
  <2> HIDE DEF f
  <2>2. before \o f \in Seq(Bytes)
    BY <1>9, <2>1
  <2>3. before \o (f \o c) = (before \o f) \o c
    BY <1>9, <2>1
  <2>4. ((before \o f) \o c) \o r = (before \o f) \o (c \o r)
    BY <2>2
  <2> QED
    BY Zenon, <1>4, <1>8, <1>10, <1>11, <2>3, <2>4 DEF f
<1>13. c \o r \in Seq(Bytes) /\ placed \o <<>> = placed
  BY <1>2, ConcatProperties, ConcatEmptySeq
<1>14. IsPrefix(placed \o wire, placed \o (c \o r))
  <2>1. IsPrefix((placed \o buffer) \o wire, Stream)
    BY DEF IInv, StreamInv, placed
  <2> QED
    BY Zenon, <1>1, <1>12, <1>13, <2>1
<1>15. IsPrefix(wire \o <<>>, c \o r)
  <2>1. wire \o <<>> = wire /\ <<>> \in Seq(Bytes)
    BY <1>3, ConcatEmptySeq, EmptySeq
  <2>2. placed \o wire \in Seq(Bytes)
    BY <1>2, <1>3, ConcatProperties
  <2>3. (placed \o wire) \o <<>> = placed \o wire
    BY <2>2, ConcatEmptySeq
  <2>4. IsPrefix((placed \o wire) \o <<>>, placed \o (c \o r))
    BY Zenon, <1>14, <2>3
  <2> QED
    BY <1>2, <1>3, <1>13, <2>1, <2>4, AfterCommonStart
<1>16. wire[1] = c[1]
  <2>1. 1 \in 1 .. Len(wire) /\ 1 <= Len(c) /\ <<>> \in Seq(Bytes)
    BY <1>3, <1>4, EmptySeq
  <2>2. c \in Seq(Bytes) /\ r \in Seq(Bytes)
    BY <1>4, <1>10
  <2> DEFINE none == <<>>
  <2>3. none \in Seq(Bytes) /\ IsPrefix(wire \o none, c \o r)
    BY <1>15, <2>1
  <2> HIDE DEF none
  <2>4. 1 \in 1 .. Len(wire) /\ 1 <= Len(c)
    BY <2>1
  <2> QED
    BY <1>3, <2>2, <2>3, <2>4, PrefixStart
<1> QED
  BY <1>4, <1>16 DEF i

LEMMA FillKept ==
    ASSUME IInv, Fill
    PROVE  IInv'
<1> DEFINE i == First
           n == Len(arguments)
           m == message.blocks[i]
           start == from[i]
           byte == Head(wire)
           block == arguments[i]
<1>1. /\ phase = "payload" /\ Unread # {} /\ wire # <<>>
      /\ arguments' = [arguments EXCEPT ![i] = [block EXCEPT ![start] = byte]]
      /\ from' = [from EXCEPT ![i] = start + 1]
      /\ wire' = Tail(wire)
      /\ UNCHANGED <<message, sender, buffer, phase>>
  BY DEF Fill
<1>2. /\ i \in Unread
      /\ i \in 1 .. n
      /\ buffer = <<>>
      /\ \A k \in i + 1 .. n : from[k] = 1 /\ SubSeq(arguments[k], 1, from[k] - 1) = <<>>
      /\ \A k \in Unread : i <= k
  BY <1>1, FirstUnread DEF IInv
<1>3. byte = <<i, start>>
  BY <1>1, WireContinues
<1>4. /\ arguments \in Seq(Seq(Bytes)) /\ from \in Seq(Nat \ {0})
      /\ n \in Nat /\ Len(from) = n
      /\ DOMAIN arguments = 1 .. n /\ DOMAIN from = 1 .. n
      /\ wire \in Seq(Bytes)
  BY LenProperties DEF IInv, TypeOK
<1>5. /\ block \in Seq(Bytes) /\ Len(block) = m
      /\ start \in 1 .. m + 1
      /\ i \in DOMAIN message.blocks
      /\ block = [j \in 1 .. m |-> IF j < start THEN <<i, j>> ELSE Blank]
  BY <1>2, <1>4, BlocksType DEF IInv, CopyInv
<1>6. m \in Nat /\ i \in Nat
  BY <1>2, <1>5, MessageType DEF IInv, TypeOK
<1>7. start <= Len(block)
  BY <1>2 DEF Unread
<1> HIDE DEF i, n, m, start, byte, block
<1>8. start \in 1 .. m /\ start \in 1 .. Len(block) /\ start \in Nat
  BY <1>5, <1>6, <1>7
<1>9. byte \in Bytes
  BY <1>3, <1>6, <1>8 DEF Bytes
<1> DEFINE grown == [block EXCEPT ![start] = byte]
<1>10. /\ grown \in Seq(Bytes) /\ Len(grown) = m
       /\ \A j \in 1 .. m : grown[j] = IF j = start THEN byte ELSE block[j]
  BY <1>5, <1>8, <1>9, ExceptSeq
<1>11. grown = [j \in 1 .. m |-> IF j < start + 1 THEN <<i, j>> ELSE Blank]
  <2> HIDE DEF grown
  <2>1. ASSUME NEW j \in 1 .. m
        PROVE  (j < start + 1 <=> j = start \/ j < start) /\ (j = start => ~(j < start))
    BY <1>6, <1>8
  <2>2. \A j \in 1 .. m : grown[j] = IF j < start + 1 THEN <<i, j>> ELSE Blank
    <3> TAKE j \in 1 .. m
    <3>1. block[j] = IF j < start THEN <<i, j>> ELSE Blank
      BY <1>5
    <3> QED
      BY Zenon, <1>3, <1>10, <2>1, <3>1
  <2>3. grown = [j \in 1 .. m |-> grown[j]]
    BY <1>10, LenProperties
  <2> QED
    BY Zenon, <2>2, <2>3
<1> HIDE DEF grown
<1>12. /\ arguments' \in Seq(Seq(Bytes)) /\ Len(arguments') = n
       /\ arguments'[i] = grown
       /\ \A k \in 1 .. n : k # i => arguments'[k] = arguments[k]
  <2>1. i \in 1 .. Len(arguments)
    BY <1>2 DEF n
  <2>2. arguments' = [arguments EXCEPT ![i] = grown]
    BY <1>1 DEF grown
  <2>3. /\ [arguments EXCEPT ![i] = grown] \in Seq(Seq(Bytes))
        /\ Len([arguments EXCEPT ![i] = grown]) = Len(arguments)
        /\ \A k \in 1 .. Len(arguments) :
              [arguments EXCEPT ![i] = grown][k] = IF k = i THEN grown ELSE arguments[k]
    BY <1>4, <1>10, <2>1, ExceptSeq
  <2> QED
    BY Zenon, <2>1, <2>2, <2>3 DEF n
<1>13. /\ from' \in Seq(Nat \ {0}) /\ Len(from') = n
       /\ from'[i] = start + 1
       /\ \A k \in 1 .. n : k # i => from'[k] = from[k]
  <2>1. i \in 1 .. Len(from) /\ start + 1 \in Nat \ {0}
    BY <1>2, <1>4, <1>8
  <2>2. /\ [from EXCEPT ![i] = start + 1] \in Seq(Nat \ {0})
        /\ Len([from EXCEPT ![i] = start + 1]) = Len(from)
        /\ \A k \in 1 .. Len(from) :
              [from EXCEPT ![i] = start + 1][k] = IF k = i THEN start + 1 ELSE from[k]
    BY <1>4, <2>1, ExceptSeq
  <2> QED
    BY Zenon, <1>1, <1>4, <2>1, <2>2
<1>14. DOMAIN arguments' = 1 .. n
  BY <1>12, LenProperties
<1>15. TypeOK'
  <2>1. wire' \in Seq(Bytes)
    BY <1>1, <1>4, HeadTailProperties
  <2> QED
    BY <1>1, <1>12, <1>13, <2>1 DEF IInv, TypeOK
<1>16. AcceptInv'
  <2>1. Proper' <=> Proper
    BY <1>1, SameMessage
  <2>2. arguments # <<>>
    <3>1. n # 0
      BY <1>2, <1>4
    <3> QED
      BY <3>1, <1>4, EmptySeq DEF n
  <2> QED
    BY <1>1, <1>4, <1>12, <1>14, <2>1, <2>2 DEF IInv, AcceptInv, n
<1>17. CopyInv'
  <2>1. SUFFICES ASSUME NEW k \in 1 .. n
                 PROVE  /\ from'[k] \in 1 .. message.blocks[k] + 1
                        /\ arguments'[k] = [j \in 1 .. message.blocks[k] |->
                                              IF j < from'[k] THEN <<k, j>> ELSE Blank]
    BY <1>1, <1>14 DEF CopyInv
  <2>2. CASE k # i
    <3>1. /\ from[k] \in 1 .. message.blocks[k] + 1
          /\ arguments[k] = [j \in 1 .. message.blocks[k] |->
                               IF j < from[k] THEN <<k, j>> ELSE Blank]
      BY <1>4 DEF IInv, CopyInv
    <3>2. arguments'[k] = arguments[k] /\ from'[k] = from[k]
      BY <1>12, <1>13, <2>2
    <3> QED
      BY Zenon, <3>1, <3>2
  <2>3. CASE k = i
    <3>1. start + 1 \in 1 .. m + 1
      BY <1>6, <1>8
    <3> QED
      BY Zenon, <1>11, <1>12, <1>13, <2>3, <3>1 DEF m
  <2> QED
    BY <2>2, <2>3
<1>18. OrderInv'
  <2>1. SUFFICES ASSUME NEW k \in Unread', NEW l \in 1 .. n, l > k
                 PROVE  from'[l] = 1
    BY <1>1, <1>2, <1>14 DEF OrderInv
  <2>2. k \in 1 .. n /\ from'[k] <= Len(arguments'[k])
    BY <1>14, <2>1 DEF Unread
  <2>3. i <= k
    <3>1. CASE k = i
      BY <1>6, <3>1
    <3>2. CASE k # i
      <4>1. k \in Unread
        BY <1>4, <1>12, <1>13, <2>2, <3>2 DEF Unread
      <4> QED
        BY <1>2, <4>1
    <3> QED
      BY <3>1, <3>2
  <2>4. l \in i + 1 .. n /\ l # i
    BY <1>4, <1>6, <2>1, <2>2, <2>3
  <2> QED
    BY <1>2, <1>13, <2>4
<1>19. /\ Filled \in Seq(Seq(Bytes)) /\ Len(Filled) = n
       /\ FlattenSeq(Filled) \in Seq(Bytes)
       /\ \A k \in 1 .. n : Filled[k] = SubSeq(arguments[k], 1, from[k] - 1)
       /\ Filled[i] \in Seq(Bytes) /\ Len(Filled[i]) = start - 1
       /\ Filled[i] = SubSeq(block, 1, start - 1)
  BY <1>2, <1>4, FilledType DEF IInv, n, start, block
<1>20. SubSeq(grown, 1, start) = Append(Filled[i], byte)
  <2> DEFINE a == SubSeq(grown, 1, start)
             b == Append(Filled[i], byte)
  <2>1. a \in Seq(Bytes) /\ Len(a) = start /\ \A j \in 1 .. start : a[j] = grown[j]
    <3>1. start \in 0 .. Len(grown)
      BY <1>6, <1>8, <1>10
    <3> QED
      BY <1>10, <3>1, FrontProperties
  <2>2. /\ b \in Seq(Bytes) /\ Len(b) = start - 1 + 1
        /\ \A j \in 1 .. start - 1 : b[j] = Filled[i][j]
        /\ b[start - 1 + 1] = byte
    BY <1>9, <1>19, AppendProperties
  <2>3. start - 1 + 1 = start /\ start - 1 \in 0 .. Len(block)
    BY <1>5, <1>6, <1>8
  <2>4. \A j \in 1 .. start - 1 : Filled[i][j] = block[j]
    BY <1>5, <1>19, <2>3, FrontProperties
  <2> HIDE DEF a, b
  <2>5. ASSUME NEW j \in 1 .. start
        PROVE  a[j] = b[j]
    <3>1. CASE j = start
      BY <1>8, <1>10, <2>1, <2>2, <2>3, <3>1
    <3>2. CASE j # start
      <4>1. j \in 1 .. start - 1 /\ j \in 1 .. m
        BY <1>6, <1>8, <3>2
      <4> QED
        BY Zenon, <1>10, <2>1, <2>2, <2>4, <3>2, <4>1
    <3> QED
      BY <3>1, <3>2
  <2>6. a = b
    <3>1. Len(a) = Len(b) /\ Len(a) = start
      BY <2>1, <2>2, <2>3
    <3> QED
      BY <2>1, <2>2, <2>5, <3>1, SeqEqual
  <2> QED
    BY <2>6 DEF a, b
<1> DEFINE longer == [Filled EXCEPT ![i] = Append(Filled[i], byte)]
<1>21. /\ longer \in Seq(Seq(Bytes)) /\ Len(longer) = n
       /\ longer[i] = Append(Filled[i], byte)
       /\ \A k \in 1 .. n : k # i => longer[k] = Filled[k]
  <2>1. i \in 1 .. Len(Filled) /\ Append(Filled[i], byte) \in Seq(Bytes)
    BY <1>2, <1>9, <1>19, AppendProperties
  <2> DEFINE x == Append(Filled[i], byte)
  <2>2. /\ [Filled EXCEPT ![i] = x] \in Seq(Seq(Bytes))
        /\ Len([Filled EXCEPT ![i] = x]) = Len(Filled)
        /\ \A k \in 1 .. Len(Filled) :
              [Filled EXCEPT ![i] = x][k] = IF k = i THEN x ELSE Filled[k]
    BY <1>19, <2>1, ExceptSeq
  <2> QED
    BY Zenon, <1>19, <2>1, <2>2
<1> HIDE DEF longer
<1>22. Filled' = longer
  <2>1. Filled' = [k \in 1 .. n |-> SubSeq(arguments'[k], 1, from'[k] - 1)]
    BY <1>14 DEF Filled
  <2>2. ASSUME NEW k \in 1 .. n
        PROVE  SubSeq(arguments'[k], 1, from'[k] - 1) = longer[k]
    <3>1. CASE k = i
      <4>1. from'[k] = start + 1
        BY <1>13, <3>1
      <4>2. from'[k] - 1 = start
        BY <1>8, <4>1
      <4> QED
        BY Zenon, <1>12, <1>20, <1>21, <3>1, <4>2
    <3>2. CASE k # i
      BY Zenon, <1>12, <1>13, <1>19, <1>21, <3>2
    <3> QED
      BY <3>1, <3>2
  <2>3. longer = [k \in 1 .. n |-> longer[k]]
    BY <1>21, LenProperties
  <2> QED
    BY Zenon, <2>1, <2>2, <2>3
<1> DEFINE before == FlattenSeq(SubSeq(Filled, 1, i - 1))
           placed == FlattenSeq(Filled)
<1>23. /\ i \in 1 .. Len(Filled) /\ i \in 1 .. Len(longer)
       /\ i - 1 \in 0 .. Len(Filled) /\ i - 1 \in 0 .. Len(longer)
       /\ \A k \in i + 1 .. n : k \in 1 .. n /\ k # i
  <2>1. i \in 1 .. n /\ n \in Nat /\ Len(Filled) = n /\ Len(longer) = n
    BY <1>2, <1>4, <1>19, <1>21
  <2> QED
    BY <2>1
<1>24. before \in Seq(Bytes)
  BY <1>19, <1>23, FrontProperties, FlattenType
<1>25. placed = before \o Filled[i]
  <2>1. \A k \in i + 1 .. Len(Filled) : Filled[k] = <<>>
    BY <1>2, <1>19, <1>23
  <2> QED
    BY <1>19, <1>23, <2>1, FlattenUpTo
<1>26. FlattenSeq(longer) = before \o Append(Filled[i], byte)
  <2>1. \A k \in i + 1 .. Len(longer) : longer[k] = <<>>
    BY <1>2, <1>19, <1>21, <1>23
  <2>2. FlattenSeq(longer) = FlattenSeq(SubSeq(longer, 1, i - 1)) \o longer[i]
    BY <1>21, <1>23, <2>1, FlattenUpTo
  <2>3. SubSeq(longer, 1, i - 1) = SubSeq(Filled, 1, i - 1)
    <3> DEFINE a == SubSeq(longer, 1, i - 1)
               b == SubSeq(Filled, 1, i - 1)
    <3>1. a \in Seq(Seq(Bytes)) /\ Len(a) = i - 1 /\ \A k \in 1 .. i - 1 : a[k] = longer[k]
      BY <1>21, <1>23, FrontProperties
    <3>2. b \in Seq(Seq(Bytes)) /\ Len(b) = i - 1 /\ \A k \in 1 .. i - 1 : b[k] = Filled[k]
      BY <1>19, <1>23, FrontProperties
    <3> HIDE DEF a, b
    <3>3. \A k \in 1 .. i - 1 : k \in 1 .. n /\ k # i
      BY <1>2, <1>4, <1>6
    <3>4. \A k \in 1 .. i - 1 : a[k] = b[k]
      BY Zenon, <1>21, <3>1, <3>2, <3>3
    <3>5. a = b
      BY <3>1, <3>2, <3>4, SeqEqual
    <3> QED
      BY <3>5 DEF a, b
  <2> QED
    BY Zenon, <1>21, <2>2, <2>3
<1> HIDE DEF before, placed
<1>27. FlattenSeq(Filled') = placed \o <<byte>>
  <2> DEFINE f == Filled[i]
  <2>1. f \in Seq(Bytes)
    BY <1>19
  <2> HIDE DEF f
  <2>2. Append(f, byte) = f \o <<byte>>
    BY <1>9, <2>1, AppendIsConcat
  <2>3. <<byte>> \in Seq(Bytes)
    BY <1>9
  <2>4. (before \o f) \o <<byte>> = before \o (f \o <<byte>>)
    BY <1>24, <2>1, <2>3
  <2> QED
    BY Zenon, <1>22, <1>25, <1>26, <2>2, <2>4 DEF f
<1>28. StreamInv'
  <2>1. placed \in Seq(Bytes) /\ placed \o <<byte>> \in Seq(Bytes) /\ wire' \in Seq(Bytes) /\ <<byte>> \in Seq(Bytes)
    BY <1>1, <1>4, <1>9, <1>19, HeadTailProperties DEF placed
  <2>2. wire = <<byte>> \o wire'
    BY <1>1, <1>4 DEF byte
  <2>3. (placed \o <<byte>>) \o wire' = placed \o (<<byte>> \o wire')
    BY <2>1
  <2>4. (placed \o <<byte>>) \o <<>> = placed \o <<byte>> /\ placed \o <<>> = placed
    BY <2>1, ConcatEmptySeq
  <2>5. IsPrefix((placed \o buffer) \o wire, Stream)
    BY <1>1 DEF IInv, StreamInv, placed
  <2>6. Stream' = Stream /\ buffer' = <<>> /\ buffer = <<>>
    BY <1>1, <1>2, SameMessage
  <2>7. (FlattenSeq(Filled') \o buffer') \o wire' = (placed \o buffer) \o wire
    BY Zenon, <1>27, <2>2, <2>3, <2>4, <2>6
  <2>8. IsPrefix((FlattenSeq(Filled') \o buffer') \o wire', Stream')
    BY Zenon, <2>5, <2>6, <2>7
  <2> QED
    BY <2>8 DEF StreamInv
<1> QED
  BY <1>1, <1>15, <1>16, <1>17, <1>18, <1>28 DEF IInv, HeaderInv, DoneInv

LEMMA NextKept == IInv /\ [Next]_vars => IInv'
<1> SUFFICES ASSUME IInv, [Next]_vars
             PROVE  IInv'
  OBVIOUS
<1>1. CASE ReadHeader
  BY <1>1, ReadHeaderKept
<1>2. CASE Refuse \/ OnError
  BY <1>2, FailureKept
<1>3. CASE Prepare
  BY <1>3, PrepareKept
<1>4. CASE ReadPayload
  BY <1>4, ReadPayloadKept
<1>5. CASE Fill
  BY <1>5, FillKept
<1>6. CASE OnPayloadReceived
  BY <1>6, OnPayloadReceivedKept
<1>7. CASE Die
  BY <1>7, DieKept
<1>8. CASE UNCHANGED vars
  BY <1>8, StutterKept
<1> QED
  BY <1>1, <1>2, <1>3, <1>4, <1>5, <1>6, <1>7, <1>8 DEF Next, Receiver

LEMMA AlwaysIInv == Spec => []IInv
  BY InitHolds, NextKept, PTL DEF Spec

-----------------------------------------------------------------------------
(* The invariants.                                                         *)

\* Whatever the stream brings, there is a place to read on for each block that was
\* allocated, and no other (payloadBuffers, serviceskeleton.cpp:123-140).
THEOREM TypeCorrect == Spec => []TypeOK
<1>1. IInv => TypeOK
  BY DEF IInv
<1> QED
  BY <1>1, AlwaysIInv, PTL

\* A call, or a response, whose blocks have all arrived has the arguments that
\* were sent, byte for byte, and has used the stream up to its end, wherever the
\* reads have cut it (serviceskeleton.cpp:123-140, response.h:163-184).
THEOREM ReceivedIsSent == Spec => []ReceivedAsSent
<1>1. IInv => ReceivedAsSent
  <2> SUFFICES ASSUME IInv, phase = "received"
               PROVE  arguments = Sent /\ wire = <<>> /\ buffer = <<>>
    BY DEF ReceivedAsSent
  <2>1. Unread = {} /\ Len(arguments) = Len(message.blocks)
    BY DEF IInv, DoneInv, AcceptInv
  <2>2. Sent \in Seq(Seq(Bytes)) /\ Len(Sent) = Len(message.blocks) /\ Stream \in Seq(Bytes)
    BY SentType DEF IInv, TypeOK
  <2>3. SubSeq(Sent, 1, Len(arguments)) = Sent
    BY <2>1, <2>2, SubSeqFull
  <2>4. arguments = Sent /\ Filled = Sent
    BY <2>1, <2>3, FilledIsSent DEF IInv
  <2>5. IsPrefix((Stream \o buffer) \o wire, Stream)
    BY <2>4 DEF IInv, StreamInv, Stream
  <2>6. buffer \in Seq(Bytes) /\ wire \in Seq(Bytes)
    BY DEF IInv, TypeOK
  <2>7. Len((Stream \o buffer) \o wire) = Len(Stream) + Len(buffer) + Len(wire)
    <3>1. Stream \o buffer \in Seq(Bytes) /\ Len(Stream \o buffer) = Len(Stream) + Len(buffer)
      BY <2>2, <2>6, ConcatProperties
    <3> QED
      BY <2>6, <3>1, ConcatProperties
  <2>8. Len((Stream \o buffer) \o wire) <= Len(Stream)
    BY <2>5 DEF IsPrefix
  <2>9. Len(Stream) \in Nat /\ Len(buffer) \in Nat /\ Len(wire) \in Nat
    BY <2>2, <2>6, LenProperties
  <2>10. Len(buffer) = 0 /\ Len(wire) = 0
    BY <2>7, <2>8, <2>9
  <2> QED
    BY <2>4, <2>6, <2>10, EmptySeq
<1> QED
  BY <1>1, AlwaysIInv, PTL

\* At every moment of the reading what is in the blocks, what the header's read
\* brought and what is on the wire continue one another as they were sent.
THEOREM NothingLost == Spec => []Placement
<1>1. IInv => Placement
  BY DEF IInv, StreamInv, Placement, Filled, Stream
<1> QED
  BY <1>1, AlwaysIInv, PTL

\* Blocks that do not fit the signature are never read, nor are those of a
\* service that is not there (serviceskeleton.cpp:99-121, serviceargument.h:64-100).
THEOREM NoMisfitRead == Spec => []MisfitsFail
<1>1. IInv => MisfitsFail
  BY DEF IInv, AcceptInv, MisfitsFail
<1> QED
  BY <1>1, AlwaysIInv, PTL
=============================================================================
