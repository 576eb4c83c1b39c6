------------------------------- MODULE Framing -------------------------------
(***************************************************************************)
(* How a provider gets the arguments of a call out of a stream             *)
(* (serviceskeleton.cpp:76-171), and a client those of the response        *)
(* (response.h:127-188), in the same way: a header that ends with a NUL    *)
(* and says how long each block is, then the blocks.  Reading the header   *)
(* may bring bytes of the blocks along; these are copied to where they     *)
(* belong, and the rest is read into what is left of the blocks.           *)
(*                                                                         *)
(* Byte j of block i is the pair <<i, j>>, so that a byte in a wrong place *)
(* shows.  The header is the bytes <<0, 1>> to <<0, Header>>, the NUL.     *)
(***************************************************************************)
EXTENDS Integers, Sequences, SequencesExt

CONSTANTS
    Header,     \* length of the header with its NUL
    IntSize,    \* sizeof(int32_t), the one size a block of an int may have
    Calls       \* the types of the parameters, the sizes announced, and whether
                \* the blocks are wanted: the service is available, the call was
                \* successful

Types == {"int", "buffer"}

ASSUME FramingAssumption ==
    /\ Header \in Nat \ {0}
    /\ IntSize \in Nat
    /\ Calls \subseteq [params : Seq(Types), blocks : Seq(Nat), wanted : BOOLEAN]

VARIABLES
    message,    \* the call whose arguments are sent
    wire,       \* what was sent and not read yet
    sender,     \* whether the peer still has the connection
    buffer,     \* headerBuffer
    arguments,  \* the blocks allocated so far, with their bytes
    from,       \* payloadBuffers: where the part of each block to be read starts
    phase       \* "header", "blocks", "payload", "received" or "failed"

vars == <<message, wire, sender, buffer, arguments, from, phase>>

Bytes == Nat \X Nat
Blank == <<0, 0>>
NUL == <<0, Header>>

Block(i) == [j \in 1 .. message.blocks[i] |-> <<i, j>>]

Sent == [i \in DOMAIN message.blocks |-> Block(i)]

HeaderText == [k \in 1 .. Header |-> <<0, k>>]

TypeOK ==
    /\ message \in Calls
    /\ wire \in Seq(Bytes)
    /\ sender \in BOOLEAN
    /\ buffer \in Seq(Bytes)
    /\ arguments \in Seq(Seq(Bytes))
    /\ from \in Seq(Nat \ {0})
    /\ Len(from) = Len(arguments)
    /\ phase \in {"header", "blocks", "payload", "received", "failed"}

\* getConstBuffers puts the header and the blocks one after the other.
Init ==
    /\ message \in Calls
    /\ wire = HeaderText \o FlattenSeq(Sent)
    /\ sender = TRUE
    /\ buffer = <<>>
    /\ arguments = <<>>
    /\ from = <<>>
    /\ phase = "header"

Lesser(m, n) == IF m < n THEN m ELSE n

\* What a message must be to be taken for a call, or for its results.
Proper ==
    /\ message.wanted
    /\ Len(message.params) = Len(message.blocks)
    /\ \A i \in DOMAIN message.params : message.params[i] = "int" => message.blocks[i] = IntSize

\* The peer dies: of what it sent a part may never arrive.
Die ==
    /\ sender
    /\ sender' = FALSE
    /\ \E n \in 0 .. Len(wire) : wire' = SubSeq(wire, 1, n)
    /\ UNCHANGED <<message, buffer, arguments, from, phase>>

\* read_until, a read at a time: it may go beyond the NUL, which is consumed
\* with all before it (the header).
ReadHeader ==
    /\ phase = "header"
    /\ \E n \in 1 .. Len(wire) :
          LET read == buffer \o SubSeq(wire, 1, n)
          IN  /\ wire' = SubSeq(wire, n + 1, Len(wire))
              /\ IF Contains(read, NUL)
                 THEN /\ buffer' = SubSeq(read, Header + 1, Len(read))
                      /\ phase' = "blocks"
                 ELSE /\ buffer' = read
                      /\ UNCHANGED phase
    /\ UNCHANGED <<message, sender, arguments, from>>

\* Mutant of Acceptable: the size of an int is not checked.
AcceptableAnySize == message.wanted /\ Len(message.blocks) = Len(message.params)

\* Whether the blocks are wanted and how many there are is checked before any is
\* allocated, and the size of an int when it is (prepare throws).
Acceptable ==
    LET i == Len(arguments) + 1
    IN  /\ message.wanted
        /\ Len(message.blocks) = Len(message.params)
        /\ i \in DOMAIN message.params /\ message.params[i] = "int" =>
              message.blocks[i] = IntSize

Refuse ==
    /\ phase = "blocks"
    /\ ~Acceptable
    /\ phase' = "failed"
    /\ UNCHANGED <<message, wire, sender, buffer, arguments, from>>

\* The next block, the n bytes of the buffer copied to it, where reading goes
\* on in it, and how many bytes leave the buffer.
Placed(size, n, start, consumed) ==
    /\ arguments' = Append(arguments,
                       [j \in 1 .. size |-> IF j <= n THEN buffer[j] ELSE Blank])
    /\ from' = Append(from, start + 1)
    /\ buffer' = SubSeq(buffer, consumed + 1, Len(buffer))

CanPrepare ==
    /\ phase = "blocks"
    /\ Acceptable
    /\ Len(arguments) < Len(message.params)
    /\ UNCHANGED <<message, wire, sender, phase>>

\* Mutants of Prepare: the buffer is consumed whole; it is not consumed; the
\* block is read from its start although bytes were copied to it; where to read
\* is not noted.
PrepareConsumingAll ==
    /\ CanPrepare
    /\ LET size == message.blocks[Len(arguments) + 1]
           have == Lesser(size, Len(buffer))
       IN  Placed(size, have, have, Len(buffer))
PrepareConsumingNothing ==
    /\ CanPrepare
    /\ LET size == message.blocks[Len(arguments) + 1]
           have == Lesser(size, Len(buffer))
       IN  Placed(size, have, have, 0)
PrepareFromStart ==
    /\ CanPrepare
    /\ LET size == message.blocks[Len(arguments) + 1]
           have == Lesser(size, Len(buffer))
       IN  Placed(size, have, 0, have)
PrepareUnplaced ==
    /\ CanPrepare
    /\ arguments' = Append(arguments, Block(Len(arguments) + 1))
    /\ UNCHANGED <<from, buffer>>

\* A block is allocated and gets what the header's read brought of it;
\* adding more to a mutable_buffer than its length leaves an empty one.
Prepare ==
    /\ CanPrepare
    /\ LET size == message.blocks[Len(arguments) + 1]
           have == Lesser(size, Len(buffer))
       IN  Placed(size, have, have, have)

\* All blocks are prepared: the rest is read.
ReadPayload ==
    /\ phase = "blocks"
    /\ Acceptable
    /\ Len(arguments) = Len(message.params)
    /\ phase' = "payload"
    /\ UNCHANGED <<message, wire, sender, buffer, arguments, from>>

Unread == {i \in DOMAIN arguments : from[i] <= Len(arguments[i])}

First == CHOOSE i \in Unread : \A k \in Unread : i <= k

\* async_read fills the buffers in order.
Fill ==
    /\ phase = "payload"
    /\ Unread # {}
    /\ wire # <<>>
    /\ arguments' = [arguments EXCEPT ![First][from[First]] = Head(wire)]
    /\ from' = [from EXCEPT ![First] = @ + 1]
    /\ wire' = Tail(wire)
    /\ UNCHANGED <<message, sender, buffer, phase>>

OnPayloadReceived ==
    /\ phase = "payload"
    /\ Unread = {}
    /\ phase' = "received"
    /\ UNCHANGED <<message, wire, sender, buffer, arguments, from>>

\* Mutant of OnError: an end of the stream among the blocks goes unnoticed.
OnHeaderError ==
    /\ phase = "header"
    /\ wire = <<>>
    /\ ~sender
    /\ phase' = "failed"
    /\ UNCHANGED <<message, wire, sender, buffer, arguments, from>>

\* The stream ends before the header or the blocks do.
OnError ==
    /\ phase = "header" \/ (phase = "payload" /\ Unread # {})
    /\ wire = <<>>
    /\ ~sender
    /\ phase' = "failed"
    /\ UNCHANGED <<message, wire, sender, buffer, arguments, from>>

Receiver ==
    \/ ReadHeader \/ Refuse \/ Prepare \/ ReadPayload \/ Fill \/ OnPayloadReceived \/ OnError

Next == Receiver \/ Die

Spec == Init /\ [][Next]_vars /\ WF_vars(Receiver)

-----------------------------------------------------------------------------

\* Whatever the reads bring, the arguments are the blocks that were sent, and
\* none of the stream is left (serviceskeleton.cpp:123-140, response.h:163-184).
ReceivedAsSent ==
    phase = "received" => arguments = Sent /\ wire = <<>> /\ buffer = <<>>

\* Along the way no byte is lost, doubled or moved: what is in the blocks so
\* far, what the header's read brought and what is on the wire continue one
\* another as they were sent.
Placement ==
    phase \in {"blocks", "payload"} /\ Proper =>
        LET filled == [i \in DOMAIN arguments |-> SubSeq(arguments[i], 1, from[i] - 1)]
        IN  IsPrefix(FlattenSeq(filled) \o buffer \o wire, FlattenSeq(Sent))

\* A message whose blocks do not fit the signature is never taken for a call,
\* nor its blocks read when nobody wants them (serviceskeleton.cpp:99-121,
\* serviceargument.h:64-100).
MisfitsFail == phase \in {"payload", "received"} => Proper

\* The receiver never waits for ever, whether the peer sends all or dies at any byte:
\* it ends in a call or in an error (serviceskeleton.cpp:78-83, 154-159).
Ends == <>(phase \in {"received", "failed"})

\* It ends in a call if the message is proper and the peer stays: it asks the
\* stream for exactly as many bytes as were not yet read (response.h:163-184).
ArrivesIfSent ==
    [](sender /\ Proper) => <>(phase = "received")
=============================================================================
