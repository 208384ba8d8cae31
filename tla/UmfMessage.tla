------------------------------ MODULE UmfMessage ------------------------------
(* UMF messages (virtual-platform/umf/little-endian): a message object is        *)
(* marshalled byte by byte, sent as a header chunk and data chunks, and taken    *)
(* apart by a message object at the other end.  The objects come from a free     *)
(* list and keep what an earlier message left in them.  The physical channel in  *)
(* between, which lies outside the repository, moves one chunk at a time.        *)
EXTENDS Naturals, Sequences

CONSTANTS
    ChunkBytes,     \* UMF_CHUNK_BYTES
    MaxMsgBytes,    \* UMF_MAX_MSG_BYTES
    Channels, Services, Methods, LengthValues,
                    \* how many values the fields of a header have, 2^bits each
    Lengths,        \* lengths that the sender uses
    Pieces,         \* numbers of bytes that are appended or extracted at a time
    MaxMessages     \* bound on the messages sent

ASSUME UmfAssumption ==
    /\ ChunkBytes \in Nat \ {0} /\ MaxMsgBytes \in Nat /\ MaxMsgBytes % ChunkBytes = 0
    /\ Channels \in Nat \ {0} /\ Services \in Nat \ {0}
    /\ Methods \in Nat \ {0} /\ LengthValues \in Nat \ {0}
    /\ MaxMsgBytes \div ChunkBytes < LengthValues
    /\ Lengths \subseteq 1 .. MaxMsgBytes /\ Pieces \subseteq Nat \ {0} /\ 1 \in Pieces
    /\ MaxMessages \in Nat

VARIABLES
    class,      \* "base", or "template" for UMF_MESSAGE_TEMPLATE_CLASS
    tx, rx,     \* the message objects
    phase,      \* "idle", "append", "sent", "receive", or "exit"
    wire,       \* the chunks on their way, the header first
    put, got,   \* bytes appended to tx and extracted from rx
    messages    \* messages begun

umfVars == <<class, tx, rx, phase, wire, put, got, messages>>

Message == [channelID : 0 .. Channels - 1, serviceID : 0 .. Services - 1,
            methodID : 0 .. Methods - 1, length : 0 .. MaxMsgBytes,
            readIndex : 0 .. MaxMsgBytes, writeIndex : 0 .. MaxMsgBytes,
            message : [1 .. MaxMsgBytes -> Nat]]

TypeOK == tx \in Message /\ rx \in Message /\ messages \in 0 .. MaxMessages

New == [channelID |-> 0, serviceID |-> 0, methodID |-> 0, length |-> 0,
        readIndex |-> 0, writeIndex |-> 0, message |-> [i \in 1 .. MaxMsgBytes |-> 0]]

Init ==
    /\ class \in {"base", "template"}
    /\ tx = New /\ rx = New /\ phase = "idle" /\ wire = <<>>
    /\ put = <<>> /\ got = <<>> /\ messages = 0

-----------------------------------------------------------------------------
(* Headers *)

\* The constructor of a message from the free list resets three members only.
Clear(m) == [m EXCEPT !.length = 0, !.readIndex = 0, !.writeIndex = 0]

\* Defective variant: a last chunk that is not full is not counted.
NumChunksFloor(length) == length \div ChunkBytes
NumChunks(length) == IF length % ChunkBytes = 0 THEN length \div ChunkBytes
                                                ELSE length \div ChunkBytes + 1

\* The fields are shifted and or-ed together: a field that exceeds its bits
\* would spill into its neighbour.
EncodeHeader(m) ==
    ((m.channelID * Services + m.serviceID) * Methods + m.methodID) * LengthValues
        + NumChunks(m.length)

\* The template class sends neither channel nor method.
TemplateEncodeHeader(m) == m.serviceID * Methods * LengthValues + NumChunks(m.length)

DecodeHeader(m, h) ==
    [m EXCEPT !.length = ChunkBytes * (h % LengthValues),
              !.methodID = (h \div LengthValues) % Methods,
              !.serviceID = (h \div (LengthValues * Methods)) % Services,
              !.channelID = (h \div (LengthValues * Methods * Services)) % Channels]

TemplateDecodeHeader(m, h) ==
    [m EXCEPT !.length = ChunkBytes * (h % LengthValues),
              !.serviceID = (h \div (LengthValues * Methods)) % Services]

-----------------------------------------------------------------------------
(* The sender *)

NewMessage(c, s, m, len) ==
    /\ phase = "idle" /\ messages < MaxMessages
    /\ tx' = [Clear(tx) EXCEPT !.channelID = c, !.serviceID = s, !.methodID = m, !.length = len]
    /\ phase' = "append" /\ messages' = messages + 1
    /\ put' = <<>> /\ got' = <<>>
    /\ UNCHANGED <<class, rx, wire>>

\* Bytes are numbered through all messages.
Fresh(n) == [i \in 1 .. n |-> 10 * messages + Len(put) + i]
Stored(m, bytes) ==
    [m EXCEPT !.message = [i \in DOMAIN @ |->
                 IF i \in m.writeIndex + 1 .. m.writeIndex + Len(bytes)
                 THEN bytes[i - m.writeIndex] ELSE @[i]],
              !.writeIndex = @ + Len(bytes)]

AppendBytes(n) ==
    /\ phase = "append" /\ tx.writeIndex + n <= tx.length
    /\ tx' = Stored(tx, Fresh(n))
    /\ put' = put \o Fresh(n)
    /\ UNCHANGED <<class, rx, phase, wire, got, messages>>

\* ExtractAllChunks: whole chunks as long as a byte is left.
ChunkAt(m, k) == SubSeq(m.message, (k - 1) * ChunkBytes + 1, k * ChunkBytes)
AllChunks(m) == {k \in 1 .. MaxMsgBytes : (k - 1) * ChunkBytes < m.writeIndex}

Send ==
    /\ phase = "append" /\ tx.writeIndex = tx.length
    /\ wire' = <<IF class = "base" THEN EncodeHeader(tx) ELSE TemplateEncodeHeader(tx)>>
               \o [k \in AllChunks(tx) |-> ChunkAt(tx, k)]
    /\ tx' = [tx EXCEPT !.readIndex = (NumChunks(tx.length) * ChunkBytes)]
    /\ phase' = "sent"
    /\ UNCHANGED <<class, rx, put, got, messages>>

-----------------------------------------------------------------------------
(* The receiver *)

\* The base class exits when the length exceeds the buffer.
ReceiveHeader ==
    /\ phase = "sent"
    /\ wire' = Tail(wire)
    /\ rx' = IF class = "base" THEN DecodeHeader(Clear(rx), Head(wire))
                               ELSE TemplateDecodeHeader(Clear(rx), Head(wire))
    /\ phase' = IF class = "base" /\ rx'.length > MaxMsgBytes THEN "exit" ELSE "receive"
    /\ UNCHANGED <<class, tx, put, got, messages>>

CanAppend == rx.writeIndex < rx.length

AppendChunk ==
    /\ phase = "receive" /\ CanAppend /\ wire # <<>>
    /\ rx' = Stored(rx, Head(wire))
    /\ wire' = Tail(wire)
    /\ UNCHANGED <<class, tx, phase, put, got, messages>>

CanExtract(n) == rx.writeIndex - rx.readIndex >= n

Extract(n) ==
    /\ phase = "receive" /\ ~CanAppend /\ CanExtract(n)
    /\ got' = got \o SubSeq(rx.message, rx.readIndex + 1, rx.readIndex + n)
    /\ rx' = [rx EXCEPT !.readIndex = @ + n]
    /\ UNCHANGED <<class, tx, phase, wire, put, messages>>

\* The message is given back to the free list.
Delete ==
    /\ phase = "receive" /\ ~CanAppend /\ ~CanExtract(1)
    /\ phase' = "idle"
    /\ UNCHANGED <<class, tx, rx, wire, put, got, messages>>

Next ==
    \/ \E c \in 0 .. Channels - 1, s \in 0 .. Services - 1, m \in 0 .. Methods - 1,
          len \in Lengths : NewMessage(c, s, m, len)
    \/ \E n \in Pieces : AppendBytes(n) \/ Extract(n)
    \/ Send \/ ReceiveHeader \/ AppendChunk \/ Delete

Spec == Init /\ [][Next]_umfVars

-----------------------------------------------------------------------------
\* The receiver expects as many chunks as the sender extracts, so that the next
\* chunk is taken for a header when it is one; it gets the fields that its class
\* transmits and, when it has taken the message apart, every byte in its place.
MessagesIntact ==
    /\ phase = "receive" => Len(wire) * ChunkBytes = rx.length - rx.writeIndex
    /\ phase \in {"append", "idle"} => wire = <<>>
    /\ phase = "receive" =>
          /\ rx.serviceID = tx.serviceID
          /\ class = "base" => rx.channelID = tx.channelID /\ rx.methodID = tx.methodID
    /\ \A i \in DOMAIN got : i <= Len(put) => got[i] = put[i]
    /\ phase = "idle" => Len(got) >= Len(put)
===============================================================================
