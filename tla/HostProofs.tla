----------------------------- MODULE HostProofs -----------------------------
(* The links between the host and the design deliver what is put into them, for *)
(* all sizes of their buffers and counters; the configuration dictionary holds   *)
(* what its file says.                                                           *)
EXTENDS MCHost, TLAPS, SequenceTheorems, FunctionTheorems, FiniteSetTheorems,
        WellFoundedInduction

-----------------------------------------------------------------------------
(* Messages: a header survives being encoded and decoded, for all widths of its *)
(* fields, and a message arrives whole, for all sizes of chunks and messages.    *)

\* A field is recovered by division, and what it was shifted over by remainder.
LEMMA ShiftBack ==
    ASSUME NEW a \in Nat, NEW B \in Nat \ {0}, NEW b \in 0 .. B - 1
    PROVE  /\ a * B + b \in Nat
           /\ (a * B + b) \div B = a
           /\ (a * B + b) % B = b
  <1>1. (a * B + b) \div B = a
    OBVIOUS
  <1>2. (a * B + b) % B = b
    BY SMTT(30)
  <1>3. a * B + b \in Nat
    OBVIOUS
  <1> QED BY <1>1, <1>2, <1>3

\* Dividing twice is dividing by the product.
LEMMA DivTwice ==
    ASSUME NEW a \in Nat, NEW B \in Nat \ {0}, NEW C \in Nat \ {0},
           NEW b \in 0 .. B - 1, NEW c \in 0 .. C - 1
    PROVE  ((a * B + b) * C + c) \div (C * B) = a
  <1>1. b * C + c \in 0 .. C * B - 1
    <2>1. b * C <= (B - 1) * C
      BY SMTT(30)
    <2>2. (B - 1) * C = B * C - C
      OBVIOUS
    <2> QED BY <2>1, <2>2, SMTT(30)
  <1>2. (a * B + b) * C + c = a * (C * B) + (b * C + c)
    BY SMTT(30)
  <1>3. C * B \in Nat \ {0}
    BY SMTT(30)
  <1> QED BY <1>1, <1>2, <1>3, ShiftBack

\* The number of chunks covers the length, with less than one chunk to spare.
LEMMA ChunksCover ==
    ASSUME NEW len \in 0 .. MaxMsgBytes
    PROVE  /\ NumChunks(len) \in 0 .. LengthValues - 1
           /\ ChunkBytes * NumChunks(len) >= len
           /\ ChunkBytes * NumChunks(len) < len + ChunkBytes
           /\ ChunkBytes * NumChunks(len) <= MaxMsgBytes
  <1> DEFINE q == len \div ChunkBytes
             r == len % ChunkBytes
             top == MaxMsgBytes \div ChunkBytes
  <1>0. ChunkBytes \in Nat \ {0} /\ MaxMsgBytes \in Nat /\ len \in Nat
    BY UmfAssumption
  <1>1. q \in Nat /\ r \in 0 .. ChunkBytes - 1 /\ len = ChunkBytes * q + r
    BY <1>0, SMTT(30)
  <1>2. top \in Nat /\ MaxMsgBytes = ChunkBytes * top /\ top < LengthValues
    BY <1>0, UmfAssumption, SMTT(30)
  <1>3. NumChunks(len) = IF r = 0 THEN q ELSE q + 1
    BY DEF NumChunks
  <1> HIDE DEF q, r, top
  <1>4. NumChunks(len) \in Nat
    BY <1>1, <1>3
  <1>5. ChunkBytes * NumChunks(len) >= len /\ ChunkBytes * NumChunks(len) < len + ChunkBytes
    <2>1. CASE r = 0
      BY <1>0, <1>1, <1>3, <2>1
    <2>2. CASE r # 0
      <3>1. ChunkBytes * (q + 1) = ChunkBytes * q + ChunkBytes
        BY <1>0, <1>1
      <3> QED BY <1>0, <1>1, <1>3, <2>2, <3>1
    <2> QED BY <2>1, <2>2
  <1>6. NumChunks(len) <= top
    <2> SUFFICES ASSUME NumChunks(len) >= top + 1
                 PROVE  FALSE
      BY <1>2, <1>4
    <2>1. ChunkBytes * NumChunks(len) >= ChunkBytes * (top + 1)
      BY <1>0, <1>2, <1>4, SMTT(30)
    <2>2. ChunkBytes * (top + 1) = MaxMsgBytes + ChunkBytes
      BY <1>0, <1>2
    <2> QED BY <1>0, <1>2, <1>4, <1>5, <2>1, <2>2
  <1>7. ChunkBytes * NumChunks(len) <= MaxMsgBytes
    <2>1. ChunkBytes * NumChunks(len) <= ChunkBytes * top
      BY <1>0, <1>2, <1>4, <1>6, SMTT(30)
    <2> QED BY <1>2, <2>1
  <1> QED BY <1>2, <1>4, <1>5, <1>6, <1>7, UmfAssumption

\* What EncodeHeader computes from the fields.
Packed(c, s, k, n) == ((c * Services + s) * Methods + k) * LengthValues + n

\* Four fields packed into one number are recovered from it.
LEMMA FieldsBack ==
    ASSUME NEW c \in Nat, NEW s \in 0 .. Services - 1, NEW k \in 0 .. Methods - 1, NEW n \in 0 .. LengthValues - 1
    PROVE  LET h == Packed(c, s, k, n)
           IN  /\ h % LengthValues = n
               /\ (h \div LengthValues) % Methods = k
               /\ (h \div (LengthValues * Methods)) % Services = s
               /\ h \div (LengthValues * Methods * Services) = c
  <1> DEFINE h == Packed(c, s, k, n)
             cs == c * Services + s
             csm == cs * Methods + k
  <1> Services \in Nat \ {0} /\ Methods \in Nat \ {0} /\ LengthValues \in Nat \ {0}
    BY UmfAssumption
  <1>0. h = ((c * Services + s) * Methods + k) * LengthValues + n
    BY DEF Packed
  <1> HIDE DEF h
  <1>1. cs \in Nat /\ cs % Services = s
    BY ShiftBack
  <1>2. csm \in Nat /\ csm % Methods = k
    <2> HIDE DEF cs
    <2> QED BY <1>1, ShiftBack
  <1>3. h % LengthValues = n /\ h \div LengthValues = csm
    <2>1. h = csm * LengthValues + n
      BY <1>0
    <2> HIDE DEF csm
    <2> QED BY <1>2, <2>1, ShiftBack
  <1>4. h \div (LengthValues * Methods) = cs
    <2>1. h = (cs * Methods + k) * LengthValues + n
      BY <1>0
    <2> HIDE DEF cs
    <2> QED BY <1>1, <2>1, DivTwice
  <1>5. h \div (LengthValues * Methods * Services) = c
    <2>1. LengthValues * Methods \in Nat \ {0}
      BY SMTT(30)
    <2>2. k * LengthValues + n \in 0 .. LengthValues * Methods - 1
      <3>1. k * LengthValues <= (Methods - 1) * LengthValues
        BY SMTT(30)
      <3>2. (Methods - 1) * LengthValues = LengthValues * Methods - LengthValues
        OBVIOUS
      <3> QED BY <3>1, <3>2, SMTT(30)
    <2>3. h = (c * Services + s) * (LengthValues * Methods) + (k * LengthValues + n)
      <3> HIDE DEF cs
      <3>1. h = (cs * Methods + k) * LengthValues + n
        BY <1>0 DEF cs
      <3>2. h = cs * (LengthValues * Methods) + (k * LengthValues + n)
        BY <1>1, <3>1, SMTT(30)
      <3> QED BY <3>2 DEF cs
    <2>4. ASSUME NEW X \in Nat \ {0}, NEW y \in 0 .. X - 1, h = (c * Services + s) * X + y
          PROVE  h \div (X * Services) = c
      BY <2>4, DivTwice
    <2> QED BY <2>1, <2>2, <2>3, <2>4
  <1> QED
    <2> HIDE DEF cs, csm
    <2>1. /\ h % LengthValues = n /\ (h \div LengthValues) % Methods = k
          /\ (h \div (LengthValues * Methods)) % Services = s /\ h \div (LengthValues * Methods * Services) = c
      BY <1>1, <1>2, <1>3, <1>4, <1>5
    <2> QED BY <2>1 DEF h

\* The receiver decodes the channel, service and method that the sender encoded,
\* and a length that covers the sender's and is less than one chunk longer: no
\* field spills into another, whatever the widths.
THEOREM HeaderRoundTrip ==
    ASSUME NEW m \in Message, NEW old \in Message
    PROVE  LET decoded == DecodeHeader(old, EncodeHeader(m))
           IN  /\ decoded.channelID = m.channelID /\ decoded.serviceID = m.serviceID
               /\ decoded.methodID = m.methodID
               /\ decoded.length >= m.length /\ decoded.length < m.length + ChunkBytes
  <1> DEFINE n == NumChunks(m.length)
             h == EncodeHeader(m)
             decoded == DecodeHeader(old, h)
  <1>0. /\ m.channelID \in 0 .. Channels - 1 /\ m.serviceID \in 0 .. Services - 1
        /\ m.methodID \in 0 .. Methods - 1 /\ m.length \in 0 .. MaxMsgBytes
        /\ Channels \in Nat \ {0} /\ Services \in Nat \ {0}
        /\ Methods \in Nat \ {0} /\ LengthValues \in Nat \ {0}
    BY UmfAssumption DEF Message
  <1>1. n \in 0 .. LengthValues - 1
    BY <1>0, ChunksCover
  <1>2. h = Packed(m.channelID, m.serviceID, m.methodID, n)
    BY DEF EncodeHeader, Packed
  <1>3. /\ h % LengthValues = n
        /\ (h \div LengthValues) % Methods = m.methodID
        /\ (h \div (LengthValues * Methods)) % Services = m.serviceID
        /\ (h \div (LengthValues * Methods * Services)) % Channels = m.channelID
    <2> HIDE DEF n, h
    <2>1. /\ h % LengthValues = n
          /\ (h \div LengthValues) % Methods = m.methodID
          /\ (h \div (LengthValues * Methods)) % Services = m.serviceID
          /\ h \div (LengthValues * Methods * Services) = m.channelID
      BY <1>0, <1>1, <1>2, FieldsBack
    <2>2. m.channelID % Channels = m.channelID
      BY <1>0, SMTT(30)
    <2> QED BY <2>1, <2>2
  <1>4. /\ decoded.length = ChunkBytes * (h % LengthValues)
        /\ decoded.methodID = (h \div LengthValues) % Methods
        /\ decoded.serviceID = (h \div (LengthValues * Methods)) % Services
        /\ decoded.channelID = (h \div (LengthValues * Methods * Services)) % Channels
    <2> HIDE DEF n, h
    <2> QED BY DEF DecodeHeader, Message
  <1>5. decoded.length >= m.length /\ decoded.length < m.length + ChunkBytes
    <2> HIDE DEF decoded, h
    <2> QED BY <1>0, <1>3, <1>4, ChunksCover
  <1> QED
    <2> HIDE DEF decoded
    <2> SUFFICES /\ decoded.channelID = m.channelID /\ decoded.serviceID = m.serviceID
                 /\ decoded.methodID = m.methodID
                 /\ decoded.length >= m.length /\ decoded.length < m.length + ChunkBytes
      BY DEF decoded
    <2> QED BY <1>3, <1>4, <1>5

-----------------------------------------------------------------------------
(* A whole message arrives: the inductive invariant.                           *)

\* The chunks that the message in tx fills, and the bytes they hold.
Count == NumChunks(tx.length)
Total == ChunkBytes * Count

\* What Send leaves on the wire after the header, from chunk j + 1 on.
Rest(j) == [k \in 1 .. Count - j |-> ChunkAt(tx, j + k)]

\* The header of the message in tx.
Header == IF class = "base" THEN EncodeHeader(tx) ELSE TemplateEncodeHeader(tx)

Typed ==
    /\ TypeOK
    /\ class \in {"base", "template"} /\ phase \in {"idle", "append", "sent", "receive"}
    /\ put \in Seq(Nat) /\ got \in Seq(Nat)

\* tx holds the bytes that were appended to it.
Filled == phase \in {"append", "sent", "receive"} =>
    /\ Len(put) = tx.writeIndex /\ tx.writeIndex <= tx.length
    /\ \A i \in 1 .. Len(put) : tx.message[i] = put[i]

\* Nothing but the message in tx is on its way.
OnTheWire ==
    /\ phase \in {"idle", "append"} => wire = <<>>
    /\ phase \in {"append", "sent"} => got = <<>>
    /\ phase \in {"sent", "receive"} => tx.writeIndex = tx.length
    /\ phase = "sent" => wire = <<Header>> \o Rest(0)

\* rx has taken the first chunks of it; the others follow in their order.
Arriving == phase = "receive" =>
    \E j \in 0 .. Count :
        /\ rx.length = Total /\ rx.writeIndex = ChunkBytes * j /\ wire = Rest(j)
        /\ \A i \in 1 .. ChunkBytes * j : rx.message[i] = tx.message[i]

\* What was extracted is a beginning of what rx holds.
Taken == phase = "receive" =>
    /\ Len(got) = rx.readIndex /\ rx.readIndex <= rx.writeIndex
    /\ \A i \in 1 .. Len(got) : got[i] = rx.message[i]

\* The fields arrive that the class transmits.
Fields == phase = "receive" =>
    /\ rx.serviceID = tx.serviceID
    /\ class = "base" => rx.channelID = tx.channelID /\ rx.methodID = tx.methodID

\* A message that is over arrived as it was written.
Whole == phase = "idle" =>
    /\ Len(put) <= Len(got)
    /\ \A i \in 1 .. Len(put) : got[i] = put[i]

UmfInv == Typed /\ Filled /\ OnTheWire /\ Arriving /\ Taken /\ Fields /\ Whole

\* Multiples of a chunk.
LEMMA Multiples ==
    ASSUME NEW C \in Nat \ {0}, NEW j \in Nat, NEW n \in Nat
    PROVE  /\ C * j \in Nat /\ C * (j + 1) = C * j + C
           /\ j < n => C * j + C <= C * n
           /\ j <= n => C * j <= C * n
           /\ j >= n => C * j >= C * n
           /\ j <= C * j
  <1>1. C * j \in Nat /\ C * (j + 1) = C * j + C
    OBVIOUS
  <1>2. \A x, y \in Nat : x <= y => C * x <= C * y
    <2> SUFFICES ASSUME NEW x \in Nat, NEW y \in Nat, x <= y
                 PROVE  C * x <= C * y
      OBVIOUS
    <2>1. PICK z \in Nat : y = x + z
      <3>1. y - x \in Nat /\ y = x + (y - x)
        OBVIOUS
      <3> QED BY <3>1
    <2>2. C * y = C * x + C * z /\ C * x \in Nat /\ C * z \in Nat
      BY <2>1
    <2> QED BY <2>2
  <1>3. j < n => C * (j + 1) <= C * n
    BY <1>2
  <1>4. j <= C * j
    BY SMTT(30)
  <1> QED BY <1>1, <1>2, <1>3, <1>4

\* ExtractAllChunks stops after the last chunk that holds a byte.
LEMMA ChunksOfMessage ==
    ASSUME NEW m \in Message
    PROVE  AllChunks(m) = 1 .. NumChunks(m.writeIndex)
  <1> DEFINE w == m.writeIndex
             n == NumChunks(w)
  <1>1. w \in 0 .. MaxMsgBytes /\ ChunkBytes \in Nat \ {0} /\ MaxMsgBytes \in Nat
    BY UmfAssumption DEF Message
  <1>2. /\ n \in Nat /\ ChunkBytes * n >= w /\ ChunkBytes * n < w + ChunkBytes
        /\ ChunkBytes * n <= MaxMsgBytes
    BY <1>1, ChunksCover, UmfAssumption
  <1> HIDE DEF w, n
  <1>3. ASSUME NEW k \in Nat \ {0}
        PROVE  (k - 1) * ChunkBytes < w <=> k <= n
    <2>1. /\ k - 1 \in Nat /\ (k - 1) * ChunkBytes = ChunkBytes * (k - 1)
          /\ ChunkBytes * (k - 1) \in Nat
      BY <1>1
    <2>2. CASE k <= n
      <3>1. ChunkBytes * (k - 1) + ChunkBytes <= ChunkBytes * n
        BY <1>1, <1>2, <2>1, <2>2, Multiples
      <3> QED BY <1>1, <1>2, <2>1, <2>2, <3>1
    <2>3. CASE k > n
      <3>1. ChunkBytes * (k - 1) >= ChunkBytes * n
        BY <1>1, <1>2, <2>1, <2>3, Multiples
      <3> QED BY <1>1, <1>2, <2>1, <2>3, <3>1
    <2> QED BY <1>2, <2>2, <2>3
  <1>4. n <= MaxMsgBytes
    BY <1>1, <1>2, Multiples
  <1>5. AllChunks(m) = {k \in 1 .. MaxMsgBytes : (k - 1) * ChunkBytes < w}
    BY DEF AllChunks, w
  <1>6. 1 .. n = AllChunks(m)
    BY <1>1, <1>2, <1>3, <1>4, <1>5
  <1> QED BY <1>6 DEF n, w

\* A chunk of a message holds its bytes in order.
LEMMA BytesOfChunk ==
    ASSUME NEW m \in Message, NEW k \in Nat, ChunkBytes * (k + 1) <= MaxMsgBytes
    PROVE  /\ ChunkAt(m, k + 1) \in Seq(Nat) /\ Len(ChunkAt(m, k + 1)) = ChunkBytes
           /\ \A i \in 1 .. ChunkBytes : ChunkAt(m, k + 1)[i] = m.message[ChunkBytes * k + i]
  <1> DEFINE q == m.message
             a == ChunkBytes * k
  <1>1. ChunkBytes \in Nat \ {0} /\ MaxMsgBytes \in Nat /\ a \in Nat /\ ChunkBytes * (k + 1) = a + ChunkBytes
    BY UmfAssumption
  <1>2. q \in Seq(Nat) /\ Len(q) = MaxMsgBytes
    BY <1>1 DEF Message
  <1>3. ChunkAt(m, k + 1) = SubSeq(q, a + 1, a + ChunkBytes)
    <2>1. ((k + 1) - 1) * ChunkBytes = a /\ (k + 1) * ChunkBytes = a + ChunkBytes
      BY <1>1
    <2>2. ChunkAt(m, k + 1) = SubSeq(q, ((k + 1) - 1) * ChunkBytes + 1, (k + 1) * ChunkBytes)
      BY DEF ChunkAt
    <2> HIDE DEF a, q
    <2> QED BY <2>1, <2>2, Zenon
  <1> HIDE DEF a, q
  <1>4. a + ChunkBytes <= MaxMsgBytes
    BY <1>1
  <1>5. /\ a + 1 \in Int /\ a + ChunkBytes \in Int /\ a + 1 <= a + ChunkBytes
        /\ \A i \in a + 1 .. a + ChunkBytes : q[i] \in Nat
    BY <1>1, <1>2, <1>4
  <1>6. /\ SubSeq(q, a + 1, a + ChunkBytes) \in Seq(Nat)
        /\ Len(SubSeq(q, a + 1, a + ChunkBytes)) = (a + ChunkBytes) - (a + 1) + 1
        /\ \A i \in 1 .. (a + ChunkBytes) - (a + 1) + 1 :
              SubSeq(q, a + 1, a + ChunkBytes)[i] = q[(a + 1) + i - 1]
    BY <1>2, <1>5, SubSeqProperties
  <1>7. (a + ChunkBytes) - (a + 1) + 1 = ChunkBytes
    BY <1>1
  <1>8. \A i \in 1 .. ChunkBytes : (a + 1) + i - 1 = a + i
    BY <1>1
  <1>9. \A i \in 1 .. ChunkBytes : SubSeq(q, a + 1, a + ChunkBytes)[i] = q[a + i]
    BY <1>6, <1>7, <1>8
  <1> QED BY <1>3, <1>6, <1>7, <1>9 DEF a, q

\* Bytes that are stored follow those that the message holds.
LEMMA BytesStored ==
    ASSUME NEW m \in Message, NEW bytes \in Seq(Nat), m.writeIndex + Len(bytes) <= MaxMsgBytes
    PROVE  /\ Stored(m, bytes) \in Message
           /\ Stored(m, bytes) =
                 [m EXCEPT !.message = Stored(m, bytes).message, !.writeIndex = @ + Len(bytes)]
           /\ \A i \in 1 .. m.writeIndex : Stored(m, bytes).message[i] = m.message[i]
           /\ \A i \in 1 .. Len(bytes) : Stored(m, bytes).message[m.writeIndex + i] = bytes[i]
  <1> DEFINE w == m.writeIndex
             l == Len(bytes)
             f == [i \in 1 .. MaxMsgBytes |->
                      IF i \in w + 1 .. w + l THEN bytes[i - w] ELSE m.message[i]]
  <1>1. /\ w \in 0 .. MaxMsgBytes /\ l \in Nat /\ MaxMsgBytes \in Nat
        /\ m.message \in [1 .. MaxMsgBytes -> Nat]
    BY UmfAssumption DEF Message
  <1>2. Stored(m, bytes) = [m EXCEPT !.message = f, !.writeIndex = @ + l]
    BY <1>1 DEF Stored, Message
  <1>3. f \in [1 .. MaxMsgBytes -> Nat]
    <2> SUFFICES ASSUME NEW i \in 1 .. MaxMsgBytes
                 PROVE  (IF i \in w + 1 .. w + l THEN bytes[i - w] ELSE m.message[i]) \in Nat
      OBVIOUS
    <2> HIDE DEF w, l
    <2>1. CASE i \in w + 1 .. w + l
      <3>1. i - w \in 1 .. l
        BY <1>1, <2>1
      <3> QED BY <2>1, <3>1 DEF l
    <2> QED BY <1>1, <2>1
  <1>4. w + l \in 0 .. MaxMsgBytes
    BY <1>1
  <1>5. \A i \in 1 .. w : f[i] = m.message[i]
    BY <1>1
  <1>6. \A i \in 1 .. l : f[w + i] = bytes[i]
    <2> SUFFICES ASSUME NEW i \in 1 .. l
                 PROVE  f[w + i] = bytes[i]
      OBVIOUS
    <2> HIDE DEF w, l
    <2>1. w + i \in 1 .. MaxMsgBytes /\ w + i \in w + 1 .. w + l /\ (w + i) - w = i
      BY <1>1, <1>4
    <2>2. \A x \in 1 .. MaxMsgBytes : x \in w + 1 .. w + l => f[x] = bytes[x - w]
      OBVIOUS
    <2> HIDE DEF f
    <2> QED BY <2>1, <2>2
  <1> HIDE DEF f
  <1>7. [m EXCEPT !.message = f, !.writeIndex = @ + l] \in Message
    <2> HIDE DEF l
    <2> QED BY <1>3, <1>4 DEF Message
  <1>8. Stored(m, bytes).message = f
    BY <1>2 DEF Message
  <1> QED BY <1>2, <1>5, <1>6, <1>7, <1>8

\* A sequence is what it holds at each place.
LEMMA SameSequence ==
    ASSUME NEW S, NEW p \in Seq(S), NEW q \in Seq(S), Len(p) = Len(q),
           \A i \in 1 .. Len(p) : p[i] = q[i]
    PROVE  p = q
  OBVIOUS

LEMMA Joined ==
    ASSUME NEW S, NEW p \in Seq(S), NEW q \in Seq(S)
    PROVE  /\ p \o q \in Seq(S) /\ Len(p \o q) = Len(p) + Len(q)
           /\ \A i \in 1 .. Len(p) : (p \o q)[i] = p[i]
           /\ \A i \in 1 .. Len(q) : (p \o q)[Len(p) + i] = q[i]
  OBVIOUS

LEMMA Prepended ==
    ASSUME NEW S, NEW x \in S, NEW q \in Seq(S)
    PROVE  /\ <<x>> \o q # <<>> /\ Head(<<x>> \o q) = x
           /\ Tail(<<x>> \o q) = q
  <1> DEFINE r == <<x>> \o q
  <1>1. /\ r \in Seq(S) /\ Len(r) = 1 + Len(q) /\ r[1] = x
        /\ \A i \in 1 .. Len(q) : r[i + 1] = q[i]
    OBVIOUS
  <1> HIDE DEF r
  <1>2. r # <<>> /\ Head(r) = x
    BY <1>1
  <1>3. /\ Tail(r) \in Seq(S) /\ Len(Tail(r)) = Len(q)
        /\ \A i \in 1 .. Len(q) : Tail(r)[i] = r[i + 1]
    BY <1>1, <1>2
  <1>4. Tail(r) = q
    BY <1>1, <1>3, SameSequence
  <1> QED BY <1>2, <1>4 DEF r

\* The chunks that remain after one was taken.
LEMMA RestOfChunks ==
    ASSUME tx \in Message, NEW j \in 0 .. Count
    PROVE  /\ Count \in Nat /\ Total \in 0 .. MaxMsgBytes
           /\ Rest(j) \in Seq(Seq(Nat)) /\ Len(Rest(j)) = Count - j
           /\ j = Count => Rest(j) = <<>>
           /\ j < Count => /\ Rest(j) # <<>> /\ Head(Rest(j)) = ChunkAt(tx, j + 1)
                           /\ Tail(Rest(j)) = Rest(j + 1)
  <1>1. /\ Count \in Nat /\ Total = ChunkBytes * Count /\ Total \in 0 .. MaxMsgBytes
        /\ ChunkBytes \in Nat \ {0} /\ MaxMsgBytes \in Nat
    <2>1. tx.length \in 0 .. MaxMsgBytes
      BY DEF Message
    <2>2. /\ NumChunks(tx.length) \in 0 .. LengthValues - 1
          /\ ChunkBytes * NumChunks(tx.length) <= MaxMsgBytes
      BY <2>1, ChunksCover
    <2>3. /\ Count \in Nat /\ Total = ChunkBytes * Count /\ Total <= MaxMsgBytes
          /\ ChunkBytes \in Nat \ {0} /\ MaxMsgBytes \in Nat
      BY <2>2, UmfAssumption DEF Count, Total
    <2> QED BY <2>3, Multiples
  <1>2. ASSUME NEW k \in 1 .. Count
        PROVE  ChunkAt(tx, k) \in Seq(Nat)
    <2> DEFINE a == k - 1
    <2>1. a \in Nat /\ a + 1 = k /\ a < Count
      BY <1>1
    <2> HIDE DEF a
    <2>2. ChunkBytes * (a + 1) <= MaxMsgBytes
      BY <1>1, <2>1, Multiples
    <2>3. ChunkAt(tx, a + 1) \in Seq(Nat)
      BY <2>1, <2>2, BytesOfChunk
    <2> QED BY <2>1, <2>3
  <1>3. ASSUME NEW i \in 0 .. Count
        PROVE  /\ Rest(i) \in Seq(Seq(Nat)) /\ Len(Rest(i)) = Count - i
               /\ \A k \in 1 .. Count - i : Rest(i)[k] = ChunkAt(tx, i + k)
    <2> DEFINE n == Count - i
    <2>1. n \in Nat /\ \A k \in 1 .. n : i + k \in 1 .. Count
      BY <1>1
    <2>2. \A k \in 1 .. n : ChunkAt(tx, i + k) \in Seq(Nat)
      BY <1>2, <2>1
    <2>3. Rest(i) = [k \in 1 .. n |-> ChunkAt(tx, i + k)]
      BY DEF Rest
    <2> HIDE DEF n
    <2>4. Rest(i) \in [1 .. n -> Seq(Nat)] /\ \A k \in 1 .. n : Rest(i)[k] = ChunkAt(tx, i + k)
      BY <2>2, <2>3
    <2>5. Rest(i) \in Seq(Seq(Nat)) /\ Len(Rest(i)) = n
      BY <2>1, <2>4
    <2> QED BY <2>4, <2>5 DEF n
  <1>4. j = Count => Rest(j) = <<>>
    BY <1>1, <1>3
  <1>5. ASSUME j < Count
        PROVE  /\ Rest(j) # <<>> /\ Head(Rest(j)) = ChunkAt(tx, j + 1)
               /\ Tail(Rest(j)) = Rest(j + 1)
    <2> DEFINE q == Rest(j)
               t == Rest(j + 1)
    <2>1. /\ q \in Seq(Seq(Nat)) /\ Len(q) = Count - j /\ Len(q) > 0
          /\ \A k \in 1 .. Len(q) : q[k] = ChunkAt(tx, j + k)
      BY <1>1, <1>3, <1>5
    <2>2. /\ t \in Seq(Seq(Nat)) /\ Len(t) = Len(q) - 1
          /\ \A k \in 1 .. Len(t) : t[k] = ChunkAt(tx, (j + 1) + k)
      <3>1. j + 1 \in 0 .. Count /\ Count - (j + 1) = (Count - j) - 1
        BY <1>1, <1>5
      <3> QED BY <1>3, <2>1, <3>1
    <2> HIDE DEF q, t
    <2>3. q # <<>> /\ Head(q) = q[1] /\ 1 \in 1 .. Len(q)
      BY <2>1
    <2>4. /\ Tail(q) \in Seq(Seq(Nat)) /\ Len(Tail(q)) = Len(t)
          /\ \A k \in 1 .. Len(t) : Tail(q)[k] = q[k + 1]
      BY <2>1, <2>2, <2>3
    <2>5. ASSUME NEW k \in 1 .. Len(t)
          PROVE  Tail(q)[k] = t[k]
      <3>1. k + 1 \in 1 .. Len(q) /\ j + (k + 1) = (j + 1) + k
        BY <1>1, <2>1, <2>2
      <3>2. q[k + 1] = ChunkAt(tx, j + (k + 1))
        BY <2>1, <3>1
      <3>3. t[k] = ChunkAt(tx, (j + 1) + k)
        BY <2>2
      <3> QED BY <2>4, <3>1, <3>2, <3>3
    <2>6. Tail(q) = t
      BY <2>2, <2>4, <2>5, SameSequence
    <2> QED BY <2>1, <2>3, <2>6 DEF q, t
  <1> QED BY <1>1, <1>3, <1>4, <1>5

\* The fields that the receiver's object has after the header.
LEMMA HeaderTaken ==
    ASSUME TypeOK, class \in {"base", "template"},
           NEW decoded, decoded = IF class = "base" THEN DecodeHeader(Clear(rx), Header)
                          ELSE TemplateDecodeHeader(Clear(rx), Header)
    PROVE  /\ decoded \in Message /\ decoded.length = Total /\ decoded.readIndex = 0 /\ decoded.writeIndex = 0
           /\ decoded.serviceID = tx.serviceID
           /\ class = "base" => decoded.channelID = tx.channelID /\ decoded.methodID = tx.methodID
  <1> DEFINE h == Header
             n == Count
             c == IF class = "base" THEN tx.channelID ELSE 0
             k == IF class = "base" THEN tx.methodID ELSE 0
             s == tx.serviceID
  <1>1. /\ Channels \in Nat \ {0} /\ Services \in Nat \ {0} /\ Methods \in Nat \ {0}
        /\ LengthValues \in Nat \ {0}
        /\ MaxMsgBytes \in Nat /\ ChunkBytes \in Nat \ {0}
    BY UmfAssumption
  <1>2. /\ c \in 0 .. Channels - 1 /\ k \in 0 .. Methods - 1 /\ s \in 0 .. Services - 1
        /\ tx.length \in 0 .. MaxMsgBytes
    BY <1>1, SMTT(30) DEF TypeOK, Message
  <1>3. n \in 0 .. LengthValues - 1 /\ Total = ChunkBytes * n /\ Total \in 0 .. MaxMsgBytes
    <2>1. n \in 0 .. LengthValues - 1 /\ ChunkBytes * n <= MaxMsgBytes
      BY <1>2, ChunksCover DEF Count
    <2> HIDE DEF n
    <2>2. ChunkBytes * n \in Nat
      BY <1>1, <2>1
    <2> QED BY <1>1, <2>1, <2>2 DEF Total, n
  <1>4. h = Packed(c, s, k, n)
    <2>1. CASE class = "base"
      BY <2>1 DEF Header, EncodeHeader, Packed, Count
    <2>2. CASE class = "template"
      <3>1. h = s * Methods * LengthValues + n
        BY <2>2 DEF Header, TemplateEncodeHeader, Count
      <3>2. Packed(c, s, k, n) = ((0 * Services + s) * Methods + 0) * LengthValues + n
        BY <2>2 DEF Packed
      <3>3. (0 * Services + s) * Methods + 0 = s * Methods
        BY <1>1, <1>2
      <3> QED BY <3>1, <3>2, <3>3
    <2> QED BY <2>1, <2>2
  <1> HIDE DEF h, n, c, k, s
  <1>5. /\ h % LengthValues = n /\ (h \div LengthValues) % Methods = k
        /\ (h \div (LengthValues * Methods)) % Services = s
        /\ (h \div (LengthValues * Methods * Services)) % Channels = c
    <2>1. /\ h % LengthValues = n /\ (h \div LengthValues) % Methods = k
          /\ (h \div (LengthValues * Methods)) % Services = s
          /\ h \div (LengthValues * Methods * Services) = c
      BY <1>1, <1>2, <1>3, <1>4, FieldsBack
    <2>2. c % Channels = c
      BY <1>1, <1>2, SMTT(30)
    <2> QED BY <2>1, <2>2
  <1>6. Clear(rx) = [rx EXCEPT !.length = 0, !.readIndex = 0, !.writeIndex = 0] /\ rx \in Message
    BY DEF Clear, TypeOK
  <1>7. Clear(rx) \in Message /\ Clear(rx).readIndex = 0 /\ Clear(rx).writeIndex = 0
    <2>1. 0 \in 0 .. MaxMsgBytes
      BY <1>1
    <2>2. ASSUME NEW x \in Message, NEW zero \in 0 .. MaxMsgBytes
          PROVE  LET y == [x EXCEPT !.length = zero, !.readIndex = zero, !.writeIndex = zero]
                 IN  y \in Message /\ y.readIndex = zero /\ y.writeIndex = zero
      BY <2>2 DEF Message
    <2> QED BY <1>6, <2>1, <2>2, ZenonT(30)
  <1>8. CASE class = "base"
    <2>1. DecodeHeader(Clear(rx), h) =
             [Clear(rx) EXCEPT !.length = Total, !.methodID = k, !.serviceID = s, !.channelID = c]
      BY <1>3, <1>5 DEF DecodeHeader
    <2>2. decoded = [Clear(rx) EXCEPT !.length = Total, !.methodID = k, !.serviceID = s, !.channelID = c]
      BY <1>8, <2>1 DEF h
    <2>3. /\ decoded \in Message /\ decoded.length = Total /\ decoded.readIndex = 0 /\ decoded.writeIndex = 0
          /\ decoded.serviceID = s /\ decoded.channelID = c /\ decoded.methodID = k
      BY <1>2, <1>3, <1>7, <2>2 DEF Message
    <2> QED BY <1>8, <2>3 DEF s, c, k
  <1>9. CASE class = "template"
    <2>1. TemplateDecodeHeader(Clear(rx), h) = [Clear(rx) EXCEPT !.length = Total, !.serviceID = s]
      BY <1>3, <1>5 DEF TemplateDecodeHeader
    <2>2. decoded = [Clear(rx) EXCEPT !.length = Total, !.serviceID = s]
      BY <1>9, <2>1 DEF h
    <2>3. /\ decoded \in Message /\ decoded.length = Total /\ decoded.readIndex = 0 /\ decoded.writeIndex = 0
          /\ decoded.serviceID = s
      BY <1>2, <1>3, <1>7, <2>2 DEF Message
    <2> QED BY <1>9, <2>3 DEF s
  <1> QED BY <1>8, <1>9

-----------------------------------------------------------------------------
(* Every step keeps the invariant.                                             *)

LEMMA UmfInit == Init => UmfInv
  <1> SUFFICES ASSUME Init
               PROVE  UmfInv
    OBVIOUS
  <1>1. /\ MaxMsgBytes \in Nat /\ Channels \in Nat \ {0} /\ Services \in Nat \ {0}
        /\ Methods \in Nat \ {0} /\ MaxMessages \in Nat
    BY UmfAssumption
  <1>2. New \in Message
    BY <1>1 DEF New, Message
  <1>3. Typed
    BY <1>1, <1>2 DEF Init, Typed, TypeOK
  <1> QED BY <1>3 DEF Init, UmfInv, Filled, OnTheWire, Arriving, Taken, Fields, Whole

\* What is in tx determines what is sent for it.
LEMMA SameMessage ==
    ASSUME tx' = tx, class' = class
    PROVE  /\ Count' = Count /\ Total' = Total /\ Header' = Header
           /\ \A j \in Nat : Rest(j)' = Rest(j)
  BY DEF Count, Total, Header, Rest, ChunkAt, NumChunks, EncodeHeader, TemplateEncodeHeader

\* The invariant does not hear of what is outside it.
LEMMA UmfStutter == UmfInv /\ UNCHANGED umfVars => UmfInv'
  <1> SUFFICES ASSUME UmfInv, UNCHANGED umfVars
               PROVE  UmfInv'
    OBVIOUS
  <1>1. /\ class' = class /\ tx' = tx /\ rx' = rx /\ phase' = phase /\ wire' = wire
        /\ put' = put /\ got' = got /\ messages' = messages
    BY DEF umfVars
  <1>2. /\ Count' = Count /\ Total' = Total /\ Header' = Header
        /\ \A j \in Nat : Rest(j)' = Rest(j)
    BY <1>1, SameMessage
  <1>3. Typed' /\ Filled' /\ Taken' /\ Fields' /\ Whole'
    BY <1>1 DEF UmfInv, Typed, TypeOK, Filled, Taken, Fields, Whole
  <1>4. OnTheWire'
    BY <1>1, <1>2 DEF UmfInv, OnTheWire
  <1>5. Arriving'
    BY <1>1, <1>2, RestOfChunks DEF UmfInv, Arriving, Typed, TypeOK
  <1> QED BY <1>3, <1>4, <1>5 DEF UmfInv

LEMMA NewMessageKeeps ==
    ASSUME UmfInv, NEW c \in 0 .. Channels - 1, NEW s \in 0 .. Services - 1,
           NEW m \in 0 .. Methods - 1, NEW len \in Lengths, NewMessage(c, s, m, len)
    PROVE  UmfInv'
  <1>0. /\ phase = "idle" /\ messages < MaxMessages /\ messages' = messages + 1
        /\ tx' = [Clear(tx) EXCEPT !.channelID = c, !.serviceID = s, !.methodID = m,
                                   !.length = len]
        /\ phase' = "append" /\ put' = <<>> /\ got' = <<>>
        /\ class' = class /\ rx' = rx /\ wire' = wire
    BY DEF NewMessage
  <1>1. MaxMsgBytes \in Nat /\ MaxMessages \in Nat /\ len \in 1 .. MaxMsgBytes
    BY UmfAssumption
  <1>2. tx' \in Message /\ tx'.writeIndex = 0 /\ tx'.length = len
    <2>1. 0 \in 0 .. MaxMsgBytes /\ len \in 0 .. MaxMsgBytes /\ tx \in Message
      BY <1>1 DEF UmfInv, Typed, TypeOK
    <2>2. ASSUME NEW zero \in 0 .. MaxMsgBytes
          PROVE  LET x == [tx EXCEPT !.length = zero, !.readIndex = zero, !.writeIndex = zero]
                 IN  x \in Message /\ x.writeIndex = zero
      BY <2>1, <2>2 DEF Message
    <2>3. Clear(tx) \in Message /\ Clear(tx).writeIndex = 0
      BY <2>1, <2>2 DEF Clear
    <2> QED BY <1>0, <2>1, <2>3 DEF Message
  <1>3. Typed'
    BY <1>0, <1>1, <1>2 DEF UmfInv, Typed, TypeOK
  <1>4. Filled'
    BY <1>0, <1>1, <1>2 DEF Filled
  <1>5. OnTheWire'
    BY <1>0 DEF UmfInv, OnTheWire
  <1> QED BY <1>0, <1>3, <1>4, <1>5 DEF UmfInv, Arriving, Taken, Fields, Whole

LEMMA AppendBytesKeeps ==
    ASSUME UmfInv, NEW n \in Pieces, AppendBytes(n)
    PROVE  UmfInv'
  <1> DEFINE w == tx.writeIndex
             f == Fresh(n)
  <1>0. /\ phase = "append" /\ w + n <= tx.length /\ tx' = Stored(tx, f)
        /\ put' = put \o f /\ phase' = "append"
        /\ class' = class /\ rx' = rx /\ wire' = wire /\ got' = got /\ messages' = messages
    BY DEF AppendBytes
  <1>1. /\ n \in Nat \ {0} /\ MaxMsgBytes \in Nat
    BY UmfAssumption
  <1>2. /\ tx \in Message /\ rx \in Message /\ w \in 0 .. MaxMsgBytes
        /\ tx.length \in 0 .. MaxMsgBytes /\ messages \in 0 .. MaxMessages
        /\ put \in Seq(Nat) /\ Len(put) = w /\ \A i \in 1 .. w : tx.message[i] = put[i]
    BY <1>0, <1>1 DEF UmfInv, Typed, TypeOK, Filled, Message
  <1>3. f \in Seq(Nat) /\ Len(f) = n
    <2>1. \A i \in 1 .. n : 10 * messages + Len(put) + i \in Nat
      BY <1>1, <1>2, UmfAssumption
    <2> QED BY <1>1, <2>1 DEF Fresh
  <1> HIDE DEF f
  <1>4. w + Len(f) <= MaxMsgBytes
    BY <1>0, <1>1, <1>2, <1>3
  <1>5. /\ tx' \in Message
        /\ tx' = [tx EXCEPT !.message = Stored(tx, f).message, !.writeIndex = @ + Len(f)]
        /\ \A i \in 1 .. w : tx'.message[i] = tx.message[i]
        /\ \A i \in 1 .. Len(f) : tx'.message[w + i] = f[i]
    BY <1>0, <1>2, <1>3, <1>4, BytesStored
  <1>6. tx'.writeIndex = w + n /\ tx'.length = tx.length
    BY <1>2, <1>3, <1>5 DEF Message
  <1>7. /\ put' \in Seq(Nat) /\ Len(put') = w + n
        /\ \A i \in 1 .. w : put'[i] = put[i]
        /\ \A i \in 1 .. n : put'[w + i] = f[i]
    <2>1. /\ put \o f \in Seq(Nat) /\ Len(put \o f) = Len(put) + Len(f)
          /\ \A i \in 1 .. Len(put) : (put \o f)[i] = put[i]
          /\ \A i \in 1 .. Len(f) : (put \o f)[Len(put) + i] = f[i]
      <3>1. put \in Seq(Nat) /\ f \in Seq(Nat)
        BY <1>2, <1>3
      <3> QED BY <3>1, Joined
    <2> DEFINE r == put \o f
    <2>2. put' = r
      BY <1>0
    <2> HIDE DEF r, w
    <2>3. /\ r \in Seq(Nat) /\ Len(r) = w + n /\ \A i \in 1 .. w : r[i] = put[i]
          /\ \A i \in 1 .. n : r[w + i] = f[i]
      BY <1>2, <1>3, <2>1 DEF r
    <2> QED BY <2>2, <2>3
  <1>8. Typed'
    BY <1>0, <1>2, <1>5, <1>7 DEF UmfInv, Typed, TypeOK
  <1>9. Filled'
    <2>1. ASSUME NEW i \in 1 .. w + n
          PROVE  tx'.message[i] = put'[i]
      <3>1. CASE i <= w
        BY <1>1, <1>2, <1>5, <1>7, <3>1
      <3>2. CASE i > w
        <4>1. PICK k \in 1 .. n : i = w + k
          <5>1. i - w \in 1 .. n /\ i = w + (i - w)
            BY <1>1, <1>2, <3>2
          <5> QED BY <5>1
        <4> QED BY <1>3, <1>5, <1>7, <4>1
      <3> QED BY <1>1, <1>2, <3>1, <3>2
    <2> QED BY <1>0, <1>6, <1>7, <2>1 DEF Filled
  <1>10. OnTheWire'
    BY <1>0 DEF UmfInv, OnTheWire
  <1> QED BY <1>0, <1>8, <1>9, <1>10 DEF UmfInv, Arriving, Taken, Fields, Whole

LEMMA SendKeeps ==
    ASSUME UmfInv, Send
    PROVE  UmfInv'
  <1>0. /\ phase = "append" /\ tx.writeIndex = tx.length
        /\ wire' = <<Header>> \o [k \in AllChunks(tx) |-> ChunkAt(tx, k)]
        /\ tx' = [tx EXCEPT !.readIndex = (NumChunks(tx.length) * ChunkBytes)]
        /\ phase' = "sent" /\ class' = class /\ rx' = rx /\ put' = put /\ got' = got
        /\ messages' = messages
    BY DEF Send, Header
  <1>1. tx \in Message
    BY DEF UmfInv, Typed, TypeOK
  <1>2. Count \in Nat /\ Total \in 0 .. MaxMsgBytes /\ NumChunks(tx.length) * ChunkBytes = Total
    <2>1. tx.length \in 0 .. MaxMsgBytes
      BY <1>1 DEF Message
    <2>2. Count \in 0 .. LengthValues - 1 /\ ChunkBytes * Count <= MaxMsgBytes
      BY <2>1, ChunksCover DEF Count
    <2>3. Count \in Nat /\ ChunkBytes \in Nat \ {0} /\ MaxMsgBytes \in Nat
      BY <2>2, UmfAssumption
    <2>4. ChunkBytes * Count \in 0 .. MaxMsgBytes /\ Count * ChunkBytes = ChunkBytes * Count
      BY <2>2, <2>3
    <2> QED BY <2>3, <2>4 DEF Total, Count
  <1>3. /\ tx' \in Message /\ tx'.message = tx.message /\ tx'.length = tx.length
        /\ tx'.writeIndex = tx.writeIndex /\ tx'.channelID = tx.channelID
        /\ tx'.serviceID = tx.serviceID /\ tx'.methodID = tx.methodID
    BY <1>0, <1>1, <1>2 DEF Message
  <1>4. Header' = Header
    BY <1>0, <1>3 DEF Header, EncodeHeader, TemplateEncodeHeader, NumChunks
  <1>5. Rest(0)' = Rest(0)
    BY <1>3 DEF Rest, Count, NumChunks, ChunkAt
  <1>6. [k \in AllChunks(tx) |-> ChunkAt(tx, k)] = Rest(0)
    <2>1. AllChunks(tx) = 1 .. Count - 0
      BY <1>0, <1>1, <1>2, ChunksOfMessage DEF Count
    <2>2. \A k \in 1 .. Count - 0 : 0 + k = k
      BY <1>2
    <2> QED BY <2>1, <2>2 DEF Rest
  <1>7. Typed'
    BY <1>0, <1>3 DEF UmfInv, Typed, TypeOK
  <1>8. Filled'
    BY <1>0, <1>3 DEF UmfInv, Filled
  <1>9. OnTheWire'
    BY <1>0, <1>3, <1>4, <1>5, <1>6 DEF UmfInv, OnTheWire
  <1> QED BY <1>0, <1>7, <1>8, <1>9 DEF UmfInv, Arriving, Taken, Fields, Whole

LEMMA ReceiveHeaderKeeps ==
    ASSUME UmfInv, ReceiveHeader
    PROVE  UmfInv'
  <1>0. /\ phase = "sent" /\ wire' = Tail(wire)
        /\ rx' = (IF class = "base" THEN DecodeHeader(Clear(rx), Head(wire))
                                   ELSE TemplateDecodeHeader(Clear(rx), Head(wire)))
        /\ phase' = (IF class = "base" /\ rx'.length > MaxMsgBytes THEN "exit" ELSE "receive")
        /\ class' = class /\ tx' = tx /\ put' = put /\ got' = got /\ messages' = messages
    BY DEF ReceiveHeader
  <1>1. /\ Typed /\ TypeOK /\ tx \in Message /\ class \in {"base", "template"}
        /\ wire = <<Header>> \o Rest(0) /\ got = <<>> /\ tx.writeIndex = tx.length
    BY <1>0 DEF UmfInv, Typed, TypeOK, OnTheWire
  <1>2. 0 \in 0 .. Count /\ Count \in Nat /\ Total \in 0 .. MaxMsgBytes /\ Rest(0) \in Seq(Seq(Nat))
    <2>1. Count \in Nat
      <3>1. tx.length \in 0 .. MaxMsgBytes
        BY <1>1 DEF Message
      <3>2. Count \in 0 .. LengthValues - 1
        BY <3>1, ChunksCover DEF Count
      <3> QED BY <3>2, UmfAssumption
    <2>2. 0 \in 0 .. Count
      BY <2>1
    <2> QED BY <1>1, <2>1, <2>2, RestOfChunks
  <1>3. Head(wire) = Header /\ wire' = Rest(0)
    <2> DEFINE S == Seq(Nat) \cup {Header}
    <2>1. Rest(0) \in Seq(S) /\ Header \in S
      BY <1>2
    <2> HIDE DEF S
    <2>2. Head(wire) = Header /\ Tail(wire) = Rest(0)
      BY <1>1, <2>1, Prepended
    <2> QED BY <1>0, <2>2
  <1>4. /\ rx' \in Message /\ rx'.length = Total /\ rx'.readIndex = 0 /\ rx'.writeIndex = 0
        /\ rx'.serviceID = tx.serviceID
        /\ class = "base" => rx'.channelID = tx.channelID /\ rx'.methodID = tx.methodID
    <2>1. rx' = IF class = "base" THEN DecodeHeader(Clear(rx), Header)
                                  ELSE TemplateDecodeHeader(Clear(rx), Header)
      BY <1>0, <1>3
    <2> QED BY <1>1, <2>1, HeaderTaken
  <1>5. phase' = "receive"
    <2>1. MaxMsgBytes \in Nat
      BY UmfAssumption
    <2>2. ~(rx'.length > MaxMsgBytes)
      BY <1>2, <1>4, <2>1
    <2> QED BY <1>0, <2>2
  <1>6. Total' = Total /\ Count' = Count /\ Rest(0)' = Rest(0)
    BY <1>0, SameMessage
  <1>7. Typed'
    BY <1>0, <1>1, <1>4, <1>5 DEF Typed, TypeOK
  <1>8. Filled'
    BY <1>0, <1>5 DEF UmfInv, Filled
  <1>9. OnTheWire'
    BY <1>0, <1>1, <1>5 DEF OnTheWire
  <1>10. Arriving'
    <2>1. ChunkBytes * 0 = 0
      BY UmfAssumption
    <2> SUFFICES /\ rx'.length = Total' /\ rx'.writeIndex = ChunkBytes * 0 /\ wire' = Rest(0)'
                 /\ \A i \in 1 .. ChunkBytes * 0 : rx'.message[i] = tx'.message[i]
      BY <1>2, <1>6 DEF Arriving
    <2> QED BY <1>3, <1>4, <1>6, <2>1
  <1>11. Taken'
    BY <1>0, <1>1, <1>4 DEF Taken
  <1>12. Fields'
    BY <1>0, <1>4 DEF Fields
  <1> QED BY <1>5, <1>7, <1>8, <1>9, <1>10, <1>11, <1>12 DEF UmfInv, Whole

\* What the invariant says while a message arrives.
LEMMA WhileArriving ==
    ASSUME UmfInv, phase = "receive"
    PROVE  \E j \in 0 .. Count :
              /\ j \in Nat /\ Count \in Nat /\ ChunkBytes * j \in Nat
              /\ Total = ChunkBytes * Count /\ Total \in 0 .. MaxMsgBytes
              /\ tx.length \in 0 .. MaxMsgBytes /\ Len(put) = tx.length /\ tx.length <= Total
              /\ tx \in Message /\ rx \in Message
              /\ put \in Seq(Nat) /\ \A i \in 1 .. Len(put) : tx.message[i] = put[i]
              /\ rx.length = Total /\ rx.writeIndex = ChunkBytes * j /\ wire = Rest(j)
              /\ \A i \in 1 .. ChunkBytes * j : rx.message[i] = tx.message[i]
              /\ got \in Seq(Nat) /\ Len(got) = rx.readIndex /\ rx.readIndex <= ChunkBytes * j
              /\ \A i \in 1 .. Len(got) : got[i] = rx.message[i]
  <1>1. PICK j \in 0 .. Count :
           /\ rx.length = Total /\ rx.writeIndex = ChunkBytes * j /\ wire = Rest(j)
           /\ \A i \in 1 .. ChunkBytes * j : rx.message[i] = tx.message[i]
    BY DEF UmfInv, Arriving
  <1>2. /\ tx \in Message /\ rx \in Message /\ put \in Seq(Nat) /\ got \in Seq(Nat)
        /\ tx.writeIndex = tx.length /\ Len(put) = tx.writeIndex
        /\ \A i \in 1 .. Len(put) : tx.message[i] = put[i]
        /\ Len(got) = rx.readIndex /\ rx.readIndex <= rx.writeIndex
        /\ \A i \in 1 .. Len(got) : got[i] = rx.message[i]
    BY DEF UmfInv, Typed, TypeOK, Filled, OnTheWire, Taken
  <1>3. Count \in Nat /\ Total = ChunkBytes * Count /\ Total \in 0 .. MaxMsgBytes
    BY <1>2, RestOfChunks DEF Total
  <1>4. tx.length \in 0 .. MaxMsgBytes
    BY <1>2 DEF Message
  <1>5. tx.length <= Total
    BY <1>4, ChunksCover DEF Total, Count
  <1>6. j \in Nat /\ ChunkBytes * j \in Nat
    BY <1>3, UmfAssumption, Multiples
  <1> QED BY <1>1, <1>2, <1>3, <1>4, <1>5, <1>6

LEMMA AppendChunkKeeps ==
    ASSUME UmfInv, AppendChunk
    PROVE  UmfInv'
  <1>0. /\ phase = "receive" /\ rx.writeIndex < rx.length /\ wire # <<>>
        /\ rx' = Stored(rx, Head(wire)) /\ wire' = Tail(wire)
        /\ class' = class /\ tx' = tx /\ phase' = phase /\ put' = put /\ got' = got
        /\ messages' = messages
    BY DEF AppendChunk, CanAppend
  <1>1. PICK j \in 0 .. Count :
              /\ j \in Nat /\ Count \in Nat /\ ChunkBytes * j \in Nat
              /\ Total = ChunkBytes * Count /\ Total \in 0 .. MaxMsgBytes
              /\ tx \in Message /\ rx \in Message
              /\ rx.length = Total /\ rx.writeIndex = ChunkBytes * j /\ wire = Rest(j)
              /\ \A i \in 1 .. ChunkBytes * j : rx.message[i] = tx.message[i]
              /\ got \in Seq(Nat) /\ Len(got) = rx.readIndex /\ rx.readIndex <= ChunkBytes * j
              /\ \A i \in 1 .. Len(got) : got[i] = rx.message[i]
    BY <1>0, WhileArriving
  <1>2. /\ ChunkBytes \in Nat \ {0} /\ MaxMsgBytes \in Nat
        /\ ChunkBytes * (j + 1) = ChunkBytes * j + ChunkBytes
    BY <1>1, UmfAssumption
  <1>3. j < Count /\ j + 1 \in 0 .. Count
    BY <1>0, <1>1
  <1>4. ChunkBytes * j + ChunkBytes <= Total
    BY <1>1, <1>2, <1>3, Multiples
  <1>5. Head(wire) = ChunkAt(tx, j + 1) /\ wire' = Rest(j + 1)
    BY <1>0, <1>1, <1>3, RestOfChunks
  <1> DEFINE b == ChunkAt(tx, j + 1)
             w == ChunkBytes * j
  <1>6. b \in Seq(Nat) /\ Len(b) = ChunkBytes /\ \A i \in 1 .. ChunkBytes : b[i] = tx.message[w + i]
    <2>1. ChunkBytes * (j + 1) <= MaxMsgBytes
      BY <1>1, <1>2, <1>4
    <2> QED BY <1>1, <2>1, BytesOfChunk
  <1>7. rx' = Stored(rx, b)
    BY <1>0, <1>5
  <1> HIDE DEF b, w
  <1>8. /\ rx' \in Message
        /\ rx' = [rx EXCEPT !.message = rx'.message, !.writeIndex = @ + ChunkBytes]
        /\ \A i \in 1 .. w : rx'.message[i] = rx.message[i]
        /\ \A i \in 1 .. ChunkBytes : rx'.message[w + i] = b[i]
    <2>1. rx.writeIndex + Len(b) <= MaxMsgBytes /\ rx.writeIndex = w
      <3>1. rx.writeIndex = w /\ w \in Nat /\ w + ChunkBytes <= Total /\ Len(b) = ChunkBytes
        BY <1>1, <1>4, <1>6 DEF w
      <3>2. w + ChunkBytes <= MaxMsgBytes
        BY <1>1, <1>2, <3>1
      <3> QED BY <3>1, <3>2
    <2> QED BY <1>1, <1>6, <1>7, <2>1, BytesStored
  <1>9. /\ rx'.writeIndex = ChunkBytes * (j + 1) /\ rx'.length = Total /\ rx'.readIndex = rx.readIndex
        /\ rx'.channelID = rx.channelID /\ rx'.serviceID = rx.serviceID
        /\ rx'.methodID = rx.methodID
    BY <1>1, <1>2, <1>8 DEF Message
  <1>10. \A i \in 1 .. ChunkBytes * (j + 1) : rx'.message[i] = tx.message[i]
    <2> SUFFICES ASSUME NEW i \in 1 .. w + ChunkBytes
                 PROVE  rx'.message[i] = tx.message[i]
      BY <1>2 DEF w
    <2>0. w \in Nat
      BY <1>1 DEF w
    <2>1. CASE i <= w
      BY <1>1, <1>8, <2>0, <2>1 DEF w
    <2>2. CASE i > w
      <3>1. PICK k \in 1 .. ChunkBytes : i = w + k
        <4>1. i - w \in 1 .. ChunkBytes /\ i = w + (i - w)
          BY <1>2, <2>0, <2>2
        <4> QED BY <4>1
      <3> QED BY <1>6, <1>8, <3>1
    <2> QED BY <1>2, <2>0, <2>1, <2>2
  <1>11. /\ Total' = Total /\ Count' = Count /\ \A i \in Nat : Rest(i)' = Rest(i)
    BY <1>0, SameMessage
  <1>12. Typed'
    BY <1>0, <1>8 DEF UmfInv, Typed, TypeOK
  <1>13. Filled' /\ OnTheWire' /\ Whole'
    BY <1>0 DEF UmfInv, Filled, OnTheWire, Whole
  <1>14. Arriving'
    <2>1. j + 1 \in 0 .. Count' /\ j + 1 \in Nat
      BY <1>3, <1>11
    <2>2. wire' = Rest(j + 1)'
      BY <1>5, <1>11, <2>1
    <2>3. /\ rx'.length = Total' /\ rx'.writeIndex = ChunkBytes * (j + 1)
          /\ \A i \in 1 .. ChunkBytes * (j + 1) : rx'.message[i] = tx'.message[i]
      BY <1>0, <1>9, <1>10, <1>11
    <2>4. PICK k \in 0 .. Count' : k = j + 1
      BY <2>1
    <2>5. /\ rx'.length = Total' /\ rx'.writeIndex = ChunkBytes * k /\ wire' = Rest(k)'
          /\ \A i \in 1 .. ChunkBytes * k : rx'.message[i] = tx'.message[i]
      BY <1>5, <1>11, <2>1, <2>3, <2>4
    <2> QED BY <2>5 DEF Arriving
  <1>15. Taken'
    <2>1. rx'.readIndex <= rx'.writeIndex
      BY <1>1, <1>2, <1>9
    <2>2. \A i \in 1 .. Len(got) : rx'.message[i] = rx.message[i]
      BY <1>1, <1>8 DEF w
    <2> QED BY <1>0, <1>1, <1>9, <2>1, <2>2 DEF Taken
  <1>16. Fields'
    BY <1>0, <1>9 DEF UmfInv, Fields
  <1> QED BY <1>12, <1>13, <1>14, <1>15, <1>16 DEF UmfInv

LEMMA ExtractKeeps ==
    ASSUME UmfInv, NEW n \in Pieces, Extract(n)
    PROVE  UmfInv'
  <1> DEFINE r == rx.readIndex
             f == SubSeq(rx.message, r + 1, r + n)
  <1>0. /\ phase = "receive" /\ rx.writeIndex - r >= n
        /\ got' = got \o f /\ rx' = [rx EXCEPT !.readIndex = @ + n]
        /\ class' = class /\ tx' = tx /\ phase' = phase /\ wire' = wire /\ put' = put
        /\ messages' = messages
    BY DEF Extract, CanExtract
  <1>1. PICK j \in 0 .. Count :
              /\ j \in Nat /\ Count \in Nat /\ ChunkBytes * j \in Nat /\ rx \in Message
              /\ rx.length = Total /\ rx.writeIndex = ChunkBytes * j /\ wire = Rest(j)
              /\ \A i \in 1 .. ChunkBytes * j : rx.message[i] = tx.message[i]
              /\ got \in Seq(Nat) /\ Len(got) = r /\ r <= ChunkBytes * j
              /\ \A i \in 1 .. Len(got) : got[i] = rx.message[i]
    BY <1>0, WhileArriving
  <1>2. /\ n \in Nat \ {0} /\ MaxMsgBytes \in Nat /\ r \in 0 .. MaxMsgBytes
        /\ rx.writeIndex \in 0 .. MaxMsgBytes /\ rx.message \in [1 .. MaxMsgBytes -> Nat]
    BY <1>1, UmfAssumption DEF Message
  <1> HIDE DEF r
  <1>3. r + n <= rx.writeIndex /\ r + n \in 0 .. MaxMsgBytes
    BY <1>0, <1>2, SMTT(30)
  <1>4. f \in Seq(Nat) /\ Len(f) = n /\ \A i \in 1 .. n : f[i] = rx.message[r + i]
    <2>1. /\ r + 1 \in Int /\ r + n \in Int /\ r + 1 <= r + n
          /\ \A i \in r + 1 .. r + n : rx.message[i] \in Nat
      BY <1>2, <1>3
    <2>2. /\ f \in Seq(Nat) /\ Len(f) = (r + n) - (r + 1) + 1
          /\ \A i \in 1 .. (r + n) - (r + 1) + 1 : f[i] = rx.message[(r + 1) + i - 1]
      BY <2>1, SubSeqProperties
    <2>3. (r + n) - (r + 1) + 1 = n /\ \A i \in 1 .. n : (r + 1) + i - 1 = r + i
      BY <1>2
    <2> HIDE DEF f
    <2> QED BY <2>2, <2>3
  <1> HIDE DEF f
  <1>5. /\ rx' \in Message /\ rx'.readIndex = r + n /\ rx'.writeIndex = rx.writeIndex
        /\ rx'.message = rx.message /\ rx'.length = rx.length
        /\ rx'.channelID = rx.channelID /\ rx'.serviceID = rx.serviceID
        /\ rx'.methodID = rx.methodID
    BY <1>0, <1>1, <1>3 DEF Message, r
  <1>6. /\ got' \in Seq(Nat) /\ Len(got') = r + n
        /\ \A i \in 1 .. r + n : got'[i] = rx.message[i]
    <2> DEFINE g == got \o f
    <2>1. /\ g \in Seq(Nat) /\ Len(g) = Len(got) + Len(f)
          /\ \A i \in 1 .. Len(got) : g[i] = got[i]
          /\ \A i \in 1 .. Len(f) : g[Len(got) + i] = f[i]
      <3>1. got \in Seq(Nat) /\ f \in Seq(Nat)
        BY <1>1, <1>4
      <3> QED BY <3>1, Joined
    <2>2. got' = g
      BY <1>0
    <2> HIDE DEF g
    <2>3. ASSUME NEW i \in 1 .. r + n
          PROVE  g[i] = rx.message[i]
      <3>1. CASE i <= r
        <4>1. i \in 1 .. Len(got)
          BY <1>1, <1>2, <3>1
        <4>2. g[i] = got[i] /\ got[i] = rx.message[i]
          BY <1>1, <2>1, <4>1
        <4> QED BY <4>2
      <3>2. CASE i > r
        <4>1. PICK k \in 1 .. n : i = r + k
          <5>1. i - r \in 1 .. n /\ i = r + (i - r)
            BY <1>2, <3>2
          <5> QED BY <5>1
        <4> QED BY <1>1, <1>4, <2>1, <4>1
      <3> QED BY <1>2, <3>1, <3>2
    <2> QED BY <1>1, <1>4, <2>1, <2>2, <2>3
  <1>7. /\ Total' = Total /\ Count' = Count /\ Rest(j)' = Rest(j)
    BY <1>0, <1>1, SameMessage
  <1>8. Typed'
    BY <1>0, <1>5, <1>6 DEF UmfInv, Typed, TypeOK
  <1>9. Filled' /\ OnTheWire' /\ Whole'
    BY <1>0 DEF UmfInv, Filled, OnTheWire, Whole
  <1>10. Arriving'
    <2>1. /\ rx'.length = Total' /\ rx'.writeIndex = ChunkBytes * j /\ wire' = Rest(j)'
          /\ \A i \in 1 .. ChunkBytes * j : rx'.message[i] = tx'.message[i]
      BY <1>0, <1>1, <1>5, <1>7
    <2> QED BY <1>7, <2>1 DEF Arriving
  <1>11. Taken'
    BY <1>0, <1>3, <1>5, <1>6 DEF Taken
  <1>12. Fields'
    BY <1>0, <1>5 DEF UmfInv, Fields
  <1> QED BY <1>8, <1>9, <1>10, <1>11, <1>12 DEF UmfInv

LEMMA DeleteKeeps ==
    ASSUME UmfInv, Delete
    PROVE  UmfInv'
  <1>0. /\ phase = "receive" /\ phase' = "idle"
        /\ ~(rx.writeIndex < rx.length) /\ ~(rx.writeIndex - rx.readIndex >= 1)
        /\ class' = class /\ tx' = tx /\ rx' = rx /\ wire' = wire /\ put' = put /\ got' = got
        /\ messages' = messages
    BY DEF Delete, CanAppend, CanExtract
  <1>1. PICK j \in 0 .. Count :
              /\ j \in Nat /\ Count \in Nat /\ ChunkBytes * j \in Nat
              /\ Total = ChunkBytes * Count /\ Total \in 0 .. MaxMsgBytes
              /\ tx.length \in 0 .. MaxMsgBytes /\ Len(put) = tx.length /\ tx.length <= Total
              /\ tx \in Message /\ rx \in Message
              /\ put \in Seq(Nat) /\ \A i \in 1 .. Len(put) : tx.message[i] = put[i]
              /\ rx.length = Total /\ rx.writeIndex = ChunkBytes * j /\ wire = Rest(j)
              /\ \A i \in 1 .. ChunkBytes * j : rx.message[i] = tx.message[i]
              /\ got \in Seq(Nat) /\ Len(got) = rx.readIndex /\ rx.readIndex <= ChunkBytes * j
              /\ \A i \in 1 .. Len(got) : got[i] = rx.message[i]
    BY <1>0, WhileArriving
  <1>2. ChunkBytes \in Nat \ {0} /\ MaxMsgBytes \in Nat
    BY UmfAssumption
  <1>3. j = Count
    <2> SUFFICES ASSUME j < Count
                 PROVE  FALSE
      BY <1>1
    <2>1. ChunkBytes * j + ChunkBytes <= ChunkBytes * Count
      BY <1>1, <1>2, Multiples
    <2> QED BY <1>0, <1>1, <1>2, <2>1
  <1>4. wire' = <<>>
    BY <1>0, <1>1, <1>3, RestOfChunks
  <1>5. Len(got) = Total
    <2>1. rx.readIndex = Len(got) /\ rx.writeIndex = Total /\ rx.readIndex <= rx.writeIndex
          /\ Len(got) \in Nat /\ Total \in Nat
      BY <1>1, <1>2, <1>3
    <2> QED BY <1>0, <2>1
  <1>6. Whole'
    <2>1. Len(put) <= Len(got)
      BY <1>1, <1>5
    <2>2. ASSUME NEW i \in 1 .. Len(put)
          PROVE  got[i] = put[i]
      <3>1. i \in 1 .. Len(got) /\ i \in 1 .. ChunkBytes * j
        BY <1>1, <1>2, <1>3, <1>5
      <3> QED BY <1>1, <3>1
    <2> QED BY <1>0, <2>1, <2>2 DEF Whole
  <1>7. Typed'
    BY <1>0 DEF UmfInv, Typed, TypeOK
  <1>8. OnTheWire'
    BY <1>0, <1>4 DEF OnTheWire
  <1> QED BY <1>0, <1>6, <1>7, <1>8 DEF UmfInv, Filled, Arriving, Taken, Fields

LEMMA UmfStep == UmfInv /\ [Next]_umfVars => UmfInv'
  <1> SUFFICES ASSUME UmfInv, [Next]_umfVars
               PROVE  UmfInv'
    OBVIOUS
  <1>1. ASSUME NEW c \in 0 .. Channels - 1, NEW s \in 0 .. Services - 1,
               NEW m \in 0 .. Methods - 1, NEW len \in Lengths, NewMessage(c, s, m, len)
        PROVE  UmfInv'
    BY <1>1, NewMessageKeeps
  <1>2. ASSUME NEW n \in Pieces, AppendBytes(n)
        PROVE  UmfInv'
    BY <1>2, AppendBytesKeeps
  <1>3. ASSUME NEW n \in Pieces, Extract(n)
        PROVE  UmfInv'
    BY <1>3, ExtractKeeps
  <1>4. CASE Send
    BY <1>4, SendKeeps
  <1>5. CASE ReceiveHeader
    BY <1>5, ReceiveHeaderKeeps
  <1>6. CASE AppendChunk
    BY <1>6, AppendChunkKeeps
  <1>7. CASE Delete
    BY <1>7, DeleteKeeps
  <1>8. CASE UNCHANGED umfVars
    BY <1>8, UmfStutter
  <1> QED BY <1>1, <1>2, <1>3, <1>4, <1>5, <1>6, <1>7, <1>8 DEF Next

\* In every reachable state the sender's object holds what was appended to it,
\* the wire what the receiver still expects, and the receiver's object the
\* chunks that it took, whatever the sizes of chunks, messages and fields.
THEOREM UmfInvariant == Spec => []UmfInv
  <1>1. Init => UmfInv
    BY UmfInit
  <1>2. UmfInv /\ [Next]_umfVars => UmfInv'
    BY UmfStep
  <1> QED BY <1>1, <1>2, PTL DEF Spec

LEMMA UmfCorrect ==
    ASSUME UmfInv
    PROVE  MessagesIntact
  <1>1. phase = "receive" => Len(wire) * ChunkBytes = rx.length - rx.writeIndex
    <2> SUFFICES ASSUME phase = "receive"
                 PROVE  Len(wire) * ChunkBytes = rx.length - rx.writeIndex
      OBVIOUS
    <2>1. PICK j \in 0 .. Count :
             /\ j \in Nat /\ Count \in Nat /\ Total = ChunkBytes * Count /\ tx \in Message
             /\ rx.length = Total /\ rx.writeIndex = ChunkBytes * j /\ wire = Rest(j)
      BY WhileArriving
    <2>2. Len(wire) = Count - j
      BY <2>1, RestOfChunks
    <2>3. (Count - j) * ChunkBytes = ChunkBytes * Count - ChunkBytes * j
      BY <2>1, UmfAssumption, SMTT(30)
    <2> QED BY <2>1, <2>2, <2>3
  <1>2. phase \in {"append", "idle"} => wire = <<>>
    BY DEF UmfInv, OnTheWire
  <1>3. phase = "receive" =>
           /\ rx.serviceID = tx.serviceID
           /\ class = "base" => rx.channelID = tx.channelID /\ rx.methodID = tx.methodID
    BY DEF UmfInv, Fields
  <1>4. ASSUME NEW i \in DOMAIN got, i <= Len(put)
        PROVE  got[i] = put[i]
    <2>1. i \in 1 .. Len(got) /\ i \in 1 .. Len(put)
      BY <1>4 DEF UmfInv, Typed
    <2>2. CASE phase \in {"append", "sent"}
      BY <2>1, <2>2 DEF UmfInv, OnTheWire
    <2>3. CASE phase = "idle"
      BY <2>1, <2>3 DEF UmfInv, Whole
    <2>4. CASE phase = "receive"
      <3>1. PICK j \in 0 .. Count :
            /\ ChunkBytes * j \in Nat /\ \A x \in 1 .. Len(put) : tx.message[x] = put[x]
            /\ \A x \in 1 .. ChunkBytes * j : rx.message[x] = tx.message[x]
            /\ got \in Seq(Nat) /\ Len(got) = rx.readIndex /\ rx.readIndex <= ChunkBytes * j
            /\ \A x \in 1 .. Len(got) : got[x] = rx.message[x]
        BY <2>4, WhileArriving
      <3>2. i \in 1 .. ChunkBytes * j
        BY <2>1, <3>1
      <3> QED BY <2>1, <3>1, <3>2
    <2> QED BY <2>2, <2>3, <2>4 DEF UmfInv, Typed
  <1>5. phase = "idle" => Len(got) >= Len(put)
    BY DEF UmfInv, Whole, Typed
  <1> QED BY <1>1, <1>2, <1>3, <1>4, <1>5 DEF MessagesIntact

\* The receiver takes a message apart into the fields that its class transmits and
\* the bytes that were appended to it, and finds the next header where it looks
\* for it: for every width of the fields and every size of chunk.
THEOREM MessagesCorrect == Spec => []MessagesIntact
  <1>1. UmfInv => MessagesIntact
    BY UmfCorrect
  <1> QED BY <1>1, UmfInvariant, PTL

-----------------------------------------------------------------------------
(* Sequences.                                                                  *)

\* An element moves from the front of one queue to the end of another.
LEMMA MoveHead ==
    ASSUME NEW S, NEW a \in Seq(S), NEW q \in Seq(S), q # <<>>
    PROVE  /\ Append(a, Head(q)) \in Seq(S) /\ Tail(q) \in Seq(S) /\ Head(q) \in S
           /\ Append(a, Head(q)) \o Tail(q) = a \o q
           /\ (a \o <<Head(q)>>) \o Tail(q) = a \o q
  <1>1. Head(q) \in S /\ Tail(q) \in Seq(S) /\ Len(q) \in Nat \ {0}
    OBVIOUS
  <1>2. <<Head(q)>> \in Seq(S) /\ Append(a, Head(q)) = a \o <<Head(q)>>
    BY <1>1, AppendIsConcat
  <1>3. q = <<Head(q)>> \o Tail(q)
    <2>1. SubSeq(q, 1, Len(q)) = <<q[1]>> \o SubSeq(q, 2, Len(q))
      BY <1>1, SubSeqRecursiveFirst
    <2> QED BY <1>1, <2>1, SubSeqFull, TailIsSubSeq
  <1>4. (a \o <<Head(q)>>) \o Tail(q) = a \o (<<Head(q)>> \o Tail(q))
    BY <1>1, <1>2, ConcatAssociative
  <1> QED BY <1>1, <1>2, <1>3, <1>4, AppendProperties

\* An element is put at the end of what two queues hold together.
LEMMA PutLast ==
    ASSUME NEW S, NEW a \in Seq(S), NEW q \in Seq(S), NEW x \in S
    PROVE  /\ a \o Append(q, x) = Append(a \o q, x)
           /\ (a \o q) \o <<x>> = Append(a \o q, x)
           /\ (a \o q) \o <<>> = a \o q
           /\ (a \o q) \o <<x>> = (a \o Append(q, x)) \o <<>>
  <1>1. <<x>> \in Seq(S) /\ a \o q \in Seq(S) /\ Append(q, x) \in Seq(S)
    OBVIOUS
  <1>2. Append(q, x) = q \o <<x>> /\ Append(a \o q, x) = (a \o q) \o <<x>>
    BY <1>1, AppendIsConcat
  <1>3. (a \o q) \o <<x>> = a \o (q \o <<x>>)
    BY <1>1, ConcatAssociative
  <1>4. a \o Append(q, x) \in Seq(S)
    BY <1>1, ConcatProperties
  <1>5. (a \o q) \o <<>> = a \o q /\ (a \o Append(q, x)) \o <<>> = a \o Append(q, x)
    BY <1>1, <1>4, ConcatEmptySeq
  <1> QED BY <1>2, <1>3, <1>5

-----------------------------------------------------------------------------
(* BlueNoC: the device, its tests, and bluenoc-ioctl.                          *)

\* The states of the program before the device is up or tested.
Starting == {"new", "deactivated", "reactivated", "reset"}

\* The file of the device is open from InitOpen to the first Cleanup, and the second
\* one closes descriptor 0.
FilesOfDevice ==
    /\ cleanups \in 0 .. 2
    /\ cleanups = 0 /\ pcieHost = "new" => pcieDev = 0 - 1
    /\ cleanups = 0 /\ pcieHost \in Starting \ {"new"} => pcieDev = 3
    /\ cleanups > 0 => pcieHost \notin Starting \ {"new"} /\ pcieDev \in {0, 0 - 1}
    /\ pcieDev = 3 <=> 3 \in fds
    /\ cleanups < 2 => 0 \in fds
    /\ cleanups > 0 /\ pcieDev = 0 - 1 => 0 \in fds
    /\ pcieDev \in {0, 3, 0 - 1} /\ (pcieDev = 0 => cleanups > 0)
    /\ initialized => pcieHost # "new" /\ pcieDev = 3
    /\ pcieHost \in {"up", "test"} /\ cleanups = 0 => pcieDev = 3

\* The host compares a beat with the one that the flooder sends.
TestsInStep ==
    /\ count \in Nat /\ testWritten \in Nat /\ errors = 0
    /\ pcieHost \in Starting => test = "none" /\ testWritten = 0
    /\ test = "sink" => testWritten = 0
    /\ test \notin {"none", "sink"} => testWritten + count = TestBytes
    /\ test = "read" => /\ beatsToSend = expected /\ expected \in Int
                        /\ pos = expectPos /\ pos \in 0 .. MsgBeats - 1

NocInv == FilesOfDevice /\ TestsInStep

LEMMA NocInit == Noc!Init => NocInv
  BY HostAssumption DEF Noc!Init, NocInv, FilesOfDevice, TestsInStep, Starting

LEMMA NocStutter == NocInv /\ UNCHANGED nocPart => NocInv'
  BY DEF nocPart, NocInv, FilesOfDevice, TestsInStep

\* A step of the device that leaves the tests alone, and starts none.
LEMMA TestsUntouched ==
    ASSUME NocInv, UNCHANGED Noc!testVars, pcieHost' \in Starting => pcieHost \in Starting
    PROVE  TestsInStep'
  BY DEF NocInv, TestsInStep, Noc!testVars

\* A step of the tests that leaves the device alone, unless it ends the program.
LEMMA DeviceUntouched ==
    ASSUME NocInv, pcieHost' = pcieHost \/ (pcieHost \notin Starting /\ pcieHost' = "exited"),
           UNCHANGED <<initialized, pcieDev, fds, cleanups>>
    PROVE  FilesOfDevice'
  BY DEF NocInv, FilesOfDevice, Starting

LEMMA DeviceKeeps ==
    ASSUME NocInv,
           Noc!RegisterLogicalDeviceName \/ Noc!InitOpen \/ Noc!InitReactivate \/ Noc!InitReset
           \/ Noc!InitIdentify \/ Noc!Cleanup \/ Noc!ReadOrWrite
    PROVE  NocInv'
  <1>1. CASE Noc!RegisterLogicalDeviceName
    <2>1. FilesOfDevice'
      BY <1>1 DEF Noc!RegisterLogicalDeviceName, NocInv, FilesOfDevice
    <2>2. TestsInStep'
      BY <1>1, TestsUntouched DEF Noc!RegisterLogicalDeviceName
    <2> QED BY <2>1, <2>2 DEF NocInv
  <1>2. CASE Noc!InitOpen
    <2>1. FilesOfDevice'
      BY <1>2 DEF Noc!InitOpen, NocInv, FilesOfDevice, Starting
    <2>2. TestsInStep'
      BY <1>2, TestsUntouched DEF Noc!InitOpen, Starting
    <2> QED BY <2>1, <2>2 DEF NocInv
  <1>3. CASE Noc!InitReactivate
    <2>1. FilesOfDevice'
      BY <1>3 DEF Noc!InitReactivate, NocInv, FilesOfDevice, Starting
    <2>2. TestsInStep'
      BY <1>3, TestsUntouched DEF Noc!InitReactivate, Starting
    <2> QED BY <2>1, <2>2 DEF NocInv
  <1>4. CASE Noc!InitReset
    <2>1. FilesOfDevice'
      BY <1>4 DEF Noc!InitReset, NocInv, FilesOfDevice, Starting
    <2>2. TestsInStep'
      BY <1>4, TestsUntouched DEF Noc!InitReset, Starting
    <2> QED BY <2>1, <2>2 DEF NocInv
  <1>5. CASE Noc!InitIdentify
    <2>1. FilesOfDevice'
      BY <1>5 DEF Noc!InitIdentify, NocInv, FilesOfDevice, Starting
    <2>2. TestsInStep'
      BY <1>5 DEF Noc!InitIdentify, NocInv, TestsInStep, Starting
    <2> QED BY <2>1, <2>2 DEF NocInv
  <1>6. CASE Noc!Cleanup
    <2>1. FilesOfDevice'
      BY <1>6 DEF Noc!Cleanup, Noc!Closed, NocInv, FilesOfDevice, Starting
    <2>2. TestsInStep'
      BY <1>6, TestsUntouched DEF Noc!Cleanup
    <2> QED BY <2>1, <2>2 DEF NocInv
  <1>7. CASE Noc!ReadOrWrite
    <2>1. FilesOfDevice'
      BY <1>7 DEF Noc!ReadOrWrite, NocInv, FilesOfDevice, Starting
    <2>2. TestsInStep'
      BY <1>7, TestsUntouched DEF Noc!ReadOrWrite, Starting
    <2> QED BY <2>1, <2>2 DEF NocInv
  <1> QED BY <1>1, <1>2, <1>3, <1>4, <1>5, <1>6, <1>7

LEMMA TestsKeep ==
    ASSUME NocInv, Noc!Sink \/ Noc!doWrite \/ Noc!RequestFlood \/ Noc!checkReadValues
    PROVE  NocInv'
  <1>0. pcieHost \notin Starting
    BY DEF Noc!Sink, Noc!doWrite, Noc!RequestFlood, Noc!checkReadValues, NocInv, TestsInStep
  <1>1. CASE Noc!Sink
    <2>1. FilesOfDevice'
      BY <1>1, DeviceUntouched DEF Noc!Sink, Noc!deviceVars
    <2>2. TestsInStep'
      BY <1>0, <1>1, HostAssumption DEF Noc!Sink, Noc!deviceVars, NocInv, TestsInStep
    <2> QED BY <2>1, <2>2 DEF NocInv
  <1>2. CASE Noc!doWrite
    <2>1. FilesOfDevice'
      BY <1>0, <1>2, DeviceUntouched DEF Noc!doWrite
    <2>2. count \in Nat /\ Noc!ChunkOf(count) \in 0 .. count
      BY HostAssumption DEF NocInv, TestsInStep, Noc!ChunkOf
    <2>3. TestsInStep'
      <3>1. CASE test' = "none"
        <4>1. /\ testWritten' = testWritten /\ count' = count /\ errors' = errors
              /\ pcieHost' = "exited"
          BY <1>2, <3>1 DEF Noc!doWrite
        <4> QED BY <3>1, <4>1 DEF NocInv, TestsInStep, Starting
      <3>2. CASE test' # "none"
        <4> DEFINE n == Noc!ChunkOf(count)
        <4>1. /\ testWritten' = testWritten + n /\ count' = count - n /\ n \in 0 .. count
              /\ test = "write" /\ test' \in {"flood", "write"} /\ errors' = errors
              /\ pcieHost' = pcieHost
          BY <1>2, <2>2, <3>2 DEF Noc!doWrite
        <4> HIDE DEF n
        <4> QED BY <1>0, <4>1 DEF NocInv, TestsInStep
      <3> QED BY <3>1, <3>2
    <2> QED BY <2>1, <2>3 DEF NocInv
  <1>3. CASE Noc!RequestFlood
    <2>1. FilesOfDevice'
      BY <1>3, DeviceUntouched DEF Noc!RequestFlood, Noc!deviceVars
    <2>2. TestsInStep'
      BY <1>0, <1>3, HostAssumption DEF Noc!RequestFlood, Noc!deviceVars, NocInv, TestsInStep
    <2> QED BY <2>1, <2>2 DEF NocInv
  <1>4. CASE Noc!checkReadValues
    <2>1. FilesOfDevice'
      BY <1>0, <1>4, DeviceUntouched DEF Noc!checkReadValues
    <2>2. /\ beatsToSend = expected /\ pos = expectPos /\ expected \in Int
          /\ pos \in 0 .. MsgBeats - 1 /\ MsgBeats \in Nat \ {0}
      BY <1>4, HostAssumption DEF Noc!checkReadValues, NocInv, TestsInStep
    <2>3. errors' = errors
      BY <1>4, <2>2 DEF Noc!checkReadValues
    <2>4. (pos + 1) % MsgBeats = IF pos = MsgBeats - 1 THEN 0 ELSE pos + 1
      BY <2>2
    <2>5. beatsToSend' = expected' /\ expected' \in Int
      BY <1>4, <2>2 DEF Noc!checkReadValues, Noc!AfterHeader
    <2>6. pos' = expectPos' /\ pos' \in 0 .. MsgBeats - 1
      BY <1>4, <2>2, <2>4 DEF Noc!checkReadValues
    <2>7. /\ count' = count /\ testWritten' = testWritten
          /\ test = "read" /\ test' \in {"read", "done"}
          /\ pcieHost' \in {pcieHost, "exited"}
      BY <1>4 DEF Noc!checkReadValues
    <2>8. TestsInStep'
      BY <1>0, <2>3, <2>5, <2>6, <2>7 DEF NocInv, TestsInStep, Starting
    <2> QED BY <2>1, <2>8 DEF NocInv
  <1> QED BY <1>1, <1>2, <1>3, <1>4

LEMMA NocKeeps == NocInv /\ Noc!Next => NocInv'
  <1> SUFFICES ASSUME NocInv, Noc!Next PROVE NocInv'
    OBVIOUS
  <1>1. ASSUME NEW c \in {"activate", "deactivate"}, Noc!ToolIoctl(c) PROVE NocInv'
    BY <1>1, TestsUntouched, DeviceUntouched DEF Noc!ToolIoctl, NocInv
  <1>2. CASE Noc!ToolIdentify
    BY <1>2, TestsUntouched, DeviceUntouched DEF Noc!ToolIdentify, Noc!deviceVars, NocInv
  <1> QED BY <1>1, <1>2, DeviceKeeps, TestsKeep DEF Noc!Next

LEMMA NocCorrect == NocInv => Noc!DeviceUsable /\ Noc!TestsExact
  BY DEF NocInv, FilesOfDevice, TestsInStep, Noc!DeviceUsable, Noc!TestsExact

-----------------------------------------------------------------------------
(* The debugger of the HTG board.                                              *)

Opcodes == {"none", "plain", "read", "dram", "stop", "run", "seq"}

DebuggerTyped ==
    /\ iid \in 0 .. IIDs - 1 /\ lastIID \in 0 .. IIDs - 1 /\ serial \in 0 .. MaxInst
    /\ systemCSR \in [iid : 0 .. IIDs - 1, op : Opcodes, imm : Nat, no : 0 .. MaxInst]
    /\ runs \in [0 .. MaxInst -> 0 .. 2]
    /\ issuedSince \in Nat /\ resets \in Nat /\ wrote \in Nat

\* Before the monitor starts the register holds nothing and nothing was executed.
NothingIssued == monitor = "start" =>
    /\ systemCSR = Htg!Idle /\ lastIID = 0 /\ wrote = 0
    /\ appState = "stopped" /\ debuggerState = "ready" /\ resets = 0

\* Without a reset the register holds the last instruction that was issued, and the
\* numbers tell how many were issued since the one that was executed last, as long as
\* they are fewer than there are numbers.
NumbersTell == resets = 0 =>
    /\ systemCSR.no = serial /\ systemCSR.iid = iid
    /\ \A s \in 0 .. MaxInst : runs[s] <= 1 /\ (s > serial => runs[s] = 0)
    /\ runs[systemCSR.no] # 0 => systemCSR.iid = lastIID
    /\ issuedSince = 0 => runs[systemCSR.no] # 0 \/ systemCSR.op = "none"
    /\ issuedSince < IIDs => iid = lastIID + issuedSince \/ iid = lastIID + issuedSince - IIDs

\* How many words a sequence that is told n writes.
WordsFor(n) == IF n = 0 THEN CsrMod ELSE n

\* The words that a sequence has written and those that it has to write make what it
\* was told; only a sequence of all words starts with a count of zero.
SequenceUnderWay ==
    /\ systemCSR.op = "seq" => systemCSR.imm \in Counts
    /\ debuggerState = "seqWrite" => seqCount \in Nat /\ \E n \in Counts :
           \/ n = 0 /\ seqCount = 0 /\ wrote = 0
           \/ seqCount > 0 /\ wrote + seqCount = WordsFor(n)
    /\ debuggerState # "seqWrite" /\ wrote # 0 => \E n \in Counts : wrote = WordsFor(n)

HtgInv == DebuggerTyped /\ NothingIssued /\ NumbersTell /\ SequenceUnderWay

LEMMA HtgInit == Htg!Init => HtgInv
  BY HostAssumption DEF Htg!Init, HtgInv, DebuggerTyped, NothingIssued, NumbersTell,
     SequenceUnderWay, Htg!Idle, Opcodes

LEMMA HtgStutter == HtgInv /\ UNCHANGED htgPart => HtgInv'
  BY DEF htgPart, HtgInv, DebuggerTyped, NothingIssued, NumbersTell, SequenceUnderWay, WordsFor

\* A step that neither issues nor executes, and that does not write a word.
LEMMA DebuggerGoesOn ==
    ASSUME HtgInv, UNCHANGED <<iid, serial, systemCSR, lastIID, runs, issuedSince, resets, wrote>>,
           monitor' = "start" => monitor = "start" /\ UNCHANGED <<appState, debuggerState>>,
           \/ UNCHANGED <<debuggerState, seqCount>>
           \/ debuggerState # "seqWrite" /\ debuggerState' # "seqWrite"
    PROVE  HtgInv'
  BY DEF HtgInv, DebuggerTyped, NothingIssued, NumbersTell, SequenceUnderWay, WordsFor

LEMMA FpgaResetKeeps ==
    ASSUME HtgInv, Htg!FpgaReset, UNCHANGED <<iid, serial, issuedSince>>,
           \/ monitor = "start" /\ monitor' \in {"start", "exited"} /\ resets' = resets
           \/ monitor # "start" /\ monitor' # "start" /\ resets' = resets + 1
    PROVE  HtgInv'
  <1>1. /\ systemCSR' \in {systemCSR, Htg!Idle} /\ runs' = runs /\ wrote' = 0 /\ lastIID' = 0
        /\ appState' = "stopped" /\ debuggerState' = "ready"
    BY DEF Htg!FpgaReset
  <1>2. DebuggerTyped'
    BY <1>1, HostAssumption DEF HtgInv, DebuggerTyped, Htg!Idle, Opcodes
  <1>3. SequenceUnderWay'
    BY <1>1 DEF HtgInv, SequenceUnderWay, Htg!Idle
  <1>4. NothingIssued' /\ NumbersTell'
    <2>1. CASE monitor = "start"
      BY <1>1, <2>1 DEF HtgInv, NothingIssued, NumbersTell
    <2>2. CASE monitor # "start"
      BY <1>1, <2>2 DEF HtgInv, NothingIssued, NumbersTell, DebuggerTyped
    <2> QED BY <2>1, <2>2
  <1> QED BY <1>2, <1>3, <1>4 DEF HtgInv

LEMMA IssueKeeps ==
    ASSUME HtgInv, NEW op \in Opcodes, NEW imm \in Nat, Htg!Issue(op, imm),
           op = "seq" => imm \in Counts, monitor' # "start"
    PROVE  HtgInv'
  <1> DEFINE n == Htg!GenIID
  <1>1. /\ systemCSR' = [iid |-> n, op |-> op, imm |-> imm, no |-> serial + 1]
        /\ iid' = n /\ serial' = serial + 1 /\ issuedSince' = issuedSince + 1
        /\ UNCHANGED <<resets, appState, debuggerState, lastIID, seqCount, runs, wrote>>
        /\ serial < MaxInst
    BY DEF Htg!Issue, Htg!fpgaState
  <1>2. n = IF iid = IIDs - 1 THEN 0 ELSE iid + 1
    BY DEF Htg!GenIID
  <1> HIDE DEF n
  <1>3. n \in 0 .. IIDs - 1 /\ serial + 1 \in 0 .. MaxInst
    BY <1>1, <1>2, HostAssumption DEF HtgInv, DebuggerTyped
  <1>4. /\ systemCSR'.iid = n /\ systemCSR'.op = op /\ systemCSR'.imm = imm
        /\ systemCSR'.no = serial + 1
    BY <1>1
  <1>5. DebuggerTyped'
    BY <1>1, <1>3 DEF HtgInv, DebuggerTyped
  <1>6. SequenceUnderWay'
    BY <1>1, <1>4 DEF HtgInv, SequenceUnderWay, WordsFor
  <1>7. NumbersTell'
    <2>1. SUFFICES ASSUME resets = 0 PROVE NumbersTell'
      BY <1>1 DEF NumbersTell
    <2>2. runs[serial + 1] = 0 /\ runs' = runs
      BY <1>1, <1>3, <2>1 DEF HtgInv, NumbersTell, DebuggerTyped
    <2>3. \A s \in 0 .. MaxInst : runs[s] <= 1 /\ (s > serial + 1 => runs[s] = 0)
      BY <1>1, <1>3, <2>1 DEF HtgInv, NumbersTell, DebuggerTyped
    <2>4. issuedSince + 1 < IIDs =>
            n = lastIID + (issuedSince + 1) \/ n = lastIID + (issuedSince + 1) - IIDs
      BY <1>2, <2>1, HostAssumption DEF HtgInv, NumbersTell, DebuggerTyped
    <2>5. issuedSince + 1 # 0
      BY DEF HtgInv, DebuggerTyped
    <2> QED BY <1>1, <1>4, <2>2, <2>3, <2>4, <2>5 DEF NumbersTell
  <1>8. NothingIssued'
    BY DEF NothingIssued
  <1> QED BY <1>5, <1>6, <1>7, <1>8 DEF HtgInv

LEMMA ProcessKeeps ==
    ASSUME HtgInv, Htg!process_inst
    PROVE  HtgInv'
  <1>1. /\ debuggerState = "ready" /\ systemCSR.op # "none" /\ systemCSR.iid # lastIID
        /\ lastIID' = systemCSR.iid /\ issuedSince' = 0
        /\ runs' = [runs EXCEPT ![systemCSR.no] = IF @ < 2 THEN @ + 1 ELSE @]
        /\ UNCHANGED <<iid, serial, systemCSR, resets, monitor>>
    BY DEF Htg!process_inst, Htg!debug_inst, Htg!Remembered
  <1>2. /\ debuggerState' \in {"readingCSR", "seqWrite", "dram", "ready"}
        /\ systemCSR.op = "seq" <=> debuggerState' = "seqWrite"
        /\ systemCSR.op = "seq" => seqCount' = systemCSR.imm
        /\ wrote' = IF systemCSR.op = "seq" THEN 0 ELSE wrote
    BY <1>1 DEF Htg!process_inst
  <1>3. systemCSR.iid \in 0 .. IIDs - 1 /\ systemCSR.no \in 0 .. MaxInst /\ systemCSR.imm \in Nat
    BY DEF HtgInv, DebuggerTyped
  <1>4. runs' \in [0 .. MaxInst -> 0 .. 2]
    BY <1>1, <1>3 DEF HtgInv, DebuggerTyped
  <1>5. DebuggerTyped'
    BY <1>1, <1>2, <1>3, <1>4 DEF HtgInv, DebuggerTyped
  <1>6. NothingIssued'
    BY <1>1 DEF HtgInv, NothingIssued, Htg!Idle
  <1>7. NumbersTell'
    <2>1. SUFFICES ASSUME resets = 0 PROVE NumbersTell'
      BY <1>1 DEF NumbersTell
    <2>2. /\ systemCSR.no = serial /\ systemCSR.iid = iid /\ runs[systemCSR.no] = 0
          /\ \A s \in 0 .. MaxInst : runs[s] <= 1 /\ (s > serial => runs[s] = 0)
      BY <1>1, <1>3, <2>1 DEF HtgInv, NumbersTell
    <2>3. runs'[systemCSR.no] = 1 /\ \A s \in 0 .. MaxInst \ {systemCSR.no} : runs'[s] = runs[s]
      BY <1>1, <1>3, <2>2 DEF HtgInv, DebuggerTyped
    <2>4. \A s \in 0 .. MaxInst : runs'[s] <= 1 /\ (s > serial => runs'[s] = 0)
      BY <2>2, <2>3, <1>3
    <2>5. iid = systemCSR.iid + 0
      BY <1>3, <2>2
    <2> QED BY <1>1, <2>2, <2>3, <2>4, <2>5 DEF NumbersTell
  <1>8. SequenceUnderWay'
    <2>1. CASE systemCSR.op = "seq"
      <3>1. /\ systemCSR.imm \in Counts /\ seqCount' = systemCSR.imm /\ seqCount' \in Nat
            /\ wrote' = 0 /\ debuggerState' = "seqWrite"
        BY <1>2, <1>3, <2>1 DEF HtgInv, SequenceUnderWay
      <3>2. \/ systemCSR.imm = 0 /\ seqCount' = 0 /\ wrote' = 0
            \/ seqCount' > 0 /\ wrote' + seqCount' = WordsFor(systemCSR.imm)
        BY <3>1 DEF WordsFor
      <3> QED BY <1>1, <3>1, <3>2 DEF SequenceUnderWay, WordsFor
    <2>2. CASE systemCSR.op # "seq"
      BY <1>1, <1>2, <2>2 DEF HtgInv, SequenceUnderWay, WordsFor
    <2> QED BY <2>1, <2>2
  <1> QED BY <1>5, <1>6, <1>7, <1>8 DEF HtgInv

LEMMA WriteWordKeeps ==
    ASSUME HtgInv, Htg!write_seq_csr
    PROVE  HtgInv'
  <1>1. /\ debuggerState = "seqWrite"
        /\ seqCount' = (seqCount + CsrMod - 1) % CsrMod
        /\ wrote' = (wrote + 1) % (CsrMod + 2)
        /\ debuggerState' = IF seqCount = 1 THEN "ready" ELSE "seqWrite"
        /\ UNCHANGED <<monitor, iid, serial, systemCSR, issuedSince, resets, lastIID, runs>>
    BY DEF Htg!write_seq_csr, Htg!LastWord
  <1>2. PICK n \in Counts : \/ n = 0 /\ seqCount = 0 /\ wrote = 0
                            \/ seqCount > 0 /\ wrote + seqCount = WordsFor(n)
    BY <1>1 DEF HtgInv, SequenceUnderWay
  <1>3. /\ WordsFor(n) \in 1 .. CsrMod /\ seqCount \in Nat /\ wrote \in Nat
        /\ CsrMod \in Nat /\ CsrMod > 1 /\ seqCount <= CsrMod /\ wrote <= CsrMod
    BY <1>1, <1>2, HostAssumption DEF WordsFor, HtgInv, SequenceUnderWay, DebuggerTyped
  <1>4. wrote' = wrote + 1
    BY <1>1, <1>3
  <1>5. CASE seqCount = 0
    <2>1. seqCount' = CsrMod - 1 /\ wrote = 0 /\ n = 0 /\ WordsFor(n) = CsrMod
      BY <1>1, <1>2, <1>3, <1>5 DEF WordsFor
    <2>2. seqCount' \in Nat /\ seqCount' > 0 /\ wrote' + seqCount' = WordsFor(n)
      BY <1>3, <1>4, <2>1
    <2>3. SequenceUnderWay' /\ DebuggerTyped'
      BY <1>1, <1>3, <1>4, <1>5, <2>2 DEF HtgInv, SequenceUnderWay, DebuggerTyped, WordsFor
    <2> QED BY <1>1, <2>3 DEF HtgInv, NumbersTell, NothingIssued
  <1>6. CASE seqCount > 0
    <2>1. seqCount' = seqCount - 1
      BY <1>1, <1>3, <1>6
    <2>2. wrote' + seqCount' = WordsFor(n) /\ seqCount' \in Nat
      BY <1>2, <1>3, <1>4, <1>6, <2>1
    <2>3. seqCount = 1 => wrote' = WordsFor(n)
      BY <1>3, <2>1, <2>2, <1>4
    <2>4. seqCount # 1 => seqCount' > 0
      BY <1>3, <2>1, <1>6
    <2>5. SequenceUnderWay' /\ DebuggerTyped'
      BY <1>1, <1>3, <1>4, <2>2, <2>3, <2>4 DEF HtgInv, SequenceUnderWay, DebuggerTyped, WordsFor
    <2> QED BY <1>1, <2>5 DEF HtgInv, NumbersTell, NothingIssued
  <1> QED BY <1>3, <1>5, <1>6

LEMMA HtgKeeps == HtgInv /\ Htg!Next => HtgInv'
  <1> SUFFICES ASSUME HtgInv, Htg!Next PROVE HtgInv'
    OBVIOUS
  <1>1. CASE Htg!DeviceInit \/ Htg!ResetCommand
    BY <1>1, FpgaResetKeeps DEF Htg!DeviceInit, Htg!ResetCommand
  <1>2. CASE Htg!Cleanup \/ Htg!Construct \/ Htg!Quit
    BY <1>2, DebuggerGoesOn DEF Htg!Cleanup, Htg!Construct, Htg!Quit, Htg!fpgaState
  <1>3. CASE Htg!RunCommand
    BY <1>3, IssueKeeps DEF Htg!RunCommand, Opcodes
  <1>4. ASSUME NEW op \in {"none", "plain", "read", "dram", "stop"}, Htg!WriteSystemCSR(op, 0)
        PROVE  HtgInv'
    BY <1>4, IssueKeeps DEF Htg!WriteSystemCSR, Opcodes
  <1>5. ASSUME NEW n \in Counts, Htg!WriteSystemCSR("seq", n)
        PROVE  HtgInv'
    BY <1>5, IssueKeeps, HostAssumption DEF Htg!WriteSystemCSR, Opcodes
  <1>6. CASE Htg!ApplicationWrites
    <2>1. /\ systemCSR' = [systemCSR EXCEPT !.op = "none"] /\ monitor = "running"
          /\ UNCHANGED <<dev, monitor, iid, serial, issuedSince, resets, appState, debuggerState,
                         lastIID, seqCount, runs, wrote>>
      BY <1>6 DEF Htg!ApplicationWrites, Htg!fpgaState
    <2>2. /\ systemCSR' \in [iid : 0 .. IIDs - 1, op : Opcodes, imm : Nat, no : 0 .. MaxInst]
          /\ systemCSR'.no = systemCSR.no /\ systemCSR'.iid = systemCSR.iid
          /\ systemCSR'.op = "none"
      BY <2>1 DEF HtgInv, DebuggerTyped, Opcodes
    <2>3. DebuggerTyped' /\ NothingIssued' /\ SequenceUnderWay'
      BY <2>1, <2>2 DEF HtgInv, DebuggerTyped, NothingIssued, SequenceUnderWay, WordsFor
    <2>4. NumbersTell'
      BY <2>1, <2>2 DEF HtgInv, NumbersTell
    <2> QED BY <2>3, <2>4 DEF HtgInv
  <1>7. CASE Htg!read_csr_resp \/ Htg!dram_step \/ Htg!appReadRequest \/ Htg!appReadResponse
    <2>1. monitor # "start"
      BY <1>7 DEF Htg!read_csr_resp, Htg!dram_step, Htg!appReadRequest, Htg!appReadResponse,
                  HtgInv, NothingIssued
    <2> QED BY <1>7, <2>1, DebuggerGoesOn
            DEF Htg!read_csr_resp, Htg!dram_step, Htg!appReadRequest, Htg!appReadResponse
  <1> QED BY <1>1, <1>2, <1>3, <1>4, <1>5, <1>6, <1>7, ProcessKeeps, WriteWordKeeps DEF Htg!Next

LEMMA HtgCorrect == HtgInv => Htg!InstructionsOnce /\ Htg!SequencesExact
  <1> SUFFICES ASSUME HtgInv PROVE Htg!InstructionsOnce /\ Htg!SequencesExact
    OBVIOUS
  <1>1. Htg!SequencesExact
    BY DEF HtgInv, SequenceUnderWay, WordsFor, Htg!SequencesExact
  <1>2. ASSUME resets = 0, systemCSR.op # "none", systemCSR.iid = lastIID,
               runs[systemCSR.no] = 0
        PROVE  issuedSince >= IIDs
    <2>1. issuedSince # 0 /\ systemCSR.iid = iid
      BY <1>2 DEF HtgInv, NumbersTell
    <2> QED BY <1>2, <2>1, HostAssumption DEF HtgInv, NumbersTell, DebuggerTyped
  <1>3. DOMAIN runs = 0 .. MaxInst
    BY DEF HtgInv, DebuggerTyped
  <1>4. resets = 0 => \A s \in DOMAIN runs : runs[s] <= 1
    BY <1>3 DEF HtgInv, NumbersTell
  <1>5. Htg!InstructionsOnce
    BY <1>2, <1>4 DEF Htg!InstructionsOnce, Htg!debug_inst
  <1> QED BY <1>1, <1>5

-----------------------------------------------------------------------------
(* The PCIe link of the XUPV5.                                                 *)

\* The bytes of both directions.
PioBytes == Nat \ {0}

LinkTyped ==
    /\ chan \in Pio!PioChannels /\ wCount \in 0 .. PioMod - 1 /\ bar2_wpkt_count \in 0 .. PioMod - 1
    /\ server \in {"count", "store", "recount"} => byte \in PioBytes
    /\ dataPopped \in BOOLEAN /\ (dataPopped => poppedData \in PioBytes)
    /\ server = "closed" => ~dataPopped
    /\ given \in [Pio!PioChannels -> Seq(PioBytes)]
    /\ taken \in [Pio!PioChannels -> Seq(PioBytes)]
    /\ respQ \in [Pio!PioChannels -> Seq(PioBytes)]
    /\ sentUp \in [Pio!PioChannels -> Seq(PioBytes)]
    /\ received \in [Pio!PioChannels -> Seq(PioBytes)]
    /\ reqQ \in [Pio!PioChannels -> Seq(PioBytes)]

\* A store is dropped or taken after the count was read.
CountedBefore == server = "store" => wCount = bar2_wpkt_count

\* The byte that serverTestSys found and that no read has returned yet.
Kept(c) == IF c = "sys" /\ dataPopped THEN <<poppedData>> ELSE <<>>

\* Both directions of a channel.
Down(c) == (taken[c] \o respQ[c]) \o Pio!Unsent(c) = given[c]
Up(c) == c = "sys" \/ server # "exited" => (received[c] \o Kept(c)) \o reqQ[c] = sentUp[c]

PioInv == LinkTyped /\ CountedBefore /\ \A c \in Pio!PioChannels : Down(c) /\ Up(c)

LEMMA PioInit == Pio!Init => PioInv
  <1> SUFFICES ASSUME Pio!Init PROVE PioInv
    OBVIOUS
  <1>1. <<>> \in Seq(PioBytes) /\ <<>> \o <<>> = <<>>
    OBVIOUS
  <1>2. Pio!None \in [Pio!PioChannels -> Seq(PioBytes)]
    BY <1>1 DEF Pio!None
  <1>3. "sys" \in Pio!PioChannels /\ \A c \in Pio!PioChannels : Pio!None[c] = <<>>
    BY DEF Pio!None, Pio!PioChannels
  <1>4. 0 \in 0 .. PioMod - 1 /\ PioMod - 1 \in 0 .. PioMod - 1
    BY HostAssumption
  <1>5. LinkTyped /\ CountedBefore
    BY <1>2, <1>3, <1>4 DEF Pio!Init, LinkTyped, CountedBefore
  <1>6. \A c \in Pio!PioChannels : Down(c) /\ Up(c)
    BY <1>1, <1>3 DEF Pio!Init, Down, Up, Kept, Pio!Unsent
  <1> QED BY <1>5, <1>6 DEF PioInv

LEMMA PioStutter == PioInv /\ UNCHANGED pioPart => PioInv'
  <1> SUFFICES ASSUME PioInv, UNCHANGED pioPart PROVE PioInv'
    OBVIOUS
  <1>1. LinkTyped' /\ CountedBefore'
    BY DEF pioPart, PioInv, LinkTyped, CountedBefore
  <1>2. \A c \in Pio!PioChannels : Down(c)' /\ Up(c)'
    BY DEF pioPart, PioInv, Down, Up, Kept, Pio!Unsent
  <1> QED BY <1>1, <1>2 DEF PioInv

\* What the queues of a channel are.
LEMMA QueuesTyped ==
    ASSUME LinkTyped, NEW c \in Pio!PioChannels
    PROVE  /\ given[c] \in Seq(PioBytes) /\ taken[c] \in Seq(PioBytes) /\ respQ[c] \in Seq(PioBytes)
           /\ sentUp[c] \in Seq(PioBytes) /\ received[c] \in Seq(PioBytes)
           /\ reqQ[c] \in Seq(PioBytes)
           /\ Pio!Unsent(c) \in Seq(PioBytes) /\ Kept(c) \in Seq(PioBytes)
  <1>1. Pio!Unsent(c) \in Seq(PioBytes)
    BY DEF LinkTyped, Pio!Unsent
  <1>2. Kept(c) \in Seq(PioBytes)
    BY DEF LinkTyped, Kept
  <1> QED BY <1>1, <1>2 DEF LinkTyped

\* A step that leaves the queues alone, and that changes neither what is unsent nor
\* what is kept.
LEMMA QueuesUntouched ==
    ASSUME PioInv, UNCHANGED <<given, taken, respQ, sentUp, received, reqQ>>,
           \A c \in Pio!PioChannels : Pio!Unsent(c)' = Pio!Unsent(c) /\ Kept(c)' = Kept(c),
           server = "exited" => server' = "exited", LinkTyped', CountedBefore'
    PROVE  PioInv'
  <1>1. \A c \in Pio!PioChannels : Down(c)' /\ Up(c)'
    BY DEF PioInv, Down, Up
  <1> QED BY <1>1 DEF PioInv

LEMMA ServerKeeps ==
    ASSUME PioInv, Pio!DeviceInit \/ Pio!Cleanup \/ Pio!ReadCount \/ Pio!ReadCountAgain
    PROVE  PioInv'
  <1>1. UNCHANGED <<given, taken, respQ, sentUp, received, reqQ, chan, byte, poppedData,
                    bar2_wpkt_count>>
    BY DEF Pio!DeviceInit, Pio!Cleanup, Pio!ReadCount, Pio!ReadCountAgain, Pio!serverStart,
           Pio!serverFinish, Pio!fpgaVars
  <1>2. CASE Pio!DeviceInit \/ Pio!Cleanup
    <2>1. /\ server \in {"closed", "idle"} /\ server' \in {"idle", "exited"}
          /\ dataPopped' = dataPopped /\ wCount' = wCount
      BY <1>2 DEF Pio!DeviceInit, Pio!Cleanup, Pio!serverStart, Pio!serverFinish, PioInv, LinkTyped
    <2>2. LinkTyped' /\ CountedBefore'
      BY <1>1, <2>1 DEF PioInv, LinkTyped, CountedBefore
    <2>3. \A c \in Pio!PioChannels : Pio!Unsent(c)' = Pio!Unsent(c) /\ Kept(c)' = Kept(c)
      BY <1>1, <2>1 DEF Pio!Unsent, Kept
    <2> QED BY <1>1, <2>1, <2>2, <2>3, QueuesUntouched
  <1>3. CASE Pio!ReadCount
    <2>1. /\ server = "count" /\ server' = "store"
          /\ dataPopped' = dataPopped /\ wCount' = bar2_wpkt_count
      BY <1>3 DEF Pio!ReadCount
    <2>2. LinkTyped' /\ CountedBefore'
      BY <1>1, <2>1 DEF PioInv, LinkTyped, CountedBefore
    <2>3. \A c \in Pio!PioChannels : Pio!Unsent(c)' = Pio!Unsent(c) /\ Kept(c)' = Kept(c)
      BY <1>1, <2>1 DEF Pio!Unsent, Kept
    <2> QED BY <1>1, <2>1, <2>2, <2>3, QueuesUntouched
  <1>4. CASE Pio!ReadCountAgain
    <2>1. /\ server = "recount" /\ dataPopped' = dataPopped /\ wCount' = wCount
          /\ server' = IF bar2_wpkt_count = wCount THEN "count" ELSE "idle"
      BY <1>4 DEF Pio!ReadCountAgain, Pio!Again
    <2>2. LinkTyped' /\ CountedBefore'
      BY <1>1, <2>1 DEF PioInv, LinkTyped, CountedBefore
    <2>3. \A c \in Pio!PioChannels : Pio!Unsent(c)' = Pio!Unsent(c) /\ Kept(c)' = Kept(c)
      BY <1>1, <2>1 DEF Pio!Unsent, Kept
    <2> QED BY <1>1, <2>1, <2>2, <2>3, QueuesUntouched
  <1> QED BY <1>2, <1>3, <1>4

LEMMA WriteByteKeeps ==
    ASSUME PioInv, NEW c \in Pio!PioChannels, Pio!Write(c)
    PROVE  PioInv'
  <1> DEFINE b == Len(given[c]) + 1
  <1>1. /\ server = "idle" /\ server' = "count" /\ chan' = c /\ byte' = b
        /\ given' = [given EXCEPT ![c] = Append(@, b)]
        /\ UNCHANGED <<wCount, dataPopped, poppedData, received, bar2_wpkt_count, respQ, reqQ,
                       taken, sentUp>>
    BY DEF Pio!Write, Pio!fpgaVars
  <1>2. b \in PioBytes
    BY QueuesTyped DEF PioInv, PioBytes
  <1> HIDE DEF b
  <1>3. /\ given'[c] = Append(given[c], b)
        /\ \A e \in Pio!PioChannels \ {c} : given'[e] = given[e]
        /\ given' \in [Pio!PioChannels -> Seq(PioBytes)]
    <2>1. given \in [Pio!PioChannels -> Seq(PioBytes)]
      BY DEF PioInv, LinkTyped
    <2>2. Append(given[c], b) \in Seq(PioBytes)
      BY <1>2, <2>1, AppendProperties
    <2> QED BY <1>1, <2>1, <2>2
  <1>4. LinkTyped' /\ CountedBefore'
    BY <1>1, <1>2, <1>3 DEF PioInv, LinkTyped, CountedBefore
  <1>5. /\ Pio!Unsent(c) = <<>> /\ Pio!Unsent(c)' = <<b>>
        /\ \A e \in Pio!PioChannels \ {c} : Pio!Unsent(e) = <<>> /\ Pio!Unsent(e)' = <<>>
    BY <1>1 DEF Pio!Unsent
  <1>6. Down(c)'
    <2>1. taken[c] \in Seq(PioBytes) /\ respQ[c] \in Seq(PioBytes)
      BY QueuesTyped DEF PioInv
    <2>2. /\ (taken[c] \o respQ[c]) \o <<>> = taken[c] \o respQ[c]
          /\ (taken[c] \o respQ[c]) \o <<b>> = Append(taken[c] \o respQ[c], b)
      <3> DEFINE t == taken[c]
                 q == respQ[c]
      <3>1. t \in Seq(PioBytes) /\ q \in Seq(PioBytes)
        BY <2>1
      <3> HIDE DEF t, q
      <3>2. (t \o q) \o <<>> = t \o q /\ (t \o q) \o <<b>> = Append(t \o q, b)
        BY <1>2, <3>1, PutLast
      <3> QED BY <3>2 DEF t, q
    <2>3. taken[c] \o respQ[c] = given[c]
      BY <1>5, <2>2 DEF PioInv, Down
    <2> QED BY <1>1, <1>3, <1>5, <2>2, <2>3 DEF Down
  <1>7. \A e \in Pio!PioChannels : Up(e)'
    BY <1>1 DEF PioInv, Up, Kept
  <1>8. \A e \in Pio!PioChannels \ {c} : Down(e)'
    BY <1>1, <1>3, <1>5 DEF PioInv, Down
  <1> QED BY <1>4, <1>6, <1>7, <1>8 DEF PioInv

LEMMA StoreKeeps ==
    ASSUME PioInv, Pio!Store
    PROVE  PioInv'
  <1> DEFINE full == Len(respQ[chan]) >= Depth
  <1>1. /\ server = "store" /\ server' = "recount"
        /\ respQ' = IF full THEN respQ ELSE [respQ EXCEPT ![chan] = Append(@, byte)]
        /\ bar2_wpkt_count' = IF full THEN bar2_wpkt_count ELSE (bar2_wpkt_count + 1) % PioMod
        /\ UNCHANGED <<chan, byte, wCount, dataPopped, poppedData, given, taken, sentUp, reqQ,
                       received>>
    BY DEF Pio!Store, Pio!Counted
  <1> HIDE DEF full
  <1>2. chan \in Pio!PioChannels /\ byte \in PioBytes /\ wCount = bar2_wpkt_count
    BY <1>1 DEF PioInv, LinkTyped, CountedBefore
  <1>3. /\ bar2_wpkt_count' \in 0 .. PioMod - 1
        /\ bar2_wpkt_count' = wCount <=> full
    <2>1. bar2_wpkt_count \in 0 .. PioMod - 1 /\ PioMod \in Nat /\ PioMod > 1
      BY HostAssumption DEF PioInv, LinkTyped
    <2>2. /\ (bar2_wpkt_count + 1) % PioMod \in 0 .. PioMod - 1
          /\ (bar2_wpkt_count + 1) % PioMod # bar2_wpkt_count
      BY <2>1
    <2> QED BY <1>1, <1>2, <2>1, <2>2
  <1>4. /\ respQ' \in [Pio!PioChannels -> Seq(PioBytes)]
        /\ \A e \in Pio!PioChannels \ {chan} : respQ'[e] = respQ[e]
        /\ respQ'[chan] = IF full THEN respQ[chan] ELSE Append(respQ[chan], byte)
    BY <1>1, <1>2, QueuesTyped DEF PioInv, LinkTyped
  <1>5. LinkTyped' /\ CountedBefore'
    BY <1>1, <1>2, <1>3, <1>4 DEF PioInv, LinkTyped, CountedBefore
  <1>6. /\ Pio!Unsent(chan) = <<byte>>
        /\ Pio!Unsent(chan)' = IF full THEN <<byte>> ELSE <<>>
        /\ \A e \in Pio!PioChannels \ {chan} : Pio!Unsent(e) = <<>> /\ Pio!Unsent(e)' = <<>>
    BY <1>1, <1>2, <1>3 DEF Pio!Unsent
  <1>7. Down(chan)'
    <2>1. taken[chan] \in Seq(PioBytes) /\ respQ[chan] \in Seq(PioBytes)
      BY <1>2, QueuesTyped DEF PioInv
    <2>2. (taken[chan] \o respQ[chan]) \o <<byte>>
          = (taken[chan] \o Append(respQ[chan], byte)) \o <<>>
      <3> DEFINE t == taken[chan]
                 q == respQ[chan]
                 b == byte
      <3>1. t \in Seq(PioBytes) /\ q \in Seq(PioBytes) /\ b \in PioBytes
        BY <1>2, <2>1
      <3> HIDE DEF t, q, b
      <3>2. (t \o q) \o <<b>> = (t \o Append(q, b)) \o <<>>
        <4> DEFINE p == Append(q, b)
        <4>1. (t \o q) \o <<b>> = Append(t \o q, b) /\ t \o p = Append(t \o q, b)
          BY <3>1, PutLast
        <4>2. p \in Seq(PioBytes)
          BY <3>1, AppendProperties
        <4> HIDE DEF p
        <4>3. (t \o p) \o <<>> = t \o p
          BY <3>1, <4>2, PutLast
        <4> QED BY <4>1, <4>3 DEF p
      <3> QED BY <3>2 DEF t, q, b
    <2>4. (taken[chan] \o respQ[chan]) \o <<byte>> = given[chan]
      BY <1>2, <1>6 DEF PioInv, Down
    <2> QED BY <1>1, <1>4, <1>6, <2>2, <2>4 DEF Down
  <1>8. \A e \in Pio!PioChannels : Up(e)' /\ (e # chan => Down(e)')
    BY <1>1, <1>4, <1>6 DEF PioInv, Down, Up, Kept
  <1> QED BY <1>1, <1>5, <1>7, <1>8 DEF PioInv

LEMMA DesignTakesKeeps ==
    ASSUME PioInv, NEW c \in Pio!PioChannels, Pio!DesignTakes(c)
    PROVE  PioInv'
  <1>1. /\ respQ[c] # <<>>
        /\ taken' = [taken EXCEPT ![c] = Append(@, Head(respQ[c]))]
        /\ respQ' = [respQ EXCEPT ![c] = Tail(@)]
        /\ UNCHANGED <<server, chan, byte, wCount, dataPopped, poppedData, bar2_wpkt_count,
                       reqQ, given, sentUp, received>>
    BY DEF Pio!DesignTakes
  <1>2. taken[c] \in Seq(PioBytes) /\ respQ[c] \in Seq(PioBytes)
    BY QueuesTyped DEF PioInv
  <1>3. /\ Append(taken[c], Head(respQ[c])) \in Seq(PioBytes) /\ Tail(respQ[c]) \in Seq(PioBytes)
        /\ Append(taken[c], Head(respQ[c])) \o Tail(respQ[c]) = taken[c] \o respQ[c]
    <2> DEFINE t == taken[c]
               q == respQ[c]
    <2>1. t \in Seq(PioBytes) /\ q \in Seq(PioBytes) /\ q # <<>>
      BY <1>1, <1>2
    <2> HIDE DEF t, q
    <2>2. /\ Append(t, Head(q)) \in Seq(PioBytes) /\ Tail(q) \in Seq(PioBytes)
          /\ Append(t, Head(q)) \o Tail(q) = t \o q
      BY <2>1, MoveHead
    <2> QED BY <2>2 DEF t, q
  <1>4. /\ taken' \in [Pio!PioChannels -> Seq(PioBytes)]
        /\ respQ' \in [Pio!PioChannels -> Seq(PioBytes)]
        /\ taken'[c] = Append(taken[c], Head(respQ[c])) /\ respQ'[c] = Tail(respQ[c])
        /\ \A e \in Pio!PioChannels \ {c} : taken'[e] = taken[e] /\ respQ'[e] = respQ[e]
    BY <1>1, <1>3 DEF PioInv, LinkTyped
  <1>5. LinkTyped' /\ CountedBefore'
    BY <1>1, <1>4 DEF PioInv, LinkTyped, CountedBefore
  <1>6. \A e \in Pio!PioChannels : taken'[e] \o respQ'[e] = taken[e] \o respQ[e]
    BY <1>3, <1>4
  <1>7. \A e \in Pio!PioChannels : Pio!Unsent(e)' = Pio!Unsent(e) /\ Kept(e)' = Kept(e)
    BY <1>1 DEF Pio!Unsent, Kept
  <1>8. \A e \in Pio!PioChannels : Down(e)' /\ Up(e)'
    BY <1>1, <1>6, <1>7 DEF PioInv, Down, Up
  <1> QED BY <1>5, <1>8 DEF PioInv

LEMMA DesignSendsKeeps ==
    ASSUME PioInv, NEW c \in Pio!PioChannels, Pio!DesignSends(c)
    PROVE  PioInv'
  <1> DEFINE b == Len(sentUp[c]) + 1
  <1>1. /\ reqQ' = [reqQ EXCEPT ![c] = Append(@, b)]
        /\ sentUp' = [sentUp EXCEPT ![c] = Append(@, b)]
        /\ UNCHANGED <<server, chan, byte, wCount, dataPopped, poppedData, bar2_wpkt_count,
                       respQ, given, taken, received>>
    BY DEF Pio!DesignSends
  <1>2. b \in PioBytes
    BY QueuesTyped DEF PioInv, PioBytes
  <1> HIDE DEF b
  <1>3. /\ received[c] \in Seq(PioBytes) /\ Kept(c) \in Seq(PioBytes)
        /\ reqQ[c] \in Seq(PioBytes) /\ sentUp[c] \in Seq(PioBytes)
    BY QueuesTyped DEF PioInv
  <1>4. /\ reqQ' \in [Pio!PioChannels -> Seq(PioBytes)]
        /\ sentUp' \in [Pio!PioChannels -> Seq(PioBytes)]
        /\ reqQ'[c] = Append(reqQ[c], b) /\ sentUp'[c] = Append(sentUp[c], b)
        /\ \A e \in Pio!PioChannels \ {c} : reqQ'[e] = reqQ[e] /\ sentUp'[e] = sentUp[e]
    <2>1. /\ reqQ \in [Pio!PioChannels -> Seq(PioBytes)]
          /\ sentUp \in [Pio!PioChannels -> Seq(PioBytes)]
      BY DEF PioInv, LinkTyped
    <2>2. Append(reqQ[c], b) \in Seq(PioBytes) /\ Append(sentUp[c], b) \in Seq(PioBytes)
      BY <1>2, <1>3, AppendProperties
    <2> QED BY <1>1, <2>1, <2>2
  <1>5. LinkTyped' /\ CountedBefore'
    BY <1>1, <1>4 DEF PioInv, LinkTyped, CountedBefore
  <1>6. received[c] \o Kept(c) \in Seq(PioBytes)
    BY <1>3, ConcatProperties
  <1>7. (received[c] \o Kept(c)) \o Append(reqQ[c], b)
        = Append((received[c] \o Kept(c)) \o reqQ[c], b)
    <2> DEFINE r == received[c] \o Kept(c)
               q == reqQ[c]
    <2>1. r \in Seq(PioBytes) /\ q \in Seq(PioBytes)
      BY <1>3, <1>6
    <2> HIDE DEF r, q
    <2>2. r \o Append(q, b) = Append(r \o q, b)
      BY <1>2, <2>1, PutLast
    <2> QED BY <2>2 DEF r, q
  <1>8. \A e \in Pio!PioChannels : Pio!Unsent(e)' = Pio!Unsent(e) /\ Kept(e)' = Kept(e)
    BY <1>1 DEF Pio!Unsent, Kept
  <1>9. Up(c)'
    BY <1>1, <1>4, <1>7, <1>8 DEF PioInv, Up
  <1>10. \A e \in Pio!PioChannels : Down(e)' /\ (e # c => Up(e)')
    BY <1>1, <1>4, <1>8 DEF PioInv, Down, Up
  <1> QED BY <1>5, <1>9, <1>10 DEF PioInv

\* What is left alone by the steps that take what the design has sent.
LEMMA TakingUp ==
    ASSUME PioInv, UNCHANGED <<given, taken, respQ, sentUp, chan, byte, wCount, bar2_wpkt_count>>,
           server \in {"idle", "receive"}, server' \in {"idle", "receive", "exited"}
    PROVE  CountedBefore' /\ \A e \in Pio!PioChannels : Down(e)'
  <1>1. \A e \in Pio!PioChannels : Pio!Unsent(e)' = Pio!Unsent(e)
    BY DEF Pio!Unsent
  <1> QED BY <1>1 DEF PioInv, CountedBefore, Down

LEMMA ProbeKeeps ==
    ASSUME PioInv, Pio!Probe
    PROVE  PioInv'
  <1> DEFINE q == reqQ["sys"]
  <1>1. /\ server = "idle" /\ ~dataPopped
        /\ poppedData' = Pio!Load("sys") /\ dataPopped' = (Pio!Load("sys") # Empty)
        /\ reqQ' = IF q = <<>> THEN reqQ ELSE [reqQ EXCEPT !["sys"] = Tail(@)]
        /\ UNCHANGED <<server, chan, byte, wCount, given, received, bar2_wpkt_count, respQ, taken,
                       sentUp>>
    BY DEF Pio!Probe, Pio!serverTestSys, Pio!MustLoad, Pio!Loaded
  <1>2. "sys" \in Pio!PioChannels /\ q \in Seq(PioBytes) /\ received["sys"] \in Seq(PioBytes)
    BY QueuesTyped DEF PioInv, Pio!PioChannels
  <1>3. Pio!Load("sys") = IF q = <<>> THEN Empty ELSE Head(q)
    BY DEF Pio!Load
  <1> HIDE DEF q
  <1>4. CASE q = <<>>
    <2>1. dataPopped' = FALSE /\ reqQ' = reqQ
      BY <1>1, <1>3, <1>4
    <2>2. LinkTyped'
      BY <1>1, <2>1 DEF PioInv, LinkTyped
    <2>3. \A e \in Pio!PioChannels : Up(e)'
      BY <1>1, <2>1 DEF PioInv, Up, Kept
    <2> QED BY <1>1, <2>2, <2>3, TakingUp DEF PioInv
  <1>5. CASE q # <<>>
    <2>1. /\ Head(q) \in PioBytes /\ Tail(q) \in Seq(PioBytes)
          /\ (received["sys"] \o <<Head(q)>>) \o Tail(q) = received["sys"] \o q
      BY <1>2, <1>5, MoveHead
    <2>2. dataPopped' = TRUE /\ poppedData' = Head(q)
      BY <1>1, <1>3, <1>5, <2>1, HostAssumption DEF PioBytes
    <2>3. /\ reqQ' \in [Pio!PioChannels -> Seq(PioBytes)] /\ reqQ'["sys"] = Tail(q)
          /\ \A e \in Pio!PioChannels \ {"sys"} : reqQ'[e] = reqQ[e]
      <3>1. reqQ \in [Pio!PioChannels -> Seq(PioBytes)]
        BY DEF PioInv, LinkTyped
      <3>2. reqQ' = [reqQ EXCEPT !["sys"] = Tail(q)]
        BY <1>1, <1>5 DEF q
      <3> QED BY <1>2, <2>1, <3>1, <3>2
    <2>4. LinkTyped'
      BY <1>1, <2>1, <2>2, <2>3 DEF PioInv, LinkTyped
    <2>5. received["sys"] \o <<>> = received["sys"]
      BY <1>2, ConcatEmptySeq
    <2>6. Up("sys")'
      BY <1>1, <1>2, <2>1, <2>2, <2>3, <2>5 DEF PioInv, Up, Kept, q
    <2>7. \A e \in Pio!PioChannels \ {"sys"} : Up(e)'
      BY <1>1, <2>3 DEF PioInv, Up, Kept
    <2> QED BY <1>1, <2>4, <2>6, <2>7, TakingUp DEF PioInv
  <1> QED BY <1>4, <1>5

\* A byte that is returned goes from the front of the queue to the end of the bytes
\* that were received.
LEMMA Returned ==
    ASSUME PioInv, NEW c \in Pio!PioChannels, reqQ[c] # <<>>, Kept(c) = <<>>, Kept(c)' = <<>>,
           reqQ' = [reqQ EXCEPT ![c] = Tail(@)], UNCHANGED sentUp, server # "exited",
           received' = [received EXCEPT ![c] = Append(@, Head(reqQ[c]))]
    PROVE  /\ reqQ' \in [Pio!PioChannels -> Seq(PioBytes)]
           /\ received' \in [Pio!PioChannels -> Seq(PioBytes)]
           /\ Up(c)'
           /\ \A e \in Pio!PioChannels \ {c} : reqQ'[e] = reqQ[e] /\ received'[e] = received[e]
  <1>1. reqQ[c] \in Seq(PioBytes) /\ received[c] \in Seq(PioBytes)
    BY QueuesTyped DEF PioInv
  <1>2. /\ Append(received[c], Head(reqQ[c])) \in Seq(PioBytes) /\ Tail(reqQ[c]) \in Seq(PioBytes)
        /\ Append(received[c], Head(reqQ[c])) \o Tail(reqQ[c]) = received[c] \o reqQ[c]
    <2> DEFINE r == received[c]
               q == reqQ[c]
    <2>1. r \in Seq(PioBytes) /\ q \in Seq(PioBytes) /\ q # <<>>
      BY <1>1
    <2> HIDE DEF r, q
    <2>2. /\ Append(r, Head(q)) \in Seq(PioBytes) /\ Tail(q) \in Seq(PioBytes)
          /\ Append(r, Head(q)) \o Tail(q) = r \o q
      BY <2>1, MoveHead
    <2> QED BY <2>2 DEF r, q
  <1>3. /\ reqQ' \in [Pio!PioChannels -> Seq(PioBytes)]
        /\ received' \in [Pio!PioChannels -> Seq(PioBytes)]
        /\ reqQ'[c] = Tail(reqQ[c]) /\ received'[c] = Append(received[c], Head(reqQ[c]))
        /\ \A e \in Pio!PioChannels \ {c} : reqQ'[e] = reqQ[e] /\ received'[e] = received[e]
    BY <1>2 DEF PioInv, LinkTyped
  <1>4. /\ received[c] \o <<>> = received[c]
        /\ Append(received[c], Head(reqQ[c])) \o <<>> = Append(received[c], Head(reqQ[c]))
    BY <1>1, <1>2, ConcatEmptySeq
  <1>5. Up(c)'
    BY <1>2, <1>3, <1>4 DEF PioInv, Up
  <1> QED BY <1>3, <1>5

LEMMA ReadKeeps ==
    ASSUME PioInv, Pio!Read
    PROVE  PioInv'
  <1>1. /\ server \in {"idle", "receive"} /\ server' \in {"idle", "receive"} /\ dataPopped' = FALSE
        /\ UNCHANGED <<chan, byte, wCount, poppedData, given, bar2_wpkt_count, respQ, taken,
                       sentUp>>
    BY DEF Pio!Read, Pio!serverRecvSys
  <1>2. "sys" \in Pio!PioChannels /\ reqQ["sys"] \in Seq(PioBytes)
        /\ received["sys"] \in Seq(PioBytes)
    BY QueuesTyped DEF PioInv, Pio!PioChannels
  <1>3. CASE dataPopped
    <2>1. /\ received' = [received EXCEPT !["sys"] = Append(@, poppedData)]
          /\ reqQ' = reqQ
      BY <1>3 DEF Pio!Read, Pio!serverRecvSys
    <2>2. poppedData \in PioBytes
      BY <1>3 DEF PioInv, LinkTyped
    <2>3. /\ Append(received["sys"], poppedData) \in Seq(PioBytes)
          /\ Append(received["sys"], poppedData) = received["sys"] \o <<poppedData>>
          /\ Append(received["sys"], poppedData) \o <<>> = Append(received["sys"], poppedData)
      <3>1. Append(received["sys"], poppedData) \in Seq(PioBytes)
        BY <1>2, <2>2, AppendProperties
      <3> QED BY <1>2, <2>2, <3>1, AppendIsConcat, ConcatEmptySeq
    <2>4. /\ received' \in [Pio!PioChannels -> Seq(PioBytes)]
          /\ received'["sys"] = Append(received["sys"], poppedData)
          /\ \A e \in Pio!PioChannels \ {"sys"} : received'[e] = received[e]
      BY <1>2, <2>1, <2>3 DEF PioInv, LinkTyped
    <2>5. LinkTyped'
      BY <1>1, <2>1, <2>4 DEF PioInv, LinkTyped
    <2>6. Up("sys")'
      BY <1>1, <1>2, <1>3, <2>1, <2>3, <2>4 DEF PioInv, Up, Kept
    <2>7. \A e \in Pio!PioChannels \ {"sys"} : Up(e)'
      BY <1>1, <2>1, <2>4 DEF PioInv, Up, Kept
    <2> QED BY <1>1, <2>5, <2>6, <2>7, TakingUp DEF PioInv
  <1>4. CASE ~dataPopped /\ reqQ["sys"] = <<>>
    <2>1. reqQ' = reqQ /\ received' = received
      BY <1>4 DEF Pio!Read, Pio!serverRecvSys, Pio!Loaded, Pio!Load
    <2>2. LinkTyped'
      BY <1>1, <2>1 DEF PioInv, LinkTyped
    <2>3. \A e \in Pio!PioChannels : Up(e)'
      BY <1>1, <1>4, <2>1 DEF PioInv, Up, Kept
    <2> QED BY <1>1, <2>2, <2>3, TakingUp DEF PioInv
  <1>5. CASE ~dataPopped /\ reqQ["sys"] # <<>>
    <2>1. Head(reqQ["sys"]) \in PioBytes
      BY <1>2, <1>5, MoveHead
    <2>2. Pio!Load("sys") = Head(reqQ["sys"]) /\ Pio!Load("sys") # Empty
      BY <1>5, <2>1, HostAssumption DEF Pio!Load, PioBytes
    <2>3. /\ reqQ' = [reqQ EXCEPT !["sys"] = Tail(@)]
          /\ received' = [received EXCEPT !["sys"] = Append(@, Head(reqQ["sys"]))]
      BY <1>5, <2>2 DEF Pio!Read, Pio!serverRecvSys, Pio!Loaded
    <2>4. Kept("sys") = <<>> /\ Kept("sys")' = <<>>
      BY <1>1, <1>5 DEF Kept
    <2>5. /\ reqQ' \in [Pio!PioChannels -> Seq(PioBytes)]
          /\ received' \in [Pio!PioChannels -> Seq(PioBytes)]
          /\ Up("sys")'
          /\ \A e \in Pio!PioChannels \ {"sys"} : reqQ'[e] = reqQ[e] /\ received'[e] = received[e]
      BY <1>1, <1>2, <1>5, <2>3, <2>4, Returned
    <2>6. LinkTyped'
      BY <1>1, <2>5 DEF PioInv, LinkTyped
    <2>7. \A e \in Pio!PioChannels \ {"sys"} : Up(e)'
      BY <1>1, <2>5 DEF PioInv, Up, Kept
    <2> QED BY <1>1, <2>5, <2>6, <2>7, TakingUp DEF PioInv
  <1> QED BY <1>3, <1>4, <1>5

LEMMA RecvDispKeeps ==
    ASSUME PioInv, Pio!serverRecvDisp
    PROVE  PioInv'
  <1>1. /\ server = "idle" /\ reqQ["disp"] # <<>>
        /\ reqQ' = [reqQ EXCEPT !["disp"] = Tail(@)]
        /\ \/ /\ server' = "idle"
              /\ received' = [received EXCEPT !["disp"] = Append(@, Head(reqQ["disp"]))]
           \/ server' = "exited" /\ UNCHANGED received
        /\ UNCHANGED <<chan, byte, wCount, dataPopped, poppedData, given, bar2_wpkt_count,
                       respQ, taken, sentUp>>
    BY DEF Pio!serverRecvDisp, Pio!Loaded, Pio!Load
  <1>2. "disp" \in Pio!PioChannels /\ reqQ["disp"] \in Seq(PioBytes)
        /\ \A e \in Pio!PioChannels : e = "disp" \/ e = "sys"
    BY QueuesTyped DEF PioInv, Pio!PioChannels
  <1>3. \A e \in Pio!PioChannels : Kept(e)' = Kept(e)
    BY <1>1 DEF Kept
  <1>4. Kept("disp") = <<>> /\ Kept("disp")' = <<>>
    BY DEF Kept
  <1>5. CASE server' = "idle"
    <2>1. /\ reqQ' \in [Pio!PioChannels -> Seq(PioBytes)]
          /\ received' \in [Pio!PioChannels -> Seq(PioBytes)]
          /\ Up("disp")'
          /\ \A e \in Pio!PioChannels \ {"disp"} : reqQ'[e] = reqQ[e] /\ received'[e] = received[e]
      BY <1>1, <1>2, <1>4, <1>5, Returned
    <2>2. LinkTyped'
      BY <1>1, <1>5, <2>1 DEF PioInv, LinkTyped
    <2>3. \A e \in Pio!PioChannels \ {"disp"} : Up(e)'
      BY <1>1, <1>3, <1>5, <2>1 DEF PioInv, Up
    <2> QED BY <1>1, <2>1, <2>2, <2>3, TakingUp DEF PioInv
  <1>6. CASE server' = "exited"
    <2>1. /\ Tail(reqQ["disp"]) \in Seq(PioBytes) /\ received' = received
      BY <1>1, <1>2, <1>6, MoveHead
    <2>2. /\ reqQ' \in [Pio!PioChannels -> Seq(PioBytes)]
          /\ \A e \in Pio!PioChannels \ {"disp"} : reqQ'[e] = reqQ[e]
      BY <1>1, <2>1 DEF PioInv, LinkTyped
    <2>3. LinkTyped'
      BY <1>1, <1>6, <2>1, <2>2 DEF PioInv, LinkTyped
    <2>4. \A e \in Pio!PioChannels : Up(e)'
      BY <1>1, <1>2, <1>3, <1>6, <2>1, <2>2 DEF PioInv, Up
    <2> QED BY <1>1, <1>6, <2>3, <2>4, TakingUp DEF PioInv
  <1> QED BY <1>1, <1>5, <1>6

LEMMA PioKeeps == PioInv /\ Pio!Next => PioInv'
  <1> SUFFICES ASSUME PioInv, Pio!Next PROVE PioInv'
    OBVIOUS
  <1>1. ASSUME NEW c \in Pio!PioChannels, Pio!Write(c) \/ Pio!DesignTakes(c) \/ Pio!DesignSends(c)
        PROVE  PioInv'
    BY <1>1, WriteByteKeeps, DesignTakesKeeps, DesignSendsKeeps
  <1> QED BY <1>1, ServerKeeps, StoreKeeps, ProbeKeeps, ReadKeeps, RecvDispKeeps DEF Pio!Next

LEMMA PioCorrect == PioInv => Pio!PioIntact
  BY DEF PioInv, Pio!PioIntact, Down, Up, Kept

-----------------------------------------------------------------------------
(* The channel to a simulated FPGA.                                            *)

\* The bytes of q carry the numbers that follow from.
Numbered(q, from) == \A i \in 1 .. Len(q) : q[i] = from + i

ByteSeqs == Seq(Nat)

\* The bytes of up to two chunks.
BytesOf(k) == IF k = 0 THEN 0 ELSE IF k = 1 THEN PipeChunk ELSE PipeChunk + PipeChunk

\* A buffer of the driver holds up to two chunks, whose bytes follow from.
Chunked(buffer, from) ==
    /\ Len(buffer) <= 2
    /\ \A k \in 1 .. Len(buffer) :
          Len(buffer[k]) = PipeChunk /\ Numbered(buffer[k], from + BytesOf(k - 1))

\* The bytes that the host has written are those that the hardware has read, those of
\* the read buffer, of the input buffer and of the pipe, in this order, and what is
\* pending; a host that has gone may have left something unwritten.
Downstream ==
    LET read == Len(simGot)
        buffered == read + BytesOf(Len(readBuffer))
        begun == buffered + Len(ib)
    IN  /\ simGot \in Seq(Nat) /\ Numbered(simGot, 0) /\ read % PipeChunk = 0
        /\ readBuffer \in Seq(ByteSeqs) /\ Chunked(readBuffer, read)
        /\ ib \in Seq(Nat) /\ Len(ib) < PipeChunk /\ Numbered(ib, buffered)
        /\ toPipe \in Seq(Nat) /\ Numbered(toPipe, begun)
        /\ sent \in Nat /\ pending \in 0 .. sent
        /\ begun + Len(toPipe) <= sent
        /\ host # "gone" => begun + Len(toPipe) = sent - pending
        /\ host = "gone" => pending = 0

\* The same of the bytes that the hardware has written.
Upstream ==
    LET read == Len(hostGot)
        piped == read + Len(fromPipe)
    IN  /\ hostGot \in Seq(Nat) /\ Numbered(hostGot, 0)
        /\ fromPipe \in Seq(Nat) /\ Numbered(fromPipe, read)
        /\ writeBuffer \in Seq(ByteSeqs) /\ Chunked(writeBuffer, piped)
        /\ written \in Nat
        /\ piped + BytesOf(Len(writeBuffer)) = written * PipeChunk

PipeInv == Downstream /\ Upstream

\* A part of numbered bytes is numbered, and so are two parts that follow each other.
LEMMA NumberedParts ==
    ASSUME NEW q \in Seq(Nat), NEW from \in Nat, Numbered(q, from), NEW n \in 0 .. Len(q)
    PROVE  /\ SubSeq(q, 1, n) \in Seq(Nat) /\ Len(SubSeq(q, 1, n)) = n
           /\ Numbered(SubSeq(q, 1, n), from)
           /\ SubSeq(q, n + 1, Len(q)) \in Seq(Nat)
           /\ Len(SubSeq(q, n + 1, Len(q))) = Len(q) - n
           /\ Numbered(SubSeq(q, n + 1, Len(q)), from + n)
  <1> DEFINE a == SubSeq(q, 1, n)
             b == SubSeq(q, n + 1, Len(q))
  <1>0. Len(q) \in Nat
    OBVIOUS
  <1>1. a \in Seq(Nat) /\ Len(a) = n /\ \A i \in 1 .. n : a[i] = q[i]
    BY <1>0, SubSeqProperties
  <1>2. b \in Seq(Nat) /\ Len(b) = Len(q) - n /\ \A i \in 1 .. Len(q) - n : b[i] = q[n + i]
    <2>1. \A i \in n + 1 .. Len(q) : q[i] \in Nat
      BY <1>0
    <2>2. /\ b \in Seq(Nat) /\ Len(b) = IF n + 1 <= Len(q) THEN Len(q) - (n + 1) + 1 ELSE 0
          /\ \A i \in 1 .. Len(q) - (n + 1) + 1 : b[i] = q[(n + 1) + i - 1]
      BY <1>0, <2>1, SubSeqProperties
    <2> HIDE DEF b
    <2>3. \A i \in 1 .. Len(q) - n : b[i] = q[n + i]
      <3> SUFFICES ASSUME NEW i \in 1 .. Len(q) - n PROVE b[i] = q[n + i]
        OBVIOUS
      <3>1. (n + 1) + i - 1 = n + i /\ i \in 1 .. Len(q) - (n + 1) + 1
        BY <1>0
      <3> QED BY <2>2, <3>1
    <2> QED BY <1>0, <2>2, <2>3
  <1> HIDE DEF a, b
  <1>3. Numbered(a, from)
    BY <1>0, <1>1 DEF Numbered
  <1>4. Numbered(b, from + n)
    BY <1>0, <1>2 DEF Numbered
  <1> QED BY <1>1, <1>2, <1>3, <1>4 DEF a, b

LEMMA NumberedTogether ==
    ASSUME NEW p \in Seq(Nat), NEW q \in Seq(Nat), NEW from \in Nat,
           Numbered(p, from), Numbered(q, from + Len(p))
    PROVE  /\ p \o q \in Seq(Nat) /\ Len(p \o q) = Len(p) + Len(q)
           /\ Numbered(p \o q, from)
  <1>1. /\ p \o q \in Seq(Nat) /\ Len(p \o q) = Len(p) + Len(q)
        /\ \A i \in 1 .. Len(p) + Len(q) : (p \o q)[i] =
              IF i <= Len(p) THEN p[i] ELSE q[i - Len(p)]
    BY ConcatProperties
  <1>2. Numbered(p \o q, from)
    <2> DEFINE r == p \o q
    <2>1. Len(r) = Len(p) + Len(q) /\ \A i \in 1 .. Len(p) + Len(q) : r[i] =
              IF i <= Len(p) THEN p[i] ELSE q[i - Len(p)]
      BY <1>1
    <2> HIDE DEF r
    <2>2. ASSUME NEW i \in 1 .. Len(r) PROVE r[i] = from + i
      <3>0. Len(p) \in Nat /\ Len(q) \in Nat
        OBVIOUS
      <3>1. CASE i <= Len(p)
        BY <2>1, <3>0, <3>1 DEF Numbered
      <3>2. CASE i > Len(p)
        <4>1. i - Len(p) \in 1 .. Len(q) /\ r[i] = q[i - Len(p)]
          BY <2>1, <3>0, <3>2
        <4>2. q[i - Len(p)] = (from + Len(p)) + (i - Len(p))
          BY <4>1 DEF Numbered
        <4> QED BY <3>0, <4>1, <4>2
      <3> QED BY <3>0, <3>1, <3>2
    <2>3. Numbered(r, from)
      BY <2>2 DEF Numbered
    <2> QED BY <2>3 DEF r
  <1> QED BY <1>1, <1>2

LEMMA BytesNumbered ==
    ASSUME NEW from \in Nat, NEW n \in Nat
    PROVE  Pipe!Bytes(from, n) \in Seq(Nat) /\ Len(Pipe!Bytes(from, n)) = n
           /\ Numbered(Pipe!Bytes(from, n), from)
  BY DEF Pipe!Bytes, Numbered

\* Bytes that are numbered from one are the first bytes.
LEMMA FirstBytes ==
    ASSUME NEW q \in Seq(Nat), Numbered(q, 0)
    PROVE  q = Pipe!Bytes(0, Len(q))
  <1> DEFINE b == Pipe!Bytes(0, Len(q))
  <1>1. Len(q) \in Nat /\ 0 \in Nat
    OBVIOUS
  <1>2. b \in Seq(Nat) /\ Len(b) = Len(q) /\ Numbered(b, 0)
    BY <1>1, BytesNumbered
  <1> HIDE DEF b
  <1>3. \A i \in 1 .. Len(q) : q[i] = b[i]
    BY <1>2 DEF Numbered
  <1>4. q = b
    BY <1>2, <1>3, SeqEqual
  <1> QED BY <1>4 DEF b

\* How many chunks a buffer holds.
LEMMA ChunksHeld ==
    ASSUME NEW buffer \in Seq(ByteSeqs), Len(buffer) <= 2
    PROVE  Len(buffer) = 0 \/ Len(buffer) = 1 \/ Len(buffer) = 2
  <1> DEFINE n == Len(buffer)
  <1>1. n \in Nat /\ n <= 2
    OBVIOUS
  <1> HIDE DEF n
  <1>2. n = 0 \/ n = 1 \/ n = 2
    BY <1>1
  <1> QED BY <1>2 DEF n

\* The first chunk of a buffer is taken out.
LEMMA FirstChunk ==
    ASSUME NEW buffer \in Seq(ByteSeqs), NEW from \in Nat, Chunked(buffer, from), buffer # <<>>
    PROVE  /\ Head(buffer) \in Seq(Nat) /\ Len(Head(buffer)) = PipeChunk
           /\ Numbered(Head(buffer), from)
           /\ Tail(buffer) \in Seq(ByteSeqs) /\ Chunked(Tail(buffer), from + PipeChunk)
           /\ BytesOf(Len(buffer)) = PipeChunk + BytesOf(Len(Tail(buffer)))
  <1> DEFINE t == Tail(buffer)
             n == Len(buffer)
             m == Len(t)
  <1>0. PipeChunk \in Nat \ {0}
    BY HostAssumption
  <1>1. n = 1 \/ n = 2
    BY ChunksHeld, EmptySeq DEF Chunked
  <1>2. /\ Head(buffer) = buffer[1] /\ t \in Seq(ByteSeqs)
        /\ m = n - 1 /\ \A i \in 1 .. m : t[i] = buffer[i + 1]
    BY HeadTailProperties
  <1>3. \A k \in 1 .. n :
           Len(buffer[k]) = PipeChunk /\ Numbered(buffer[k], from + BytesOf(k - 1))
    BY DEF Chunked
  <1>4. buffer[1] \in Seq(Nat)
    BY <1>1, ElementOfSeq DEF ByteSeqs
  <1>5. BytesOf(0) = 0 /\ BytesOf(1) = PipeChunk /\ BytesOf(2) = PipeChunk + PipeChunk
    BY DEF BytesOf
  <1> HIDE DEF t, n, m
  <1>6. Numbered(buffer[1], from) /\ Len(buffer[1]) = PipeChunk
    <2>1. 1 \in 1 .. n /\ from + BytesOf(1 - 1) = from
      BY <1>1, <1>5
    <2> QED BY <1>3, <2>1
  <1>7. ASSUME NEW k \in 1 .. m
        PROVE  Len(t[k]) = PipeChunk /\ Numbered(t[k], (from + PipeChunk) + BytesOf(k - 1))
    <2>1. k = 1 /\ n = 2
      BY <1>1, <1>2
    <2>2. t[1] = buffer[2] /\ 2 \in 1 .. n
      BY <1>2, <2>1
    <2>3. Len(buffer[2]) = PipeChunk /\ Numbered(buffer[2], from + BytesOf(2 - 1))
      BY <1>3, <2>2
    <2>4. from + BytesOf(2 - 1) = (from + PipeChunk) + BytesOf(1 - 1)
      BY <1>0, <1>5
    <2> QED BY <2>1, <2>2, <2>3, <2>4
  <1>8. m <= 2
    BY <1>1, <1>2
  <1>9. Chunked(t, from + PipeChunk)
    BY <1>2, <1>7, <1>8 DEF Chunked, m
  <1>10. BytesOf(n) = PipeChunk + BytesOf(m)
    BY <1>0, <1>1, <1>2, <1>5
  <1> QED BY <1>2, <1>4, <1>6, <1>9, <1>10 DEF t, n, m

\* A chunk is put into a buffer that has room.
LEMMA ChunkAdded ==
    ASSUME NEW buffer \in Seq(ByteSeqs), NEW from \in Nat, Chunked(buffer, from), Len(buffer) < 2,
           NEW c \in Seq(Nat), Len(c) = PipeChunk, Numbered(c, from + BytesOf(Len(buffer)))
    PROVE  /\ Append(buffer, c) \in Seq(ByteSeqs) /\ Chunked(Append(buffer, c), from)
           /\ BytesOf(Len(Append(buffer, c))) = BytesOf(Len(buffer)) + PipeChunk
  <1> DEFINE b == Append(buffer, c)
             n == Len(buffer)
             m == Len(b)
  <1>0. PipeChunk \in Nat \ {0}
    BY HostAssumption
  <1>1. n = 0 \/ n = 1
    <2>1. n \in Nat /\ n < 2
      OBVIOUS
    <2> HIDE DEF n
    <2> QED BY <2>1
  <1>2. c \in ByteSeqs
    BY DEF ByteSeqs
  <1>3. /\ b \in Seq(ByteSeqs) /\ m = n + 1 /\ b[m] = c
        /\ \A k \in 1 .. n : b[k] = buffer[k]
    BY <1>2, AppendProperties
  <1>4. \A k \in 1 .. n :
           Len(buffer[k]) = PipeChunk /\ Numbered(buffer[k], from + BytesOf(k - 1))
    BY DEF Chunked
  <1>5. BytesOf(0) = 0 /\ BytesOf(1) = PipeChunk /\ BytesOf(2) = PipeChunk + PipeChunk
    BY DEF BytesOf
  <1>6. Numbered(c, from + BytesOf(n)) /\ Len(c) = PipeChunk
    OBVIOUS
  <1> HIDE DEF b, n, m
  <1>7. ASSUME NEW k \in 1 .. m
        PROVE  Len(b[k]) = PipeChunk /\ Numbered(b[k], from + BytesOf(k - 1))
    <2>1. CASE k = m
      <3>1. k - 1 = n
        BY <1>1, <1>3, <2>1
      <3> QED BY <1>3, <1>6, <2>1, <3>1
    <2>2. CASE k # m
      <3>1. k \in 1 .. n
        BY <1>1, <1>3, <2>2
      <3> QED BY <1>3, <1>4, <3>1
    <2> QED BY <2>1, <2>2
  <1>8. m <= 2
    BY <1>1, <1>3
  <1>9. Chunked(b, from)
    BY <1>3, <1>7, <1>8 DEF Chunked, m
  <1>10. BytesOf(m) = BytesOf(n) + PipeChunk
    BY <1>0, <1>1, <1>3, <1>5
  <1> QED BY <1>3, <1>9, <1>10 DEF b, n, m

LEMMA BytesOfNat ==
    ASSUME NEW buffer \in Seq(ByteSeqs)
    PROVE  BytesOf(Len(buffer)) \in Nat
  BY HostAssumption DEF BytesOf

LEMMA PipeInit == Pipe!Init => PipeInv
  <1> SUFFICES ASSUME Pipe!Init PROVE PipeInv
    OBVIOUS
  <1>1. PipeChunk \in Nat \ {0} /\ 0 % PipeChunk = 0 /\ 0 * PipeChunk = 0
    BY HostAssumption
  <1>2. <<>> \in Seq(Nat) /\ <<>> \in Seq(ByteSeqs) /\ Len(<<>>) = 0
    OBVIOUS
  <1>3. Numbered(<<>>, 0) /\ Chunked(<<>>, 0) /\ BytesOf(0) = 0
    BY <1>2 DEF Numbered, Chunked, BytesOf
  <1>4. /\ simGot = <<>> /\ readBuffer = <<>> /\ ib = <<>> /\ toPipe = <<>> /\ hostGot = <<>>
        /\ fromPipe = <<>> /\ writeBuffer = <<>> /\ sent = 0 /\ pending = 0 /\ written = 0
        /\ host = "off"
    BY DEF Pipe!Init
  <1>5. Downstream
    BY <1>1, <1>2, <1>3, <1>4 DEF Downstream
  <1>6. Upstream
    BY <1>1, <1>2, <1>3, <1>4 DEF Upstream
  <1> QED BY <1>5, <1>6 DEF PipeInv

\* A step that moves no bytes, but may end the host.
LEMMA DownstreamSame ==
    ASSUME Downstream, UNCHANGED <<simGot, readBuffer, ib, toPipe, sent>>,
           \/ pending' = pending /\ (host' = "gone" <=> host = "gone")
           \/ pending' = 0 /\ host' = "gone"
    PROVE  Downstream'
  BY DEF Downstream

LEMMA UpstreamSame ==
    ASSUME Upstream, UNCHANGED <<hostGot, fromPipe, writeBuffer, written>>
    PROVE  Upstream'
  BY DEF Upstream

LEMMA PipeStutter == PipeInv /\ UNCHANGED pipePart => PipeInv'
  BY DownstreamSame, UpstreamSame DEF pipePart, PipeInv

\* The amounts of which the two directions speak.
LEMMA Amounts ==
    ASSUME PipeInv
    PROVE  /\ Len(simGot) \in Nat /\ Len(ib) \in Nat /\ Len(toPipe) \in Nat
           /\ Len(hostGot) \in Nat /\ Len(fromPipe) \in Nat
           /\ BytesOf(Len(readBuffer)) \in Nat /\ BytesOf(Len(writeBuffer)) \in Nat
           /\ sent \in Nat /\ pending \in Nat /\ pending <= sent /\ written \in Nat
           /\ PipeChunk \in Nat \ {0}
  <1>1. /\ simGot \in Seq(Nat) /\ ib \in Seq(Nat) /\ toPipe \in Seq(Nat) /\ hostGot \in Seq(Nat)
        /\ fromPipe \in Seq(Nat) /\ readBuffer \in Seq(ByteSeqs) /\ writeBuffer \in Seq(ByteSeqs)
        /\ sent \in Nat /\ pending \in 0 .. sent /\ written \in Nat
    BY DEF PipeInv, Downstream, Upstream
  <1>2. BytesOf(Len(readBuffer)) \in Nat /\ BytesOf(Len(writeBuffer)) \in Nat
    BY <1>1, BytesOfNat
  <1> QED BY <1>1, <1>2, HostAssumption

LEMMA WriteKeeps ==
    ASSUME PipeInv, NEW n \in HostWrites, Pipe!Write(n)
    PROVE  PipeInv'
  <1> DEFINE m == n * PipeChunk
  <1>1. /\ host = "up" /\ pending = 0 /\ pending' = m /\ sent' = sent + m
        /\ UNCHANGED <<host, hostGot, simGot, readBuffer, ib, toPipe, fromPipe, writeBuffer,
                       written>>
    BY DEF Pipe!Write, Pipe!simVars, Pipe!pipeVars
  <1>2. m \in Nat
    BY HostAssumption
  <1> HIDE DEF m
  <1>3. Downstream'
    BY <1>1, <1>2, Amounts DEF PipeInv, Downstream
  <1> QED BY <1>1, <1>3, UpstreamSame DEF PipeInv

LEMMA WriteBytesKeeps ==
    ASSUME PipeInv, NEW n \in 1 .. PipeSize, Pipe!WriteBytes(n)
    PROVE  PipeInv'
  <1> DEFINE b == Pipe!Bytes(sent - pending, n)
             begun == Len(simGot) + BytesOf(Len(readBuffer)) + Len(ib)
  <1>1. /\ pending >= n /\ toPipe' = toPipe \o b /\ pending' = pending - n
        /\ UNCHANGED <<host, sent, hostGot, simGot, readBuffer, ib, fromPipe, writeBuffer,
                       written>>
    BY DEF Pipe!WriteBytes, Pipe!simVars
  <1>2. n \in Nat \ {0}
    BY HostAssumption
  <1>3. /\ toPipe \in Seq(Nat) /\ Numbered(toPipe, begun) /\ begun \in Nat
        /\ begun + Len(toPipe) = sent - pending /\ sent - pending \in Nat
    BY <1>1, <1>2, Amounts, SMTT(30) DEF PipeInv, Downstream
  <1>4. b \in Seq(Nat) /\ Len(b) = n /\ Numbered(b, begun + Len(toPipe))
    BY <1>2, <1>3, BytesNumbered
  <1>5. /\ toPipe' \in Seq(Nat) /\ Numbered(toPipe', begun)
        /\ Len(toPipe') = Len(toPipe) + n
    <2> DEFINE t == toPipe
    <2>1. t \in Seq(Nat) /\ Numbered(t, begun) /\ Numbered(b, begun + Len(t))
      BY <1>3, <1>4
    <2> HIDE DEF t, b, begun
    <2>2. t \o b \in Seq(Nat) /\ Numbered(t \o b, begun) /\ Len(t \o b) = Len(t) + Len(b)
      BY <1>3, <1>4, <2>1, NumberedTogether
    <2> QED BY <1>1, <1>4, <2>2 DEF t
  <1> HIDE DEF b
  <1>6. begun + Len(toPipe') = sent - (pending - n) /\ begun + Len(toPipe') <= sent
    <2> DEFINE l == Len(toPipe)
               m == Len(toPipe')
    <2>1. begun \in Nat /\ l \in Nat /\ m = l + n /\ begun + l = sent - pending
      BY <1>3, <1>5, Amounts
    <2>2. sent \in Nat /\ pending \in Nat /\ n \in Nat /\ n <= pending /\ pending <= sent
      BY <1>1, <1>2, Amounts
    <2> HIDE DEF l, m, begun
    <2>3. begun + m = sent - (pending - n) /\ begun + m <= sent
      BY <2>1, <2>2
    <2> QED BY <2>3 DEF m
  <1>7. Downstream'
    BY <1>1, <1>2, <1>5, <1>6, Amounts DEF PipeInv, Downstream
  <1> QED BY <1>1, <1>7, UpstreamSame DEF PipeInv

LEMMA HostReadKeeps ==
    ASSUME PipeInv, Pipe!Read
    PROVE  PipeInv'
  <1>1. /\ host = "up"
        /\ \/ /\ Len(fromPipe) >= PipeChunk
              /\ hostGot' = hostGot \o SubSeq(fromPipe, 1, PipeChunk)
              /\ fromPipe' = SubSeq(fromPipe, PipeChunk + 1, Len(fromPipe))
              /\ UNCHANGED <<host, pending, sent>>
           \/ /\ host' = "gone" /\ pending' = 0
              /\ UNCHANGED <<sent, hostGot, fromPipe>>
        /\ UNCHANGED <<simGot, readBuffer, ib, toPipe, writeBuffer, written>>
    BY DEF Pipe!Read, Pipe!HostGone, Pipe!simVars
  <1>2. Downstream'
    BY <1>1, DownstreamSame DEF PipeInv
  <1>3. CASE UNCHANGED <<hostGot, fromPipe>>
    BY <1>1, <1>2, <1>3, UpstreamSame DEF PipeInv
  <1>4. CASE /\ Len(fromPipe) >= PipeChunk
             /\ hostGot' = hostGot \o SubSeq(fromPipe, 1, PipeChunk)
             /\ fromPipe' = SubSeq(fromPipe, PipeChunk + 1, Len(fromPipe))
    <2> DEFINE g == hostGot
               f == fromPipe
               a == SubSeq(f, 1, PipeChunk)
               z == SubSeq(f, PipeChunk + 1, Len(f))
    <2>1. /\ g \in Seq(Nat) /\ f \in Seq(Nat) /\ Numbered(g, 0) /\ Numbered(f, Len(g))
          /\ PipeChunk \in 0 .. Len(f) /\ Len(g) \in Nat /\ Len(f) \in Nat
      BY <1>4, Amounts DEF PipeInv, Upstream
    <2>2. hostGot' = g \o a /\ fromPipe' = z
      BY <1>4
    <2> HIDE DEF g, f
    <2>3. /\ a \in Seq(Nat) /\ Len(a) = PipeChunk /\ Numbered(a, 0 + Len(g))
          /\ z \in Seq(Nat) /\ Len(z) = Len(f) - PipeChunk /\ Numbered(z, Len(g) + PipeChunk)
      BY <2>1, NumberedParts
    <2> HIDE DEF a, z
    <2>4. g \o a \in Seq(Nat) /\ Len(g \o a) = Len(g) + PipeChunk /\ Numbered(g \o a, 0)
      BY <2>1, <2>3, NumberedTogether
    <2>5. Len(g) + PipeChunk + Len(z) = Len(g) + Len(f)
      BY <2>1, <2>3
    <2>6. /\ writeBuffer \in Seq(ByteSeqs) /\ Chunked(writeBuffer, Len(g) + Len(f))
          /\ written \in Nat
          /\ Len(g) + Len(f) + BytesOf(Len(writeBuffer)) = written * PipeChunk
      BY DEF PipeInv, Upstream, g, f
    <2>7. Upstream'
      BY <1>1, <2>2, <2>3, <2>4, <2>5, <2>6 DEF Upstream
    <2> QED BY <1>2, <2>7 DEF PipeInv
  <1> QED BY <1>1, <1>3, <1>4

LEMMA PipeReadKeeps ==
    ASSUME PipeInv, Pipe!pipe_read
    PROVE  PipeInv'
  <1> DEFINE t == toPipe
             i == ib
             f == Len(simGot) + BytesOf(Len(readBuffer))
             want == PipeChunk - Len(i)
             n == IF Len(t) < want THEN Len(t) ELSE want
             took == i \o SubSeq(t, 1, n)
             z == SubSeq(t, n + 1, Len(t))
  <1>1. CASE UNCHANGED <<toPipe, ib, readBuffer, simGot, writeBuffer, written>>
    <2>1. UNCHANGED <<host, pending, sent, hostGot, fromPipe>>
      BY DEF Pipe!pipe_read, Pipe!hostVars
    <2> QED BY <1>1, <2>1, DownstreamSame, UpstreamSame DEF PipeInv
  <1>2. CASE /\ toPipe' = z /\ Len(readBuffer) < 2
             /\ IF Len(took) = PipeChunk
                THEN ib' = <<>> /\ readBuffer' = Append(readBuffer, took)
                ELSE ib' = took /\ UNCHANGED readBuffer
             /\ UNCHANGED <<simGot, writeBuffer, written, host, pending, sent, hostGot, fromPipe>>
    <2>1. /\ t \in Seq(Nat) /\ i \in Seq(Nat) /\ f \in Nat /\ Len(i) \in Nat /\ Len(t) \in Nat
          /\ Numbered(i, f) /\ Numbered(t, f + Len(i)) /\ Len(i) < PipeChunk
          /\ PipeChunk \in Nat \ {0}
      BY Amounts, SMTT(30) DEF PipeInv, Downstream
    <2>2. n \in 0 .. Len(t) /\ Len(i) + n <= PipeChunk /\ f + Len(i) \in Nat
      BY <2>1
    <2> DEFINE r == readBuffer
               a == SubSeq(t, 1, n)
    <2>3. /\ r \in Seq(ByteSeqs) /\ Chunked(r, Len(simGot)) /\ Len(r) < 2 /\ Len(simGot) \in Nat
          /\ f = Len(simGot) + BytesOf(Len(r)) /\ BytesOf(Len(r)) \in Nat
      BY <1>2, Amounts DEF PipeInv, Downstream
    <2>4. toPipe' = z /\ IF Len(took) = PipeChunk
                         THEN ib' = <<>> /\ readBuffer' = Append(r, took)
                         ELSE ib' = took /\ readBuffer' = r
      BY <1>2
    <2>5. took = i \o a
      OBVIOUS
    <2>6. \/ host = "gone"
          \/ f + Len(i) + Len(t) = sent - pending
      BY DEF PipeInv, Downstream
    <2>7. /\ f + Len(i) + Len(t) <= sent /\ (host = "gone" => pending = 0)
          /\ simGot \in Seq(Nat) /\ Numbered(simGot, 0) /\ Len(simGot) % PipeChunk = 0
          /\ sent \in Nat /\ pending \in 0 .. sent
      BY DEF PipeInv, Downstream
    <2> HIDE DEF t, i, f, n, r
    <2>8. /\ a \in Seq(Nat) /\ Len(a) = n /\ Numbered(a, f + Len(i))
          /\ z \in Seq(Nat) /\ Len(z) = Len(t) - n /\ Numbered(z, f + Len(i) + n)
      BY <2>1, <2>2, NumberedParts
    <2> HIDE DEF a, z
    <2>9. i \o a \in Seq(Nat) /\ Len(i \o a) = Len(i) + Len(a) /\ Numbered(i \o a, f)
      BY <2>1, <2>8, NumberedTogether
    <2>10. took \in Seq(Nat) /\ Len(took) = Len(i) + n /\ Numbered(took, f)
      BY <2>5, <2>8, <2>9
    <2> HIDE DEF took
    <2>11. CASE Len(took) = PipeChunk
      <3>1. ib' = <<>> /\ readBuffer' = Append(r, took) /\ toPipe' = z
        BY <2>4, <2>11
      <3>2. /\ Append(r, took) \in Seq(ByteSeqs) /\ Chunked(Append(r, took), Len(simGot))
            /\ BytesOf(Len(Append(r, took))) = BytesOf(Len(r)) + PipeChunk
        BY <2>3, <2>10, <2>11, ChunkAdded
      <3> DEFINE p == Append(r, took)
      <3> HIDE DEF p
      <3>3. Len(simGot) + BytesOf(Len(p)) = f + PipeChunk
        BY <2>1, <2>3, <3>2 DEF p
      <3>4. <<>> \in Seq(Nat) /\ Len(<<>>) = 0 /\ Numbered(<<>>, f + PipeChunk)
        BY DEF Numbered
      <3> DEFINE k == Len(i)
                 l == Len(t)
                 y == Len(z)
      <3>5. k \in Nat /\ l \in Nat /\ n \in 0 .. l /\ k + n = PipeChunk /\ y = l - n
        BY <2>1, <2>2, <2>8, <2>10, <2>11
      <3>6. /\ Numbered(z, f + PipeChunk) /\ z \in Seq(Nat)
            /\ (f + PipeChunk) + Len(z) = f + Len(i) + Len(t)
        <4>1. Numbered(z, f + k + n) /\ z \in Seq(Nat)
          BY <2>8
        <4> HIDE DEF k, l, y
        <4>2. f + k + n = f + PipeChunk /\ (f + PipeChunk) + y = f + k + l
          BY <2>1, <3>5
        <4> QED BY <4>1, <4>2 DEF k, l, y
      <3>7. Downstream'
        <4> DEFINE w == f + PipeChunk
        <4>1. /\ ib' = <<>> /\ readBuffer' = p /\ toPipe' = z /\ simGot' = simGot
              /\ host' = host /\ sent' = sent /\ pending' = pending
          BY <1>2, <3>1 DEF p
        <4>2. /\ Len(simGot) + BytesOf(Len(p)) = w /\ Numbered(<<>>, w) /\ Numbered(z, w)
              /\ w + Len(z) = f + Len(i) + Len(t) /\ w + 0 = w
              /\ p \in Seq(ByteSeqs) /\ Chunked(p, Len(simGot)) /\ 0 < PipeChunk
          BY <2>1, <3>2, <3>3, <3>4, <3>6 DEF p
        <4> HIDE DEF w, p
        <4> QED BY <2>6, <2>7, <3>4, <3>6, <4>1, <4>2 DEF Downstream
      <3> QED BY <1>2, <3>7, UpstreamSame DEF PipeInv
    <2>12. CASE Len(took) # PipeChunk
      <3>1. ib' = took /\ readBuffer' = r /\ toPipe' = z
        BY <2>4, <2>12
      <3>2. Len(took) < PipeChunk
        BY <2>1, <2>2, <2>10, <2>12
      <3>3. Numbered(z, f + Len(took)) /\ f + Len(took) + Len(z) = f + Len(i) + Len(t)
        BY <2>1, <2>2, <2>8, <2>10
      <3>4. Downstream'
        <4>1. /\ simGot' = simGot /\ host' = host /\ sent' = sent /\ pending' = pending
          BY <1>2
        <4> QED BY <2>3, <2>6, <2>7, <2>8, <2>10, <3>1, <3>2, <3>3, <4>1 DEF Downstream
      <3> QED BY <1>2, <3>4, UpstreamSame DEF PipeInv
    <2> QED BY <2>11, <2>12
  <1> QED BY <1>1, <1>2 DEF Pipe!pipe_read, Pipe!Kept, Pipe!SimGone, Pipe!hostVars

LEMMA OneMoreChunk ==
    ASSUME NEW x \in Nat, NEW C \in Nat \ {0}, x % C = 0
    PROVE  (x + C) % C = 0
  <1> DEFINE q == x \div C
  <1>1. q \in Nat /\ x = C * q
    OBVIOUS
  <1> HIDE DEF q
  <1>2. x + C = C * (q + 1)
    BY <1>1
  <1>3. (C * (q + 1)) % C = 0
    BY <1>1
  <1> QED BY <1>2, <1>3

LEMMA DriverReadKeeps ==
    ASSUME PipeInv, Pipe!DriverRead
    PROVE  PipeInv'
  <1> DEFINE g == simGot
             r == readBuffer
             c == Head(r)
             z == Tail(r)
             k == BytesOf(Len(r))
             m == BytesOf(Len(z))
             w == Len(g) + k
  <1>1. /\ r # <<>> /\ simGot' = g \o c /\ readBuffer' = z
        /\ UNCHANGED <<host, pending, sent, hostGot, ib, toPipe, fromPipe, writeBuffer, written>>
    BY DEF Pipe!DriverRead, Pipe!hostVars, Pipe!pipeVars
  <1>2. /\ g \in Seq(Nat) /\ Numbered(g, 0) /\ Len(g) % PipeChunk = 0
        /\ r \in Seq(ByteSeqs) /\ Chunked(r, Len(g))
        /\ Len(g) \in Nat /\ k \in Nat /\ PipeChunk \in Nat \ {0}
    BY Amounts DEF PipeInv, Downstream
  <1>3. /\ ib \in Seq(Nat) /\ Len(ib) < PipeChunk /\ Numbered(ib, w)
        /\ toPipe \in Seq(Nat) /\ Numbered(toPipe, w + Len(ib))
        /\ sent \in Nat /\ pending \in 0 .. sent
        /\ w + Len(ib) + Len(toPipe) <= sent
        /\ host # "gone" => w + Len(ib) + Len(toPipe) = sent - pending
        /\ host = "gone" => pending = 0
    BY DEF PipeInv, Downstream
  <1> HIDE DEF g, r
  <1>4. /\ c \in Seq(Nat) /\ Len(c) = PipeChunk /\ Numbered(c, 0 + Len(g))
        /\ z \in Seq(ByteSeqs) /\ Chunked(z, Len(g) + PipeChunk) /\ k = PipeChunk + m
    BY <1>1, <1>2, FirstChunk
  <1>5. m \in Nat
    BY <1>4, BytesOfNat
  <1> HIDE DEF c, z, k, m
  <1>6. g \o c \in Seq(Nat) /\ Len(g \o c) = Len(g) + PipeChunk /\ Numbered(g \o c, 0)
    <2>1. /\ g \in Seq(Nat) /\ c \in Seq(Nat) /\ Numbered(g, 0) /\ Numbered(c, 0 + Len(g))
          /\ Len(c) = PipeChunk /\ 0 \in Nat
      BY <1>2, <1>4
    <2> QED BY <2>1, NumberedTogether
  <1> DEFINE e == g \o c
  <1>7. Len(e) % PipeChunk = 0 /\ Len(e) + m = w
    <2> DEFINE x == Len(g)
    <2>1. x \in Nat /\ x % PipeChunk = 0 /\ Len(e) = x + PipeChunk
      BY <1>2, <1>6
    <2>2. x + PipeChunk + m = w
      BY <1>2, <1>4, <1>5
    <2> HIDE DEF x, e
    <2>3. (x + PipeChunk) % PipeChunk = 0
      BY <1>2, <2>1, OneMoreChunk
    <2> QED BY <2>1, <2>2, <2>3
  <1> HIDE DEF e, w
  <1>8. Downstream'
    <2>1. simGot' = e /\ readBuffer' = z /\ e \in Seq(Nat) /\ Numbered(e, 0)
          /\ Chunked(z, Len(e)) /\ Len(e) + BytesOf(Len(z)) = w
      BY <1>1, <1>4, <1>6, <1>7 DEF e, m
    <2> QED BY <1>1, <1>3, <1>4, <1>7, <2>1 DEF Downstream
  <1> QED BY <1>1, <1>8, UpstreamSame DEF PipeInv

LEMMA DriverWriteKeeps ==
    ASSUME PipeInv, Pipe!DriverWrite
    PROVE  PipeInv'
  <1> DEFINE b == writeBuffer
             h == Len(hostGot) + Len(fromPipe)
             k == BytesOf(Len(b))
             c == Pipe!Chunk(written + 1)
             a == Append(b, c)
  <1>1. /\ Len(b) < 2 /\ written' = written + 1 /\ writeBuffer' = a
        /\ UNCHANGED <<host, pending, sent, hostGot, simGot, readBuffer, ib, toPipe, fromPipe>>
    BY DEF Pipe!DriverWrite, Pipe!hostVars, Pipe!pipeVars
  <1>2. /\ b \in Seq(ByteSeqs) /\ Chunked(b, h) /\ h \in Nat /\ k \in Nat
        /\ written \in Nat /\ PipeChunk \in Nat \ {0} /\ h + k = written * PipeChunk
    BY Amounts DEF PipeInv, Upstream
  <1>3. /\ ((written + 1) - 1) * PipeChunk = written * PipeChunk
        /\ (written + 1) * PipeChunk = written * PipeChunk + PipeChunk
    BY <1>2
  <1>4. c = Pipe!Bytes(h + k, PipeChunk)
    BY <1>2, <1>3 DEF Pipe!Chunk
  <1>5. h + k \in Nat /\ PipeChunk \in Nat
    BY <1>2
  <1> HIDE DEF b, h, k, c
  <1>6. c \in Seq(Nat) /\ Len(c) = PipeChunk /\ Numbered(c, h + BytesOf(Len(b)))
    BY <1>4, <1>5, BytesNumbered DEF k
  <1>7. a \in Seq(ByteSeqs) /\ Chunked(a, h) /\ BytesOf(Len(a)) = k + PipeChunk
    BY <1>1, <1>2, <1>6, ChunkAdded DEF k
  <1>8. h + BytesOf(Len(a)) = (written + 1) * PipeChunk
    BY <1>2, <1>3, <1>7
  <1> HIDE DEF a
  <1>9. Upstream'
    <2>1. /\ hostGot \in Seq(Nat) /\ Numbered(hostGot, 0) /\ fromPipe \in Seq(Nat)
          /\ Numbered(fromPipe, Len(hostGot)) /\ written + 1 \in Nat
      BY DEF PipeInv, Upstream
    <2> QED BY <1>1, <1>7, <1>8, <2>1 DEF Upstream, h
  <1> QED BY <1>1, <1>9, DownstreamSame DEF PipeInv

LEMMA PipeWriteKeeps ==
    ASSUME PipeInv, Pipe!pipe_write
    PROVE  PipeInv'
  <1>1. CASE UNCHANGED <<hostGot, fromPipe, writeBuffer, written>>
    <2>1. UNCHANGED <<host, pending, sent, simGot, readBuffer, ib, toPipe>>
      BY <1>1 DEF Pipe!pipe_write, Pipe!hostVars, Pipe!pipeVars, Pipe!SimGone
    <2> QED BY <1>1, <2>1, DownstreamSame, UpstreamSame DEF PipeInv
  <1>2. CASE /\ writeBuffer # <<>>
             /\ fromPipe' = fromPipe \o Head(writeBuffer) /\ writeBuffer' = Tail(writeBuffer)
             /\ UNCHANGED <<host, pending, sent, hostGot, simGot, readBuffer, ib, toPipe, written>>
    <2> DEFINE b == writeBuffer
               f == fromPipe
               x == Len(hostGot)
               c == Head(b)
               z == Tail(b)
               y == f \o c
    <2>1. /\ b \in Seq(ByteSeqs) /\ Chunked(b, x + Len(f)) /\ b # <<>>
          /\ f \in Seq(Nat) /\ Numbered(f, x) /\ x \in Nat /\ Len(f) \in Nat
          /\ PipeChunk \in Nat \ {0} /\ x + Len(f) \in Nat
          /\ x + Len(f) + BytesOf(Len(b)) = written * PipeChunk
          /\ hostGot \in Seq(Nat) /\ Numbered(hostGot, 0) /\ written \in Nat
      BY <1>2, Amounts DEF PipeInv, Upstream
    <2>2. fromPipe' = y /\ writeBuffer' = z /\ hostGot' = hostGot /\ written' = written
      BY <1>2
    <2> HIDE DEF b, f, x
    <2>3. /\ c \in Seq(Nat) /\ Len(c) = PipeChunk /\ Numbered(c, x + Len(f))
          /\ z \in Seq(ByteSeqs) /\ Chunked(z, (x + Len(f)) + PipeChunk)
          /\ BytesOf(Len(b)) = PipeChunk + BytesOf(Len(z))
      BY <2>1, FirstChunk
    <2>4. BytesOf(Len(z)) \in Nat
      BY <2>3, BytesOfNat
    <2> HIDE DEF c, z
    <2>5. y \in Seq(Nat) /\ Len(y) = Len(f) + Len(c) /\ Numbered(y, x)
      BY <2>1, <2>3, NumberedTogether
    <2> HIDE DEF y
    <2>6. /\ x + Len(y) = (x + Len(f)) + PipeChunk
          /\ x + Len(y) + BytesOf(Len(z)) = written * PipeChunk
      BY <2>1, <2>3, <2>4, <2>5
    <2>7. Upstream'
      BY <2>1, <2>2, <2>3, <2>5, <2>6 DEF Upstream, x
    <2> QED BY <1>2, <2>7, DownstreamSame DEF PipeInv
  <1> QED BY <1>1, <1>2 DEF Pipe!pipe_write, Pipe!hostVars, Pipe!pipeVars, Pipe!SimGone

LEMMA PipeKeeps == PipeInv /\ Pipe!Next => PipeInv'
  <1> SUFFICES ASSUME PipeInv, Pipe!Next PROVE PipeInv'
    OBVIOUS
  <1> USE DownstreamSame, UpstreamSame DEF PipeInv, Pipe!hostVars, Pipe!simVars, Pipe!pipeVars,
      Pipe!HostGone
  <1>1. CASE Pipe!HostInit \/ Pipe!openReadThread \/ Pipe!openWriteThread
    BY <1>1 DEF Pipe!HostInit, Pipe!openReadThread, Pipe!openWriteThread
  <1>2. CASE Pipe!WriteShort \/ Pipe!HostExit \/ Pipe!Cleanup
    BY <1>2 DEF Pipe!WriteShort, Pipe!HostExit, Pipe!Cleanup
  <1>3. CASE Pipe!SimFinish \/ Pipe!pipe_init \/ Pipe!pipe_open \/ Pipe!OpenAgain
    BY <1>3 DEF Pipe!SimFinish, Pipe!pipe_init, Pipe!pipe_open, Pipe!OpenAgain, Pipe!SimGone,
       Pipe!OpenTo, Pipe!OpenFrom
  <1>4. CASE Pipe!SomeBytes \/ \E n \in HostWrites : Pipe!Write(n)
    BY <1>4, WriteKeeps, WriteBytesKeeps DEF Pipe!SomeBytes
  <1> QED BY <1>1, <1>2, <1>3, <1>4, HostReadKeeps, PipeReadKeeps, PipeWriteKeeps,
             DriverReadKeeps, DriverWriteKeeps
          DEF Pipe!Next, Pipe!HostThreads, Pipe!Simulator

LEMMA PipeCorrect == PipeInv => Pipe!StreamsIntact
  <1> SUFFICES ASSUME PipeInv PROVE Pipe!StreamsIntact
    OBVIOUS
  <1>1. /\ simGot \in Seq(Nat) /\ Numbered(simGot, 0) /\ Len(simGot) % PipeChunk = 0
        /\ hostGot \in Seq(Nat) /\ Numbered(hostGot, 0)
    BY DEF PipeInv, Downstream, Upstream
  <1>2. simGot = Pipe!Bytes(0, Len(simGot)) /\ hostGot = Pipe!Bytes(0, Len(hostGot))
    BY <1>1, FirstBytes
  <1>3. /\ Len(simGot) + BytesOf(Len(readBuffer)) + Len(ib) + Len(toPipe) <= sent
        /\ Len(hostGot) + Len(fromPipe) + BytesOf(Len(writeBuffer)) = written * PipeChunk
    BY DEF PipeInv, Downstream, Upstream
  <1>4. Len(simGot) <= sent /\ Len(hostGot) <= written * PipeChunk
    BY <1>3, Amounts, SMTT(30)
  <1> QED BY <1>1, <1>2, <1>4 DEF Pipe!StreamsIntact

-----------------------------------------------------------------------------
(* The JTAG terminals.                                                         *)

\* The sequence t holds the elements of s that are in D, in their order: at tells
\* where.
Places(D, s, t, at) ==
    /\ at \in [1 .. Len(t) -> 1 .. Len(s)]
    /\ \A k, m \in 1 .. Len(t) : k < m => at[k] < at[m]
    /\ \A k \in 1 .. Len(t) : t[k] = s[at[k]]
    /\ \A i \in 1 .. Len(s) : s[i] \in D <=> \E k \in 1 .. Len(t) : at[k] = i
Filtered(D, s, t) == \E at : Places(D, s, t, at)

\* What the socket and the pipe behind RemoveBlanks hold, and the byte that
\* RemoveBlanks looks at.
LookedAt == IF blank = "test" /\ buf \in XilinxChars THEN <<buf>> ELSE <<>>
XilinxBoth == XilinxChars \cup {Blank}

\* What was told has arrived but for a rest that is in the socket with the blanks; the
\* bounds of the pipe are never met.
XilinxInv ==
    /\ sock \in Seq(XilinxBoth) /\ jtagWire \in Seq(XilinxBoth) /\ buf \in XilinxBoth
    /\ told \in Seq(XilinxChars) /\ Len(told) <= XilinxBytes
    /\ jtagGot \in Seq(XilinxChars) /\ jtag_to_blank \in Seq(XilinxChars)
    /\ asked \in Seq(XilinxChars)
    /\ ~stale => \E rest \in Seq(XilinxChars) :
                    /\ ((jtagGot \o jtag_to_blank) \o LookedAt) \o rest = told
                    /\ Filtered(XilinxChars, sock, rest)
    /\ Filtered(XilinxChars, jtagWire, asked)
    /\ pc = "closed" => threads = {}

\* The Altera terminal has neither threads nor blanks.
AlteraInv ==
    /\ sock \in Seq(AlteraChars) /\ told \in Seq(AlteraChars) /\ jtagGot \in Seq(AlteraChars)
    /\ asked \in Seq(AlteraChars)
    /\ jtagGot \o sock = told /\ jtagWire = asked
    /\ jtag_to_blank = <<>> /\ blank = "loop" /\ threads = {}
    /\ pc \in {"new", "ready", "closed", "exited"}

JtagInv == /\ part = "xilinx" => XilinxInv
           /\ part = "altera" => AlteraInv

\* Some bytes move from the front of one queue to the end of another.
LEMMA MoveFirst ==
    ASSUME NEW S, NEW a \in Seq(S), NEW q \in Seq(S), NEW n \in 1 .. Len(q)
    PROVE  /\ a \o SubSeq(q, 1, n) \in Seq(S) /\ SubSeq(q, n + 1, Len(q)) \in Seq(S)
           /\ (a \o SubSeq(q, 1, n)) \o SubSeq(q, n + 1, Len(q)) = a \o q
  <1> DEFINE x == SubSeq(q, 1, n)
             y == SubSeq(q, n + 1, Len(q))
  <1>0. Len(q) \in Nat /\ n \in Nat
    OBVIOUS
  <1>1. x \in Seq(S) /\ y \in Seq(S)
    <2>1. (\A i \in 1 .. n : q[i] \in S) /\ \A i \in n + 1 .. Len(q) : q[i] \in S
      BY <1>0, ElementOfSeq
    <2> QED BY <1>0, <2>1, SubSeqProperties
  <1>2. x \o y = q
    BY <1>0, ConcatAdjacentSubSeq, SubSeqFull
  <1> HIDE DEF x, y
  <1>3. (a \o x) \o y = a \o q
    <2>1. a \in Seq(S) /\ x \in Seq(S) /\ y \in Seq(S)
      BY <1>1
    <2>2. (a \o x) \o y = a \o (x \o y)
      BY <2>1, SMT
    <2> QED BY <1>2, <2>2
  <1> QED BY <1>1, <1>3, ConcatProperties DEF x, y

LEMMA NothingFiltered ==
    ASSUME NEW D
    PROVE  Filtered(D, <<>>, <<>>)
  <1> DEFINE at == [k \in 1 .. 0 |-> 1]
  <1>1. Places(D, <<>>, <<>>, at)
    BY DEF Places
  <1> QED BY <1>1 DEF Filtered

\* Data are filtered to themselves.
LEMMA AllFiltered ==
    ASSUME NEW D, NEW s \in Seq(D)
    PROVE  Filtered(D, s, s)
  <1> DEFINE at == [k \in 1 .. Len(s) |-> k]
  <1>1. \A k \in 1 .. Len(s) : s[k] \in D /\ at[k] = k
    BY ElementOfSeq
  <1>2. Places(D, s, s, at)
    BY <1>1 DEF Places
  <1> QED BY <1>2 DEF Filtered

LEMMA BlankPut ==
    ASSUME NEW E, NEW D, NEW s \in Seq(E), NEW t \in Seq(D), Filtered(D, s, t),
           NEW x \in E, x \notin D
    PROVE  Filtered(D, Append(s, x), t)
  <1>1. PICK at : Places(D, s, t, at)
    BY DEF Filtered
  <1> DEFINE r == Append(s, x)
             n == Len(s)
             m == Len(t)
  <1>2. n \in Nat /\ m \in Nat /\ Len(r) = n + 1 /\ r[n + 1] = x /\ \A i \in 1 .. n : r[i] = s[i]
    OBVIOUS
  <1>3. /\ at \in [1 .. m -> 1 .. n]
        /\ \A k, l \in 1 .. m : k < l => at[k] < at[l]
        /\ \A k \in 1 .. m : t[k] = s[at[k]]
        /\ \A i \in 1 .. n : s[i] \in D <=> \E k \in 1 .. m : at[k] = i
    BY <1>1 DEF Places
  <1> HIDE DEF r, n, m
  <1>4. at \in [1 .. m -> 1 .. n + 1]
    BY <1>2, <1>3
  <1>5. \A k \in 1 .. m : t[k] = r[at[k]]
    BY <1>2, <1>3
  <1>6. ASSUME NEW i \in 1 .. n + 1
        PROVE  r[i] \in D <=> \E k \in 1 .. m : at[k] = i
    <2>1. CASE i = n + 1
      BY <1>2, <1>3, <2>1
    <2>2. CASE i # n + 1
      <3>1. i \in 1 .. n
        BY <1>2, <2>2
      <3> QED BY <1>2, <1>3, <3>1
    <2> QED BY <2>1, <2>2
  <1>7. Places(D, r, t, at)
    BY <1>2, <1>3, <1>4, <1>5, <1>6 DEF Places, m
  <1> QED BY <1>7 DEF Filtered, r

LEMMA DataPut ==
    ASSUME NEW E, NEW D, NEW s \in Seq(E), NEW t \in Seq(D), Filtered(D, s, t),
           NEW x \in E, x \in D
    PROVE  Filtered(D, Append(s, x), Append(t, x))
  <1>1. PICK at : Places(D, s, t, at)
    BY DEF Filtered
  <1> DEFINE r == Append(s, x)
             u == Append(t, x)
             n == Len(s)
             m == Len(t)
             to == [k \in 1 .. m + 1 |-> IF k = m + 1 THEN n + 1 ELSE at[k]]
  <1>2. /\ n \in Nat /\ m \in Nat
        /\ Len(r) = n + 1 /\ r[n + 1] = x /\ \A i \in 1 .. n : r[i] = s[i]
        /\ Len(u) = m + 1 /\ u[m + 1] = x /\ \A i \in 1 .. m : u[i] = t[i]
    OBVIOUS
  <1>3. /\ at \in [1 .. m -> 1 .. n]
        /\ \A k, l \in 1 .. m : k < l => at[k] < at[l]
        /\ \A k \in 1 .. m : t[k] = s[at[k]]
        /\ \A i \in 1 .. n : s[i] \in D <=> \E k \in 1 .. m : at[k] = i
    BY <1>1 DEF Places
  <1> HIDE DEF r, u, n, m
  <1>4. /\ to[m + 1] = n + 1
        /\ \A k \in 1 .. m : to[k] = at[k] /\ at[k] \in 1 .. n
        /\ \A k \in 1 .. m + 1 : k = m + 1 \/ k \in 1 .. m
        /\ \A i \in 1 .. n + 1 : i = n + 1 \/ i \in 1 .. n
    BY <1>2, <1>3
  <1>5. to \in [1 .. m + 1 -> 1 .. n + 1]
    <2>1. ASSUME NEW k \in 1 .. m + 1 PROVE to[k] \in 1 .. n + 1
      <3>1. CASE k = m + 1
        BY <1>2, <3>1
      <3>2. CASE k \in 1 .. m
        <4>1. to[k] = at[k] /\ at[k] \in 1 .. n
          BY <1>4, <3>2
        <4> QED BY <1>2, <4>1
      <3> QED BY <1>4, <3>1, <3>2
    <2> QED BY <2>1
  <1> HIDE DEF to
  <1>6. ASSUME NEW k \in 1 .. m + 1, NEW l \in 1 .. m + 1, k < l
        PROVE  to[k] < to[l]
    <2>1. k \in 1 .. m
      BY <1>2, <1>6
    <2>2. CASE l = m + 1
      BY <1>2, <1>4, <2>1, <2>2
    <2>3. CASE l \in 1 .. m
      BY <1>3, <1>4, <1>6, <2>1, <2>3
    <2> QED BY <1>4, <2>2, <2>3
  <1>7. ASSUME NEW k \in 1 .. m + 1
        PROVE  u[k] = r[to[k]]
    <2>1. CASE k = m + 1
      BY <1>2, <1>4, <2>1
    <2>2. CASE k \in 1 .. m
      <3>1. to[k] = at[k] /\ at[k] \in 1 .. n
        BY <1>4, <2>2
      <3>2. u[k] = t[k] /\ t[k] = s[at[k]]
        BY <1>2, <1>3, <2>2
      <3>3. r[at[k]] = s[at[k]]
        BY <1>2, <3>1
      <3> QED BY <3>1, <3>2, <3>3
    <2> QED BY <1>4, <2>1, <2>2
  <1>8. ASSUME NEW i \in 1 .. n + 1
        PROVE  r[i] \in D <=> \E k \in 1 .. m + 1 : to[k] = i
    <2>1. CASE i = n + 1
      <3>1. m + 1 \in 1 .. m + 1
        BY <1>2
      <3> QED BY <1>2, <1>4, <2>1, <3>1
    <2>2. CASE i \in 1 .. n
      <3>1. r[i] \in D <=> \E k \in 1 .. m : at[k] = i
        BY <1>2, <1>3, <2>2
      <3>2. (\E k \in 1 .. m : at[k] = i) <=> \E k \in 1 .. m + 1 : to[k] = i
        <4>1. \A k \in 1 .. m + 1 : to[k] = i => k \in 1 .. m
          BY <1>2, <1>4, <2>2
        <4>2. \A k \in 1 .. m : k \in 1 .. m + 1 /\ (to[k] = i <=> at[k] = i)
          BY <1>2, <1>4
        <4> QED BY <4>1, <4>2
      <3> QED BY <3>1, <3>2
    <2> QED BY <1>4, <2>1, <2>2
  <1>9. Places(D, r, u, to)
    BY <1>2, <1>5, <1>6, <1>7, <1>8 DEF Places
  <1> QED BY <1>9 DEF Filtered, r, u

LEMMA BlankTaken ==
    ASSUME NEW E, NEW D, NEW s \in Seq(E), NEW t \in Seq(D), Filtered(D, s, t),
           s # <<>>, Head(s) \notin D
    PROVE  Filtered(D, Tail(s), t)
  <1>1. PICK at : Places(D, s, t, at)
    BY DEF Filtered
  <1> DEFINE r == Tail(s)
             n == Len(s)
             m == Len(t)
             to == [k \in 1 .. m |-> at[k] - 1]
  <1>2. /\ n \in Nat \ {0} /\ m \in Nat
        /\ Len(r) = n - 1 /\ s[1] \notin D /\ \A i \in 1 .. n - 1 : r[i] = s[i + 1]
    BY EmptySeq, HeadTailProperties
  <1>3. /\ at \in [1 .. m -> 1 .. n]
        /\ \A k, l \in 1 .. m : k < l => at[k] < at[l]
        /\ \A k \in 1 .. m : t[k] = s[at[k]]
        /\ \A i \in 1 .. n : s[i] \in D <=> \E k \in 1 .. m : at[k] = i
    BY <1>1 DEF Places
  <1> HIDE DEF r, n, m
  <1>4. \A k \in 1 .. m : at[k] \in 2 .. n /\ to[k] = at[k] - 1 /\ to[k] \in 1 .. n - 1
    BY <1>2, <1>3
  <1>5. to \in [1 .. m -> 1 .. n - 1]
    BY <1>4
  <1> HIDE DEF to
  <1>6. \A k, l \in 1 .. m : k < l => to[k] < to[l]
    BY <1>3, <1>4
  <1>7. ASSUME NEW k \in 1 .. m
        PROVE  t[k] = r[to[k]]
    <2>1. to[k] \in 1 .. n - 1 /\ to[k] + 1 = at[k]
      <3>1. at[k] \in 2 .. n /\ to[k] = at[k] - 1 /\ to[k] \in 1 .. n - 1
        BY <1>4
      <3> QED BY <1>2, <3>1
    <2>2. r[to[k]] = s[to[k] + 1]
      BY <1>2, <2>1
    <2> QED BY <1>3, <2>1, <2>2
  <1>8. ASSUME NEW i \in 1 .. n - 1
        PROVE  r[i] \in D <=> \E k \in 1 .. m : to[k] = i
    <2>1. i + 1 \in 1 .. n /\ r[i] = s[i + 1]
      BY <1>2
    <2>2. s[i + 1] \in D <=> \E k \in 1 .. m : at[k] = i + 1
      BY <1>3, <2>1
    <2>3. ASSUME NEW k \in 1 .. m PROVE at[k] = i + 1 <=> to[k] = i
      <3>1. at[k] \in 2 .. n /\ to[k] = at[k] - 1
        BY <1>4
      <3>2. i \in Nat /\ at[k] \in Nat
        BY <1>2, <3>1
      <3> QED BY <3>1, <3>2
    <2> QED BY <2>1, <2>2, <2>3
  <1>9. Places(D, r, t, to)
    BY <1>2, <1>5, <1>6, <1>7, <1>8 DEF Places, m
  <1> QED BY <1>9 DEF Filtered, r

LEMMA DataTaken ==
    ASSUME NEW E, NEW D, NEW s \in Seq(E), NEW t \in Seq(D), Filtered(D, s, t),
           s # <<>>, Head(s) \in D
    PROVE  t # <<>> /\ Head(t) = Head(s) /\ Filtered(D, Tail(s), Tail(t))
  <1>1. PICK at : Places(D, s, t, at)
    BY DEF Filtered
  <1> DEFINE r == Tail(s)
             u == Tail(t)
             n == Len(s)
             m == Len(t)
             to == [k \in 1 .. m - 1 |-> at[k + 1] - 1]
  <1>2. /\ n \in Nat \ {0} /\ m \in Nat
        /\ Len(r) = n - 1 /\ s[1] = Head(s) /\ \A i \in 1 .. n - 1 : r[i] = s[i + 1]
    BY EmptySeq, HeadTailProperties
  <1>3. /\ at \in [1 .. m -> 1 .. n]
        /\ \A k, l \in 1 .. m : k < l => at[k] < at[l]
        /\ \A k \in 1 .. m : t[k] = s[at[k]]
        /\ \A i \in 1 .. n : s[i] \in D <=> \E k \in 1 .. m : at[k] = i
    BY <1>1 DEF Places
  <1>a. PICK first \in 1 .. m : at[first] = 1
    BY <1>2, <1>3
  <1>b. m \in Nat \ {0} /\ at[1] = 1 /\ t[1] = s[1]
    <2>1. m \in Nat \ {0} /\ 1 \in 1 .. m
      BY <1>2, <1>a
    <2>2. at[1] \in 1 .. n /\ (1 < first => at[1] < at[first])
      BY <1>3, <2>1
    <2>3. at[1] = 1
      BY <1>a, <2>1, <2>2
    <2> QED BY <1>3, <2>1, <2>3
  <1>c. t # <<>>
    BY <1>b
  <1>d. Len(u) = m - 1 /\ t[1] = Head(t) /\ \A i \in 1 .. m - 1 : u[i] = t[i + 1]
    BY <1>c, HeadTailProperties
  <1> HIDE DEF r, u, n, m
  <1>4. \A k \in 1 .. m - 1 :
           /\ k + 1 \in 1 .. m /\ at[k + 1] \in 2 .. n
           /\ to[k] = at[k + 1] - 1 /\ to[k] \in 1 .. n - 1
    <2> SUFFICES ASSUME NEW k \in 1 .. m - 1
                 PROVE  /\ k + 1 \in 1 .. m /\ at[k + 1] \in 2 .. n
                        /\ to[k] = at[k + 1] - 1 /\ to[k] \in 1 .. n - 1
      BY Zenon
    <2>1. k + 1 \in 1 .. m /\ 1 \in 1 .. m /\ 1 < k + 1
      BY <1>b
    <2>2. at[k + 1] \in 1 .. n /\ at[1] < at[k + 1]
      BY <1>3, <2>1
    <2>3. to[k] = at[k + 1] - 1
      OBVIOUS
    <2> QED BY <1>2, <1>b, <2>1, <2>2, <2>3
  <1>5. to \in [1 .. m - 1 -> 1 .. n - 1]
    BY <1>4
  <1> HIDE DEF to
  <1>6. \A k, l \in 1 .. m - 1 : k < l => to[k] < to[l]
    <2> SUFFICES ASSUME NEW k \in 1 .. m - 1, NEW l \in 1 .. m - 1, k < l
                 PROVE  to[k] < to[l]
      OBVIOUS
    <2>1. k + 1 < l + 1
      BY <1>b
    <2>2. at[k + 1] < at[l + 1]
      BY <1>3, <1>4, <2>1
    <2> QED BY <1>2, <1>4, <2>2
  <1>7. ASSUME NEW k \in 1 .. m - 1
        PROVE  u[k] = r[to[k]]
    <2>1. u[k] = t[k + 1] /\ t[k + 1] = s[at[k + 1]]
      BY <1>3, <1>4, <1>d
    <2>2. to[k] \in 1 .. n - 1 /\ to[k] + 1 = at[k + 1]
      BY <1>2, <1>4
    <2>3. r[to[k]] = s[to[k] + 1]
      BY <1>2, <2>2
    <2> QED BY <2>1, <2>2, <2>3
  <1>8. ASSUME NEW i \in 1 .. n - 1
        PROVE  r[i] \in D <=> \E k \in 1 .. m - 1 : to[k] = i
    <2>1. i + 1 \in 1 .. n /\ r[i] = s[i + 1] /\ i + 1 # 1
      BY <1>2
    <2>2. s[i + 1] \in D <=> \E k \in 1 .. m : at[k] = i + 1
      BY <1>3, <2>1
    <2>3. ASSUME NEW k \in 1 .. m, at[k] = i + 1
          PROVE  \E l \in 1 .. m - 1 : to[l] = i
      <3>1. k # 1
        BY <1>b, <2>1, <2>3
      <3>2. k - 1 \in 1 .. m - 1 /\ (k - 1) + 1 = k
        BY <1>b, <3>1
      <3>3. to[k - 1] = at[k] - 1
        BY <1>4, <3>2
      <3> QED BY <1>2, <2>3, <3>2, <3>3
    <2>4. ASSUME NEW l \in 1 .. m - 1, to[l] = i
          PROVE  \E k \in 1 .. m : at[k] = i + 1
      <3>1. l + 1 \in 1 .. m /\ at[l + 1] = i + 1
        BY <1>2, <1>4, <2>4
      <3> QED BY <3>1
    <2> QED BY <2>1, <2>2, <2>3, <2>4
  <1>9. Places(D, r, u, to)
    BY <1>2, <1>d, <1>5, <1>6, <1>7, <1>8 DEF Places
  <1> QED BY <1>2, <1>b, <1>c, <1>d, <1>9 DEF Filtered, r, u

LEMMA JtagInit == Xilinx!Init => XilinxInv /\ AlteraInv
  <1> SUFFICES ASSUME Xilinx!Init PROVE XilinxInv /\ AlteraInv
    OBVIOUS
  <1>1. /\ sock = <<>> /\ jtagWire = <<>> /\ buf = Blank /\ told = <<>> /\ jtagGot = <<>>
        /\ jtag_to_blank = <<>> /\ asked = <<>> /\ pc = "new" /\ threads = {} /\ blank = "loop"
    BY DEF Xilinx!Init
  <1>2. <<>> \in Seq(XilinxChars) /\ <<>> \in Seq(XilinxBoth) /\ <<>> \in Seq(AlteraChars)
        /\ <<>> \o <<>> = <<>> /\ Len(<<>>) = 0
    OBVIOUS
  <1>3. LookedAt = <<>>
    BY <1>1 DEF LookedAt
  <1>4. buf \in XilinxBoth /\ Len(told) <= XilinxBytes
    BY <1>1, <1>2, HostAssumption DEF XilinxBoth
  <1>5. Filtered(XilinxChars, <<>>, <<>>)
    BY NothingFiltered
  <1>6. \E rest \in Seq(XilinxChars) :
           /\ ((jtagGot \o jtag_to_blank) \o LookedAt) \o rest = told
           /\ Filtered(XilinxChars, sock, rest)
    BY <1>1, <1>2, <1>3, <1>5
  <1>7. XilinxInv
    BY <1>1, <1>2, <1>4, <1>5, <1>6 DEF XilinxInv
  <1>8. AlteraInv
    BY <1>1, <1>2 DEF AlteraInv
  <1> QED BY <1>7, <1>8

\* A step that leaves the data of the Xilinx terminal alone.
LEMMA XilinxUntouched ==
    ASSUME XilinxInv, UNCHANGED <<sock, buf, told, jtagGot, jtag_to_blank>>,
           stale' = stale, LookedAt' = LookedAt,
           jtagWire' \in Seq(XilinxBoth), asked' \in Seq(XilinxChars),
           Filtered(XilinxChars, jtagWire', asked'),
           pc' = "closed" => threads' = {}
    PROVE  XilinxInv'
  BY DEF XilinxInv

LEMMA XilinxThreadsKeep ==
    ASSUME XilinxInv,
           \/ Xilinx!InitFork \/ Xilinx!Fork \/ Xilinx!Connect \/ Xilinx!Cleanup \/ Xilinx!Joined
           \/ \E t \in {"poll", "xmd", "blank"} : Xilinx!EndThread(t)
           \/ Xilinx!BlankBlocks \/ Xilinx!TerminalEnds
    PROVE  XilinxInv'
  <1>1. UNCHANGED <<sock, buf, told, jtagGot, jtag_to_blank, stale, jtagWire, asked>>
    BY DEF Xilinx!InitFork, Xilinx!Fork, Xilinx!Connect, Xilinx!Cleanup, Xilinx!Joined,
           Xilinx!EndThread, Xilinx!BlankBlocks, Xilinx!TerminalEnds, Xilinx!Streams
  <1>2. blank' = blank \/ (blank = "loop" /\ blank' = "read")
    BY DEF Xilinx!InitFork, Xilinx!Fork, Xilinx!Connect, Xilinx!Cleanup, Xilinx!Joined,
           Xilinx!EndThread, Xilinx!BlankBlocks, Xilinx!TerminalEnds
  <1>3. LookedAt' = LookedAt
    BY <1>1, <1>2 DEF LookedAt
  <1>4. pc' = "closed" => threads' = {}
    <2>1. CASE \E t \in {"poll", "xmd", "blank"} : Xilinx!EndThread(t)
      BY <2>1 DEF Xilinx!EndThread, XilinxInv
    <2>2. CASE ~ \E t \in {"poll", "xmd", "blank"} : Xilinx!EndThread(t)
      BY <2>2 DEF Xilinx!InitFork, Xilinx!Fork, Xilinx!Connect, Xilinx!Cleanup, Xilinx!Joined,
           Xilinx!BlankBlocks, Xilinx!TerminalEnds, XilinxInv
    <2> QED BY <2>1, <2>2
  <1>5. /\ jtagWire' \in Seq(XilinxBoth) /\ asked' \in Seq(XilinxChars)
        /\ Filtered(XilinxChars, jtagWire', asked')
    BY <1>1 DEF XilinxInv
  <1> QED BY <1>1, <1>3, <1>4, <1>5, XilinxUntouched

LEMMA XilinxWritesKeep ==
    ASSUME XilinxInv,
           Xilinx!ProbeHW \/ Xilinx!WriteEol \/ \E c \in XilinxChars : Xilinx!Write(c)
    PROVE  XilinxInv'
  <1>1. /\ UNCHANGED <<sock, buf, told, jtagGot, jtag_to_blank, stale, threads, blank>>
        /\ pc' = pc \/ pc' # "closed"
    BY DEF Xilinx!ProbeHW, Xilinx!WriteEol, Xilinx!Write
  <1>2. LookedAt' = LookedAt
    BY <1>1 DEF LookedAt
  <1>3. pc' = "closed" => threads' = {}
    BY <1>1 DEF XilinxInv
  <1> DEFINE w == jtagWire
             a == asked
  <1>4. /\ w \in Seq(XilinxBoth) /\ a \in Seq(XilinxChars) /\ Filtered(XilinxChars, w, a)
        /\ Blank \in XilinxBoth /\ Blank \notin XilinxChars
    BY HostAssumption DEF XilinxInv, XilinxBoth
  <1>5. CASE Xilinx!ProbeHW \/ Xilinx!WriteEol
    <2>1. jtagWire' = Append(w, Blank) /\ asked' = a
      BY <1>5 DEF Xilinx!ProbeHW, Xilinx!WriteEol
    <2> HIDE DEF w, a
    <2>2. Append(w, Blank) \in Seq(XilinxBoth) /\ Filtered(XilinxChars, Append(w, Blank), a)
      BY <1>4, BlankPut, AppendProperties
    <2> QED BY <1>1, <1>2, <1>3, <1>4, <2>1, <2>2, XilinxUntouched
  <1>6. ASSUME NEW c \in XilinxChars, Xilinx!Write(c)
        PROVE  XilinxInv'
    <2>1. jtagWire' = Append(w, c) /\ asked' = Append(a, c) /\ c \in XilinxBoth
      BY <1>6 DEF Xilinx!Write, XilinxBoth
    <2> HIDE DEF w, a
    <2>2. /\ Append(w, c) \in Seq(XilinxBoth) /\ Append(a, c) \in Seq(XilinxChars)
          /\ Filtered(XilinxChars, Append(w, c), Append(a, c))
      BY <1>4, <2>1, DataPut, AppendProperties
    <2> QED BY <1>1, <1>2, <1>3, <2>1, <2>2, XilinxUntouched
  <1> QED BY <1>5, <1>6

\* What the data of the Xilinx terminal are, as long as nothing stale was read.
LEMMA XilinxData ==
    ASSUME XilinxInv
    PROVE  /\ sock \in Seq(XilinxBoth) /\ buf \in XilinxBoth /\ told \in Seq(XilinxChars)
           /\ jtagGot \in Seq(XilinxChars) /\ jtag_to_blank \in Seq(XilinxChars)
           /\ LookedAt \in Seq(XilinxChars)
           /\ jtagGot \o jtag_to_blank \in Seq(XilinxChars)
           /\ (jtagGot \o jtag_to_blank) \o LookedAt \in Seq(XilinxChars)
           /\ XilinxBytes \in Nat /\ Len(told) <= XilinxBytes
  <1>1. LookedAt \in Seq(XilinxChars)
    BY DEF LookedAt
  <1>2. jtagGot \in Seq(XilinxChars) /\ jtag_to_blank \in Seq(XilinxChars)
    BY DEF XilinxInv
  <1>3. jtagGot \o jtag_to_blank \in Seq(XilinxChars)
    BY <1>2, ConcatProperties
  <1>4. (jtagGot \o jtag_to_blank) \o LookedAt \in Seq(XilinxChars)
    BY <1>1, <1>3, ConcatProperties
  <1> QED BY <1>1, <1>2, <1>3, <1>4, HostAssumption DEF XilinxInv

\* A step that only moves what has arrived.
LEMMA XilinxMoves ==
    ASSUME XilinxInv, UNCHANGED <<sock, buf, told, jtagWire, asked, pc, threads, stale>>,
           jtagGot' \in Seq(XilinxChars), jtag_to_blank' \in Seq(XilinxChars),
           ~stale => (jtagGot' \o jtag_to_blank') \o LookedAt'
                     = (jtagGot \o jtag_to_blank) \o LookedAt
    PROVE  XilinxInv'
  BY DEF XilinxInv

LEMMA BlankTestKeeps ==
    ASSUME XilinxInv, Xilinx!BlankTest
    PROVE  XilinxInv'
  <1>1. /\ blank = "test" /\ blank' = "loop"
        /\ jtag_to_blank' = IF buf \in XilinxChars /\ Len(jtag_to_blank) < 2 * XilinxBytes
                            THEN Append(jtag_to_blank, buf) ELSE jtag_to_blank
        /\ UNCHANGED <<sock, buf, told, jtagGot, jtagWire, asked, pc, threads, stale>>
    BY DEF Xilinx!BlankTest, Xilinx!PassedOn, Xilinx!IsData
  <1>2. LookedAt' = <<>>
    BY <1>1 DEF LookedAt
  <1> DEFINE g == jtagGot
             j == jtag_to_blank
             x == buf
  <1>3. g \in Seq(XilinxChars) /\ j \in Seq(XilinxChars) /\ g \o j \in Seq(XilinxChars)
    BY XilinxData
  <1>4. jtag_to_blank' \in Seq(XilinxChars)
    <2>1. x \in XilinxChars => Append(j, x) \in Seq(XilinxChars)
      BY <1>3, AppendProperties
    <2> QED BY <1>1, <1>3, <2>1
  <1>5. CASE buf \notin XilinxChars
    <2>1. LookedAt = <<>> /\ jtag_to_blank' = j /\ jtagGot' = g
      BY <1>1, <1>5 DEF LookedAt
    <2> QED BY <1>1, <1>2, <1>3, <1>4, <2>1, XilinxMoves
  <1>6. CASE buf \in XilinxChars /\ ~stale
    <2>1. LookedAt = <<x>>
      BY <1>1, <1>6 DEF LookedAt
    <2>2. PICK rest \in Seq(XilinxChars) : ((g \o j) \o <<x>>) \o rest = told
      BY <1>6, <2>1 DEF XilinxInv
    <2>3. Len(told) <= XilinxBytes /\ XilinxBytes \in Nat /\ x \in XilinxChars
      BY <1>6, XilinxData
    <2> DEFINE t == told
    <2>4. ((g \o j) \o <<x>>) \o rest = t /\ Len(t) <= XilinxBytes
      BY <2>2, <2>3
    <2> HIDE DEF g, j, x, t
    <2> DEFINE p == g \o j
               y == p \o <<x>>
    <2>5. Len(p) = Len(g) + Len(j) /\ Len(g) \in Nat /\ Len(j) \in Nat
      BY <1>3, ConcatProperties
    <2>6. <<x>> \in Seq(XilinxChars) /\ Len(<<x>>) = 1
      BY <2>3
    <2>7. y \in Seq(XilinxChars) /\ Len(y) = Len(p) + 1
      BY <1>3, <2>6, ConcatProperties
    <2>8. Len(y \o rest) = Len(y) + Len(rest) /\ Len(rest) \in Nat
      BY <2>7, ConcatProperties
    <2>9. Len(j) < 2 * XilinxBytes
      <3> DEFINE lj == Len(j)
                 lg == Len(g)
                 lr == Len(rest)
      <3>1. lg + lj + 1 + lr <= XilinxBytes /\ lj \in Nat /\ lg \in Nat /\ lr \in Nat
        BY <2>4, <2>5, <2>7, <2>8
      <3> HIDE DEF lj, lg, lr
      <3>2. lj < 2 * XilinxBytes
        BY <2>3, <3>1
      <3> QED BY <3>2 DEF lj
    <2>10. jtag_to_blank' = Append(j, x) /\ jtagGot' = g
      BY <1>1, <1>6, <2>9 DEF j, x, g
    <2>11. (g \o Append(j, x)) \o <<>> = (g \o j) \o <<x>>
      BY <1>3, <2>3, PutLast
    <2>12. (jtagGot' \o jtag_to_blank') \o LookedAt' = (jtagGot \o jtag_to_blank) \o LookedAt
      BY <1>2, <2>1, <2>10, <2>11 DEF g, j
    <2> QED BY <1>1, <1>3, <1>4, <2>10, <2>12, XilinxMoves DEF g
  <1>7. CASE stale
    BY <1>1, <1>3, <1>4, <1>7, XilinxMoves
  <1> QED BY <1>5, <1>6, <1>7

LEMMA XilinxReadKeeps ==
    ASSUME XilinxInv, Xilinx!Read
    PROVE  XilinxInv'
  <1> DEFINE g == jtagGot
             j == jtag_to_blank
  <1>1. PICK n \in 1 .. Len(j) :
          /\ jtagGot' = g \o SubSeq(j, 1, n)
          /\ jtag_to_blank' = SubSeq(j, n + 1, Len(j))
    BY DEF Xilinx!Read, Xilinx!Input
  <1>2. UNCHANGED <<sock, buf, told, jtagWire, asked, pc, threads, stale, blank>>
    BY DEF Xilinx!Read
  <1>3. LookedAt' = LookedAt
    BY <1>2 DEF LookedAt
  <1>4. g \in Seq(XilinxChars) /\ j \in Seq(XilinxChars)
    BY XilinxData
  <1> HIDE DEF g, j
  <1>5. /\ g \o SubSeq(j, 1, n) \in Seq(XilinxChars)
        /\ SubSeq(j, n + 1, Len(j)) \in Seq(XilinxChars)
        /\ (g \o SubSeq(j, 1, n)) \o SubSeq(j, n + 1, Len(j)) = g \o j
    <2>1. n \in 1 .. Len(j)
      BY <1>1
    <2> QED BY <1>4, <2>1, MoveFirst, ZenonT(60)
  <1>6. jtagGot' \o jtag_to_blank' = jtagGot \o jtag_to_blank
    BY <1>1, <1>5 DEF g, j
  <1> QED BY <1>1, <1>2, <1>3, <1>5, <1>6, XilinxMoves

LEMMA BlankReadKeeps ==
    ASSUME XilinxInv, Xilinx!BlankRead
    PROVE  XilinxInv'
  <1>1. /\ blank \in {"read", "loop"} /\ blank' = "test"
        /\ \/ sock # <<>> /\ buf' = Head(sock) /\ sock' = Tail(sock) /\ UNCHANGED stale
           \/ stale' = TRUE /\ UNCHANGED <<buf, sock>>
        /\ UNCHANGED <<told, jtagGot, jtag_to_blank, jtagWire, asked, pc, threads>>
    BY DEF Xilinx!BlankRead
  <1>2. CASE stale' = TRUE /\ UNCHANGED <<buf, sock>>
    BY <1>1, <1>2 DEF XilinxInv
  <1>3. CASE sock # <<>> /\ buf' = Head(sock) /\ sock' = Tail(sock) /\ UNCHANGED stale
    <2> DEFINE s == sock
               p == jtagGot \o jtag_to_blank
               x == Head(s)
               z == Tail(s)
    <2>1. s \in Seq(XilinxBoth) /\ s # <<>> /\ p \in Seq(XilinxChars)
      BY <1>3, XilinxData
    <2>2. buf' = x /\ sock' = z
      BY <1>3
    <2>3. LookedAt = <<>> /\ LookedAt' = IF x \in XilinxChars THEN <<x>> ELSE <<>>
      BY <1>1, <2>2 DEF LookedAt
    <2>4. (jtagGot \o jtag_to_blank)' = p
      BY <1>1
    <2>5. ~stale => \E rest \in Seq(XilinxChars) :
                      (p \o <<>>) \o rest = told /\ Filtered(XilinxChars, s, rest)
      BY <2>3 DEF XilinxInv
    <2> HIDE DEF s, p
    <2>6. x \in XilinxBoth /\ z \in Seq(XilinxBoth)
      BY <2>1, HeadTailProperties
    <2>7. p \o <<>> = p
      BY <2>1, ConcatEmptySeq
    <2>8. ASSUME ~stale
          PROVE  \E rest \in Seq(XilinxChars) :
                     (p \o LookedAt') \o rest = told /\ Filtered(XilinxChars, z, rest)
      <3>1. PICK rest \in Seq(XilinxChars) : p \o rest = told /\ Filtered(XilinxChars, s, rest)
        BY <2>5, <2>7, <2>8
      <3>2. CASE x \notin XilinxChars
        <4>1. Filtered(XilinxChars, z, rest)
          BY <2>1, <3>1, <3>2, BlankTaken
        <4>2. (p \o LookedAt') \o rest = told
          BY <2>3, <2>7, <3>1, <3>2
        <4> QED BY <4>1, <4>2
      <3>3. CASE x \in XilinxChars
        <4>1. rest # <<>> /\ Head(rest) = x /\ Filtered(XilinxChars, z, Tail(rest))
          BY <2>1, <3>1, <3>3, DataTaken
        <4>2. Tail(rest) \in Seq(XilinxChars) /\ (p \o <<Head(rest)>>) \o Tail(rest) = p \o rest
          BY <2>1, <4>1, MoveHead
        <4>3. (p \o LookedAt') \o Tail(rest) = told
          BY <2>3, <3>1, <3>3, <4>1, <4>2
        <4> QED BY <4>1, <4>2, <4>3
      <3> QED BY <3>2, <3>3
    <2>9. /\ jtagWire \in Seq(XilinxBoth) /\ told \in Seq(XilinxChars) /\ Len(told) <= XilinxBytes
          /\ jtagGot \in Seq(XilinxChars) /\ jtag_to_blank \in Seq(XilinxChars)
          /\ asked \in Seq(XilinxChars) /\ Filtered(XilinxChars, jtagWire, asked)
          /\ pc = "closed" => threads = {}
      BY DEF XilinxInv
    <2> HIDE DEF x, z
    <2> QED BY <1>1, <1>3, <2>2, <2>4, <2>6, <2>8, <2>9 DEF XilinxInv
  <1> QED BY <1>1, <1>2, <1>3

LEMMA XilinxTerminalKeeps ==
    ASSUME XilinxInv, NEW c \in XilinxBoth, Xilinx!TerminalSends(c)
    PROVE  XilinxInv'
  <1> DEFINE s == sock
             t == told
             v == (jtagGot \o jtag_to_blank) \o LookedAt
  <1>1. /\ Len(t) < XilinxBytes /\ sock' = Append(s, c)
        /\ told' = IF c \in XilinxChars THEN Append(t, c) ELSE t
        /\ UNCHANGED <<buf, jtagGot, jtag_to_blank, jtagWire, asked, pc, threads, stale, blank>>
    BY DEF Xilinx!TerminalSends, Xilinx!IsData
  <1>2. LookedAt' = LookedAt
    BY <1>1 DEF LookedAt
  <1>3. ((jtagGot \o jtag_to_blank) \o LookedAt)' = v
    BY <1>1, <1>2
  <1>4. s \in Seq(XilinxBoth) /\ t \in Seq(XilinxChars) /\ v \in Seq(XilinxChars)
        /\ XilinxBytes \in Nat
    BY XilinxData
  <1>5. ~stale => \E rest \in Seq(XilinxChars) : v \o rest = t /\ Filtered(XilinxChars, s, rest)
    BY DEF XilinxInv
  <1>6. /\ buf \in XilinxBoth /\ jtagWire \in Seq(XilinxBoth)
        /\ jtagGot \in Seq(XilinxChars) /\ jtag_to_blank \in Seq(XilinxChars)
        /\ asked \in Seq(XilinxChars) /\ Filtered(XilinxChars, jtagWire, asked)
        /\ pc = "closed" => threads = {}
    BY DEF XilinxInv
  <1> HIDE DEF s, t, v
  <1>7. Append(s, c) \in Seq(XilinxBoth)
    BY <1>4, AppendProperties
  <1>8. CASE c \in XilinxChars
    <2>1. told' = Append(t, c)
      BY <1>1, <1>8
    <2>2. Append(t, c) \in Seq(XilinxChars) /\ Len(Append(t, c)) = Len(t) + 1 /\ Len(t) \in Nat
      BY <1>4, <1>8, AppendProperties
    <2>3. Len(Append(t, c)) <= XilinxBytes
      BY <1>1, <1>4, <2>2
    <2>4. ASSUME ~stale
          PROVE  \E rest \in Seq(XilinxChars) :
                     v \o rest = Append(t, c) /\ Filtered(XilinxChars, Append(s, c), rest)
      <3>1. PICK rest \in Seq(XilinxChars) : v \o rest = t /\ Filtered(XilinxChars, s, rest)
        BY <1>5, <2>4
      <3>2. Append(rest, c) \in Seq(XilinxChars)
        BY <1>8, AppendProperties
      <3>3. v \o Append(rest, c) = Append(v \o rest, c)
        BY <1>4, <1>8, PutLast
      <3>4. Filtered(XilinxChars, Append(s, c), Append(rest, c))
        BY <1>4, <1>8, <3>1, DataPut
      <3> QED BY <3>1, <3>2, <3>3, <3>4
    <2> QED BY <1>1, <1>3, <1>6, <1>7, <2>1, <2>2, <2>3, <2>4 DEF XilinxInv
  <1>9. CASE c \notin XilinxChars
    <2>1. told' = t /\ Len(t) <= XilinxBytes
      BY <1>1, <1>4, <1>9
    <2>2. ASSUME ~stale
          PROVE  \E rest \in Seq(XilinxChars) :
                     v \o rest = t /\ Filtered(XilinxChars, Append(s, c), rest)
      <3>1. PICK rest \in Seq(XilinxChars) : v \o rest = t /\ Filtered(XilinxChars, s, rest)
        BY <1>5, <2>2
      <3>2. Filtered(XilinxChars, Append(s, c), rest)
        BY <1>4, <1>9, <3>1, BlankPut
      <3> QED BY <3>1, <3>2
    <2> QED BY <1>1, <1>3, <1>4, <1>6, <1>7, <2>1, <2>2 DEF XilinxInv
  <1> QED BY <1>8, <1>9

LEMMA XilinxKeeps == XilinxInv /\ Xilinx!Next => XilinxInv'
  <1> SUFFICES ASSUME XilinxInv, Xilinx!Next PROVE XilinxInv'
    OBVIOUS
  <1>1. ASSUME NEW c \in XilinxBoth, Xilinx!TerminalSends(c) PROVE XilinxInv'
    BY <1>1, XilinxTerminalKeeps
  <1> QED BY <1>1, XilinxThreadsKeep, XilinxWritesKeep, BlankTestKeeps, BlankReadKeeps,
             XilinxReadKeeps DEF Xilinx!Next, XilinxBoth

LEMMA AlteraReadKeeps ==
    ASSUME AlteraInv, Altera!Read
    PROVE  AlteraInv'
  <1> DEFINE g == jtagGot
             j == sock
  <1>1. PICK n \in 1 .. Len(j) :
          /\ jtagGot' = g \o SubSeq(j, 1, n)
          /\ sock' = SubSeq(j, n + 1, Len(j))
    BY DEF Altera!Read, Altera!Input
  <1>2. UNCHANGED <<told, jtag_to_blank, blank, threads, jtagWire, asked, pc>>
    BY DEF Altera!Read
  <1>3. g \in Seq(AlteraChars) /\ j \in Seq(AlteraChars)
    BY DEF AlteraInv
  <1>4. /\ told \in Seq(AlteraChars) /\ asked \in Seq(AlteraChars)
        /\ g \o j = told /\ jtagWire = asked
        /\ jtag_to_blank = <<>> /\ blank = "loop" /\ threads = {}
        /\ pc \in {"new", "ready", "closed", "exited"}
    BY DEF AlteraInv
  <1> HIDE DEF g, j
  <1>5. /\ g \o SubSeq(j, 1, n) \in Seq(AlteraChars)
        /\ SubSeq(j, n + 1, Len(j)) \in Seq(AlteraChars)
        /\ (g \o SubSeq(j, 1, n)) \o SubSeq(j, n + 1, Len(j)) = g \o j
    <2>1. n \in 1 .. Len(j)
      BY <1>1
    <2> QED BY <1>3, <2>1, MoveFirst, ZenonT(60)
  <1> QED BY <1>1, <1>2, <1>4, <1>5 DEF AlteraInv

LEMMA AlteraKeeps == AlteraInv /\ Altera!Next => AlteraInv'
  <1> SUFFICES ASSUME AlteraInv, Altera!Next PROVE AlteraInv'
    OBVIOUS
  <1> DEFINE s == sock
             t == told
             g == jtagGot
             a == asked
  <1>1. /\ s \in Seq(AlteraChars) /\ t \in Seq(AlteraChars) /\ g \in Seq(AlteraChars)
        /\ a \in Seq(AlteraChars) /\ g \o s = t /\ jtagWire = a
        /\ jtag_to_blank = <<>> /\ blank = "loop" /\ threads = {}
        /\ pc \in {"new", "ready", "closed", "exited"}
    BY DEF AlteraInv
  <1>2. CASE Altera!Fork \/ Altera!Connect \/ Altera!Cleanup \/ Altera!TerminalEnds
    <2>1. /\ UNCHANGED <<sock, told, jtagGot, asked, jtagWire, jtag_to_blank, blank, threads>>
          /\ pc' \in {"new", "ready", "closed", "exited"}
      BY <1>1, <1>2 DEF Altera!Fork, Altera!Connect, Altera!Cleanup, Altera!TerminalEnds,
                        Altera!Streams
    <2> QED BY <1>1, <2>1 DEF AlteraInv
  <1>3. ASSUME NEW c \in AlteraChars, Altera!Write(c)
        PROVE  AlteraInv'
    <2>1. /\ asked' = Append(a, c) /\ jtagWire' = Append(jtagWire, c) /\ pc' = "ready"
          /\ UNCHANGED <<sock, told, jtagGot, jtag_to_blank, blank, threads>>
      BY <1>3 DEF Altera!Write
    <2> HIDE DEF a
    <2>2. Append(a, c) \in Seq(AlteraChars)
      BY <1>1, AppendProperties
    <2> QED BY <1>1, <2>1, <2>2 DEF AlteraInv
  <1>4. ASSUME NEW c \in AlteraChars, Altera!TerminalSends(c)
        PROVE  AlteraInv'
    <2>1. /\ sock' = Append(s, c) /\ told' = Append(t, c)
          /\ UNCHANGED <<asked, jtagWire, jtagGot, jtag_to_blank, blank, threads, pc>>
      BY <1>4 DEF Altera!TerminalSends, Altera!IsData
    <2> HIDE DEF s, t, g
    <2>2. Append(s, c) \in Seq(AlteraChars) /\ Append(t, c) \in Seq(AlteraChars)
      BY <1>1, AppendProperties
    <2>3. g \o Append(s, c) = Append(t, c)
      BY <1>1, PutLast
    <2>4. jtagGot' = g
      BY <2>1 DEF g
    <2> QED BY <1>1, <2>1, <2>2, <2>3, <2>4 DEF AlteraInv
  <1>5. CASE Altera!Read
    BY <1>5, AlteraReadKeeps
  <1>6. ~Altera!InitFork /\ ~Altera!Joined /\ ~Altera!WriteEol
    BY <1>1 DEF Altera!InitFork, Altera!Joined, Altera!WriteEol
  <1>7. /\ ~Altera!ProbeHW /\ ~Altera!BlankRead /\ ~Altera!BlankBlocks /\ ~Altera!BlankTest
        /\ \A x : ~Altera!EndThread(x)
    BY <1>1 DEF Altera!ProbeHW, Altera!BlankRead, Altera!BlankBlocks, Altera!BlankTest,
                Altera!EndThread
  <1> QED BY <1>2, <1>3, <1>4, <1>5, <1>6, <1>7 DEF Altera!Next

LEMMA JtagStutter == UNCHANGED <<part, jtagPart>> /\ JtagInv => JtagInv'
  <1> SUFFICES ASSUME UNCHANGED <<part, jtagPart>>, JtagInv PROVE JtagInv'
    OBVIOUS
  <1>1. UNCHANGED <<part, pc, threads, blank, buf, sock, stale, jtag_to_blank, told, jtagGot,
                    asked, jtagWire>>
    BY DEF jtagPart
  <1>2. LookedAt' = LookedAt
    BY <1>1 DEF LookedAt
  <1>3. XilinxInv => XilinxInv'
    BY <1>1, <1>2 DEF XilinxInv
  <1>4. AlteraInv => AlteraInv'
    BY <1>1 DEF AlteraInv
  <1> QED BY <1>1, <1>3, <1>4 DEF JtagInv

LEMMA JtagKeeps ==
    ASSUME JtagInv, part' = part,
           (part = "xilinx" /\ Xilinx!Next) \/ (part = "altera" /\ Altera!Next)
    PROVE  JtagInv'
  BY XilinxKeeps, AlteraKeeps DEF JtagInv

\* What comes first in a sequence, and what comes then.
LEMMA CutInTwo ==
    ASSUME NEW S, NEW a \in Seq(S), NEW b \in Seq(S)
    PROVE  /\ Len(a) \in 0 .. Len(a \o b)
           /\ SubSeq(a \o b, 1, Len(a)) = a
           /\ SubSeq(a \o b, Len(a) + 1, Len(a \o b)) = b
  <1>1. Len(a \o b) = Len(a) + Len(b) /\ Len(a) \in Nat /\ Len(b) \in Nat
    BY ConcatProperties
  <1>2. SubSeq(a \o b, 1, Len(a)) = a
    BY SubSeqOfConcat1, SubSeqFull, <1>1
  <1>3. SubSeq(a \o b, Len(a) + 1, Len(a \o b)) = b
    BY SubSeqOfConcat2, SubSeqFull, <1>1
  <1> QED BY <1>1, <1>2, <1>3

LEMMA XilinxCorrect == XilinxInv => Xilinx!JtagIntact /\ Xilinx!ThreadsEndFirst
  <1> SUFFICES ASSUME XilinxInv PROVE Xilinx!JtagIntact /\ Xilinx!ThreadsEndFirst
    OBVIOUS
  <1>1. \A s, t : Filtered(XilinxChars, s, t) => Xilinx!WithoutBlanks(s, t)
    BY DEF Filtered, Places, Xilinx!WithoutBlanks, Xilinx!IsData
  <1>2. Xilinx!Arrived = (jtagGot \o jtag_to_blank) \o LookedAt
    BY DEF Xilinx!Arrived, LookedAt, Xilinx!IsData
  <1>3. ASSUME ~stale
        PROVE  \E n \in 0 .. Len(told) :
                    /\ Xilinx!Arrived = SubSeq(told, 1, n)
                    /\ Xilinx!WithoutBlanks(sock, SubSeq(told, n + 1, Len(told)))
    <2> DEFINE v == Xilinx!Arrived
               t == told
    <2>1. PICK rest \in Seq(XilinxChars) :
             v \o rest = t /\ Filtered(XilinxChars, sock, rest)
      BY <1>2, <1>3 DEF XilinxInv
    <2>2. v \in Seq(XilinxChars)
      BY <1>2, XilinxData
    <2> HIDE DEF v, t
    <2>3. /\ Len(v) \in 0 .. Len(t) /\ SubSeq(t, 1, Len(v)) = v
          /\ SubSeq(t, Len(v) + 1, Len(t)) = rest
      <3>1. /\ Len(v) \in 0 .. Len(v \o rest) /\ SubSeq(v \o rest, 1, Len(v)) = v
            /\ SubSeq(v \o rest, Len(v) + 1, Len(v \o rest)) = rest
        BY <2>2, CutInTwo
      <3>2. v \o rest = t
        BY <2>1
      <3> QED BY <3>1, <3>2, Zenon
    <2>4. Xilinx!WithoutBlanks(sock, SubSeq(t, Len(v) + 1, Len(t)))
      BY <1>1, <2>1, <2>3
    <2>5. \E n \in 0 .. Len(t) : v = SubSeq(t, 1, n)
                                 /\ Xilinx!WithoutBlanks(sock, SubSeq(t, n + 1, Len(t)))
      BY <2>3, <2>4, Zenon
    <2> QED BY <2>5 DEF v, t
  <1>4. Xilinx!WithoutBlanks(jtagWire, asked) /\ (pc = "closed" => threads = {})
    BY <1>1 DEF XilinxInv
  <1> QED BY <1>3, <1>4 DEF Xilinx!JtagIntact, Xilinx!ThreadsEndFirst

LEMMA AlteraCorrect == AlteraInv => Altera!JtagIntact /\ Altera!ThreadsEndFirst
  <1> SUFFICES ASSUME AlteraInv PROVE Altera!JtagIntact /\ Altera!ThreadsEndFirst
    OBVIOUS
  <1> DEFINE g == jtagGot
             s == sock
             t == told
  <1>1. \A x, y : Filtered(AlteraChars, x, y) => Altera!WithoutBlanks(x, y)
    BY DEF Filtered, Places, Altera!WithoutBlanks, Altera!IsData
  <1>2. /\ g \in Seq(AlteraChars) /\ s \in Seq(AlteraChars) /\ g \o s = t
        /\ asked \in Seq(AlteraChars) /\ jtagWire = asked /\ threads = {}
        /\ jtag_to_blank = <<>> /\ blank = "loop"
    BY DEF AlteraInv
  <1>3. Altera!Arrived = (g \o <<>>) \o <<>>
    BY <1>2 DEF Altera!Arrived
  <1>4. Altera!WithoutBlanks(jtagWire, asked) /\ Altera!WithoutBlanks(sock, s)
    <2>1. Filtered(AlteraChars, jtagWire, asked) /\ Filtered(AlteraChars, s, s)
      BY <1>2, AllFiltered
    <2> QED BY <1>1, <2>1
  <1>5. \E n \in 0 .. Len(told) :
                    /\ Altera!Arrived = SubSeq(told, 1, n)
                    /\ Altera!WithoutBlanks(sock, SubSeq(told, n + 1, Len(told)))
    <2>1. Altera!WithoutBlanks(sock, s)
      BY <1>4
    <2> HIDE DEF g, s, t
    <2>2. (g \o <<>>) \o <<>> = g
      BY <1>2, ConcatEmptySeq
    <2>3. /\ Len(g) \in 0 .. Len(t) /\ SubSeq(t, 1, Len(g)) = g
          /\ SubSeq(t, Len(g) + 1, Len(t)) = s
      <3>1. g \in Seq(AlteraChars) /\ s \in Seq(AlteraChars) /\ g \o s = t
        BY <1>2
      <3>2. /\ Len(g) \in 0 .. Len(g \o s) /\ SubSeq(g \o s, 1, Len(g)) = g
            /\ SubSeq(g \o s, Len(g) + 1, Len(g \o s)) = s
        BY <3>1, CutInTwo, ZenonT(60)
      <3> QED BY <3>1, <3>2, Zenon
    <2>4. \E n \in 0 .. Len(t) :
                    /\ Altera!Arrived = SubSeq(t, 1, n)
                    /\ Altera!WithoutBlanks(sock, SubSeq(t, n + 1, Len(t)))
      <3>1. Altera!Arrived = SubSeq(t, 1, Len(g))
        BY <1>3, <2>2, <2>3, Zenon
      <3>2. Altera!WithoutBlanks(sock, SubSeq(t, Len(g) + 1, Len(t)))
        BY <2>1, <2>3, Zenon
      <3> QED BY <2>3, <3>1, <3>2, Zenon
    <2> QED BY <2>4 DEF t
  <1> QED BY <1>2, <1>4, <1>5 DEF Altera!JtagIntact, Altera!ThreadsEndFirst

LEMMA JtagCorrect ==
    ASSUME JtagInv
    PROVE  /\ part = "xilinx" => Xilinx!JtagIntact /\ Xilinx!ThreadsEndFirst
           /\ part = "altera" => Altera!JtagIntact /\ Altera!ThreadsEndFirst
  BY XilinxCorrect, AlteraCorrect DEF JtagInv

-----------------------------------------------------------------------------
(* The configuration dictionary: the slots of an array as a map.               *)

UsedIn(K) == {i \in DOMAIN K : K[i] # NULL}
MapOf(K, V) == [k \in {K[i] : i \in UsedIn(K)} |-> V[CHOOSE i \in UsedIn(K) : K[i] = k]]
Apart(K) == \A i, j \in UsedIn(K) : K[i] = K[j] => i = j

FunctionOn(m, D) == m = [x \in D |-> m[x]]

Put(s, i, x) == [s EXCEPT ![i] = x]
With(m, k, v) == [x \in DOMAIN m \cup {k} |-> IF x = k THEN v ELSE m[x]]
Without(m, k) == [x \in DOMAIN m \ {k} |-> m[x]]
Added(s, n) == s \o [i \in 1 .. n |-> NULL]

LEMMA MapAt ==
    ASSUME NEW K, NEW V, Apart(K)
    PROVE  /\ DOMAIN MapOf(K, V) = {K[i] : i \in UsedIn(K)}
           /\ \A i \in UsedIn(K) : MapOf(K, V)[K[i]] = V[i]
  <1>1. ASSUME NEW i \in UsedIn(K)
        PROVE  MapOf(K, V)[K[i]] = V[i]
    <2> DEFINE c == CHOOSE j \in UsedIn(K) : K[j] = K[i]
    <2>1. c \in UsedIn(K) /\ K[c] = K[i]
      OBVIOUS
    <2>2. c = i
      BY <2>1 DEF Apart
    <2> QED BY <2>2 DEF MapOf
  <1> QED BY <1>1 DEF MapOf

\* A map that has the entries of the slots is what they store.
LEMMA MapIs ==
    ASSUME NEW K, NEW V, Apart(K), NEW D, NEW m, FunctionOn(m, D),
           D = {K[i] : i \in UsedIn(K)},
           \A i \in UsedIn(K) : V[i] = m[K[i]]
    PROVE  MapOf(K, V) = m
  <1> DEFINE s == MapOf(K, V)
  <1>1. DOMAIN s = {K[i] : i \in UsedIn(K)} /\ \A i \in UsedIn(K) : s[K[i]] = V[i]
    BY ONLY Apart(K), MapAt
  <1>2. s = [x \in DOMAIN s |-> s[x]]
    BY DEF MapOf
  <1> HIDE DEF s
  <1>3. DOMAIN s = D
    BY <1>1
  <1>4. \A x \in D : s[x] = m[x]
    BY <1>1
  <1>5. s = m
    BY <1>2, <1>3, <1>4 DEF FunctionOn
  <1> QED BY <1>5 DEF s

LEMMA Overwritten ==
    ASSUME NEW K, NEW S, NEW V \in Seq(S), DOMAIN V = DOMAIN K, Apart(K),
           NEW i \in UsedIn(K), NEW v \in S
    PROVE  /\ Put(V, i, v) \in Seq(S) /\ Len(Put(V, i, v)) = Len(V)
           /\ MapOf(K, Put(V, i, v)) = With(MapOf(K, V), K[i], v)
  <1> DEFINE W == [V EXCEPT ![i] = v]
             s == MapOf(K, V)
             D == DOMAIN s \cup {K[i]}
             m == [x \in D |-> IF x = K[i] THEN v ELSE s[x]]
  <1>1. i \in DOMAIN V /\ W \in Seq(S) /\ Len(W) = Len(V)
    BY DEF UsedIn
  <1>2. W[i] = v /\ \A j \in DOMAIN K : j # i => W[j] = V[j]
    BY <1>1
  <1>3. DOMAIN s = {K[j] : j \in UsedIn(K)} /\ \A j \in UsedIn(K) : s[K[j]] = V[j]
    BY ONLY Apart(K), MapAt
  <1>4. UsedIn(K) \subseteq DOMAIN K
    BY DEF UsedIn
  <1> HIDE DEF s, W
  <1>5. D = {K[j] : j \in UsedIn(K)}
    BY <1>3
  <1>6. ASSUME NEW j \in UsedIn(K)
        PROVE  W[j] = m[K[j]]
    <2>1. K[j] \in D
      BY <1>5
    <2>2. CASE j = i
      BY <1>2, <2>1, <2>2
    <2>3. CASE j # i
      <3>1. K[j] # K[i]
        BY <2>3 DEF Apart
      <3> QED BY <1>2, <1>3, <1>4, <2>1, <2>3, <3>1
    <2> QED BY <2>2, <2>3
  <1>7. FunctionOn(m, D)
    BY DEF FunctionOn
  <1> HIDE DEF m, D
  <1>8. MapOf(K, W) = m
    BY <1>5, <1>6, <1>7, MapIs
  <1> QED BY <1>1, <1>8 DEF W, s, m, D, Put, With

LEMMA Inserted ==
    ASSUME NEW A, NEW K \in Seq(A), NEW S, NEW V \in Seq(S), Len(V) = Len(K), Apart(K),
           NEW i \in DOMAIN K, K[i] = NULL, NEW k \in A, k # NULL,
           \A j \in DOMAIN K : K[j] # k, NEW v \in S
    PROVE  /\ Put(K, i, k) \in Seq(A) /\ Len(Put(K, i, k)) = Len(K)
           /\ Put(V, i, v) \in Seq(S) /\ Len(Put(V, i, v)) = Len(V)
           /\ Apart(Put(K, i, k)) /\ i \notin UsedIn(K)
           /\ UsedIn(Put(K, i, k)) = UsedIn(K) \cup {i}
           /\ Put(K, i, k)[i] = k /\ \A j \in UsedIn(K) : Put(K, i, k)[j] = K[j]
           /\ MapOf(Put(K, i, k), Put(V, i, v)) = With(MapOf(K, V), k, v)
  <1> DEFINE L == [K EXCEPT ![i] = k]
             W == [V EXCEPT ![i] = v]
             s == MapOf(K, V)
             D == DOMAIN s \cup {k}
             m == [x \in D |-> IF x = k THEN v ELSE s[x]]
  <1>1. /\ DOMAIN V = DOMAIN K /\ DOMAIN L = DOMAIN K
        /\ L \in Seq(A) /\ Len(L) = Len(K) /\ W \in Seq(S) /\ Len(W) = Len(V)
    OBVIOUS
  <1>2. W[i] = v /\ \A j \in DOMAIN K : j # i => W[j] = V[j]
    BY <1>1
  <1>3. L[i] = k /\ \A j \in DOMAIN K : j # i => L[j] = K[j]
    BY <1>1
  <1>4. DOMAIN s = {K[j] : j \in UsedIn(K)} /\ \A j \in UsedIn(K) : s[K[j]] = V[j]
    BY ONLY Apart(K), MapAt
  <1> HIDE DEF s, W, L
  <1>5. UsedIn(L) = UsedIn(K) \cup {i} /\ i \notin UsedIn(K) /\ UsedIn(K) \subseteq DOMAIN K
    BY <1>1, <1>3 DEF UsedIn
  <1>6. \A j \in UsedIn(K) : L[j] = K[j] /\ W[j] = V[j] /\ K[j] # k
    BY <1>2, <1>3, <1>5
  <1>7. Apart(L)
    BY <1>3, <1>5, <1>6 DEF Apart
  <1>8. D = {L[j] : j \in UsedIn(L)}
    BY <1>3, <1>4, <1>5, <1>6
  <1>9. ASSUME NEW j \in UsedIn(L)
        PROVE  W[j] = m[L[j]]
    <2>1. L[j] \in D
      BY <1>8
    <2>2. CASE j = i
      BY <1>2, <1>3, <2>1, <2>2
    <2>3. CASE j # i
      BY <1>4, <1>5, <1>6, <2>1, <2>3
    <2> QED BY <2>2, <2>3
  <1>10. FunctionOn(m, D)
    BY DEF FunctionOn
  <1> HIDE DEF m, D
  <1>11. MapOf(L, W) = m
    BY <1>7, <1>8, <1>9, <1>10, MapIs
  <1> QED BY <1>1, <1>3, <1>5, <1>6, <1>7, <1>11 DEF W, L, s, m, D, Put, With

LEMMA Removed ==
    ASSUME NEW A, NEW K \in Seq(A), NEW S, NEW V \in Seq(S), Len(V) = Len(K), Apart(K),
           NEW i \in UsedIn(K), NULL \in A, NULL \in S
    PROVE  /\ Put(K, i, NULL) \in Seq(A) /\ Len(Put(K, i, NULL)) = Len(K)
           /\ Put(V, i, NULL) \in Seq(S) /\ Len(Put(V, i, NULL)) = Len(V)
           /\ Apart(Put(K, i, NULL)) /\ UsedIn(Put(K, i, NULL)) = UsedIn(K) \ {i}
           /\ MapOf(Put(K, i, NULL), Put(V, i, NULL)) = Without(MapOf(K, V), K[i])
  <1> DEFINE L == [K EXCEPT ![i] = NULL]
             W == [V EXCEPT ![i] = NULL]
             s == MapOf(K, V)
             D == DOMAIN s \ {K[i]}
             m == [x \in D |-> s[x]]
  <1>0. i \in DOMAIN K /\ UsedIn(K) \subseteq DOMAIN K
    BY DEF UsedIn
  <1>1. /\ DOMAIN V = DOMAIN K /\ DOMAIN L = DOMAIN K
        /\ L \in Seq(A) /\ Len(L) = Len(K) /\ W \in Seq(S) /\ Len(W) = Len(V)
    BY <1>0
  <1>2. \A j \in DOMAIN K : j # i => L[j] = K[j] /\ W[j] = V[j]
    BY <1>1
  <1>3. L[i] = NULL
    BY <1>0
  <1>4. DOMAIN s = {K[j] : j \in UsedIn(K)} /\ \A j \in UsedIn(K) : s[K[j]] = V[j]
    BY ONLY Apart(K), MapAt
  <1> HIDE DEF s, W, L
  <1>5. UsedIn(L) = UsedIn(K) \ {i}
    BY <1>1, <1>2, <1>3 DEF UsedIn
  <1>6. \A j \in UsedIn(L) : L[j] = K[j] /\ W[j] = V[j] /\ K[j] # K[i]
    BY <1>0, <1>2, <1>5 DEF Apart
  <1>7. Apart(L)
    BY <1>5, <1>6 DEF Apart
  <1>8. D = {L[j] : j \in UsedIn(L)}
    BY <1>4, <1>5, <1>6
  <1>9. \A j \in UsedIn(L) : W[j] = m[L[j]]
    BY <1>4, <1>5, <1>6, <1>8
  <1>10. FunctionOn(m, D)
    BY DEF FunctionOn
  <1> HIDE DEF m, D
  <1>11. MapOf(L, W) = m
    BY <1>7, <1>8, <1>9, <1>10, MapIs
  <1> QED BY <1>1, <1>5, <1>7, <1>11 DEF W, L, s, m, D, Put, Without

\* Growing the array leaves its entries where they are.
LEMMA Doubled ==
    ASSUME NEW A, NEW K \in Seq(A), NEW S, NEW V \in Seq(S), Len(V) = Len(K), Apart(K),
           NULL \in A, NULL \in S
    PROVE  LET L == Added(K, Len(K))
               W == Added(V, Len(K))
           IN  /\ L \in Seq(A) /\ Len(L) = Len(K) + Len(K) /\ W \in Seq(S) /\ Len(W) = Len(L)
               /\ Apart(L) /\ UsedIn(L) = UsedIn(K) /\ MapOf(L, W) = MapOf(K, V)
               /\ (\A i \in DOMAIN K : L[i] = K[i])
               /\ (\A i \in DOMAIN L \ DOMAIN K : L[i] = NULL)
  <1> DEFINE more == [i \in 1 .. Len(K) |-> NULL]
             L == K \o more
             W == V \o more
             s == MapOf(K, V)
             n == Len(K)
  <1>1. n \in Nat /\ more \in Seq(A) /\ more \in Seq(S) /\ Len(more) = n
    OBVIOUS
  <1>2. L \in Seq(A) /\ Len(L) = n + n /\ W \in Seq(S) /\ Len(W) = n + n
    BY <1>1
  <1>3. /\ \A i \in 1 .. n : L[i] = K[i] /\ W[i] = V[i]
        /\ \A i \in 1 .. n + n : i > n => L[i] = NULL
    BY <1>1
  <1>4. DOMAIN K = 1 .. n /\ DOMAIN L = 1 .. n + n
    BY <1>2
  <1>5. DOMAIN s = {K[j] : j \in UsedIn(K)} /\ \A j \in UsedIn(K) : s[K[j]] = V[j]
    BY ONLY Apart(K), MapAt
  <1>6. FunctionOn(s, DOMAIN s)
    BY DEF MapOf, FunctionOn
  <1> HIDE DEF L, W, n, s
  <1>7. UsedIn(L) = UsedIn(K) /\ UsedIn(K) \subseteq 1 .. n
    BY <1>1, <1>3, <1>4 DEF UsedIn
  <1>8. Apart(L)
    BY <1>3, <1>7 DEF Apart
  <1>9. DOMAIN s = {L[i] : i \in UsedIn(L)}
    BY <1>3, <1>5, <1>7
  <1>10. \A i \in UsedIn(L) : W[i] = s[L[i]]
    BY <1>3, <1>5, <1>7
  <1>11. MapOf(L, W) = s
    BY <1>6, <1>8, <1>9, <1>10, MapIs
  <1>12. \A i \in DOMAIN L \ DOMAIN K : L[i] = NULL
    BY <1>1, <1>3, <1>4
  <1> QED BY <1>2, <1>3, <1>4, <1>7, <1>8, <1>11, <1>12 DEF L, W, n, s, Added

LEMMA SameCardinality == \A S : Ini!Cardinality(S) = Cardinality(S)
  BY DEF Ini!Cardinality, Cardinality

LEMMA FirstIsLeast ==
    ASSUME NEW S \in SUBSET Nat, S # {}
    PROVE  Ini!First(S) \in S /\ \A j \in S : Ini!First(S) <= j
  <1> DEFINE R == OpToRel(<, Nat)
  <1>1. IsWellFoundedOn(R, Nat)
    BY NatLessThanWellFounded
  <1>2. \A j, k \in Nat : k < j => <<k, j>> \in R
    BY DEF OpToRel
  <1> HIDE DEF R
  <1>3. PICK i \in S : \A j \in S : ~(<<j, i>> \in R)
    BY <1>1, WFMin
  <1>4. \A j \in S : i <= j
    <2> TAKE j \in S
    <2>1. j \in Nat /\ i \in Nat /\ ~(j < i)
      BY <1>2, <1>3
    <2> QED BY <2>1
  <1> QED BY <1>4 DEF Ini!First

KeyOrNull == Ini!Keys \cup {NULL}
Concats(S) == {a \o b : a, b \in S}
IniValues == {NULL, <<>>} \cup Ini!ReadTexts \cup Concats(Ini!ReadTexts)

\* The slots hold names and values, each name once, and their number is counted.
DictTyped ==
    /\ d \in [n : Nat, key : Seq(KeyOrNull), val : Seq(IniValues)]
    /\ Len(d.val) = Len(d.key) /\ Len(d.key) > 0
DictInv ==
    /\ DictTyped /\ Apart(d.key)
    /\ IsFiniteSet(UsedIn(d.key)) /\ d.n = Cardinality(UsedIn(d.key))

LEMMA DictOperators ==
    /\ Ini!Slots = DOMAIN d.key /\ Ini!Used = UsedIn(d.key) /\ Ini!View = MapOf(d.key, d.val)
    /\ \A k : Ini!Find(k) = {i \in DOMAIN d.key : d.key[i] = k}
  BY DEF Ini!Slots, Ini!Used, Ini!View, Ini!Find, UsedIn, MapOf

LEMMA DictTypes ==
    ASSUME DictInv
    PROVE  /\ d.key \in Seq(KeyOrNull) /\ d.val \in Seq(IniValues) /\ d.n \in Nat
           /\ Len(d.key) \in Nat \ {0} /\ DOMAIN d.key = 1 .. Len(d.key)
           /\ Len(d.val) = Len(d.key) /\ DOMAIN d.val = DOMAIN d.key
           /\ UsedIn(d.key) \subseteq 1 .. Len(d.key)
           /\ Apart(d.key) /\ IsFiniteSet(UsedIn(d.key)) /\ d.n = Cardinality(UsedIn(d.key))
  BY DEF DictInv, DictTyped, UsedIn

\* A name that is found is in the one slot that is found.
LEMMA FoundOnce ==
    ASSUME DictInv, NEW k \in Ini!Keys, Ini!Find(k) # {}
    PROVE  /\ Ini!First(Ini!Find(k)) \in UsedIn(d.key)
           /\ d.key[Ini!First(Ini!Find(k))] = k
           /\ d.n > 0
  <1> DEFINE i == Ini!First(Ini!Find(k))
  <1>1. Ini!Find(k) = {j \in 1 .. Len(d.key) : d.key[j] = k} /\ Len(d.key) \in Nat
    BY DictOperators, DictTypes
  <1>2. Ini!Find(k) \in SUBSET Nat
    BY <1>1
  <1>3. i \in Ini!Find(k)
    BY <1>2, FirstIsLeast
  <1>4. k # NULL
    BY IniAssumption
  <1>5. i \in UsedIn(d.key) /\ d.key[i] = k
    BY <1>1, <1>3, <1>4, DictTypes DEF UsedIn
  <1>6. d.n # 0
    BY <1>5, DictTypes, FS_EmptySet
  <1>7. d.n > 0
    BY <1>6, DictTypes
  <1> QED BY <1>5, <1>7

\* The array has an empty slot when it is not counted full.
LEMMA EmptySlot ==
    ASSUME DictInv, d.n # Len(d.key)
    PROVE  \E i \in 1 .. Len(d.key) : d.key[i] = NULL
  <1> SUFFICES ASSUME \A i \in 1 .. Len(d.key) : d.key[i] # NULL PROVE FALSE
    OBVIOUS
  <1>1. UsedIn(d.key) = 1 .. Len(d.key)
    BY DictTypes DEF UsedIn
  <1>2. Cardinality(1 .. Len(d.key)) = Len(d.key)
    <2> DEFINE m == Len(d.key)
    <2>1. m \in Nat \ {0}
      BY DictTypes
    <2> HIDE DEF m
    <2>2. Cardinality(1 .. m) = m
      BY <2>1, FS_Interval
    <2> QED BY <2>2 DEF m
  <1> QED BY <1>1, <1>2, DictTypes

\* The array to which an entry is added holds the same entries and has room.
LEMMA GrownHasRoom ==
    ASSUME DictInv
    PROVE  LET g == Ini!Grown
           IN  /\ g = [n |-> d.n, key |-> g.key, val |-> g.val]
               /\ g.key \in Seq(KeyOrNull) /\ g.val \in Seq(IniValues)
               /\ Len(g.val) = Len(g.key) /\ Len(g.key) \in Nat \ {0}
               /\ Apart(g.key) /\ UsedIn(g.key) = UsedIn(d.key)
               /\ MapOf(g.key, g.val) = MapOf(d.key, d.val)
               /\ \A i \in UsedIn(d.key) : g.key[i] = d.key[i]
               /\ \E i \in 1 .. Len(g.key) : g.key[i] = NULL
  <1> DEFINE K == d.key
             V == d.val
             n == Len(K)
             L == Added(K, n)
             W == Added(V, n)
  <1>1. /\ K \in Seq(KeyOrNull) /\ V \in Seq(IniValues) /\ Len(V) = Len(K) /\ n \in Nat \ {0}
        /\ Apart(K) /\ UsedIn(K) \subseteq 1 .. n /\ DOMAIN K = 1 .. n
    BY DictTypes
  <1>2. d = [n |-> d.n, key |-> K, val |-> V]
    BY DEF DictInv, DictTyped
  <1>3. CASE d.n # Len(d.key)
    <2>1. Ini!Grown = d
      BY <1>3 DEF Ini!Grown
    <2> QED BY <1>1, <1>2, <1>3, <2>1, EmptySlot
  <1>4. CASE d.n = Len(d.key)
    <2>1. Ini!Grown = [n |-> d.n, key |-> L, val |-> W]
      BY <1>2, <1>4 DEF Ini!Grown, Added
    <2> HIDE DEF K, V
    <2>2. NULL \in KeyOrNull /\ NULL \in IniValues
      BY DEF KeyOrNull, IniValues
    <2>3. /\ L \in Seq(KeyOrNull) /\ Len(L) = n + n /\ W \in Seq(IniValues) /\ Len(W) = Len(L)
          /\ Apart(L) /\ UsedIn(L) = UsedIn(K) /\ MapOf(L, W) = MapOf(K, V)
          /\ (\A i \in DOMAIN K : L[i] = K[i]) /\ (\A i \in DOMAIN L \ DOMAIN K : L[i] = NULL)
      BY <1>1, <2>2, Doubled
    <2> HIDE DEF n, L, W
    <2>4. DOMAIN L = 1 .. n + n
      BY <2>3
    <2>5. n + 1 \in 1 .. n + n /\ n + 1 \notin 1 .. n
      BY <1>1
    <2>6. L[n + 1] = NULL
      BY <1>1, <2>3, <2>4, <2>5
    <2>7. \A i \in UsedIn(K) : L[i] = K[i]
      BY <1>1, <2>3
    <2>8. n + n \in Nat \ {0}
      BY <1>1
    <2>9. \E i \in 1 .. Len(L) : L[i] = NULL
      BY <2>3, <2>5, <2>6
    <2> QED BY <1>1, <2>1, <2>3, <2>7, <2>8, <2>9 DEF K, V
  <1> QED BY <1>3, <1>4

\* dictionary_set changes the value of one name, in its slot or in the first empty one.
LEMMA DictionarySet ==
    ASSUME DictInv, NEW k \in Ini!Keys, NEW v \in IniValues, d' = Ini!dictionary_set(k, v)
    PROVE  /\ DictInv' /\ Ini!Map!Set(k, v)
           /\ \A i \in UsedIn(d.key) : i \in UsedIn(d'.key) /\ d'.key[i] = d.key[i]
           /\ \A i \in UsedIn(d'.key) \ UsedIn(d.key) :
                 /\ d'.key[i] = k /\ i \in Nat \ {0} /\ \A j \in 1 .. i - 1 : j \in UsedIn(d.key)
                 /\ \A j \in UsedIn(d.key) : d.key[j] # k
  <1>0. k # NULL /\ k \in KeyOrNull
    BY IniAssumption DEF KeyOrNull
  <1>1. /\ Ini!View = MapOf(d.key, d.val) /\ (Ini!View)' = MapOf(d'.key, d'.val)
    BY DictOperators DEF Ini!View, Ini!Used, Ini!Slots, MapOf, UsedIn
  <1>2. CASE Ini!Find(k) # {}
    <2> DEFINE i == Ini!First(Ini!Find(k))
               K == d.key
               V == d.val
               W == Put(V, i, v)
    <2>1. i \in UsedIn(K) /\ K[i] = k /\ d.n > 0
      BY <1>2, FoundOnce
    <2>2. /\ K \in Seq(KeyOrNull) /\ V \in Seq(IniValues) /\ Len(V) = Len(K)
          /\ DOMAIN V = DOMAIN K /\ Apart(K)
      BY DictTypes
    <2>3. d' = [d EXCEPT !.val[i] = v]
      BY <1>2, <2>1 DEF Ini!dictionary_set
    <2>4. d = [n |-> d.n, key |-> K, val |-> V]
      BY DEF DictInv, DictTyped
    <2>5. d' = [n |-> d.n, key |-> K, val |-> W]
      BY <2>3, <2>4 DEF Put
    <2> HIDE DEF i
    <2>6. /\ W \in Seq(IniValues) /\ Len(W) = Len(V)
          /\ MapOf(K, W) = With(MapOf(K, V), K[i], v)
      <3> HIDE DEF K, V
      <3> QED BY <2>1, <2>2, Overwritten
    <2> HIDE DEF W
    <2>7. d'.n = d.n /\ d'.key = K /\ d'.val = W
      BY <2>5
    <2>8. DictInv'
      BY <2>2, <2>5, <2>6, <2>7 DEF DictInv, DictTyped
    <2>9. Ini!Map!Set(k, v)
      BY <1>1, <2>1, <2>6, <2>7 DEF Ini!Map!Set, With
    <2> QED BY <2>7, <2>8, <2>9
  <1>3. CASE Ini!Find(k) = {}
    <2> DEFINE g == Ini!Grown
               K == g.key
               V == g.val
               E == {j \in DOMAIN K : K[j] = NULL}
               i == Ini!First(E)
               L == Put(K, i, k)
               W == Put(V, i, v)
               s == MapOf(d.key, d.val)
    <2>1. /\ g = [n |-> d.n, key |-> K, val |-> V]
          /\ K \in Seq(KeyOrNull) /\ V \in Seq(IniValues) /\ Len(V) = Len(K)
          /\ Len(K) \in Nat \ {0} /\ Apart(K) /\ UsedIn(K) = UsedIn(d.key)
          /\ MapOf(K, V) = s
          /\ \A j \in UsedIn(d.key) : K[j] = d.key[j]
          /\ \E j \in 1 .. Len(K) : K[j] = NULL
      BY GrownHasRoom
    <2>2. d' = [g EXCEPT !.n = @ + 1, !.key[i] = k, !.val[i] = v]
      BY <1>3 DEF Ini!dictionary_set
    <2> HIDE DEF g, K, V
    <2>3. d' = [n |-> d.n + 1, key |-> L, val |-> W]
      <3> HIDE DEF i, E
      <3> QED BY <2>1, <2>2 DEF Put
    <2>4. DOMAIN K = 1 .. Len(K) /\ E \in SUBSET Nat /\ E # {}
      BY <2>1
    <2> HIDE DEF E
    <2>5. i \in E /\ \A j \in E : i <= j
      BY <2>4, FirstIsLeast
    <2> HIDE DEF i
    <2>6. i \in DOMAIN K /\ K[i] = NULL
      BY <2>5 DEF E
    <2>7. \A j \in DOMAIN K : K[j] # k
      <3>1. \A j \in UsedIn(d.key) : d.key[j] # k
        BY <1>3, DictOperators DEF UsedIn
      <3>2. \A j \in UsedIn(K) : K[j] # k
        BY <2>1, <3>1
      <3> QED BY <1>0, <3>2 DEF UsedIn
    <2>8. /\ L \in Seq(KeyOrNull) /\ Len(L) = Len(K) /\ W \in Seq(IniValues) /\ Len(W) = Len(V)
          /\ Apart(L) /\ UsedIn(L) = UsedIn(K) \cup {i} /\ i \notin UsedIn(K)
          /\ L[i] = k /\ (\A j \in UsedIn(K) : L[j] = K[j])
          /\ MapOf(L, W) = With(MapOf(K, V), k, v)
      <3>1. K \in Seq(KeyOrNull) /\ V \in Seq(IniValues) /\ Len(V) = Len(K) /\ Apart(K)
        BY <2>1
      <3> HIDE DEF L, W
      <3>2. /\ Put(K, i, k) \in Seq(KeyOrNull) /\ Len(Put(K, i, k)) = Len(K)
            /\ Put(V, i, v) \in Seq(IniValues) /\ Len(Put(V, i, v)) = Len(V)
            /\ Apart(Put(K, i, k)) /\ i \notin UsedIn(K)
            /\ UsedIn(Put(K, i, k)) = UsedIn(K) \cup {i}
            /\ Put(K, i, k)[i] = k /\ \A j \in UsedIn(K) : Put(K, i, k)[j] = K[j]
            /\ MapOf(Put(K, i, k), Put(V, i, v)) = With(MapOf(K, V), k, v)
        BY <1>0, <2>6, <2>7, <3>1, Inserted, SMTT(30)
      <3> QED BY <3>2 DEF L, W
    <2> HIDE DEF L, W, s
    <2>9. d'.n = d.n + 1 /\ d'.key = L /\ d'.val = W
      BY <2>3
    <2>10. IsFiniteSet(UsedIn(L)) /\ Cardinality(UsedIn(L)) = d.n + 1
      <3> DEFINE U == UsedIn(K)
      <3>1. IsFiniteSet(U) /\ Cardinality(U) = d.n /\ UsedIn(L) = U \cup {i} /\ i \notin U
        BY <2>1, <2>8, DictTypes
      <3> HIDE DEF U
      <3> QED BY <3>1, FS_AddElement
    <2>11. DictInv'
      <3>1. d.n + 1 \in Nat
        BY DictTypes
      <3>2. DictTyped'
        BY <2>1, <2>3, <2>8, <2>9, <3>1 DEF DictTyped
      <3> QED BY <2>8, <2>9, <2>10, <3>2 DEF DictInv
    <2>12. Ini!Map!Set(k, v)
      BY <1>1, <2>1, <2>8, <2>9 DEF Ini!Map!Set, With, s
    <2>13. ASSUME NEW j \in 1 .. i - 1 PROVE j \in UsedIn(d.key)
      <3>1. i \in 1 .. Len(K)
        BY <2>4, <2>6
      <3>2. j \in 1 .. Len(K) /\ ~(i <= j)
        BY <2>1, <3>1
      <3>3. j \notin E
        BY <2>5, <3>2
      <3> QED BY <2>1, <2>4, <3>2, <3>3 DEF E, UsedIn
    <2>14. i \in Nat \ {0}
      BY <2>1, <2>4, <2>6
    <2>15. \A j \in UsedIn(d.key) : d.key[j] # k
      BY <1>3, DictOperators DEF UsedIn
    <2> QED BY <2>1, <2>8, <2>9, <2>11, <2>12, <2>13, <2>14, <2>15
  <1> QED BY <1>2, <1>3

LEMMA DictionaryUnset ==
    ASSUME DictInv, NEW k \in Ini!Keys, Ini!Find(k) # {}, d' = Ini!dictionary_unset(k)
    PROVE  DictInv' /\ Ini!Map!Unset(k)
  <1> DEFINE i == Ini!First(Ini!Find(k))
             K == d.key
             V == d.val
             L == Put(K, i, NULL)
             W == Put(V, i, NULL)
  <1>1. i \in UsedIn(K) /\ K[i] = k /\ d.n > 0
    BY FoundOnce
  <1>2. /\ K \in Seq(KeyOrNull) /\ V \in Seq(IniValues) /\ Len(V) = Len(K)
        /\ Apart(K) /\ d.n \in Nat /\ Len(K) \in Nat \ {0}
        /\ IsFiniteSet(UsedIn(K)) /\ d.n = Cardinality(UsedIn(K))
    BY DictTypes
  <1>3. d' = [d EXCEPT !.n = @ - 1, !.key[i] = NULL, !.val[i] = NULL]
    BY DEF Ini!dictionary_unset
  <1>4. d = [n |-> d.n, key |-> K, val |-> V]
    BY DEF DictInv, DictTyped
  <1>5. d' = [n |-> d.n - 1, key |-> L, val |-> W]
    <2> HIDE DEF i
    <2> QED BY <1>3, <1>4 DEF Put
  <1>6. NULL \in KeyOrNull /\ NULL \in IniValues
    BY DEF KeyOrNull, IniValues
  <1> HIDE DEF i
  <1>7. /\ L \in Seq(KeyOrNull) /\ Len(L) = Len(K) /\ W \in Seq(IniValues) /\ Len(W) = Len(V)
        /\ Apart(L) /\ UsedIn(L) = UsedIn(K) \ {i}
        /\ MapOf(L, W) = Without(MapOf(K, V), K[i])
    <2> HIDE DEF K, V
    <2> QED BY <1>1, <1>2, <1>6, Removed
  <1> HIDE DEF L, W
  <1>8. d'.n = d.n - 1 /\ d'.key = L /\ d'.val = W
    BY <1>5
  <1>9. IsFiniteSet(UsedIn(L)) /\ Cardinality(UsedIn(L)) = d.n - 1
    BY <1>1, <1>2, <1>7, FS_RemoveElement
  <1>10. DictInv'
    <2>1. d.n - 1 \in Nat
      BY <1>1, <1>2
    <2> QED BY <1>2, <1>5, <1>7, <1>8, <1>9, <2>1 DEF DictInv, DictTyped
  <1>11. /\ Ini!View = MapOf(d.key, d.val) /\ (Ini!View)' = MapOf(d'.key, d'.val)
    BY DictOperators DEF Ini!View, Ini!Used, Ini!Slots, MapOf, UsedIn
  <1>12. Ini!Map!Unset(k)
    BY <1>1, <1>7, <1>8, <1>11 DEF Ini!Map!Unset, Without
  <1> QED BY <1>10, <1>12

-----------------------------------------------------------------------------
(* Reading the configuration file.                                             *)

\* Line n of the file is continued by the next one.
Continues(n) == n > 0 /\ file[n].kind = "continued"

\* The entries of the first n lines, and those among them that are not there before.
Seen(n) == {i \in Ini!Entries : i <= n /\ (file[i].kind = "continued" => i < n)}
Firsts(n) == {i \in Seen(n) : \A j \in Seen(n) : Ini!EntryAt(j) = Ini!EntryAt(i) => i <= j}

\* The dictionary holds what the lines read so far say, in the order of their entries
\* and without gaps.
Latest == \A i \in Seen(lineno) :
              (\A j \in Seen(lineno) : Ini!EntryAt(j) = Ini!EntryAt(i) => j <= i)
                  => Ini!View[Ini!EntryAt(i)] = Ini!TextAt(i)
Ordered == \A a, b \in UsedIn(d.key), i, j \in Firsts(lineno) :
              d.key[a] = Ini!EntryAt(i) /\ d.key[b] = Ini!EntryAt(j) /\ i < j => a < b
Loaded ==
    /\ section = Ini!SectionAt(lineno)
    /\ last = IF Continues(lineno) THEN file[lineno] ELSE NULL
    /\ DOMAIN Ini!View = {Ini!EntryAt(i) : i \in Seen(lineno)}
    /\ Latest
    /\ UsedIn(d.key) = 1 .. d.n
    /\ Ordered

IniInv ==
    /\ DictInv
    /\ file \in Files /\ lineno \in 0 .. Len(file) /\ section \in Ini!Words \cup {NULL}
    /\ status \in {"load", "ready", "null"}
    /\ status = "load" => ~edited
    /\ status = "ready" => lineno = Len(file)
    /\ status # "null" /\ ~edited => Loaded

LEMMA FileTypes ==
    ASSUME IniInv
    PROVE  /\ Len(file) \in Nat /\ lineno \in Nat /\ DOMAIN file = 1 .. Len(file)
           /\ \A i \in 1 .. Len(file) :
                 /\ file[i] \in Lines /\ file[i].kind \in Kinds /\ file[i] # NULL
                 /\ Ini!strlwc(file[i].name) \in Ini!Words /\ file[i].text \in Ini!ReadTexts
           /\ \A i \in 1 .. Len(file) - 1 :
                 file[i].kind = "continued" => file[i + 1].kind # "continued"
  <1>1. file \in Files /\ file \in Seq(Lines) /\ lineno \in 0 .. Len(file)
    BY IniAssumption DEF IniInv
  <1>2. Len(file) \in Nat /\ DOMAIN file = 1 .. Len(file)
    BY <1>1
  <1>3. ASSUME NEW i \in 1 .. Len(file)
        PROVE  /\ file[i] \in Lines /\ file[i].kind \in Kinds /\ file[i] # NULL
               /\ Ini!strlwc(file[i].name) \in Ini!Words /\ file[i].text \in Ini!ReadTexts
    <2>1. file[i] \in Lines
      BY <1>1, ElementOfSeq
    <2>2. file[i].kind \in Kinds /\ file[i].name \in Names /\ file[i] # NULL
      BY <2>1, IniAssumption DEF Lines
    <2>3. file[i].text \in Ini!ReadTexts
      BY <1>1, <1>2 DEF Ini!ReadTexts
    <2> QED BY <2>1, <2>2, <2>3 DEF Ini!Words
  <1> QED BY <1>1, <1>2, <1>3, IniAssumption

\* The section that the last of the lines S of a file begins.
LastOf(f, S) == IF S = {} THEN NULL
                ELSE Ini!strlwc(f[CHOOSE j \in S : \A k \in S : k <= j].name)
Headings(n) == {j \in 1 .. n : file[j].kind = "section" /\ Ini!Begins(j)}

LEMMA SectionOf == \A n : Ini!SectionAt(n) = LastOf(file, Headings(n))
  BY DEF Ini!SectionAt, LastOf, Headings

LEMMA SectionGoesOn ==
    ASSUME IniInv, NEW i \in 1 .. Len(file)
    PROVE  Ini!SectionAt(i) = IF file[i].kind = "section" /\ Ini!Begins(i)
                              THEN Ini!strlwc(file[i].name) ELSE Ini!SectionAt(i - 1)
  <1> DEFINE P(j) == file[j].kind = "section" /\ Ini!Begins(j)
             S == {j \in 1 .. i : P(j)}
             T == {j \in 1 .. i - 1 : P(j)}
  <1>1. i \in Nat \ {0}
    BY FileTypes
  <1>2. Ini!SectionAt(i) = LastOf(file, S) /\ Ini!SectionAt(i - 1) = LastOf(file, T)
    BY SectionOf DEF Headings
  <1>3. CASE P(i)
    <2> DEFINE c == CHOOSE j \in S : \A k \in S : k <= j
    <2>1. i \in S /\ S \subseteq 1 .. i
      BY <1>1, <1>3
    <2> HIDE DEF S, P
    <2>2. \A k \in S : k <= i
      BY <1>1, <2>1
    <2>3. c \in S /\ \A k \in S : k <= c
      BY <2>1, <2>2
    <2> HIDE DEF c
    <2>4. c = i
      <3>1. c \in 1 .. i /\ i <= c
        BY <2>1, <2>3
      <3> QED BY <1>1, <3>1
    <2>5. Ini!SectionAt(i) = Ini!strlwc(file[i].name)
      BY <1>2, <2>1, <2>4 DEF c, LastOf
    <2> QED BY <1>3, <2>5 DEF P
  <1>4. CASE ~P(i)
    <2> HIDE DEF P
    <2>1. S = T
      <3>1. \A j : j \in 1 .. i <=> j \in 1 .. i - 1 \/ j = i
        BY <1>1
      <3> QED BY <1>4, <3>1
    <2>2. Ini!SectionAt(i) = Ini!SectionAt(i - 1)
      BY <1>2, <2>1
    <2> QED BY <1>4, <2>2 DEF P
  <1> QED BY <1>3, <1>4

LEMMA NoSectionAtFirst == Ini!SectionAt(0) = NULL
  <1>1. Headings(0) = {}
    BY DEF Headings
  <1> QED BY <1>1, SectionOf DEF LastOf

LEMMA FileStays ==
    ASSUME file' = file
    PROVE  /\ (Ini!Entries)' = Ini!Entries
           /\ \A i : Ini!EntryAt(i)' = Ini!EntryAt(i) /\ Ini!TextAt(i)' = Ini!TextAt(i)
           /\ \A n : Seen(n)' = Seen(n) /\ Firsts(n)' = Firsts(n) /\ Continues(n)' = Continues(n)
           /\ \A n : Ini!SectionAt(n)' = Ini!SectionAt(n)
  <1>1. \A i : Ini!Begins(i)' = Ini!Begins(i)
    BY DEF Ini!Begins
  <1>2. \A n : Ini!SectionAt(n)' = Ini!SectionAt(n)
    <2>1. \A n : Headings(n)' = Headings(n)
      BY <1>1 DEF Headings
    <2>2. \A n : Ini!SectionAt(n)' = LastOf(file', Headings(n)')
      BY DEF Ini!SectionAt, LastOf, Headings
    <2> QED BY <2>1, <2>2, SectionOf
  <1>3. /\ (Ini!Entries)' = Ini!Entries
        /\ \A i : Ini!EntryAt(i)' = Ini!EntryAt(i) /\ Ini!TextAt(i)' = Ini!TextAt(i)
    BY <1>1, <1>2 DEF Ini!Entries, Ini!EntryAt, Ini!TextAt
  <1>4. \A n : Seen(n)' = Seen(n) /\ Continues(n)' = Continues(n)
    BY <1>3 DEF Seen, Continues
  <1>5. \A n : Firsts(n)' = Firsts(n)
    BY <1>3, <1>4 DEF Firsts
  <1> QED BY <1>2, <1>3, <1>4, <1>5

LEMMA NextLine ==
    ASSUME file' = file, NEW m, lineno' = m
    PROVE  /\ (Seen(lineno))' = Seen(m) /\ (Firsts(lineno))' = Firsts(m)
           /\ Continues(lineno)' = Continues(m) /\ (Ini!SectionAt(lineno))' = Ini!SectionAt(m)
           /\ (file[lineno])' = file[m]
  <1>1. (Seen(lineno))' = Seen(m)
    BY FileStays DEF Seen
  <1>2. (Firsts(lineno))' = Firsts(m)
    BY <1>1, FileStays DEF Firsts
  <1>3. Continues(lineno)' = Continues(m) /\ (file[lineno])' = file[m]
    BY DEF Continues
  <1>4. (Ini!SectionAt(lineno))' = Ini!SectionAt(m)
    <2>1. (Headings(lineno))' = Headings(m)
      BY DEF Headings, Ini!Begins
    <2>2. (Ini!SectionAt(lineno))' = LastOf(file', (Headings(lineno))')
      BY DEF Ini!SectionAt, LastOf, Headings
    <2> QED BY <2>1, <2>2, SectionOf
  <1> QED BY <1>1, <1>2, <1>3, <1>4

\* A step that reads a line without an entry.
LEMMA LineSkipped ==
    ASSUME IniInv, Loaded, file' = file, NEW n, n = lineno, NEW m, lineno' = m, d' = d,
           Seen(m) = Seen(n),
           section' = Ini!SectionAt(m), last' = IF Continues(m) THEN file[m] ELSE NULL
    PROVE  Loaded'
  <1>1. /\ (Seen(lineno))' = Seen(n) /\ (Firsts(lineno))' = Firsts(n)
        /\ Continues(lineno)' = Continues(m) /\ (Ini!SectionAt(lineno))' = Ini!SectionAt(m)
        /\ (file[lineno])' = file[m]
    BY NextLine DEF Firsts
  <1>2. \A i : Ini!EntryAt(i)' = Ini!EntryAt(i) /\ Ini!TextAt(i)' = Ini!TextAt(i)
    BY FileStays
  <1>3. (Ini!View)' = Ini!View /\ (UsedIn(d.key))' = UsedIn(d.key)
    BY DEF Ini!View, Ini!Used, Ini!Slots, UsedIn
  <1>4. DOMAIN Ini!View = {Ini!EntryAt(i) : i \in Seen(n)} /\ UsedIn(d.key) = 1 .. d.n
    BY DEF Loaded
  <1>5. Latest'
    BY <1>1, <1>2, <1>3 DEF Loaded, Latest
  <1>6. Ordered'
    <2> SUFFICES ASSUME NEW a \in UsedIn(d.key), NEW b \in UsedIn(d.key),
                        NEW i \in Firsts(n), NEW j \in Firsts(n),
                        d.key[a] = Ini!EntryAt(i), d.key[b] = Ini!EntryAt(j), i < j
                 PROVE  a < b
      BY <1>1, <1>2, <1>3 DEF Ordered
    <2> QED BY DEF Loaded, Ordered
  <1>7. (section = Ini!SectionAt(lineno))'
    BY <1>1
  <1>8. (last = IF Continues(lineno) THEN file[lineno] ELSE NULL)'
    BY <1>1
  <1>9. (DOMAIN Ini!View = {Ini!EntryAt(i) : i \in Seen(lineno)})'
    BY <1>1, <1>2, <1>3, <1>4
  <1>10. (UsedIn(d.key) = 1 .. d.n)'
    BY <1>3, <1>4
  <1> QED BY <1>5, <1>6, <1>7, <1>8, <1>9, <1>10 DEF Loaded

\* A step that stores the next entry.
LEMMA EntryAdded ==
    ASSUME IniInv, Loaded, file' = file, NEW n, n = lineno, NEW m, lineno' = m,
           NEW e \in Nat, Seen(m) = Seen(n) \cup {e}, \A i \in Seen(n) : i \in Nat /\ i < e,
           Ini!EntryAt(e) \in Ini!Keys, Ini!TextAt(e) \in IniValues,
           d' = Ini!dictionary_set(Ini!EntryAt(e), Ini!TextAt(e)),
           section' = Ini!SectionAt(m), last' = IF Continues(m) THEN file[m] ELSE NULL
    PROVE  Loaded'
  <1> DEFINE k == Ini!EntryAt(e)
             v == Ini!TextAt(e)
             K == d.key
             L == d'.key
  <1>1. /\ DictInv /\ DictInv' /\ Ini!Map!Set(k, v)
        /\ \A i \in UsedIn(K) : i \in UsedIn(L) /\ L[i] = K[i]
        /\ \A i \in UsedIn(L) \ UsedIn(K) :
              /\ L[i] = k /\ i \in Nat \ {0} /\ \A j \in 1 .. i - 1 : j \in UsedIn(K)
              /\ \A j \in UsedIn(K) : K[j] # k
    BY DictionarySet DEF IniInv
  <1>2. /\ (Seen(lineno))' = Seen(m) /\ (Firsts(lineno))' = Firsts(m)
        /\ Continues(lineno)' = Continues(m) /\ (Ini!SectionAt(lineno))' = Ini!SectionAt(m)
        /\ (file[lineno])' = file[m]
    BY NextLine
  <1>3. \A i : Ini!EntryAt(i)' = Ini!EntryAt(i) /\ Ini!TextAt(i)' = Ini!TextAt(i)
    BY FileStays
  <1>4. /\ DOMAIN Ini!View = {Ini!EntryAt(i) : i \in Seen(n)} /\ UsedIn(K) = 1 .. d.n
        /\ DOMAIN Ini!View = {K[i] : i \in UsedIn(K)}
    <2>1. Apart(K) /\ Ini!View = MapOf(K, d.val)
      BY <1>1, DictOperators, DictTypes
    <2>2. DOMAIN Ini!View = {K[i] : i \in UsedIn(K)}
      BY <2>1, MapAt
    <2> QED BY <2>2 DEF Loaded
  <1>5. (Ini!View)' = [x \in DOMAIN Ini!View \cup {k} |-> IF x = k THEN v ELSE Ini!View[x]]
    BY <1>1 DEF Ini!Map!Set
  <1>6. (DOMAIN Ini!View = {Ini!EntryAt(i) : i \in Seen(lineno)})'
    <2>1. DOMAIN (Ini!View)' = {Ini!EntryAt(i) : i \in Seen(m)}
      BY <1>4, <1>5
    <2> QED BY <1>2, <1>3, <2>1
  <1>7. Latest'
    <2>1. ASSUME NEW i \in Seen(m), \A j \in Seen(m) : Ini!EntryAt(j) = Ini!EntryAt(i) => j <= i
          PROVE  (Ini!View)'[Ini!EntryAt(i)] = Ini!TextAt(i)
      <3>1. CASE Ini!EntryAt(i) = k
        <4>1. e <= i
          BY <2>1, <3>1
        <4>2. i = e
          <5>1. i = e \/ (i \in Nat /\ i < e)
            OBVIOUS
          <5> QED BY <4>1, <5>1
        <4> QED BY <1>5, <4>2
      <3>2. CASE Ini!EntryAt(i) # k
        <4>1. i \in Seen(n)
          BY <3>2
        <4>2. Ini!View[Ini!EntryAt(i)] = Ini!TextAt(i)
          BY <2>1, <4>1 DEF Loaded, Latest
        <4>3. Ini!EntryAt(i) \in DOMAIN Ini!View
          BY <1>4, <4>1
        <4> QED BY <1>5, <3>2, <4>2, <4>3
      <3> QED BY <3>1, <3>2
    <2> QED BY <1>2, <1>3, <2>1 DEF Latest
  <1>8. UsedIn(L) = 1 .. d'.n
    <2>1. CASE UsedIn(L) = UsedIn(K)
      <3>1. d'.n = d.n
        <4>1. d'.n = Cardinality(UsedIn(L)) /\ d.n = Cardinality(UsedIn(K))
          BY <1>1 DEF DictInv
        <4> QED BY <2>1, <4>1
      <3> QED BY <1>4, <2>1, <3>1
    <2>2. CASE UsedIn(L) # UsedIn(K)
      <3>1. PICK i \in UsedIn(L) : i \notin UsedIn(K)
        BY <1>1, <2>2
      <3>2. i \in Nat \ {0} /\ (\A j \in 1 .. i - 1 : j \in 1 .. d.n) /\ i \notin 1 .. d.n
        BY <1>1, <1>4, <3>1
      <3>3. d.n \in Nat
        BY <1>1, DictTypes
      <3>4. i = d.n + 1
        <4>1. i > d.n
          BY <3>2, <3>3
        <4>2. ~(i > d.n + 1)
          <5> SUFFICES ASSUME i > d.n + 1 PROVE FALSE
            OBVIOUS
          <5>1. d.n + 1 \in 1 .. i - 1
            BY <3>2, <3>3
          <5> QED BY <3>2, <3>3, <5>1
        <4> QED BY <3>2, <3>3, <4>1, <4>2
      <3>5. \A j \in UsedIn(L) : j \in UsedIn(K) \/ j = i
        <4> SUFFICES ASSUME NEW j \in UsedIn(L), j \notin UsedIn(K) PROVE j = i
          OBVIOUS
        <4>1. L[j] = k /\ L[i] = k
          BY <1>1, <3>1
        <4>2. Apart(L)
          BY <1>1 DEF DictInv
        <4> QED BY <3>1, <4>1, <4>2 DEF Apart
      <3>6. UsedIn(L) = 1 .. d.n + 1
        <4>1. UsedIn(L) = UsedIn(K) \cup {i}
          BY <1>1, <3>1, <3>5
        <4> QED BY <1>4, <3>3, <3>4, <4>1
      <3>7. d'.n = d.n + 1
        <4> DEFINE c == d.n + 1
        <4>1. c \in Nat \ {0} /\ UsedIn(L) = 1 .. c
          BY <3>3, <3>6
        <4>2. d'.n = Cardinality(UsedIn(L))
          BY <1>1 DEF DictInv
        <4> HIDE DEF c
        <4>3. Cardinality(1 .. c) = c
          BY <4>1, FS_Interval
        <4>4. d'.n = c
          BY <4>1, <4>2, <4>3
        <4> QED BY <4>4 DEF c
      <3> QED BY <3>6, <3>7
    <2> QED BY <2>1, <2>2
  <1>9. Ordered'
    <2> SUFFICES ASSUME NEW a \in UsedIn(L), NEW b \in UsedIn(L),
                        NEW i \in Firsts(m), NEW j \in Firsts(m),
                        L[a] = Ini!EntryAt(i), L[b] = Ini!EntryAt(j), i < j
                 PROVE  a < b
      BY <1>2, <1>3 DEF Ordered
    <2>1. i \in Seen(n)
      BY DEF Firsts
    <2>2. i \in Firsts(n)
      BY <2>1 DEF Firsts
    <2>3. L[a] # L[b]
      <3>1. i \in Nat /\ j \in Nat
        BY DEF Firsts
      <3>2. Ini!EntryAt(i) = Ini!EntryAt(j) => j <= i
        BY DEF Firsts
      <3> QED BY <3>1, <3>2
    <2>4. a \in UsedIn(K)
      <3>1. Ini!EntryAt(i) \in {K[x] : x \in UsedIn(K)}
        BY <1>4, <2>1
      <3>2. PICK x \in UsedIn(K) : K[x] = Ini!EntryAt(i)
        BY <3>1
      <3>3. x \in UsedIn(L) /\ L[x] = L[a]
        BY <1>1, <3>2
      <3>4. Apart(L)
        BY <1>1 DEF DictInv
      <3> QED BY <3>2, <3>3, <3>4 DEF Apart
    <2>5. CASE b \in UsedIn(K)
      <3>1. K[a] = Ini!EntryAt(i) /\ K[b] = Ini!EntryAt(j)
        BY <1>1, <2>4, <2>5
      <3>2. j \in Firsts(n)
        <4>1. PICK x \in Seen(n) : Ini!EntryAt(x) = Ini!EntryAt(j)
          BY <1>4, <2>5, <3>1
        <4>2. j <= x
          BY <4>1 DEF Firsts
        <4>3. j \in Seen(n)
          <5>1. j \in Seen(n) \/ j = e
            BY DEF Firsts
          <5>2. x \in Nat /\ x < e
            OBVIOUS
          <5> QED BY <4>2, <5>1, <5>2
        <4> QED BY <4>3 DEF Firsts
      <3> QED BY <2>2, <2>4, <2>5, <3>1, <3>2 DEF Loaded, Ordered
    <2>6. CASE b \notin UsedIn(K)
      <3>1. b \in Nat \ {0} /\ a \in 1 .. d.n /\ b \notin 1 .. d.n /\ d.n \in Nat
        BY <1>1, <1>4, <2>4, <2>6, DictTypes
      <3> QED BY <3>1
    <2> QED BY <2>5, <2>6
  <1>10. (section = Ini!SectionAt(lineno))'
    BY <1>2
  <1>11. (last = IF Continues(lineno) THEN file[lineno] ELSE NULL)'
    BY <1>2
  <1>12. (UsedIn(d.key) = 1 .. d.n)'
    BY <1>8
  <1> QED BY <1>6, <1>7, <1>9, <1>10, <1>11, <1>12 DEF Loaded

LEMMA SeenGrows ==
    ASSUME IniInv, NEW n \in Nat, NEW m, m = n + 1
    PROVE  \A x : x \in Seen(m) <=> \/ x \in Seen(n)
                                    \/ x \in Ini!Entries /\ x = m /\ file[x].kind # "continued"
                                    \/ x \in Ini!Entries /\ x = n /\ file[x].kind = "continued"
  <1> SUFFICES ASSUME NEW x \in Ini!Entries
               PROVE  x \in Seen(m) <=> \/ x \in Seen(n)
                                        \/ x = m /\ file[x].kind # "continued"
                                        \/ x = n /\ file[x].kind = "continued"
    BY DEF Seen
  <1>1. x \in Nat
    BY DEF Ini!Entries
  <1>2. CASE file[x].kind = "continued"
    BY <1>1, <1>2 DEF Seen
  <1>3. CASE file[x].kind # "continued"
    BY <1>1, <1>3 DEF Seen
  <1> QED BY <1>2, <1>3

LEMMA ConcatOfBoth ==
    ASSUME NEW S, NEW a \in S, NEW b \in S
    PROVE  a \o b \in Concats(S)
  BY DEF Concats

LEMMA TextsJoined ==
    ASSUME NEW a \in Ini!ReadTexts, NEW b \in Ini!ReadTexts
    PROVE  a \o b \in IniValues
  BY ConcatOfBoth DEF IniValues

\* A line that continues another one is given with the name and the text of both.
LEMMA JoinedFields ==
    ASSUME NEW l, l.kind # "continued", last # NULL
    PROVE  /\ Ini!Joined(l).kind \in {"value", "too long"} /\ Ini!Joined(l).name = last.name
           /\ Ini!Joined(l).text = last.text \o l.text
  <1> DEFINE k == l.kind
             a == last.name
             t == last.text \o l.text
             line == [kind |-> IF k \in {"continued", "too long"} THEN k ELSE "value",
                      name |-> a, text |-> t]
  <1>1. Ini!Joined(l) = line
    BY DEF Ini!Joined
  <1>2. line.kind \in {"value", "too long"} /\ line.name = a /\ line.text = t
    <2> HIDE DEF k, a, t
    <2> QED BY DEF k
  <1> QED BY <1>1, <1>2

\* What iniparser_line is given: a line as it is, or a line and the one that it
\* continues.
LEMMA LineRead ==
    ASSUME IniInv, status = "load", lineno < Len(file), NEW i, i = lineno + 1,
           NEW line, line = Ini!Joined(file[i])
    PROVE  /\ i \in 1 .. Len(file) /\ lineno \in Nat
           /\ ~Continues(lineno) => line = file[i] /\ Ini!Begins(i)
           /\ Continues(lineno) =>
                 /\ lineno \in 1 .. Len(file) /\ ~Ini!Begins(i) /\ Ini!Begins(lineno)
                 /\ line.kind \in {"value", "too long"} /\ file[i].kind # "continued"
                 /\ line.name = file[lineno].name
                 /\ line.text = file[lineno].text \o file[i].text
           /\ line.text \in IniValues /\ Ini!strlwc(line.name) \in Ini!Words
  <1>1. Len(file) \in Nat /\ lineno \in Nat
    BY FileTypes
  <1>2. i \in 1 .. Len(file)
    BY <1>1
  <1>3. last = IF Continues(lineno) THEN file[lineno] ELSE NULL
    BY DEF IniInv, Loaded
  <1>4. /\ file[i].kind \in Kinds /\ Ini!strlwc(file[i].name) \in Ini!Words
        /\ file[i].text \in Ini!ReadTexts
    BY <1>2, FileTypes
  <1>5. CASE ~Continues(lineno)
    <2>1. line = file[i]
      BY <1>3, <1>5 DEF Ini!Joined
    <2>2. i = 1 \/ (lineno > 0 /\ i - 1 = lineno)
      BY <1>1
    <2>3. Ini!Begins(i)
      BY <1>5, <2>2 DEF Continues, Ini!Begins
    <2>4. line.text \in IniValues /\ Ini!strlwc(line.name) \in Ini!Words
      BY <1>4, <2>1 DEF IniValues
    <2> QED BY <1>1, <1>2, <1>5, <2>1, <2>3, <2>4
  <1>6. CASE Continues(lineno)
    <2>1. lineno > 0 /\ file[lineno].kind = "continued"
      BY <1>6 DEF Continues
    <2>2. lineno \in 1 .. Len(file) /\ lineno \in 1 .. Len(file) - 1 /\ i - 1 = lineno /\ i # 1
      BY <1>1, <2>1
    <2>3. /\ file[lineno] # NULL /\ file[lineno].text \in Ini!ReadTexts
          /\ Ini!strlwc(file[lineno].name) \in Ini!Words
      BY <2>2, FileTypes
    <2>4. file[i].kind # "continued"
      BY <2>1, <2>2, FileTypes
    <2>5. ~Ini!Begins(i)
      BY <2>1, <2>2 DEF Ini!Begins
    <2>6. Ini!Begins(lineno)
      <3>1. CASE lineno = 1
        BY <3>1 DEF Ini!Begins
      <3>2. CASE lineno # 1
        <4> DEFINE p == lineno - 1
        <4>1. p \in 1 .. Len(file) - 1 /\ p + 1 = lineno
          BY <1>1, <2>2, <3>2
        <4> HIDE DEF p
        <4>2. file[p].kind = "continued" => file[p + 1].kind # "continued"
          BY <4>1, FileTypes
        <4>3. file[p].kind # "continued"
          BY <2>1, <4>1, <4>2
        <4> QED BY <4>3 DEF Ini!Begins, p
      <3> QED BY <3>1, <3>2
    <2>7. file[i].kind # "continued" /\ last = file[lineno] /\ last # NULL
      BY <1>3, <1>6, <2>3, <2>4
    <2>8. /\ line.kind \in {"value", "too long"} /\ line.name = file[lineno].name
          /\ line.text = file[lineno].text \o file[i].text
      <3>1. /\ Ini!Joined(file[i]).kind \in {"value", "too long"}
            /\ Ini!Joined(file[i]).name = last.name
            /\ Ini!Joined(file[i]).text = last.text \o file[i].text
        BY <2>7, JoinedFields
      <3> QED BY <2>7, <3>1
    <2>9. line.text \in IniValues
      <3>1. file[lineno].text \o file[i].text \in IniValues
        BY <1>4, <2>3, TextsJoined
      <3> QED BY <2>8, <3>1
    <2> QED BY <1>1, <1>2, <1>6, <2>2, <2>3, <2>4, <2>5, <2>6, <2>8, <2>9
  <1> QED BY <1>5, <1>6

\* The entry that such a line makes is the one that the file says.
LEMMA EntryOfLine ==
    ASSUME IniInv, status = "load", lineno < Len(file), NEW i, i = lineno + 1,
           NEW line, line = Ini!Joined(file[i]), line.kind \in {"section", "value"},
           section = Ini!SectionAt(lineno)
    PROVE  LET e == IF Continues(lineno) THEN lineno ELSE i
           IN  /\ e \in Nat /\ Seen(i) = Seen(lineno) \cup {e}
               /\ \A j \in Seen(lineno) : j \in Nat /\ j < e
               /\ ~Continues(i)
               /\ line.kind = "section" =>
                     /\ Ini!EntryAt(e) = <<Ini!strlwc(line.name)>> /\ Ini!TextAt(e) = NULL
                     /\ Ini!SectionAt(i) = Ini!strlwc(line.name)
               /\ line.kind = "value" =>
                     /\ Ini!EntryAt(e) = <<section, Ini!strlwc(line.name)>>
                     /\ Ini!TextAt(e) = line.text /\ Ini!SectionAt(i) = section
  <1> DEFINE n == lineno
  <1>1. /\ i \in 1 .. Len(file) /\ n \in Nat /\ i = n + 1 /\ Len(file) \in Nat
        /\ ~Continues(n) => line = file[i] /\ Ini!Begins(i)
        /\ Continues(n) =>
              /\ n \in 1 .. Len(file) /\ ~Ini!Begins(i) /\ Ini!Begins(n)
              /\ line.kind \in {"value", "too long"} /\ file[i].kind # "continued"
              /\ line.name = file[n].name /\ line.text = file[n].text \o file[i].text
    BY LineRead, FileTypes
  <1>2. Ini!SectionAt(i) = IF file[i].kind = "section" /\ Ini!Begins(i)
                           THEN Ini!strlwc(file[i].name) ELSE Ini!SectionAt(n)
    <2>1. i - 1 = n
      <3>1. lineno \in Nat
        BY <1>1
      <3> QED BY <3>1
    <2> QED BY <1>1, <2>1, SectionGoesOn
  <1>3. \A x : x \in Seen(i) <=> \/ x \in Seen(n)
                                 \/ x \in Ini!Entries /\ x = i /\ file[x].kind # "continued"
                                 \/ x \in Ini!Entries /\ x = n /\ file[x].kind = "continued"
    BY <1>1, SeenGrows
  <1>4. \A j \in Seen(n) : j \in Nat /\ j <= n /\ (file[j].kind = "continued" => j < n)
    BY DEF Seen, Ini!Entries
  <1>5. CASE Continues(n)
    <2>1. n > 0 /\ file[n].kind = "continued" /\ n < Len(file)
      BY <1>1, <1>5 DEF Continues
    <2>2. n \in Ini!Entries /\ i \notin Ini!Entries
      BY <1>1, <1>5, <2>1 DEF Ini!Entries
    <2>3. Seen(i) = Seen(n) \cup {n}
      BY <1>3, <2>1, <2>2
    <2>4. ASSUME NEW j \in Seen(n) PROVE j \in Nat /\ j < n
      <3>1. j \in Nat /\ j <= n /\ (j # n \/ j < n)
        BY <1>4, <2>1
      <3>2. n \in Nat
        BY <1>1
      <3> QED BY <3>1, <3>2
    <2>5. line.kind = "value" /\ ~Continues(i)
      BY <1>1, <1>5 DEF Continues
    <2>6. Ini!SectionAt(i) = section
      BY <1>1, <1>2, <1>5
    <2>7. n + 1 = i
      BY <1>1
    <2>8. Ini!EntryAt(n) = <<section, Ini!strlwc(line.name)>> /\ Ini!TextAt(n) = line.text
      BY <1>1, <1>5, <2>1, <2>7 DEF Ini!EntryAt, Ini!TextAt
    <2> QED BY <1>1, <1>5, <2>3, <2>4, <2>5, <2>6, <2>8
  <1>6. CASE ~Continues(n)
    <2>1. line = file[i] /\ Ini!Begins(i) /\ file[i].kind \in {"section", "value"}
      BY <1>1, <1>6
    <2>2. i \in Ini!Entries /\ file[i].kind # "continued"
      BY <1>1, <2>1 DEF Ini!Entries
    <2>3. n \in Ini!Entries => file[n].kind # "continued"
      BY <1>6 DEF Continues, Ini!Entries
    <2>4. Seen(i) = Seen(n) \cup {i}
      BY <1>3, <2>2, <2>3
    <2>5. ASSUME NEW j \in Seen(n) PROVE j \in Nat /\ j < i
      <3>1. j \in Nat /\ j <= n
        BY <1>4
      <3>2. n \in Nat /\ i = n + 1
        BY <1>1
      <3> QED BY <3>1, <3>2
    <2>6. ~Continues(i)
      BY <2>2 DEF Continues
    <2>7. line.kind = "section" =>
             /\ Ini!EntryAt(i) = <<Ini!strlwc(line.name)>> /\ Ini!TextAt(i) = NULL
             /\ Ini!SectionAt(i) = Ini!strlwc(line.name)
      BY <1>2, <2>1 DEF Ini!EntryAt, Ini!TextAt
    <2>8. line.kind = "value" =>
             /\ Ini!EntryAt(i) = <<section, Ini!strlwc(line.name)>>
             /\ Ini!TextAt(i) = line.text /\ Ini!SectionAt(i) = section
      BY <1>2, <2>1 DEF Ini!EntryAt, Ini!TextAt
    <2>9. i \in Nat
      <3>1. i \in 1 .. Len(file)
        BY <1>1
      <3> QED BY <3>1
    <2> QED BY <1>6, <2>4, <2>5, <2>6, <2>7, <2>8, <2>9
  <1> QED BY <1>5, <1>6

LEMMA NewDictionary ==
    ASSUME d = Ini!dictionary_new(DICTMINSZ)
    PROVE  DictInv /\ UsedIn(d.key) = {} /\ DOMAIN Ini!View = {} /\ d.n = 0
  <1> DEFINE K == [i \in 1 .. DICTMINSZ |-> NULL]
  <1>1. d = [n |-> 0, key |-> K, val |-> K]
    BY DEF Ini!dictionary_new
  <1>2. DICTMINSZ \in Nat \ {0}
    BY IniAssumption
  <1>3. K \in Seq(KeyOrNull) /\ K \in Seq(IniValues) /\ Len(K) = DICTMINSZ
    <2>1. NULL \in KeyOrNull /\ NULL \in IniValues
      BY DEF KeyOrNull, IniValues
    <2> QED BY <1>2, <2>1
  <1>4. UsedIn(K) = {}
    BY DEF UsedIn
  <1> HIDE DEF K
  <1>5. DictTyped
    BY <1>1, <1>2, <1>3 DEF DictTyped
  <1>6. Apart(K) /\ IsFiniteSet(UsedIn(K)) /\ Cardinality(UsedIn(K)) = 0
    BY <1>4, FS_EmptySet DEF Apart
  <1>7. DictInv
    BY <1>1, <1>5, <1>6 DEF DictInv
  <1>8. DOMAIN MapOf(K, K) = {}
    BY <1>4 DEF MapOf
  <1> QED BY <1>1, <1>4, <1>7, <1>8, DictOperators

LEMMA IniInit ==
    ASSUME Ini!Init
    PROVE  IniInv /\ Ini!Map!Init
  <1>1. /\ file \in Files /\ lineno = 0 /\ section = NULL /\ last = NULL
        /\ status = "load" /\ edited = FALSE /\ d = Ini!dictionary_new(DICTMINSZ)
    BY DEF Ini!Init
  <1>2. DictInv /\ UsedIn(d.key) = {} /\ DOMAIN Ini!View = {} /\ d.n = 0
    BY <1>1, NewDictionary
  <1>3. Len(file) \in Nat
    <2>1. file \in Seq(Lines)
      BY <1>1, IniAssumption
    <2> QED BY <2>1
  <1>4. Seen(0) = {} /\ ~Continues(0)
    BY DEF Seen, Continues, Ini!Entries
  <1>5. Firsts(0) = {}
    BY <1>4 DEF Firsts
  <1>6. Loaded
    <2>1. section = Ini!SectionAt(lineno)
      BY <1>1, NoSectionAtFirst
    <2>2. last = IF Continues(lineno) THEN file[lineno] ELSE NULL
      BY <1>1, <1>4
    <2>3. DOMAIN Ini!View = {Ini!EntryAt(i) : i \in Seen(lineno)}
      BY <1>1, <1>2, <1>4
    <2>4. Latest
      BY <1>1, <1>4 DEF Latest
    <2>5. UsedIn(d.key) = 1 .. d.n
      BY <1>2
    <2>6. Ordered
      BY <1>2 DEF Ordered
    <2> QED BY <2>1, <2>2, <2>3, <2>4, <2>5, <2>6 DEF Loaded
  <1>7. IniInv
    BY <1>1, <1>2, <1>3, <1>6 DEF IniInv
  <1>8. Ini!Map!Init
    <2> DEFINE c == CHOOSE v \in {NULL, <<>>} \cup Ini!ReadTexts
                                    \cup {a \o b : a, b \in Ini!ReadTexts} : TRUE
    <2>1. Ini!Map!Init <=> Ini!View = [k \in {} |-> c]
      BY DEF Ini!Map!Init
    <2> HIDE DEF c
    <2> DEFINE m == [k \in {} |-> c]
    <2>2. FunctionOn(m, {})
      BY DEF FunctionOn
    <2>3. {d.key[i] : i \in UsedIn(d.key)} = {} /\ Apart(d.key)
      BY <1>2, DictTypes
    <2> HIDE DEF m
    <2>4. MapOf(d.key, d.val) = m
      BY <1>2, <2>2, <2>3, MapIs
    <2> QED BY <2>1, <2>4, DictOperators DEF m
  <1> QED BY <1>7, <1>8

LEMMA OneNameSet ==
    ASSUME NEW k \in Ini!Keys, NEW v \in IniValues, Ini!Map!Set(k, v)
    PROVE  Ini!Map!Next
  BY DEF Ini!Map!Next, IniValues, Concats

LEMMA KeysOfLines ==
    ASSUME NEW w \in Ini!Words
    PROVE  <<w>> \in Ini!Keys /\ \A s \in Ini!Words \cup {NULL} : <<s, w>> \in Ini!Keys
  <1>1. <<w>> \in {<<s>> : s \in Ini!Words}
    OBVIOUS
  <1>2. \A s \in Ini!Words \cup {NULL} :
           <<s, w>> \in {<<x, k>> : x \in Ini!Words \cup {NULL}, k \in Ini!Words}
    OBVIOUS
  <1> QED BY <1>1, <1>2 DEF Ini!Keys

LEMMA IniReadLine ==
    ASSUME IniInv, Ini!ReadLine
    PROVE  IniInv' /\ (Ini!Map!Next \/ UNCHANGED Ini!View)
  <1> DEFINE n == lineno
             i == lineno + 1
             line == Ini!Joined(file[i])
  <1>1. /\ status = "load" /\ n < Len(file) /\ lineno' = i /\ file' = file /\ edited' = edited
        /\ \/ line.kind = "too long" /\ status' = "null" /\ section' = section /\ d' = d
           \/ /\ line.kind = "continued" /\ last' = line
              /\ section' = section /\ status' = status /\ d' = d
           \/ Ini!iniparser_line(line) /\ last' = NULL /\ status' = status
    BY DEF Ini!ReadLine
  <1>2. DictInv /\ ~edited /\ Loaded /\ section \in Ini!Words \cup {NULL}
    BY <1>1 DEF IniInv
  <1>3. /\ i \in 1 .. Len(file) /\ n \in Nat /\ i = n + 1
        /\ ~Continues(n) => line = file[i] /\ Ini!Begins(i)
        /\ Continues(n) =>
              /\ n \in 1 .. Len(file) /\ ~Ini!Begins(i) /\ Ini!Begins(n)
              /\ line.kind \in {"value", "too long"} /\ file[i].kind # "continued"
        /\ line.text \in IniValues /\ Ini!strlwc(line.name) \in Ini!Words
    BY <1>1, LineRead
  <1>4. i - 1 = n /\ i \in Nat /\ i \in 0 .. Len(file) /\ i > 0
    <2>1. n \in Nat /\ i \in 1 .. Len(file) /\ Len(file) \in Nat /\ i = n + 1
      BY <1>3, FileTypes
    <2> QED BY <2>1
  <1>5. section = Ini!SectionAt(n)
    BY <1>2 DEF Loaded
  <1>6. ASSUME d' = d
        PROVE  DictInv' /\ (Ini!View)' = Ini!View
    BY <1>2, <1>6 DEF DictInv, DictTyped, UsedIn, Ini!View, Ini!Used, Ini!Slots
  <1>7. file' \in Files /\ lineno' \in 0 .. (Len(file))' /\ status' # "ready"
    BY <1>1, <1>4 DEF IniInv
  <1>8. ASSUME DictInv', Loaded', section' \in Ini!Words \cup {NULL}, status' = "load"
        PROVE  IniInv'
    <2>1. (Ini!Words)' = Ini!Words
      BY DEF Ini!Words, Ini!strlwc
    <2> QED BY <1>1, <1>2, <1>7, <1>8, <2>1 DEF IniInv
  <1>9. ASSUME line.kind = "too long", status' = "null", section' = section, d' = d
        PROVE  IniInv' /\ UNCHANGED Ini!View
    <2>1. (Ini!Words)' = Ini!Words
      BY DEF Ini!Words, Ini!strlwc
    <2> QED BY <1>1, <1>2, <1>6, <1>7, <1>9, <2>1 DEF IniInv
  <1>10. ASSUME ~Continues(n), ~(line.kind \in {"section", "value"}),
                section' = section, d' = d, status' = status,
                last' = IF line.kind = "continued" THEN line ELSE NULL
         PROVE  IniInv' /\ UNCHANGED Ini!View
    <2>1. line = file[i] /\ Ini!Begins(i)
      BY <1>3, <1>10
    <2>2. Seen(i) = Seen(n)
      <3>1. \A x : x \in Seen(i) <=> \/ x \in Seen(n)
                                     \/ x \in Ini!Entries /\ x = i /\ file[x].kind # "continued"
                                     \/ x \in Ini!Entries /\ x = n /\ file[x].kind = "continued"
        BY <1>3, SeenGrows
      <3>2. ~(i \in Ini!Entries /\ file[i].kind # "continued")
        BY <1>10, <2>1 DEF Ini!Entries
      <3>3. ~(n \in Ini!Entries /\ file[n].kind = "continued")
        BY <1>10 DEF Continues, Ini!Entries
      <3> QED BY <3>1, <3>2, <3>3
    <2>3. Ini!SectionAt(i) = section
      <3>1. ~(file[i].kind = "section")
        BY <1>10, <2>1
      <3> QED BY <1>3, <1>4, <1>5, <3>1, SectionGoesOn
    <2>4. Continues(i) <=> line.kind = "continued"
      <3>1. i > 0
        BY <1>4
      <3> QED BY <2>1, <3>1 DEF Continues
    <2>5. last' = IF Continues(i) THEN file[i] ELSE NULL
      BY <1>10, <2>1, <2>4
    <2>6. Loaded'
      BY <1>1, <1>2, <1>10, <2>2, <2>3, <2>5, LineSkipped
    <2> QED BY <1>1, <1>2, <1>6, <1>8, <1>10, <2>6
  <1>11. ASSUME NEW e, e = (IF Continues(n) THEN n ELSE i),
                line.kind \in {"section", "value"}, status' = status, last' = NULL,
                d' = Ini!dictionary_set(Ini!EntryAt(e), Ini!TextAt(e)),
                section' = Ini!SectionAt(i), section' \in Ini!Words \cup {NULL},
                Ini!EntryAt(e) \in Ini!Keys, Ini!TextAt(e) \in IniValues
         PROVE  IniInv' /\ Ini!Map!Next
    <2>1. /\ e \in Nat /\ Seen(i) = Seen(n) \cup {e}
          /\ \A j \in Seen(n) : j \in Nat /\ j < e
          /\ ~Continues(i)
      BY <1>1, <1>5, <1>11, EntryOfLine
    <2>2. Loaded'
      BY <1>1, <1>2, <1>11, <2>1, EntryAdded
    <2>3. DictInv' /\ Ini!Map!Set(Ini!EntryAt(e), Ini!TextAt(e))
      BY <1>2, <1>11, DictionarySet
    <2>4. Ini!Map!Next
      BY <1>11, <2>3, OneNameSet
    <2> QED BY <1>1, <1>8, <1>11, <2>2, <2>3, <2>4
  <1>12. ASSUME Ini!iniparser_line(line), last' = NULL, status' = status
         PROVE  IniInv' /\ (Ini!Map!Next \/ UNCHANGED Ini!View)
    <2> DEFINE e == IF Continues(n) THEN n ELSE i
    <2>1. /\ line.kind = "section" =>
                /\ Ini!EntryAt(e) = <<Ini!strlwc(line.name)>> /\ Ini!TextAt(e) = NULL
                /\ Ini!SectionAt(i) = Ini!strlwc(line.name)
          /\ line.kind = "value" =>
                /\ Ini!EntryAt(e) = <<section, Ini!strlwc(line.name)>>
                /\ Ini!TextAt(e) = line.text /\ Ini!SectionAt(i) = section
      BY <1>1, <1>5, EntryOfLine
    <2>2. CASE line.kind = "section"
      <3>1. section' = Ini!strlwc(line.name) /\ d' = Ini!dictionary_set(<<section'>>, NULL)
        BY <1>12, <2>2 DEF Ini!iniparser_line, Ini!InSection
      <3>2. <<section'>> \in Ini!Keys /\ NULL \in IniValues /\ section' \in Ini!Words
        <4>1. Ini!strlwc(line.name) \in Ini!Words
          BY <1>3
        <4>2. <<Ini!strlwc(line.name)>> \in Ini!Keys
          BY <4>1, KeysOfLines
        <4> QED BY <3>1, <4>1, <4>2 DEF IniValues
      <3> QED BY <1>11, <1>12, <2>1, <2>2, <3>1, <3>2
    <2>3. CASE line.kind = "value"
      <3>1. /\ section' = section
            /\ d' = Ini!dictionary_set(<<section, Ini!strlwc(line.name)>>, line.text)
        BY <1>12, <2>3 DEF Ini!iniparser_line
      <3>2. <<section, Ini!strlwc(line.name)>> \in Ini!Keys /\ line.text \in IniValues
        BY <1>2, <1>3, KeysOfLines
      <3> QED BY <1>2, <1>11, <1>12, <2>1, <2>3, <3>1, <3>2
    <2>4. CASE line.kind \in {"empty", "comment", "error"}
      <3>1. section' = section /\ d' = d
        BY <1>12, <2>4 DEF Ini!iniparser_line
      <3>2. ~Continues(n)
        BY <1>3, <2>4
      <3> QED BY <1>10, <1>12, <2>4, <3>1, <3>2
    <2> QED BY <1>12, <2>2, <2>3, <2>4 DEF Ini!iniparser_line
  <1>13. ASSUME line.kind = "continued", last' = line, section' = section, status' = status,
                d' = d
         PROVE  IniInv' /\ UNCHANGED Ini!View
    <2>1. ~Continues(n)
      BY <1>3, <1>13
    <2> QED BY <1>10, <1>13, <2>1
  <1> QED BY <1>1, <1>9, <1>12, <1>13

LEMMA LoadedStays ==
    ASSUME IniInv, file' = file, lineno' = lineno, section' = section, last' = last, d' = d
    PROVE  /\ DictInv' /\ (Ini!View)' = Ini!View /\ (Ini!Words)' = Ini!Words
           /\ Loaded => Loaded'
  <1>1. DictInv' /\ (Ini!View)' = Ini!View /\ (Ini!Words)' = Ini!Words
    BY DEF IniInv, DictInv, DictTyped, UsedIn, Ini!View, Ini!Used, Ini!Slots, Ini!Words, Ini!strlwc
  <1>2. ASSUME Loaded
        PROVE  Loaded'
    <2> DEFINE n == lineno
    <2>1. section' = Ini!SectionAt(n) /\ last' = IF Continues(n) THEN file[n] ELSE NULL
      BY <1>2 DEF Loaded
    <2> QED BY <1>2, <2>1, LineSkipped
  <1> QED BY <1>1, <1>2

LEMMA IniStutter ==
    ASSUME IniInv, UNCHANGED iniPart
    PROVE  IniInv' /\ UNCHANGED Ini!View
  <1>1. /\ file' = file /\ lineno' = lineno /\ section' = section /\ last' = last /\ d' = d
        /\ status' = status /\ edited' = edited
    BY DEF iniPart
  <1>2. DictInv' /\ (Ini!View)' = Ini!View /\ (Ini!Words)' = Ini!Words /\ (Loaded => Loaded')
    BY <1>1, LoadedStays
  <1> QED BY <1>1, <1>2 DEF IniInv

LEMMA IniLoadReturns ==
    ASSUME IniInv, Ini!LoadReturns
    PROVE  IniInv' /\ UNCHANGED Ini!View
  <1>1. /\ file' = file /\ lineno' = lineno /\ section' = section /\ last' = last /\ d' = d
        /\ edited' = edited /\ status = "load" /\ lineno = Len(file)
        /\ status' \in {"ready", "null"}
    BY DEF Ini!LoadReturns
  <1>2. DictInv' /\ (Ini!View)' = Ini!View /\ (Ini!Words)' = Ini!Words /\ (Loaded => Loaded')
    BY <1>1, LoadedStays
  <1> QED BY <1>1, <1>2 DEF IniInv

\* Every step of the dictionary is one of the map, or leaves the map alone.
LEMMA IniKeeps ==
    ASSUME IniInv, Ini!Next
    PROVE  IniInv' /\ (Ini!Map!Next \/ UNCHANGED Ini!View)
  <1>1. ASSUME NEW k \in Ini!EntryKeys, Ini!iniparser_set(k, <<>>) \/ Ini!iniparser_unset(k)
        PROVE  IniInv' /\ Ini!Map!Next
    <2>1. /\ file' = file /\ lineno' = lineno /\ section' = section /\ status' = status
          /\ edited' = TRUE /\ status = "ready"
      BY <1>1 DEF Ini!iniparser_set, Ini!iniparser_unset
    <2>2. k \in Ini!Keys /\ <<>> \in IniValues /\ DictInv
      <3>1. PICK s \in Ini!Words, w \in Ini!Words : k = <<s, w>>
        BY DEF Ini!EntryKeys
      <3>2. k \in Ini!Keys
        BY <3>1, KeysOfLines
      <3> QED BY <3>2 DEF IniValues, IniInv
    <2>3. DictInv' /\ (Ini!Map!Set(k, <<>>) \/ Ini!Map!Unset(k))
      <3>1. CASE Ini!iniparser_set(k, <<>>)
        <4>1. d' = Ini!dictionary_set(k, <<>>)
          BY <3>1 DEF Ini!iniparser_set
        <4> QED BY <2>2, <4>1, DictionarySet
      <3>2. CASE Ini!iniparser_unset(k)
        <4>1. Ini!Find(k) # {} /\ d' = Ini!dictionary_unset(k)
          BY <3>2 DEF Ini!iniparser_unset
        <4> QED BY <2>2, <4>1, DictionaryUnset
      <3> QED BY <1>1, <3>1, <3>2
    <2>4. Ini!Map!Next
      BY <2>2, <2>3, OneNameSet DEF Ini!Map!Next
    <2>5. (Ini!Words)' = Ini!Words
      BY DEF Ini!Words, Ini!strlwc
    <2>6. IniInv'
      BY <2>1, <2>3, <2>5 DEF IniInv
    <2> QED BY <2>4, <2>6
  <1>2. CASE Ini!ReadLine
    BY <1>2, IniReadLine
  <1>3. CASE Ini!LoadReturns
    BY <1>3, IniLoadReturns
  <1> QED BY <1>1, <1>2, <1>3 DEF Ini!Next

\* The whole file is read when the load returns.
LEMMA IniCorrect ==
    ASSUME IniInv
    PROVE  Ini!SlotsConsistent /\ Ini!LoadedAsWritten
  <1>1. Ini!SlotsConsistent
    <2>1. /\ \A i, j \in UsedIn(d.key) : d.key[i] = d.key[j] => i = j
          /\ d.n = Ini!Cardinality(UsedIn(d.key)) /\ Ini!Used = UsedIn(d.key)
      <3>1. DictInv
        BY DEF IniInv
      <3> QED BY <3>1, SameCardinality, DictOperators, DictTypes DEF Apart
    <2> QED BY <2>1 DEF Ini!SlotsConsistent
  <1>2. ASSUME status = "ready", ~edited
        PROVE  Seen(lineno) = Ini!Entries /\ Loaded
    <2>1. lineno = Len(file) /\ Loaded /\ Len(file) \in Nat
      BY <1>2, FileTypes DEF IniInv
    <2>2. \A i \in Ini!Entries : i <= Len(file) /\ (file[i].kind = "continued" => i < Len(file))
      BY <2>1 DEF Ini!Entries
    <2> QED BY <2>1, <2>2 DEF Seen
  <1>3. Ini!LoadedAsWritten
    BY <1>2 DEF Ini!LoadedAsWritten, Loaded, Latest
  <1> QED BY <1>1, <1>3

\* The place of an element in a finite set of numbers.
Below(S, a) == {b \in S : b < a}

LEMMA RankUnique ==
    ASSUME NEW S \in SUBSET Nat, IsFiniteSet(S), NEW a \in S
    PROVE  /\ Cardinality(Below(S, a)) < Cardinality(S)
           /\ \A b \in S : Cardinality(Below(S, b)) = Cardinality(Below(S, a)) => b = a
  <1>1. ASSUME NEW x \in S, NEW T \in SUBSET S, x \in T, Below(S, x) \subseteq T
        PROVE  Cardinality(Below(S, x)) < Cardinality(T)
    <2>1. IsFiniteSet(T)
      BY FS_Subset
    <2>2. IsFiniteSet(Below(S, x)) /\ Cardinality(Below(S, x)) \in Nat /\ Cardinality(T) \in Nat
      BY <1>1, <2>1, FS_Subset, FS_CardinalityType
    <2>3. x \notin Below(S, x)
      BY DEF Below
    <2>4. Below(S, x) # T
      BY <1>1, <2>3
    <2>5. Cardinality(Below(S, x)) <= Cardinality(T) /\ Cardinality(Below(S, x)) # Cardinality(T)
      BY <1>1, <2>1, <2>4, FS_Subset
    <2> QED BY <2>2, <2>5
  <1>2. Below(S, a) \subseteq S
    BY DEF Below
  <1>3. Cardinality(Below(S, a)) < Cardinality(S)
    BY <1>1, <1>2
  <1>4. ASSUME NEW x \in S, NEW y \in S, x < y
        PROVE  Cardinality(Below(S, x)) # Cardinality(Below(S, y))
    <2> DEFINE T == Below(S, y)
    <2>1. T \subseteq S /\ x \in T /\ Below(S, x) \subseteq T
      <3>1. \A b \in S : b < x => b < y
        <4> SUFFICES ASSUME NEW b \in S, b < x PROVE b < y
          OBVIOUS
        <4>1. b \in Nat /\ x \in Nat /\ y \in Nat
          OBVIOUS
        <4> QED BY <1>4, <4>1
      <3> QED BY <1>4, <3>1 DEF Below
    <2>2. IsFiniteSet(T) /\ IsFiniteSet(Below(S, x))
      BY <2>1, FS_Subset
    <2>3. Cardinality(T) \in Nat /\ Cardinality(Below(S, x)) \in Nat
      BY <2>2, FS_CardinalityType
    <2>4. Cardinality(Below(S, x)) < Cardinality(T)
      BY <1>1, <2>1
    <2> HIDE DEF T
    <2>5. Cardinality(Below(S, x)) # Cardinality(T)
      BY <2>3, <2>4
    <2> QED BY <2>5 DEF T
  <1>5. ASSUME NEW b \in S, Cardinality(Below(S, b)) = Cardinality(Below(S, a))
        PROVE  b = a
    <2>1. ~(a < b) /\ ~(b < a)
      BY <1>4, <1>5
    <2> QED BY <2>1
  <1> QED BY <1>3, <1>5

\* A numbering that keeps the order keeps the places.
LEMMA SameRank ==
    ASSUME NEW F \in SUBSET Nat, NEW S \in SUBSET Nat, IsFiniteSet(F), NEW h \in [F -> S],
           \A a \in S : \E i \in F : h[i] = a,
           \A i, j \in F : i < j => h[i] < h[j]
    PROVE  /\ Cardinality(F) = Cardinality(S) /\ IsFiniteSet(S)
           /\ \A i \in F : Cardinality(Below(F, i)) = Cardinality(Below(S, h[i]))
  <1>1. \A i, j \in F : /\ h[i] \in Nat /\ h[j] \in Nat /\ i \in Nat /\ j \in Nat
                        /\ h[i] < h[j] => i < j
                        /\ h[i] = h[j] => i = j
    <2> SUFFICES ASSUME NEW i \in F, NEW j \in F
                 PROVE  (h[i] < h[j] => i < j) /\ (h[i] = h[j] => i = j)
      OBVIOUS
    <2>1. h[i] \in Nat /\ h[j] \in Nat /\ i \in Nat /\ j \in Nat
      OBVIOUS
    <2>2. (i < j => h[i] < h[j]) /\ (j < i => h[j] < h[i])
      OBVIOUS
    <2> QED BY <2>1, <2>2
  <1>2. h \in Bijection(F, S)
    BY <1>1 DEF Bijection, Injection, Surjection, IsInjective
  <1>3. Cardinality(F) = Cardinality(S) /\ IsFiniteSet(S)
    <2>1. ExistsBijection(F, S)
      BY <1>2 DEF ExistsBijection
    <2> QED BY <2>1, FS_Bijection
  <1>4. ASSUME NEW i \in F
        PROVE  Cardinality(Below(F, i)) = Cardinality(Below(S, h[i]))
    <2> DEFINE A == Below(F, i)
               B == Below(S, h[i])
               g == [j \in A |-> h[j]]
    <2>1. A \subseteq F /\ IsFiniteSet(A)
      <3>1. A \subseteq F
        BY DEF Below
      <3> QED BY <3>1, FS_Subset
    <2>2. \A j \in A : h[j] \in B
      BY <1>1 DEF Below
    <2>3. \A b \in B : \E j \in A : h[j] = b
      <3> SUFFICES ASSUME NEW b \in B PROVE \E j \in A : h[j] = b
        OBVIOUS
      <3>1. PICK j \in F : h[j] = b
        BY DEF Below
      <3>2. j < i
        BY <1>1, <3>1 DEF Below
      <3> QED BY <3>1, <3>2 DEF Below
    <2>4. \A j, k \in A : h[j] = h[k] => j = k
      BY <1>1, <2>1
    <2> HIDE DEF A, B
    <2>5. g \in Bijection(A, B)
      BY <2>2, <2>3, <2>4 DEF Bijection, Injection, Surjection, IsInjective
    <2>6. ExistsBijection(A, B)
      BY <2>5 DEF ExistsBijection
    <2>7. Cardinality(A) = Cardinality(B)
      BY <2>1, <2>6, FS_Bijection
    <2> QED BY <2>7 DEF A, B
  <1> QED BY <1>3, <1>4

\* The first lines of the sections of the file, and the slots of those of the array.
SectionFirsts == {i \in Ini!Entries : file[i].kind = "section"
                     /\ \A j \in Ini!Entries : Ini!EntryAt(j) = Ini!EntryAt(i) => i <= j}
SectionSlots == {a \in UsedIn(d.key) : Ini!IsSection(d.key[a])}

\* The sections of the file and those of the array, when the load has returned.
LEMMA SectionsNumbered ==
    ASSUME IniInv, status = "ready", ~edited,
           NEW F, F = SectionFirsts, NEW S, S = SectionSlots
    PROVE  \E h \in [F -> S] :
              /\ \A i \in F : d.key[h[i]] = Ini!EntryAt(i)
              /\ \A a \in S : \E i \in F : h[i] = a
              /\ \A i, j \in F : i < j => h[i] < h[j]
  <1> DEFINE K == d.key
             U == UsedIn(d.key)
             h == [i \in F |-> CHOOSE a \in U : K[a] = Ini!EntryAt(i)]
  <1>0. /\ F = {i \in Ini!Entries : file[i].kind = "section"
                   /\ \A j \in Ini!Entries : Ini!EntryAt(j) = Ini!EntryAt(i) => i <= j}
        /\ S = {a \in U : Ini!IsSection(K[a])}
    BY DEF SectionFirsts, SectionSlots
  <1>1. DictInv /\ Loaded /\ lineno = Len(file) /\ Len(file) \in Nat
    BY FileTypes DEF IniInv
  <1>2. Seen(lineno) = Ini!Entries /\ Ini!Entries \subseteq Nat
    <2>1. \A i \in Ini!Entries : i \in Nat /\ i <= Len(file)
                                 /\ (file[i].kind = "continued" => i < Len(file))
      BY <1>1 DEF Ini!Entries
    <2> QED BY <1>1, <2>1 DEF Seen
  <1>3. /\ Apart(K)
        /\ {K[a] : a \in U} = {Ini!EntryAt(i) : i \in Ini!Entries}
    <2>1. Apart(K) /\ Ini!View = MapOf(K, d.val)
      BY <1>1, DictOperators, DictTypes
    <2>2. DOMAIN Ini!View = {K[a] : a \in U}
      BY <2>1, MapAt
    <2>3. DOMAIN Ini!View = {Ini!EntryAt(i) : i \in Seen(lineno)}
      BY <1>1 DEF Loaded
    <2> QED BY <1>2, <2>1, <2>2, <2>3
  <1>4. \A i \in Ini!Entries : Ini!IsSection(Ini!EntryAt(i)) <=> file[i].kind = "section"
    <2> SUFFICES ASSUME NEW i \in Ini!Entries
                 PROVE  Ini!IsSection(Ini!EntryAt(i)) <=> file[i].kind = "section"
      OBVIOUS
    <2>1. CASE file[i].kind = "section"
      BY <2>1 DEF Ini!IsSection, Ini!EntryAt
    <2>2. CASE file[i].kind # "section"
      BY <2>2 DEF Ini!IsSection, Ini!EntryAt
    <2> QED BY <2>1, <2>2
  <1>5. ASSUME NEW i \in F
        PROVE  h[i] \in S /\ K[h[i]] = Ini!EntryAt(i)
    <2>1. \E a \in U : K[a] = Ini!EntryAt(i)
      <3>1. Ini!EntryAt(i) \in {K[a] : a \in U}
        BY <1>0, <1>3
      <3> QED BY <3>1
    <2> DEFINE c == CHOOSE a \in U : K[a] = Ini!EntryAt(i)
    <2>2. c \in U /\ K[c] = Ini!EntryAt(i) /\ h[i] = c
      BY <2>1
    <2> HIDE DEF c, h
    <2>3. Ini!IsSection(K[c])
      <3>1. Ini!IsSection(Ini!EntryAt(i))
        BY <1>0, <1>4
      <3> QED BY <2>2, <3>1
    <2> QED BY <1>0, <2>2, <2>3
  <1>6. h \in [F -> S]
    BY <1>5
  <1>7. \A x \in DOMAIN h : h[x] = (CHOOSE a \in U : K[a] = Ini!EntryAt(x))
    OBVIOUS
  <1> HIDE DEF h
  <1>8. ASSUME NEW a \in S
        PROVE  \E i \in F : h[i] = a
    <2>1. a \in U /\ Ini!IsSection(K[a])
      BY <1>0
    <2>2. PICK x \in Ini!Entries : K[a] = Ini!EntryAt(x)
      <3>1. K[a] \in {Ini!EntryAt(i) : i \in Ini!Entries}
        BY <1>3, <2>1
      <3> QED BY <3>1
    <2> DEFINE E == {i \in Ini!Entries : Ini!EntryAt(i) = Ini!EntryAt(x)}
               i == Ini!First(E)
    <2>3. E \in SUBSET Nat /\ E # {}
      BY <1>2, <2>2
    <2>4. i \in E /\ \A j \in E : i <= j
      BY <2>3, FirstIsLeast
    <2> HIDE DEF i
    <2>5. i \in Ini!Entries /\ Ini!EntryAt(i) = K[a]
      BY <2>2, <2>4
    <2>6. file[i].kind = "section"
      <3>1. Ini!IsSection(Ini!EntryAt(i))
        BY <2>1, <2>5
      <3> QED BY <1>4, <2>5, <3>1
    <2>7. \A j \in Ini!Entries : Ini!EntryAt(j) = Ini!EntryAt(i) => i <= j
      BY <2>2, <2>4, <2>5
    <2>8. i \in F
      BY <1>0, <2>5, <2>6, <2>7
    <2>9. h[i] \in U /\ K[h[i]] = K[a]
      BY <1>0, <1>5, <2>5, <2>8
    <2>10. h[i] = a
      BY <1>3, <2>1, <2>9 DEF Apart
    <2> QED BY <2>8, <2>10
  <1>9. ASSUME NEW i \in F, NEW j \in F, i < j
        PROVE  h[i] < h[j]
    <2>1. i \in Firsts(lineno) /\ j \in Firsts(lineno)
      BY <1>0, <1>2 DEF Firsts
    <2>2. h[i] \in U /\ h[j] \in U /\ K[h[i]] = Ini!EntryAt(i) /\ K[h[j]] = Ini!EntryAt(j)
      BY <1>0, <1>5
    <2>3. Ordered
      BY <1>1 DEF Loaded
    <2> QED BY <1>9, <2>1, <2>2, <2>3 DEF Ordered
  <1> QED BY <1>5, <1>6, <1>8, <1>9

LEMMA SectionsOrdered ==
    ASSUME IniInv
    PROVE  Ini!SectionsInOrder
  <1>0. SUFFICES ASSUME status = "ready", ~edited,
                      NEW F, F = SectionFirsts, NEW S, S = SectionSlots
               PROVE  /\ Ini!iniparser_getnsec = Ini!Cardinality(F)
                      /\ \A i \in F : Ini!iniparser_getsecname(
                             Ini!Cardinality({j \in F : j < i})) = Ini!EntryAt(i)
    BY DEF Ini!SectionsInOrder, SectionFirsts
  <1>1. Ini!Sections = S
    BY <1>0, DictOperators DEF Ini!Sections, SectionSlots
  <1>2. PICK h \in [F -> S] :
              /\ \A i \in F : d.key[h[i]] = Ini!EntryAt(i)
              /\ \A a \in S : \E i \in F : h[i] = a
              /\ \A i, j \in F : i < j => h[i] < h[j]
    BY <1>0, SectionsNumbered
  <1>3. S \in SUBSET Nat /\ F \in SUBSET Nat
    <2>1. UsedIn(d.key) \subseteq Nat
      <3>1. DictInv
        BY DEF IniInv
      <3>2. UsedIn(d.key) \subseteq 1 .. Len(d.key)
        BY <3>1, DictTypes
      <3> QED BY <3>2
    <2> QED BY <1>0, <2>1 DEF Ini!Entries, SectionFirsts, SectionSlots
  <1>4. IsFiniteSet(F)
    <2>1. F \subseteq 1 .. Len(file) /\ Len(file) \in Nat
      BY <1>0, FileTypes DEF Ini!Entries, SectionFirsts
    <2>2. IsFiniteSet(1 .. Len(file))
      BY <2>1, FS_Interval
    <2> QED BY <2>1, <2>2, FS_Subset
  <1>5. Ini!iniparser_getnsec = Cardinality(S)
    <2>1. Ini!iniparser_getnsec = Ini!Cardinality(S)
      BY <1>1 DEF Ini!iniparser_getnsec
    <2> QED BY <2>1, SameCardinality
  <1>6. /\ h \in [F -> S] /\ (\A a \in S : \E i \in F : h[i] = a)
        /\ \A i, j \in F : i < j => h[i] < h[j]
    BY <1>2
  <1>7. /\ Cardinality(F) = Cardinality(S) /\ IsFiniteSet(S)
        /\ \A i \in F : Cardinality(Below(F, i)) = Cardinality(Below(S, h[i]))
    BY <1>3, <1>4, <1>6, SameRank
  <1>8. ASSUME NEW i \in F
        PROVE  Ini!iniparser_getsecname(Ini!Cardinality({j \in F : j < i})) = Ini!EntryAt(i)
    <2> DEFINE n == Cardinality(Below(F, i))
               c == CHOOSE a \in S : Ini!Cardinality({b \in S : b < a}) = n
    <2>1. Ini!Cardinality({j \in F : j < i}) = n
      BY SameCardinality DEF Below
    <2>2. h[i] \in S /\ n = Cardinality(Below(S, h[i])) /\ d.key[h[i]] = Ini!EntryAt(i)
      BY <1>2, <1>7
    <2>3. /\ Cardinality(Below(S, h[i])) < Cardinality(S)
          /\ \A b \in S : Cardinality(Below(S, b)) = Cardinality(Below(S, h[i])) => b = h[i]
      BY <1>3, <1>7, <2>2, RankUnique
    <2>4. Cardinality(S) \in Nat /\ n \in Nat
      <3>1. IsFiniteSet(Below(F, i))
        <4>1. Below(F, i) \subseteq F
          BY DEF Below
        <4> QED BY <1>4, <4>1, FS_Subset
      <3> QED BY <1>7, <3>1, FS_CardinalityType
    <2> HIDE DEF n
    <2>5. c = h[i]
      <3>1. \A a \in S : Ini!Cardinality({b \in S : b < a}) = Cardinality(Below(S, a))
        BY SameCardinality DEF Below
      <3>2. c \in S /\ Ini!Cardinality({b \in S : b < c}) = n
        BY <2>2, <3>1
      <3> HIDE DEF c
      <3> QED BY <2>2, <2>3, <3>1, <3>2
    <2>6. ~(Cardinality(S) <= n)
      BY <2>2, <2>3, <2>4
    <2>7. Ini!iniparser_getsecname(n) = d.key[c]
      BY <1>1, <1>5, <2>6 DEF Ini!iniparser_getsecname
    <2> HIDE DEF c
    <2> QED BY <2>1, <2>2, <2>5, <2>7
  <1>9. Ini!iniparser_getnsec = Ini!Cardinality(F)
    BY <1>5, <1>7, SameCardinality
  <1> QED BY <1>8, <1>9

-----------------------------------------------------------------------------
(* The host's side together.                                                   *)

HostInv == UmfInv /\ PipeInv /\ IniInv /\ JtagInv /\ PioInv /\ HtgInv /\ NocInv

\* Every behaviour of the host's side keeps the invariants of its parts, whatever the
\* sizes of chunks, pipes, counters, tests and messages: the Unix pipe, the JTAG
\* terminals, the PIO link, the HTG debugger, the BlueNoC device, the UMF messages and
\* the dictionary of leap-fpga-ctrl, for every file, never reach a state outside them.
THEOREM HostInvariant == HostSpec => []HostInv
  <1>1. HostInit => HostInv
    BY UmfInit, PipeInit, IniInit, JtagInit, PioInit, HtgInit, NocInit DEF HostInit, HostInv, JtagInv
  <1>2. HostInv /\ [HostNext]_mcVars => HostInv'
    <2> SUFFICES ASSUME HostInv, [HostNext]_mcVars
                 PROVE  HostInv'
      OBVIOUS
    <2>1. [Next]_umfVars
      BY DEF HostNext, mcVars
    <2>2. Pipe!Next \/ UNCHANGED pipePart
      BY DEF HostNext, mcVars
    <2>3. /\ part' = part
          /\ \/ part = "xilinx" /\ Xilinx!Next
             \/ part = "altera" /\ Altera!Next
             \/ UNCHANGED jtagPart
      BY DEF HostNext, mcVars
    <2>4. Pio!Next \/ UNCHANGED pioPart
      BY DEF HostNext, mcVars
    <2>5. Htg!Next \/ UNCHANGED htgPart
      BY DEF HostNext, mcVars
    <2>6. Noc!Next \/ UNCHANGED nocPart
      BY DEF HostNext, mcVars
    <2>7. IniInv'
      <3>1. Ini!Next \/ UNCHANGED iniPart
        BY DEF HostNext, mcVars
      <3> QED BY <3>1, IniKeeps, IniStutter DEF HostInv
    <2>8. UmfInv' /\ PipeInv'
      BY <2>1, <2>2, UmfStep, PipeKeeps, PipeStutter DEF HostInv
    <2>9. JtagInv'
      BY <2>3, JtagKeeps, JtagStutter DEF HostInv
    <2>10. PioInv' /\ HtgInv' /\ NocInv'
      BY <2>4, <2>5, <2>6, PioKeeps, PioStutter, HtgKeeps, HtgStutter, NocKeeps, NocStutter
         DEF HostInv
    <2> QED BY <2>7, <2>8, <2>9, <2>10 DEF HostInv
  <1> QED BY <1>1, <1>2, PTL DEF HostSpec

\* What one side of a link writes reaches the other complete, once and in order, in
\* both directions: through unix-pipe-device.cpp and its driver for every size of
\* chunks and pipes, past the blanks of the JTAG terminals, through the stores and
\* counters of PioFifo.bsv, whatever wraps; the instructions of the HTG debugger are
\* executed once although their numbers wrap, and the BlueNoC tests read back what
\* they wrote.
THEOREM StreamsCorrect == HostSpec => []StreamsIntact
  <1>1. HostInv => StreamsIntact
    BY PipeCorrect, JtagCorrect, PioCorrect, HtgCorrect, NocCorrect DEF HostInv, StreamsIntact
  <1> QED BY <1>1, HostInvariant, PTL

\* The messages of umf.cpp arrive whole in every behaviour of the host's side.
THEOREM HostMessagesCorrect == HostSpec => []MessagesIntact
  <1>1. HostInv => MessagesIntact
    BY UmfCorrect DEF HostInv
  <1> QED BY <1>1, HostInvariant, PTL

\* Whatever the file says, iniparser.c stores the value of the last line for each
\* name, continued lines joined, in the section that the line is in, the sections are
\* numbered in the order in which they first occur, and dictionary.c keeps each name
\* in one slot and counts its slots through growth and deletion.
THEOREM LoadedCorrect == HostSpec => []LoadedAsWritten
  <1>1. HostInv => LoadedAsWritten
    BY IniCorrect, SectionsOrdered DEF HostInv, LoadedAsWritten
  <1> QED BY <1>1, HostInvariant, PTL

\* The array of slots of dictionary.c behaves like a map from names to values: every
\* dictionary_set, with or without growth of the arrays, and every dictionary_unset
\* changes the map at one name, and no other step changes it.
THEOREM DictionaryImplementsMap == HostSpec => ImplementsMap
  <1>1. HostInit => Ini!Map!Init
    BY IniInit DEF HostInit
  <1>2. HostInv /\ [HostNext]_mcVars => [Ini!Map!Next]_(Ini!View)
    <2> SUFFICES ASSUME HostInv, [HostNext]_mcVars
                 PROVE  Ini!Map!Next \/ UNCHANGED Ini!View
      OBVIOUS
    <2>1. Ini!Next \/ UNCHANGED iniPart
      BY DEF HostNext, mcVars
    <2> QED BY <2>1, IniKeeps, IniStutter DEF HostInv
  <1> QED BY <1>1, <1>2, HostInvariant, PTL DEF HostSpec, ImplementsMap, Ini!ImplementsMap, Ini!Map!Spec
==============================================================================
