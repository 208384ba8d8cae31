------------------------- MODULE AuroraReliableProofs -------------------------
(***************************************************************************)
(* TLAPS proofs about AuroraReliable, for every frame size, number of      *)
(* frames in flight, size of the sequence space, depth of the queues and   *)
(* length of the run.                                                      *)
(***************************************************************************)
EXTENDS AuroraInvariant, SequenceTheorems, TLAPS

-----------------------------------------------------------------------------
(* Arithmetic of sequence numbers. *)

(* A number is its quotient times the size of the space plus its SeqNo. *)
LEMMA SeqNoSplit ==
    ASSUME NEW f \in Nat
    PROVE  /\ SeqNo(f) \in 0 .. SequenceNumbers - 1
           /\ f \div SequenceNumbers \in Int
           /\ f = SequenceNumbers * (f \div SequenceNumbers) + SeqNo(f)
  BY AuroraAssumption DEF SeqNo

(* Two frames less than half a space apart differ by the difference of     *)
(* their sequence numbers, up to one wrap.                                 *)
LEMMA SeqNoDifference ==
    ASSUME NEW f \in Nat, NEW g \in Nat,
           f - g < SequenceNumbers, g - f < SequenceNumbers
    PROVE  \/ f - g = SeqNo(f) - SeqNo(g)
           \/ f - g = SeqNo(f) - SeqNo(g) + SequenceNumbers
           \/ f - g = SeqNo(f) - SeqNo(g) - SequenceNumbers
<1> DEFINE n == SequenceNumbers
           d == (f \div n) - (g \div n)
<1>1. f - g = n * d + (SeqNo(f) - SeqNo(g)) /\ d \in Int
  <2>1. /\ f = n * (f \div n) + SeqNo(f)
        /\ f \div n \in Int /\ SeqNo(f) \in Int
    BY SeqNoSplit, AuroraAssumption
  <2>2. /\ g = n * (g \div n) + SeqNo(g)
        /\ g \div n \in Int /\ SeqNo(g) \in Int
    BY SeqNoSplit, AuroraAssumption
  <2>3. n \in Nat
    BY AuroraAssumption
  <2> QED
    BY <2>1, <2>2, <2>3
<1>2. SeqNo(f) \in 0 .. n - 1 /\ SeqNo(g) \in 0 .. n - 1 /\ n \in Nat \ {0}
  BY SeqNoSplit, AuroraAssumption
<1> HIDE DEF n, d
<1>3. f - g < n /\ g - f < n
  BY DEF n
<1>4. d \in {-1, 0, 1}
  BY <1>1, <1>2, <1>3
<1>5. n * 1 = n /\ n * 0 = 0 /\ n * (-1) = -n
  BY <1>2
<1> QED
  BY <1>1, <1>2, <1>4, <1>5 DEF n

(* Frames less than a space apart with the same sequence number are the    *)
(* same frame.                                                             *)
LEMMA SameSeqNo ==
    ASSUME NEW f \in Nat, NEW g \in Nat,
           f - g < SequenceNumbers, g - f < SequenceNumbers,
           SeqNo(f) = SeqNo(g)
    PROVE  f = g
<1>1. \/ f - g = SeqNo(f) - SeqNo(g)
      \/ f - g = SeqNo(f) - SeqNo(g) + SequenceNumbers
      \/ f - g = SeqNo(f) - SeqNo(g) - SequenceNumbers
  BY SeqNoDifference
<1>2. SeqNo(f) \in Int /\ SequenceNumbers \in Nat
  BY SeqNoSplit, AuroraAssumption
<1> QED
  BY <1>1, <1>2

(* The acceptance test of rxDemarsh is exact for every header that can     *)
(* arrive: at most MaxFrames behind and less than MaxFrames ahead.  This   *)
(* is where SequenceNumbers >= 4 * MaxFrames is needed.                    *)
LEMMA HeaderTest ==
    ASSUME NEW r \in Nat, NEW f \in Nat, f - r < MaxFrames, r - f <= MaxFrames
    PROVE  SequenceError(SeqNo(r), SeqNo(f)) <=> f > r
<1> DEFINE half == SequenceNumbers \div 2
<1>1. SequenceNumbers = 2 * half /\ half \in Nat /\ half >= 2 * MaxFrames
  BY AuroraAssumption
<1>2. /\ SeqNo(r) \in 0 .. SequenceNumbers - 1
      /\ SeqNo(f) \in 0 .. SequenceNumbers - 1
  BY SeqNoSplit
<1>3. \/ f - r = SeqNo(f) - SeqNo(r)
      \/ f - r = SeqNo(f) - SeqNo(r) + SequenceNumbers
      \/ f - r = SeqNo(f) - SeqNo(r) - SequenceNumbers
  BY SeqNoDifference, AuroraAssumption
<1> QED
  BY <1>1, <1>2, <1>3, AuroraAssumption DEF SequenceError, TopBit

(* The types of the constants alone. *)
LEMMA ConstantTypes ==
    /\ FrameSize \in Nat /\ FrameSize > 1
    /\ MaxFrames \in Nat /\ MaxFrames > 0
    /\ AckDepth \in Nat /\ CCCycles \in Nat /\ RxDepth \in Nat
    /\ LinkBound \in Nat /\ MaxWords \in Nat
  BY AuroraAssumption

(* Multiplication by the frame size. *)
LEMMA FrameStart ==
    ASSUME NEW f \in Nat
    PROVE  /\ f * FrameSize \in Nat
           /\ (f + 1) * FrameSize = f * FrameSize + FrameSize
  BY AuroraAssumption

(* Later frames start later in the stream. *)
LEMMA FrameOrder ==
    ASSUME NEW f \in Nat, NEW g \in Nat, f <= g
    PROVE  f * FrameSize <= g * FrameSize
  BY AuroraAssumption

-----------------------------------------------------------------------------
(* The chained hash. *)

(* The chained hash of a header and p words has p + 1 elements. *)
LEMMA ChainType ==
    ASSUME NEW f \in Nat, NEW p \in Nat
    PROVE  Chain(f, p) \in Hashes /\ Len(Chain(f, p)) = p + 1
<1>1. SeqNo(f) \in Nat
  BY SeqNoSplit
<1>2. f * FrameSize \in Nat
  BY FrameStart
<1>3. \A k \in 1 .. p + 1 : Chain(f, p)[k] \in {"header", "payload"} \X Nat
  BY <1>1, <1>2 DEF Chain
<1>4. Chain(f, p) = [k \in 1 .. p + 1 |-> Chain(f, p)[k]]
  BY DEF Chain
<1> HIDE DEF Chain
<1>5. Chain(f, p) \in Seq({"header", "payload"} \X Nat)
  BY <1>3, <1>4, IsASeq
<1>6. Len(Chain(f, p)) = p + 1
  BY <1>4, <1>5, LenProperties
<1> QED
  BY <1>5, <1>6 DEF Hashes

(* The hash of a header starts the chain of its frame. *)
LEMMA ChainHeader ==
    ASSUME NEW f \in Nat
    PROVE  Hash(NoSalt, <<"header", SeqNo(f)>>) = Chain(f, 0)
  BY DEF Hash, NoSalt, Chain

(* The hash of the next word extends it. *)
LEMMA ChainAppend ==
    ASSUME NEW f \in Nat, NEW p \in Nat
    PROVE  Hash(Chain(f, p), <<"payload", f * FrameSize + p>>)
             = Chain(f, p + 1)
<1> DEFINE c == Chain(f, p)  d == Chain(f, p + 1)
           e == Append(c, <<"payload", f * FrameSize + p>>)
<1>1. f * FrameSize \in Nat
  BY FrameStart
<1>2. e \in Seq({"header", "payload"} \X Nat) /\ Len(e) = p + 2
  <2>1. c \in Seq({"header", "payload"} \X Nat) /\ Len(c) = p + 1
    BY ChainType DEF Hashes
  <2>2. <<"payload", f * FrameSize + p>> \in {"header", "payload"} \X Nat
    BY <1>1
  <2> HIDE DEF c
  <2> QED
    BY <2>1, <2>2, AppendProperties
<1>3. d \in Seq({"header", "payload"} \X Nat) /\ Len(d) = p + 2
  <2>1. d \in Hashes /\ Len(d) = (p + 1) + 1
    BY ChainType
  <2> QED
    BY <2>1 DEF Hashes
<1>4. ASSUME NEW k \in 1 .. p + 2 PROVE e[k] = d[k]
  <2>1. c \in Seq({"header", "payload"} \X Nat) /\ Len(c) = p + 1
    BY ChainType DEF Hashes
  <2>2. d[k] = IF k = 1 THEN <<"header", SeqNo(f)>>
                        ELSE <<"payload", f * FrameSize + k - 2>>
    BY DEF Chain
  <2>3. CASE k = p + 2
    <3>1. e[k] = <<"payload", f * FrameSize + p>>
      BY <2>1, <2>3
    <3>2. k # 1 /\ f * FrameSize + k - 2 = f * FrameSize + p
      BY <2>3, <1>1
    <3> HIDE DEF c, d, e
    <3> QED
      BY <3>1, <3>2, <2>2
  <2>4. CASE k # p + 2
    <3>1. e[k] = c[k]
      BY <2>1, <2>4
    <3>2. c[k] = IF k = 1 THEN <<"header", SeqNo(f)>>
                          ELSE <<"payload", f * FrameSize + k - 2>>
      BY <2>4 DEF Chain
    <3> QED
      BY <3>1, <3>2, <2>2
  <2> QED
    BY <2>3, <2>4
<1>5. e = d
  BY <1>2, <1>3, <1>4, SeqEqual
<1> QED
  BY <1>5 DEF Hash

(* No collisions: a hash determines the salt and the chunk. *)
LEMMA HashInjective ==
    ASSUME NEW s \in Hashes, NEW t \in Hashes,
           NEW x \in {"header", "payload"} \X Nat,
           NEW y \in {"header", "payload"} \X Nat, Hash(s, x) = Hash(t, y)
    PROVE  s = t /\ x = y
  BY AppendInjective DEF Hashes, Hash

(* Equal chains have the same length and the same header. *)
LEMMA ChainInjective ==
    ASSUME NEW f \in Nat, NEW p \in Nat, NEW g \in Nat, NEW q \in Nat,
           Chain(f, p) = Chain(g, q)
    PROVE  p = q /\ SeqNo(f) = SeqNo(g)
<1>1. p = q
  BY ChainType
<1>2. ASSUME NEW h \in Nat, NEW n \in Nat
      PROVE  Chain(h, n)[1] = <<"header", SeqNo(h)>>
  <2>1. 1 \in 1 .. n + 1
    OBVIOUS
  <2> QED
    BY <2>1 DEF Chain
<1> QED
  BY <1>1, <1>2

-----------------------------------------------------------------------------
(* Queues. *)

(* What taking the first element of a queue leaves. *)
LEMMA QueueTail ==
    ASSUME NEW S, NEW q \in Seq(S), q # <<>>
    PROVE  /\ Head(q) \in S /\ Tail(q) \in Seq(S)
           /\ Len(q) \in Nat \ {0} /\ Len(Tail(q)) = Len(q) - 1
           /\ Head(q) = q[1] /\ 1 \in DOMAIN q
           /\ DOMAIN Tail(q) = 1 .. Len(q) - 1
           /\ \A i \in DOMAIN Tail(q) : Tail(q)[i] = q[i + 1]
  BY HeadTailProperties, LenProperties, EmptySeq

(* What appending to a queue adds. *)
LEMMA QueueAppend ==
    ASSUME NEW S, NEW q \in Seq(S), NEW x \in S
    PROVE  /\ Append(q, x) \in Seq(S)
           /\ Len(q) \in Nat /\ Len(Append(q, x)) = Len(q) + 1
           /\ DOMAIN Append(q, x) = 1 .. Len(q) + 1
           /\ \A i \in DOMAIN q : Append(q, x)[i] = q[i]
           /\ Append(q, x)[Len(q) + 1] = x
  BY AppendProperties, LenProperties

-----------------------------------------------------------------------------
(* Types. *)

(* The flits that are sent, and their hashes, have their types. *)
LEMMA FlitTypes ==
    ASSUME NEW f \in Nat, NEW w \in Nat, NEW salt \in Hashes,
           NEW type \in {"header", "payload"}
    PROVE  /\ HeaderFlit(f) \in Flits
           /\ PayloadFlit(salt, f, w) \in Flits
           /\ NoiseFlit(type) \in Flits
           /\ Hash(salt, <<"payload", w>>) \in Hashes
           /\ Hash(NoSalt, <<"header", SeqNo(f)>>) \in Hashes
<1>1. SeqNo(f) \in Nat
  BY SeqNoSplit
<1>2. NoSalt \in Hashes
  BY DEF NoSalt, Hashes
<1>3. Hash(NoSalt, <<"header", SeqNo(f)>>) \in Hashes
  BY <1>1 DEF Hash, Hashes, NoSalt
<1>4. Hash(salt, <<"payload", w>>) \in Hashes
  BY DEF Hash, Hashes
<1> QED
  BY <1>2, <1>3, <1>4 DEF HeaderFlit, PayloadFlit, NoiseFlit, Flit, Flits

(* What rxDemarsh computes from the flit at the head of the link. *)
LEMMA HeadTypes ==
    ASSUME TypeOK, link # <<>>
    PROVE  /\ Head(link) \in Flits
           /\ Tail(link) \in Seq(Flits)
           /\ Len(Tail(link)) <= LinkBound
           /\ HashRX \in Hashes
           /\ NextParityRX \in Hashes
<1>1. Head(link) \in Flits /\ Tail(link) \in Seq(Flits)
      /\ Len(Tail(link)) <= LinkBound
  BY AuroraAssumption DEF TypeOK, LinkTypeOK
<1>2. HashRX \in Hashes
  BY <1>1, FlitTypes DEF HashRX, Flits, TypeOK, RxTypeOK
<1>3. NoSalt \in Hashes
  BY DEF NoSalt, Hashes
<1> QED
  BY <1>1, <1>2, <1>3 DEF NextParityRX

(* No step takes a register or a queue out of its type. *)
LEMMA TypeStep == TypeOK /\ [Next]_vars => TypeOK'
<1> SUFFICES ASSUME TypeOK, [Next]_vars PROVE TypeOK'
  OBVIOUS
<1> USE ConstantTypes
<1>1. CASE TickTX
  BY <1>1 DEF TickTX, TypeOK, TxTypeOK, RxTypeOK, LinkTypeOK, rxVars,
     dataVars, seqVars, sendVars, waitVars, frameVars, outVars
<1>17. CASE TickRX
  BY <1>17 DEF TickRX, TypeOK, TxTypeOK, RxTypeOK, LinkTypeOK, txVars,
     dataVars, seqVars, sendVars, waitVars, frameVars, outVars
<1>2. CASE SequenceStuffer
  BY <1>2 DEF SequenceStuffer, TypeOK, TxTypeOK, RxTypeOK, LinkTypeOK, rxVars,
     dataVars, sendVars, waitVars, frameVars, outVars
<1>3. CASE PassRewind
  BY <1>3 DEF PassRewind, TypeOK, TxTypeOK, RxTypeOK, LinkTypeOK, rxVars,
     seqVars, sendVars, waitVars, frameVars, outVars
<1>4. CASE TxHeader
  <2>1. HeaderFlit(seqFirst) \in Flits
    BY FlitTypes DEF TypeOK, TxTypeOK
  <2>2. link' \in Seq(Flits) /\ Len(link') <= LinkBound /\ parityTX' \in Hashes
    BY <1>4, <2>1 DEF TxHeader, TypeOK, LinkTypeOK, Flits
  <2> QED
    BY <1>4, <2>2 DEF TxHeader, TypeOK, TxTypeOK, RxTypeOK, LinkTypeOK,
       rxVars, dataVars, seqVars, frameVars, outVars
<1>5. CASE TxSend
  <2>1. PayloadFlit(parityTX, seqFirst, dataFirst) \in Flits
    BY FlitTypes DEF TypeOK, TxTypeOK
  <2>2. link' \in Seq(Flits) /\ Len(link') <= LinkBound /\ parityTX' \in Hashes
    BY <1>5, <2>1 DEF TxSend, TypeOK, LinkTypeOK, Flits
  <2>3. /\ ackSequenceNumberRX' \in Seq(Nat)
        /\ Len(ackSequenceNumberRX') <= MaxFrames
    <3>1. /\ Append(ackSequenceNumberRX, seqFirst) \in Seq(Nat)
          /\ Len(Append(ackSequenceNumberRX, seqFirst)) <= MaxFrames
      BY <1>5, QueueAppend DEF TxSend, TypeOK, TxTypeOK
    <3> QED
      BY <1>5, <3>1 DEF TxSend, TypeOK, TxTypeOK
  <2>4. /\ framePositionTX' \in 0 .. FrameSize - 1
        /\ seqFirst' \in Nat
    <3>1. \/ UNCHANGED framePositionTX
          \/ /\ framePositionTX + 1 # FrameSize
             /\ framePositionTX' = framePositionTX + 1
      BY <1>5, Zenon DEF TxSend
    <3>2. seqFirst' = seqFirst + 1 \/ UNCHANGED seqFirst
      BY <1>5, Zenon DEF TxSend
    <3> QED
      BY <3>1, <3>2 DEF TypeOK, TxTypeOK
  <2>5. frameInProgress' \in BOOLEAN
    BY <1>5, Zenon DEF TxSend, TypeOK, TxTypeOK
  <2> QED
    BY <1>5, <2>2, <2>3, <2>4, <2>5 DEF TxSend, TypeOK, TxTypeOK, RxTypeOK,
       LinkTypeOK, rxVars, frameVars, outVars
<1>6. CASE TimeoutTest
  BY <1>6 DEF TimeoutTest, TypeOK, TxTypeOK, RxTypeOK, LinkTypeOK,
     rxVars, dataVars, seqVars, sendVars, waitVars, frameVars, outVars
<1>13. CASE Timeout
  <2>1. <<>> \in Seq(Nat) /\ Len(<<>>) = 0
    BY EmptySeq
  <2>2. frameInProgress' \in BOOLEAN /\ timeoutQ' \in BOOLEAN
    BY <1>13, Zenon DEF Timeout
  <2> QED
    BY <1>13, <2>1, <2>2 DEF Timeout, TypeOK, TxTypeOK, RxTypeOK, LinkTypeOK,
       rxVars, dataVars, seqVars, sendVars, waitVars, frameVars, outVars
<1>7. CASE HandleAck
  <2>1. ackRX' \in Seq(Nat) /\ Len(ackRX') <= AckDepth
    BY <1>7, QueueTail DEF HandleAck, TypeOK, TxTypeOK
  <2>2. /\ ackSequenceNumberRX' \in Seq(Nat)
        /\ Len(ackSequenceNumberRX') <= MaxFrames
    <3>1. /\ Tail(ackSequenceNumberRX) \in Seq(Nat)
          /\ Len(Tail(ackSequenceNumberRX)) <= MaxFrames
      BY <1>7, QueueTail DEF HandleAck, TypeOK, TxTypeOK
    <3> QED
      BY <1>7, <3>1 DEF HandleAck, TypeOK, TxTypeOK, waitVars
  <2>3. /\ frameTimeout' \in 0 .. MaxFrames
        /\ dataCommitted' \in Nat /\ seqCommitted' \in Nat
    <3>1. /\ frameTimeout \in 0 .. MaxFrames /\ frameTimeout > 0
          /\ dataCommitted \in Nat /\ seqCommitted \in Nat
      BY <1>7 DEF HandleAck, TypeOK, TxTypeOK
    <3>2. \/ /\ frameTimeout' = frameTimeout - 1
             /\ dataCommitted' = dataCommitted + FrameSize
             /\ seqCommitted' = seqCommitted + 1
          \/ UNCHANGED <<frameTimeout, dataCommitted, seqCommitted>>
      BY <1>7 DEF HandleAck, waitVars
    <3> QED
      BY <3>1, <3>2, ConstantTypes
  <2> QED
    BY <1>7, <2>1, <2>2, <2>3 DEF HandleAck, TypeOK, TxTypeOK, RxTypeOK,
       LinkTypeOK, rxVars, sendVars, waitVars, frameVars, outVars
<1>14. CASE DropAck
  <2>1. ackRX' \in Seq(Nat) /\ Len(ackRX') <= AckDepth
    BY <1>14, QueueTail DEF DropAck, TypeOK, TxTypeOK
  <2> QED
    BY <1>14, <2>1 DEF DropAck, TypeOK, TxTypeOK, RxTypeOK, LinkTypeOK, rxVars,
       dataVars, seqVars, sendVars, waitVars, frameVars, outVars
<1>15. CASE RxAck
  <2>1. ackLink' \in Seq(Nat) /\ Len(ackLink') <= LinkBound
        /\ Head(ackLink) \in Nat
    BY <1>15, QueueTail DEF RxAck, TypeOK, LinkTypeOK
  <2>2. ackRX' \in Seq(Nat) /\ Len(ackRX') <= AckDepth
    BY <1>15, <2>1, QueueAppend DEF RxAck, TypeOK, TxTypeOK
  <2> QED
    BY <1>15, <2>1, <2>2 DEF RxAck, TypeOK, TxTypeOK, RxTypeOK, LinkTypeOK,
       rxVars, dataVars, seqVars, sendVars, waitVars, frameVars, outVars
<1>8. CASE RxHeader
  <2>1. link # <<>>
    BY <1>8 DEF RxHeader, RxReady
  <2> QED
    BY <1>8, <2>1, HeadTypes DEF RxHeader, TypeOK, TxTypeOK, RxTypeOK,
       LinkTypeOK, Flits, txVars, dataVars, seqVars, sendVars, waitVars, outVars
<1>9. CASE RxPayloadNew \/ RxPayloadRepeat \/ RxPayloadBad
  <2>1. link # <<>> /\ Len(ackSequenceNumberTX) < MaxFrames /\ RxPayload
    BY <1>9 DEF RxPayloadNew, RxPayloadRepeat, RxPayloadBad, RxPayload, RxReady
  <2>2. Head(link).word \in Nat
    BY <2>1, HeadTypes DEF Flits
  <2>3. /\ ackSequenceNumberTX' \in Seq(Nat)
        /\ Len(ackSequenceNumberTX') <= MaxFrames
    <3>1. LET q == Append(ackSequenceNumberTX, provisionalSequenceNumberRX)
          IN  q \in Seq(Nat) /\ Len(q) <= MaxFrames
      BY <2>1, QueueAppend DEF TypeOK, RxTypeOK
    <3> QED
      BY <1>9, <3>1 DEF RxPayloadNew, RxPayloadRepeat, RxPayloadBad,
         AckLastWord, TypeOK, RxTypeOK
  <2>4. received' \in Seq(Nat)
    <3>1. Append(received, Head(link).word) \in Seq(Nat)
      BY <2>2, QueueAppend DEF TypeOK, RxTypeOK
    <3> QED
      BY <1>9, <3>1 DEF RxPayloadNew, RxPayloadRepeat, RxPayloadBad, TypeOK,
         RxTypeOK
  <2>5. /\ framePositionRX' \in 0 .. FrameSize - 1
        /\ provisionalFramePositionRX' \in 0 .. FrameSize - 1
    BY <1>9, <2>1 DEF RxPayloadNew, RxPayloadRepeat, RxPayloadBad, RxPayload,
       NextPosition, TypeOK, RxTypeOK
  <2>6. sequenceNumberRX' \in Nat
    BY <1>9 DEF RxPayloadNew, RxPayloadRepeat, RxPayloadBad, TypeOK, RxTypeOK
  <2>7. frameErrorRX' \in BOOLEAN
    BY <1>9, Zenon DEF RxPayloadNew, RxPayloadRepeat, RxPayloadBad, TypeOK,
       RxTypeOK
  <2> QED
    BY <2>1, <2>3, <2>4, <2>5, <2>6, <2>7, HeadTypes DEF RxPayload, TypeOK, TxTypeOK,
       RxTypeOK, LinkTypeOK, txVars, dataVars, seqVars, sendVars, waitVars
<1>10. CASE RxDone
  BY <1>10 DEF RxDone, TypeOK, TxTypeOK, RxTypeOK, LinkTypeOK,
     txVars, dataVars, seqVars, sendVars, waitVars, frameVars, outVars
<1>16. CASE TxFC
  <2>1. /\ ackSequenceNumberTX' \in Seq(Nat)
        /\ Len(ackSequenceNumberTX') <= MaxFrames
        /\ Head(ackSequenceNumberTX) \in Nat
    BY <1>16, QueueTail DEF TxFC, TypeOK, RxTypeOK
  <2>2. ackLink' \in Seq(Nat) /\ Len(ackLink') <= LinkBound
    BY <1>16, <2>1, QueueAppend DEF TxFC, TypeOK, LinkTypeOK
  <2> QED
    BY <1>16, <2>1, <2>2 DEF TxFC, TypeOK, TxTypeOK, RxTypeOK, LinkTypeOK,
       txVars, dataVars, seqVars, sendVars, waitVars, frameVars, outVars
<1>11. CASE LinkFault
  <2>1. link' \in Seq(Flits) /\ Len(link') <= LinkBound
    <3>1. CASE LinkLose
      BY <3>1, HeadTypes DEF LinkLose
    <3>2. CASE LinkNoise
      <4>1. PICK type \in {"header", "payload"} :
                   link' = <<NoiseFlit(type)>> \o link
        BY <3>2 DEF LinkNoise
      <4>2. NoiseFlit(type) \in Flits
        BY <4>1, FlitTypes DEF TypeOK, TxTypeOK, RxTypeOK
      <4> QED
        BY <3>2, <4>1, <4>2 DEF LinkNoise, TypeOK, LinkTypeOK
    <3>3. CASE LinkSoftErr
      <4>1. link[1] \in Flits /\ 1 \in 1 .. Len(link)
        BY <3>3, QueueTail DEF LinkSoftErr, TypeOK, LinkTypeOK
      <4>3. [link[1] EXCEPT !.softErr = TRUE] \in Flits
        BY <4>1 DEF Flits
      <4>2. link' = [link EXCEPT ![1] = [link[1] EXCEPT !.softErr = TRUE]]
        BY <3>3 DEF LinkSoftErr
      <4> QED
        BY <4>1, <4>2, <4>3, ExceptSeq DEF TypeOK, LinkTypeOK
    <3>4. CASE AckLose
      BY <3>4 DEF AckLose, TypeOK, LinkTypeOK
    <3> QED
      BY <1>11, <3>1, <3>2, <3>3, <3>4 DEF LinkFault
  <2>2. ackLink' \in Seq(Nat) /\ Len(ackLink') <= LinkBound
    <3>1. CASE AckLose
      BY <3>1, QueueTail DEF AckLose, TypeOK, LinkTypeOK
    <3>2. CASE LinkLose \/ LinkNoise \/ LinkSoftErr
      BY <3>2 DEF LinkLose, LinkNoise, LinkSoftErr, TypeOK, LinkTypeOK
    <3> QED
      BY <1>11, <3>1, <3>2 DEF LinkFault
  <2>3. UNCHANGED <<txVars, rxVars>>
    BY <1>11 DEF LinkFault, LinkLose, LinkNoise, LinkSoftErr, AckLose
  <2> QED
    BY <2>1, <2>2, <2>3 DEF TypeOK, TxTypeOK, RxTypeOK, LinkTypeOK, txVars,
       rxVars, dataVars, seqVars, sendVars, waitVars, frameVars, outVars
<1>12. CASE UNCHANGED vars
  BY <1>12 DEF vars, TypeOK, TxTypeOK, RxTypeOK, LinkTypeOK, txVars, rxVars,
     dataVars, seqVars, sendVars, waitVars, frameVars, outVars
<1> QED
  BY <1>1, <1>2, <1>3, <1>4, <1>5, <1>6, <1>7, <1>8, <1>9, <1>10, <1>11,
     <1>12, <1>13, <1>14, <1>15, <1>16, <1>17 DEF Next, Protocol

(* The reset values of the registers and queues have their types. *)
LEMMA TypeInit == Init => TypeOK
<1> SUFFICES ASSUME Init PROVE TypeOK
  OBVIOUS
<1> USE ConstantTypes, EmptySeq
<1>1. <<>> \in Seq(Nat) /\ Len(<<>>) = 0 /\ NoSalt \in Hashes
  BY DEF NoSalt, Hashes
<1>2. frameInProgress \in BOOLEAN /\ timeoutQ \in BOOLEAN
  BY Zenon DEF Init
<1>3. TxTypeOK
  BY <1>1, <1>2 DEF Init, TxTypeOK
<1>4. RxTypeOK
  BY DEF Init, RxTypeOK, Hashes, NoSalt
<1>5. LinkTypeOK
  BY DEF Init, LinkTypeOK
<1> QED
  BY <1>3, <1>4, <1>5 DEF TypeOK

(* Every register and queue of both ends of the link keeps its type, and   *)
(* every FIFO its depth, in every behaviour.                               *)
THEOREM TypeCorrect == Spec => []TypeOK
  BY TypeInit, TypeStep, PTL DEF Spec

-----------------------------------------------------------------------------
(* The frames on the path. *)

(* Taking the first element of a queue of acks. *)
LEMMA FramesTail ==
    ASSUME NEW q \in Seq(Nat), q # <<>>
    PROVE  /\ Frames(q) = {Head(q)} \cup Frames(Tail(q))
           /\ InSequence(q) => /\ InSequence(Tail(q))
                               /\ AllMayFollow({Head(q)}, Frames(Tail(q)))
<1>1. /\ Head(q) = q[1] /\ Len(q) \in Nat \ {0}
      /\ DOMAIN q = 1 .. Len(q) /\ DOMAIN Tail(q) = 1 .. Len(q) - 1
      /\ \A i \in DOMAIN Tail(q) : Tail(q)[i] = q[i + 1]
  BY QueueTail
<1>2. Frames(q) = {Head(q)} \cup Frames(Tail(q))
  <2>1. ASSUME NEW i \in DOMAIN q PROVE q[i] \in {Head(q)} \cup Frames(Tail(q))
    <3>1. CASE i = 1
      BY <1>1, <3>1
    <3>2. CASE i # 1
      <4>1. i - 1 \in DOMAIN Tail(q) /\ Tail(q)[i - 1] = q[i]
        BY <1>1, <3>2
      <4> QED
        BY <4>1 DEF Frames
    <3> QED
      BY <3>1, <3>2
  <2>2. ASSUME NEW i \in DOMAIN Tail(q) PROVE Tail(q)[i] \in Frames(q)
    <3>1. i + 1 \in DOMAIN q
      BY <1>1
    <3> QED
      BY <1>1, <3>1 DEF Frames
  <2>3. Head(q) \in Frames(q)
    BY <1>1 DEF Frames
  <2> QED
    BY <2>1, <2>2, <2>3 DEF Frames
<1>3. ASSUME InSequence(q)
      PROVE  InSequence(Tail(q)) /\ AllMayFollow({Head(q)}, Frames(Tail(q)))
  <2>1. ASSUME NEW i \in DOMAIN Tail(q), NEW j \in DOMAIN Tail(q), i < j
        PROVE  MayFollow(Tail(q)[i], Tail(q)[j])
    <3>1. i + 1 \in DOMAIN q /\ j + 1 \in DOMAIN q /\ i + 1 < j + 1
      BY <1>1, <2>1
    <3> QED
      BY <1>1, <1>3, <3>1 DEF InSequence
  <2>2. ASSUME NEW j \in DOMAIN Tail(q) PROVE MayFollow(Head(q), Tail(q)[j])
    <3>1. 1 \in DOMAIN q /\ j + 1 \in DOMAIN q /\ 1 < j + 1
      BY <1>1
    <3> QED
      BY <1>1, <1>3, <3>1 DEF InSequence
  <2> QED
    BY <2>1, <2>2 DEF InSequence, AllMayFollow, Frames
<1> QED
  BY <1>2, <1>3

(* Appending an ack to a queue. *)
LEMMA FramesAppend ==
    ASSUME NEW q \in Seq(Nat), NEW x \in Nat
    PROVE  /\ Frames(Append(q, x)) = Frames(q) \cup {x}
           /\ InSequence(q) /\ AllMayFollow(Frames(q), {x})
                => InSequence(Append(q, x))
<1> DEFINE r == Append(q, x)
<1>1. /\ Len(q) \in Nat /\ DOMAIN q = 1 .. Len(q)
      /\ DOMAIN r = 1 .. Len(q) + 1
      /\ \A i \in DOMAIN q : r[i] = q[i]
      /\ r[Len(q) + 1] = x
  BY QueueAppend
<1> HIDE DEF r
<1>2. DOMAIN r = DOMAIN q \cup {Len(q) + 1}
  BY <1>1
<1>3. Frames(r) = Frames(q) \cup {x}
  BY <1>1, <1>2 DEF Frames
<1>4. ASSUME InSequence(q), AllMayFollow(Frames(q), {x})
      PROVE  InSequence(r)
  <2> SUFFICES ASSUME NEW i \in DOMAIN r, NEW j \in DOMAIN r, i < j
               PROVE  MayFollow(r[i], r[j])
    BY DEF InSequence
  <2>1. i \in DOMAIN q
    BY <1>1
  <2>2. CASE j \in DOMAIN q
    BY <1>1, <1>4, <2>1, <2>2 DEF InSequence
  <2>3. CASE j = Len(q) + 1
    BY <1>1, <1>4, <2>1, <2>3 DEF AllMayFollow, Frames
  <2> QED
    BY <1>2, <2>2, <2>3
<1> QED
  BY <1>3, <1>4 DEF r

(* Taking the first flit from the link. *)
LEMMA FlitsTail ==
    ASSUME NEW q \in Seq(Flits), q # <<>>
    PROVE  /\ FlitFrames(q) = FlitFrames(Tail(q)) \cup
                 (IF Intact(Head(q)) THEN {Head(q).frame} ELSE {})
           /\ FlitsInSequence(q) =>
                /\ FlitsInSequence(Tail(q))
                /\ Intact(Head(q))
                     => AllMayFollow({Head(q).frame}, FlitFrames(Tail(q)))
<1>1. /\ Head(q) = q[1] /\ Len(q) \in Nat \ {0}
      /\ DOMAIN q = 1 .. Len(q) /\ DOMAIN Tail(q) = 1 .. Len(q) - 1
      /\ \A i \in DOMAIN Tail(q) : Tail(q)[i] = q[i + 1]
  BY QueueTail
<1>2. FlitFrames(q) = FlitFrames(Tail(q)) \cup
                 (IF Intact(Head(q)) THEN {Head(q).frame} ELSE {})
  <2>1. ASSUME NEW i \in DOMAIN q, Intact(q[i]), i # 1
        PROVE  q[i].frame \in FlitFrames(Tail(q))
    <3>1. i - 1 \in DOMAIN Tail(q) /\ Tail(q)[i - 1] = q[i]
      BY <1>1, <2>1
    <3> QED
      BY <2>1, <3>1 DEF FlitFrames
  <2>2. ASSUME NEW i \in DOMAIN Tail(q), Intact(Tail(q)[i])
        PROVE  Tail(q)[i].frame \in FlitFrames(q)
    <3>1. i + 1 \in DOMAIN q
      BY <1>1
    <3> QED
      BY <1>1, <2>2, <3>1 DEF FlitFrames
  <2>3. Intact(Head(q)) => Head(q).frame \in FlitFrames(q)
    BY <1>1 DEF FlitFrames
  <2> QED
    BY <1>1, <2>1, <2>2, <2>3 DEF FlitFrames
<1>3. ASSUME FlitsInSequence(q)
      PROVE  /\ FlitsInSequence(Tail(q))
             /\ Intact(Head(q))
                  => AllMayFollow({Head(q).frame}, FlitFrames(Tail(q)))
  <2>1. ASSUME NEW i \in DOMAIN Tail(q), NEW j \in DOMAIN Tail(q), i < j,
               Intact(Tail(q)[i]), Intact(Tail(q)[j])
        PROVE  MayFollow(Tail(q)[i].frame, Tail(q)[j].frame)
    <3>1. i + 1 \in DOMAIN q /\ j + 1 \in DOMAIN q /\ i + 1 < j + 1
      BY <1>1, <2>1
    <3> QED
      BY <1>1, <1>3, <2>1, <3>1 DEF FlitsInSequence
  <2>2. ASSUME NEW j \in DOMAIN Tail(q), Intact(Head(q)), Intact(Tail(q)[j])
        PROVE  MayFollow(Head(q).frame, Tail(q)[j].frame)
    <3>1. 1 \in DOMAIN q /\ j + 1 \in DOMAIN q /\ 1 < j + 1
      BY <1>1
    <3> QED
      BY <1>1, <1>3, <2>2, <3>1 DEF FlitsInSequence
  <2> QED
    BY <2>1, <2>2 DEF FlitsInSequence, AllMayFollow, FlitFrames
<1> QED
  BY <1>2, <1>3

(* Appending an intact flit to the link. *)
LEMMA FlitsAppend ==
    ASSUME NEW q \in Seq(Flits), NEW x \in Flits, Intact(x)
    PROVE  /\ FlitFrames(Append(q, x)) = FlitFrames(q) \cup {x.frame}
           /\ FlitsInSequence(q) /\ AllMayFollow(FlitFrames(q), {x.frame})
                => FlitsInSequence(Append(q, x))
<1> DEFINE r == Append(q, x)
<1>1. /\ Len(q) \in Nat /\ DOMAIN q = 1 .. Len(q)
      /\ DOMAIN r = 1 .. Len(q) + 1
      /\ \A i \in DOMAIN q : r[i] = q[i]
      /\ r[Len(q) + 1] = x
  BY QueueAppend
<1> HIDE DEF r
<1>2. DOMAIN r = DOMAIN q \cup {Len(q) + 1}
  BY <1>1
<1>3. FlitFrames(r) = FlitFrames(q) \cup {x.frame}
  BY <1>1, <1>2 DEF FlitFrames
<1>4. ASSUME FlitsInSequence(q), AllMayFollow(FlitFrames(q), {x.frame})
      PROVE  FlitsInSequence(r)
  <2> SUFFICES ASSUME NEW i \in DOMAIN r, NEW j \in DOMAIN r, i < j,
                      Intact(r[i]), Intact(r[j])
               PROVE  MayFollow(r[i].frame, r[j].frame)
    BY DEF FlitsInSequence
  <2>1. i \in DOMAIN q
    BY <1>1
  <2>2. CASE j \in DOMAIN q
    BY <1>1, <1>4, <2>1, <2>2 DEF FlitsInSequence
  <2>3. CASE j = Len(q) + 1
    BY <1>1, <1>4, <2>1, <2>3 DEF AllMayFollow, FlitFrames
  <2> QED
    BY <1>2, <2>2, <2>3
<1> QED
  BY <1>3, <1>4 DEF r

-----------------------------------------------------------------------------
(* The transmitter. *)

(* Every rule keeps the transmitter's pointers and queues in step. *)
LEMMA SenderStep ==
    ASSUME TypeOK, SenderInv, [Next]_vars
    PROVE  SenderInv'
<1> USE ConstantTypes
<1>0. /\ seqCommitted \in Nat /\ seqFirst \in Nat /\ seqLast \in Nat
      /\ dataCommitted \in Nat /\ dataFirst \in Nat /\ dataLast \in Nat
      /\ framePositionTX \in 0 .. FrameSize - 1
      /\ ackSequenceNumberRX \in Seq(Nat) /\ Len(ackSequenceNumberRX) \in Nat
  BY DEF TypeOK, TxTypeOK
<1>1. CASE UNCHANGED <<dataVars, seqVars, sendVars, waitVars>>
  BY <1>1 DEF SenderInv, SenderInStep, dataVars, seqVars, sendVars, waitVars
<1>2. CASE SequenceStuffer
  BY <1>0, <1>2 DEF SequenceStuffer, SenderInv, SenderInStep, dataVars,
     sendVars, waitVars
<1>3. CASE PassRewind
  BY <1>0, <1>3 DEF PassRewind, SenderInv, SenderInStep, seqVars, sendVars,
     waitVars
<1>4. CASE TxHeader
  <2>1. parityTX' = Chain(seqFirst, 0)
    BY <1>0, <1>4, ChainHeader DEF TxHeader, HeaderFlit, Flit
  <2>2. SenderInStep'
    BY <1>0, <1>4, FrameStart DEF TxHeader, SenderInv, SenderInStep, dataVars,
       seqVars
  <2> QED
    BY <1>0, <1>4, <2>1, <2>2 DEF TxHeader, SenderInv, dataVars, seqVars
<1>5. CASE TxSend
  <2>1. /\ dataFirst = seqFirst * FrameSize + framePositionTX
        /\ seqFirst * FrameSize \in Nat
        /\ (seqFirst + 1) * FrameSize = seqFirst * FrameSize + FrameSize
    BY <1>0, <1>5, FrameStart DEF TxSend, SenderInv, SenderInStep
  <2>2. parityTX' = Chain(seqFirst, framePositionTX + 1)
    BY <1>0, <1>5, <2>1, ChainAppend DEF TxSend, SenderInv, PayloadFlit, Flit
  <2>3. CASE framePositionTX + 1 = FrameSize
    <3>1. /\ frameInProgress' = FALSE /\ seqFirst' = seqFirst + 1
          /\ ackSequenceNumberRX' = Append(ackSequenceNumberRX, seqFirst)
      BY <1>5, <2>3 DEF TxSend
    <3>2. /\ Len(ackSequenceNumberRX') = Len(ackSequenceNumberRX) + 1
          /\ \A i \in DOMAIN ackSequenceNumberRX' :
               ackSequenceNumberRX'[i] = seqCommitted + i - 1
      <4>1. /\ Len(ackSequenceNumberRX) \in Nat
            /\ DOMAIN ackSequenceNumberRX = 1 .. Len(ackSequenceNumberRX)
            /\ Len(ackSequenceNumberRX') = Len(ackSequenceNumberRX) + 1
            /\ DOMAIN ackSequenceNumberRX' = 1 .. Len(ackSequenceNumberRX) + 1
            /\ \A i \in DOMAIN ackSequenceNumberRX :
                 ackSequenceNumberRX'[i] = ackSequenceNumberRX[i]
            /\ ackSequenceNumberRX'[Len(ackSequenceNumberRX) + 1] = seqFirst
        BY <1>0, <3>1, QueueAppend
      <4>2. /\ seqFirst = seqCommitted + Len(ackSequenceNumberRX)
            /\ \A i \in DOMAIN ackSequenceNumberRX :
                 ackSequenceNumberRX[i] = seqCommitted + i - 1
        BY DEF SenderInv, SenderInStep
      <4>3. ASSUME NEW i \in DOMAIN ackSequenceNumberRX'
            PROVE  ackSequenceNumberRX'[i] = seqCommitted + i - 1
        <5>1. CASE i \in DOMAIN ackSequenceNumberRX
          BY <4>1, <4>2, <5>1
        <5>2. CASE i = Len(ackSequenceNumberRX) + 1
          BY <1>0, <4>1, <4>2, <5>2
        <5> QED
          BY <4>1, <5>1, <5>2
      <4> QED
        BY <4>1, <4>3
    <3>3. UNCHANGED <<dataCommitted, dataLast, seqCommitted, seqLast,
                      frameTimeout>>
      BY <1>5 DEF TxSend
    <3>4. dataFirst' = seqFirst' * FrameSize /\ dataFirst' <= dataLast'
      BY <1>0, <1>5, <2>1, <2>3, <3>1 DEF TxSend
    <3>5. frameTimeout' = Len(ackSequenceNumberRX')
      BY <1>0, <1>5, <3>2, <3>3 DEF TxSend, SenderInv, SenderInStep
    <3>6. seqFirst' = seqCommitted' + Len(ackSequenceNumberRX')
          /\ seqFirst' <= seqLast'
      BY <1>0, <1>5, <3>1, <3>2, <3>3 DEF TxSend, SenderInv, SenderInStep
    <3>7. SenderInStep'
      BY <1>0, <3>1, <3>2, <3>3, <3>4, <3>5, <3>6 DEF SenderInv, SenderInStep
    <3> QED
      BY <3>1, <3>3, <3>4, <3>6, <3>7 DEF SenderInv
  <2>4. CASE framePositionTX + 1 # FrameSize
    <3>1. /\ frameInProgress' = frameInProgress /\ frameInProgress
          /\ framePositionTX' = framePositionTX + 1
          /\ UNCHANGED <<seqFirst, ackSequenceNumberRX>>
      BY <1>5, <2>4 DEF TxSend
    <3> QED
      BY <1>0, <1>5, <2>1, <2>2, <3>1 DEF TxSend, SenderInv, SenderInStep
  <2> QED
    BY <2>3, <2>4
<1>6. CASE Timeout
  <2>1. /\ frameTimeout' = 0 /\ ackSequenceNumberRX' = <<>>
        /\ frameInProgress' = FALSE
        /\ dataFirst' = dataCommitted /\ seqFirst' = seqCommitted
        /\ UNCHANGED <<dataCommitted, dataLast, seqCommitted, seqLast>>
    BY <1>6 DEF Timeout
  <2>2. Len(ackSequenceNumberRX') = 0 /\ DOMAIN ackSequenceNumberRX' = {}
    BY <2>1, EmptySeq
  <2>3. seqCommitted <= seqFirst /\ seqCommitted * FrameSize <= dataFirst
    <3>1. seqCommitted <= seqFirst
      BY <1>0 DEF SenderInv, SenderInStep
    <3>2. seqCommitted * FrameSize <= seqFirst * FrameSize
      BY <1>0, <3>1, FrameOrder
    <3>3. CASE frameInProgress
      <4>1. dataFirst = seqFirst * FrameSize + framePositionTX
        BY <3>3 DEF SenderInv, SenderInStep
      <4> QED
        BY <1>0, <3>1, <3>2, <4>1, FrameStart
    <3>4. CASE ~frameInProgress
      <4>1. dataFirst = seqFirst * FrameSize + 0
        BY <3>4 DEF SenderInv, SenderInStep
      <4> QED
        BY <1>0, <3>1, <3>2, <4>1, FrameStart
    <3> QED
      BY <3>3, <3>4
  <2>4. SenderInStep'
    BY <1>0, <2>1, <2>2, FrameStart DEF SenderInv, SenderInStep
  <2> QED
    BY <1>0, <2>1, <2>3, <2>4 DEF SenderInv, SenderInStep
<1>7. CASE HandleAck
  <2>1. CASE SeqNo(Head(ackSequenceNumberRX)) = SeqNo(Head(ackRX))
    <3>1. /\ dataCommitted' = dataCommitted + FrameSize
          /\ seqCommitted' = seqCommitted + 1
          /\ frameTimeout' = frameTimeout - 1
          /\ ackSequenceNumberRX' = Tail(ackSequenceNumberRX)
          /\ ackSequenceNumberRX # <<>>
      BY <1>7, <2>1 DEF HandleAck
    <3>2. UNCHANGED <<dataFirst, dataLast, seqFirst, seqLast, sendVars>>
      BY <1>7 DEF HandleAck
    <3>3. /\ Len(ackSequenceNumberRX') = Len(ackSequenceNumberRX) - 1
          /\ \A i \in DOMAIN ackSequenceNumberRX' :
               ackSequenceNumberRX'[i] = (seqCommitted + 1) + i - 1
      <4>1. /\ DOMAIN Tail(ackSequenceNumberRX)
                 = 1 .. Len(ackSequenceNumberRX) - 1
            /\ Len(Tail(ackSequenceNumberRX)) = Len(ackSequenceNumberRX) - 1
            /\ \A i \in DOMAIN Tail(ackSequenceNumberRX) :
                 Tail(ackSequenceNumberRX)[i] = ackSequenceNumberRX[i + 1]
        BY <1>0, <3>1, QueueTail
      <4>2. \A i \in 1 .. Len(ackSequenceNumberRX) - 1 :
               i + 1 \in DOMAIN ackSequenceNumberRX
        BY <1>0
      <4>3. \A i \in DOMAIN ackSequenceNumberRX :
               ackSequenceNumberRX[i] = seqCommitted + i - 1
        BY DEF SenderInv, SenderInStep
      <4>4. ASSUME NEW i \in DOMAIN Tail(ackSequenceNumberRX)
            PROVE  Tail(ackSequenceNumberRX)[i] = (seqCommitted + 1) + i - 1
        <5>1. ackSequenceNumberRX[i + 1] = seqCommitted + (i + 1) - 1
          BY <4>1, <4>2, <4>3
        <5> QED
          BY <1>0, <4>1, <5>1
      <4> QED
        BY <3>1, <4>1, <4>4
    <3>4. dataCommitted' = seqCommitted' * FrameSize
      BY <1>0, <3>1, FrameStart DEF SenderInv, SenderInStep
    <3>5. SenderInStep'
      <4>5. UNCHANGED <<frameInProgress, framePositionTX, seqFirst, dataFirst>>
        BY <3>2 DEF sendVars
      <4>7. /\ seqCommitted' = seqCommitted + 1
            /\ frameTimeout' = frameTimeout - 1
        BY <3>1
      <4>8. Len(ackSequenceNumberRX') = Len(ackSequenceNumberRX) - 1
        BY <3>3
      <4>1. seqFirst' = seqCommitted' + Len(ackSequenceNumberRX')
        <5>1. seqFirst = seqCommitted + Len(ackSequenceNumberRX)
          BY DEF SenderInv, SenderInStep
        <5> QED
          BY <1>0, <4>5, <4>7, <4>8, <5>1
      <4>6. dataFirst' = seqFirst' * FrameSize
                   + (IF frameInProgress' THEN framePositionTX' ELSE 0)
        BY <4>5 DEF SenderInv, SenderInStep
      <4>2. frameTimeout' = Len(ackSequenceNumberRX')
                            + (IF frameInProgress' THEN 1 ELSE 0)
        <5>1. frameTimeout = Len(ackSequenceNumberRX)
                             + (IF frameInProgress THEN 1 ELSE 0)
          BY DEF SenderInv, SenderInStep
        <5> QED
          BY <1>0, <4>5, <4>7, <4>8, <5>1
      <4>3. \A i \in DOMAIN ackSequenceNumberRX' :
               ackSequenceNumberRX'[i] = seqCommitted' + i - 1
        BY <3>1, <3>3
      <4> QED
        BY <3>4, <4>1, <4>2, <4>3, <4>6 DEF SenderInStep
    <3> QED
      BY <1>0, <3>1, <3>2, <3>5 DEF SenderInv, sendVars
  <2>2. CASE SeqNo(Head(ackSequenceNumberRX)) # SeqNo(Head(ackRX))
    BY <1>1, <1>7, <2>2 DEF HandleAck, dataVars, seqVars, waitVars
  <2> QED
    BY <2>1, <2>2
<1>8. CASE TickTX \/ TimeoutTest \/ DropAck \/ RxAck
  BY <1>1, <1>8 DEF TickTX, TimeoutTest, DropAck, RxAck
<1>9. CASE UNCHANGED txVars
  BY <1>1, <1>9 DEF txVars
<1> QED
  <2>1. TickRX \/ RxHeader \/ RxPayload \/ RxDone \/ TxFC => UNCHANGED txVars
    BY DEF TickRX, RxHeader, RxPayload, RxDone, TxFC
  <2>2. LinkFault \/ UNCHANGED vars => UNCHANGED txVars
    BY DEF LinkFault, LinkLose, LinkNoise, LinkSoftErr, AckLose, vars
  <2> QED
    BY <1>2, <1>3, <1>4, <1>5, <1>6, <1>7, <1>8, <1>9, <2>1, <2>2 DEF Next,
       Protocol, RxPayloadNew, RxPayloadRepeat, RxPayloadBad

-----------------------------------------------------------------------------
(* What the invariant says about the next message to be looked at. *)

(* An ack that compares equal is the ack of the oldest frame. *)
LEMMA AckIdentity ==
    ASSUME IInv
    PROVE  AckNamesOldestFrame
<1> SUFFICES ASSUME ackRX # <<>>, ackSequenceNumberRX # <<>>,
                    SeqNo(Head(ackSequenceNumberRX)) = SeqNo(Head(ackRX))
             PROVE  /\ Head(ackRX) = Head(ackSequenceNumberRX)
                    /\ Head(ackRX) < sequenceNumberRX
  BY DEF AckNamesOldestFrame
<1>1. /\ Head(ackRX) \in Nat /\ Head(ackRX) \in Frames(ackRX)
      /\ seqCommitted \in Nat /\ seqLast \in Nat /\ sequenceNumberRX \in Nat
  BY QueueTail, FramesTail DEF IInv, TypeOK, TxTypeOK, RxTypeOK
<1>2. Head(ackSequenceNumberRX) = seqCommitted
  <2>1. /\ Head(ackSequenceNumberRX) = ackSequenceNumberRX[1]
        /\ 1 \in DOMAIN ackSequenceNumberRX
    BY QueueTail DEF IInv, TypeOK, TxTypeOK
  <2>2. ackSequenceNumberRX[1] = seqCommitted + 1 - 1
    BY <2>1 DEF IInv, SenderInv, SenderInStep
  <2> QED
    BY <1>1, <2>1, <2>2
<1>3. Head(ackRX) < sequenceNumberRX /\ Head(ackRX) >= seqCommitted - MaxFrames
  BY <1>1 DEF IInv, AckInv
<1>4. sequenceNumberRX <= seqCommitted + MaxFrames
  BY <1>1, ConstantTypes DEF IInv, SenderInv, ReceiverInv
<1>5. SequenceNumbers > MaxFrames /\ SequenceNumbers \in Nat
  BY AuroraAssumption
<1>6. Head(ackRX) = seqCommitted
  BY <1>1, <1>2, <1>3, <1>4, <1>5, ConstantTypes, SameSeqNo
<1> QED
  BY <1>2, <1>3, <1>6

(* The flit at the head of the link, if its hash matches, is as it was     *)
(* sent, and so is its place on the path.                                  *)
LEMMA HeadAsSent ==
    ASSUME IInv, link # <<>>, HashMatches
    PROVE  /\ Intact(Head(link)) /\ AsSent(Head(link), seqLast, dataLast, sequenceNumberRX)
           /\ Head(link).frame \in LinkFrames
           /\ Head(link).frame >= seqCommitted - MaxFrames
<1>1. Head(link) = link[1] /\ 1 \in DOMAIN link
  BY QueueTail DEF IInv, TypeOK, LinkTypeOK
<1>2. Head(link) \in Flits
  BY HeadTypes DEF IInv
<1>3. Intact(Head(link))
  <2>1. parityRX \in Seq({"header", "payload"} \X Nat)
    BY DEF IInv, TypeOK, RxTypeOK, Hashes
  <2>2. SeqNo(Head(link).frame) \in Nat
    <3>1. Head(link).frame \in Nat
      BY <1>2 DEF Flits
    <3>2. \A n \in Nat : SeqNo(n) \in Nat
      BY SeqNoSplit
    <3> QED
      BY <3>1, <3>2
  <2>3. <<"payload", Head(link).word>> \in {"header", "payload"} \X Nat
    BY <1>2 DEF Flits
  <2>4. Append(parityRX, <<"payload", Head(link).word>>) # <<>>
    BY <2>1, <2>3, AppendProperties
  <2>5. Append(<<>>, <<"header", SeqNo(Head(link).frame)>>) # <<>>
    BY <2>2
  <2> QED
    BY <2>4, <2>5 DEF HashMatches, HashRX, Hash, NoSalt, Intact
<1>4. Head(link).frame \in LinkFrames
  BY <1>1, <1>3 DEF LinkFrames, FlitFrames
<1> QED
  BY <1>1, <1>3, <1>4 DEF IInv, LinkInv, AckInv

(* The acceptance test is exact. *)
LEMMA HeaderExact ==
    ASSUME IInv
    PROVE  HeaderTestExact
<1> SUFFICES ASSUME link # <<>>, Head(link).type = "header", HashMatches
             PROVE  SequenceError(SeqNo(sequenceNumberRX),
                                  SeqNo(Head(link).frame))
                      <=> Head(link).frame > sequenceNumberRX
  BY DEF HeaderTestExact
<1>1. /\ Head(link).frame \in Nat /\ sequenceNumberRX \in Nat
      /\ seqCommitted \in Nat /\ seqLast \in Nat
  BY HeadTypes DEF IInv, TypeOK, TxTypeOK, RxTypeOK, Flits
<1>2. /\ Head(link).frame < seqLast
      /\ sequenceNumberRX <= Head(link).frame + MaxFrames
  BY HeadAsSent DEF AsSent
<1>3. seqLast <= seqCommitted + MaxFrames /\ seqCommitted <= sequenceNumberRX
  BY DEF IInv, SenderInv, ReceiverInv
<1>4. /\ Head(link).frame - sequenceNumberRX < MaxFrames
      /\ sequenceNumberRX - Head(link).frame <= MaxFrames
  BY <1>1, <1>2, <1>3, ConstantTypes
<1> QED
  BY <1>1, <1>4, HeaderTest

(* A word that is taken for correct is the next word of the frame that is  *)
(* being received.                                                         *)
LEMMA PayloadExact ==
    ASSUME IInv, link # <<>>, Head(link).type = "payload", NotCorrupt,
           ~frameErrorRX
    PROVE  /\ Head(link).frame = provisionalSequenceNumberRX
           /\ Head(link).word = provisionalSequenceNumberRX * FrameSize
                                + provisionalFramePositionRX
           /\ Head(link).word < dataLast
           /\ provisionalSequenceNumberRX < seqLast
           /\ NextParityRX = Chain(provisionalSequenceNumberRX,
                                   provisionalFramePositionRX + 1)
<1> DEFINE flit == Head(link)
           f == Head(link).frame
           psn == provisionalSequenceNumberRX
           ppos == provisionalFramePositionRX
<1>1. /\ f \in Nat /\ flit.word \in Nat /\ psn \in Nat
      /\ ppos \in 0 .. FrameSize - 1 /\ parityRX \in Hashes
      /\ seqCommitted \in Nat /\ seqLast \in Nat /\ sequenceNumberRX \in Nat
  BY HeadTypes DEF IInv, TypeOK, TxTypeOK, RxTypeOK, Flits
<1>2. HashMatches /\ HashRX = flit.hash
      /\ HashRX = Hash(parityRX, <<"payload", flit.word>>)
  BY DEF NotCorrupt, HashMatches, HashRX
<1>3. AsSent(flit, seqLast, dataLast, sequenceNumberRX) /\ f \in LinkFrames /\ f >= seqCommitted - MaxFrames
  BY <1>2, HeadAsSent
<1>4. PICK p \in 0 .. FrameSize - 1 :
        /\ flit.word = f * FrameSize + p
        /\ flit.hash = Chain(f, p + 1)
  BY <1>3 DEF AsSent
<1>11. p \in Nat
  BY ConstantTypes
<1>5. Chain(f, p + 1) = Hash(Chain(f, p), <<"payload", flit.word>>)
  BY <1>1, <1>4, <1>11, ChainAppend
<1>6. parityRX = Chain(f, p)
  <2>1. <<"payload", flit.word>> \in {"header", "payload"} \X Nat
    BY <1>1
  <2>2. Chain(f, p) \in Hashes
    BY <1>1, <1>11, ChainType
  <2> QED
    BY <1>1, <1>2, <1>4, <1>5, <2>1, <2>2, HashInjective
<1>7. /\ psn <= sequenceNumberRX
      /\ \/ parityRX = Chain(psn, ppos)
         \/ ppos = 0 /\ parityRX = Chain(psn, FrameSize)
  BY DEF IInv, ReceiverInv
<1>8. p = ppos /\ SeqNo(f) = SeqNo(psn)
  <2>1. CASE parityRX = Chain(psn, ppos)
    BY <1>1, <1>6, <2>1, ChainInjective
  <2>2. CASE parityRX = Chain(psn, FrameSize)
    <3>1. p = FrameSize
      BY <1>1, <1>6, <2>2, ChainInjective, ConstantTypes
    <3> QED
      BY <3>1, ConstantTypes
  <2> QED
    BY <1>7, <2>1, <2>2
<1>9. f = psn
  <2>1. psn \in CurrentFrame
    BY DEF CurrentFrame
  <2>2. MayFollow(psn, f)
    BY <1>3, <2>1 DEF IInv, PathInv, Ordered, AllMayFollow
  <2>3. psn >= seqCommitted - MaxFrames
    BY <2>1 DEF IInv, AckInv
  <2>4. f < seqLast /\ seqLast <= seqCommitted + MaxFrames
    BY <1>3 DEF AsSent, IInv, SenderInv
  <2>5. SequenceNumbers >= 4 * MaxFrames /\ SequenceNumbers \in Nat
    BY AuroraAssumption
  <2>6. f - psn < SequenceNumbers /\ psn - f < SequenceNumbers
    BY <1>1, <2>2, <2>3, <2>4, <2>5, ConstantTypes DEF MayFollow
  <2> QED
    BY <1>1, <1>8, <2>6, SameSeqNo
<1>10. flit.word < dataLast /\ f < seqLast
  BY <1>3 DEF AsSent
<1> QED
  BY <1>2, <1>4, <1>8, <1>9, <1>10 DEF NextParityRX

-----------------------------------------------------------------------------
(* The receiver. *)

(* The word that NewWord lets through belongs to the frame expected next. *)
LEMMA NewWordFrame ==
    ASSUME IInv, ~frameErrorRX
    PROVE  NewWord <=> /\ provisionalFramePositionRX = framePositionRX
                       /\ provisionalSequenceNumberRX = sequenceNumberRX
<1>1. /\ provisionalSequenceNumberRX \in Nat /\ sequenceNumberRX \in Nat
      /\ provisionalSequenceNumberRX <= sequenceNumberRX
      /\ sequenceNumberRX <= provisionalSequenceNumberRX + MaxFrames
  BY DEF IInv, ReceiverInv, TypeOK, RxTypeOK
<1>2. SequenceNumbers > MaxFrames /\ SequenceNumbers \in Nat
  BY AuroraAssumption
<1>3. SeqNo(provisionalSequenceNumberRX) = SeqNo(sequenceNumberRX)
        => provisionalSequenceNumberRX = sequenceNumberRX
  BY <1>1, <1>2, ConstantTypes, SameSeqNo
<1> QED
  BY <1>3 DEF NewWord

(* Every rule keeps what the receiver has delivered a prefix. *)
LEMMA ReceiverStep ==
    ASSUME IInv, [Next]_vars
    PROVE  ReceiverInv'
<1> USE ConstantTypes
<1>0. /\ seqCommitted \in Nat /\ seqLast \in Nat /\ dataLast \in Nat
      /\ sequenceNumberRX \in Nat /\ provisionalSequenceNumberRX \in Nat
      /\ framePositionRX \in 0 .. FrameSize - 1
      /\ provisionalFramePositionRX \in 0 .. FrameSize - 1
      /\ received \in Seq(Nat) /\ Len(received) \in Nat /\ taken \in Nat
  BY DEF IInv, TypeOK, TxTypeOK, RxTypeOK
<1>1. CASE UNCHANGED <<frameVars, outVars, seqCommitted, seqLast, dataLast>>
  BY <1>1 DEF IInv, ReceiverInv, ExactlyOnceInOrder, frameVars, outVars
<1>2. CASE SequenceStuffer
  <2>1. /\ UNCHANGED <<frameVars, outVars, seqCommitted, dataLast>>
        /\ seqLast' = seqLast + 1
    BY <1>2 DEF SequenceStuffer, rxVars, dataVars
  <2> QED
    BY <1>0, <2>1 DEF IInv, ReceiverInv, ExactlyOnceInOrder, frameVars, outVars
<1>3. CASE PassRewind
  <2>1. /\ UNCHANGED <<frameVars, outVars, seqCommitted, seqLast>>
        /\ dataLast' = dataLast + 1
    BY <1>3 DEF PassRewind, rxVars, seqVars
  <2> QED
    BY <1>0, <2>1 DEF IInv, ReceiverInv, ExactlyOnceInOrder, frameVars, outVars
<1>4. CASE HandleAck
  <2>1. UNCHANGED <<frameVars, outVars, seqLast, dataLast>>
    BY <1>4 DEF HandleAck, rxVars
  <2>2. CASE SeqNo(Head(ackSequenceNumberRX)) = SeqNo(Head(ackRX))
    <3>1. /\ Head(ackRX) = Head(ackSequenceNumberRX)
          /\ Head(ackRX) < sequenceNumberRX
      BY <1>4, <2>2, AckIdentity DEF AckNamesOldestFrame, HandleAck
    <3>2. Head(ackSequenceNumberRX) = seqCommitted
      <4>1. /\ Head(ackSequenceNumberRX) = ackSequenceNumberRX[1]
            /\ 1 \in DOMAIN ackSequenceNumberRX
        BY <1>4, QueueTail DEF HandleAck, IInv, TypeOK, TxTypeOK
      <4>2. ackSequenceNumberRX[1] = seqCommitted + 1 - 1
        BY <4>1 DEF IInv, SenderInv, SenderInStep
      <4> QED
        BY <1>0, <4>1, <4>2
    <3>3. seqCommitted' = seqCommitted + 1
      BY <1>4, <2>2 DEF HandleAck
    <3>4. seqCommitted' <= sequenceNumberRX
      BY <1>0, <3>1, <3>2, <3>3
    <3> QED
      BY <2>1, <3>4 DEF IInv, ReceiverInv, ExactlyOnceInOrder, frameVars,
         outVars
  <2>3. CASE SeqNo(Head(ackSequenceNumberRX)) # SeqNo(Head(ackRX))
    BY <1>1, <1>4, <2>1, <2>3 DEF HandleAck
  <2> QED
    BY <2>2, <2>3
<1>5. CASE RxHeader
  <2>1. /\ UNCHANGED <<seqCommitted, seqLast, dataLast, framePositionRX,
                       sequenceNumberRX, received, taken>>
        /\ provisionalFramePositionRX' = 0
        /\ provisionalSequenceNumberRX' = Head(link).frame
        /\ link # <<>> /\ Head(link).type = "header"
        /\ parityRX' = NextParityRX
    BY <1>5 DEF RxHeader, RxReady, txVars, dataVars, seqVars, outVars
  <2>2. ASSUME ~frameErrorRX'
        PROVE  /\ Head(link).frame <= sequenceNumberRX
               /\ Head(link).frame < seqLast
               /\ sequenceNumberRX <= Head(link).frame + MaxFrames
               /\ NextParityRX = Chain(Head(link).frame, 0)
    <3>1. /\ NotCorrupt
          /\ ~SequenceError(SeqNo(sequenceNumberRX), SeqNo(Head(link).frame))
      BY <1>5, <2>2 DEF RxHeader
    <3>2. HashMatches
      BY <3>1 DEF NotCorrupt
    <3>3. AsSent(Head(link), seqLast, dataLast, sequenceNumberRX)
      BY <2>1, <3>2, HeadAsSent
    <3>4. ~(Head(link).frame > sequenceNumberRX)
      BY <2>1, <3>1, <3>2, HeaderExact DEF HeaderTestExact
    <3>5. Head(link).frame \in Nat
      BY <2>1, HeadTypes DEF IInv, Flits
    <3> QED
      BY <1>0, <2>1, <3>2, <3>3, <3>4, <3>5 DEF AsSent, NextParityRX,
         HashMatches
  <2>3. ExactlyOnceInOrder'
    BY <2>1 DEF IInv, ReceiverInv, ExactlyOnceInOrder
  <2> QED
    BY <1>0, <2>1, <2>2, <2>3 DEF IInv, ReceiverInv
<1>6. CASE RxPayloadNew
  <2>1. /\ UNCHANGED <<seqCommitted, seqLast, dataLast, taken,
                       provisionalSequenceNumberRX>>
        /\ link # <<>> /\ Head(link).type = "payload"
        /\ parityRX' = NextParityRX
        /\ provisionalFramePositionRX'
             = NextPosition(provisionalFramePositionRX)
        /\ framePositionRX' = NextPosition(framePositionRX)
        /\ NotCorrupt /\ ~frameErrorRX /\ NewWord
        /\ received' = Append(received, Head(link).word)
    BY <1>6 DEF RxPayloadNew, RxPayload, RxReady, txVars, dataVars, seqVars
  <2>2. /\ provisionalFramePositionRX = framePositionRX
        /\ provisionalSequenceNumberRX = sequenceNumberRX
    BY <2>1, NewWordFrame
  <2>3. /\ Head(link).word = sequenceNumberRX * FrameSize + framePositionRX
        /\ Head(link).word < dataLast
        /\ sequenceNumberRX < seqLast
        /\ NextParityRX = Chain(provisionalSequenceNumberRX,
                                provisionalFramePositionRX + 1)
    BY <2>1, <2>2, PayloadExact
  <2>4. Len(received) = sequenceNumberRX * FrameSize + framePositionRX
    BY DEF IInv, ReceiverInv
  <2>5. /\ Len(received') = Len(received) + 1
        /\ ExactlyOnceInOrder'
    <3>1. Head(link).word = Len(received) /\ Head(link).word \in Nat
      BY <1>0, <2>3, <2>4
    <3>2. /\ DOMAIN received' = 1 .. Len(received) + 1
          /\ DOMAIN received = 1 .. Len(received)
          /\ Len(received') = Len(received) + 1
          /\ \A i \in DOMAIN received : received'[i] = received[i]
          /\ received'[Len(received) + 1] = Head(link).word
      BY <1>0, <2>1, <3>1, QueueAppend
    <3>3. ASSUME NEW i \in DOMAIN received' PROVE received'[i] = i - 1
      <4>1. CASE i \in DOMAIN received
        BY <3>2, <4>1 DEF IInv, ReceiverInv, ExactlyOnceInOrder
      <4>2. CASE i = Len(received) + 1
        BY <1>0, <3>1, <3>2, <4>2
      <4> QED
        BY <1>0, <3>2, <4>1, <4>2
    <3>4. Len(received') <= dataLast'
      BY <1>0, <2>1, <2>3, <3>1, <3>2
    <3> QED
      BY <3>2, <3>3, <3>4 DEF ExactlyOnceInOrder
  <2>6. taken' <= Len(received')
    BY <1>0, <2>1, <2>5 DEF IInv, ReceiverInv
  <2>7. CASE framePositionRX + 1 = FrameSize
    <3>1. /\ frameErrorRX' = TRUE /\ sequenceNumberRX' = sequenceNumberRX + 1
          /\ framePositionRX' = 0
      BY <1>6, <2>1, <2>7 DEF RxPayloadNew, NextPosition
    <3>2. Len(received') = sequenceNumberRX' * FrameSize + framePositionRX'
      BY <1>0, <2>4, <2>5, <2>7, <3>1, FrameStart
    <3>3. seqCommitted' <= sequenceNumberRX' /\ sequenceNumberRX' <= seqLast'
      BY <1>0, <2>1, <2>3, <3>1 DEF IInv, ReceiverInv
    <3> QED
      BY <2>5, <2>6, <3>1, <3>2, <3>3 DEF ReceiverInv
  <2>8. CASE framePositionRX + 1 # FrameSize
    <3>1. /\ frameErrorRX' = frameErrorRX
          /\ sequenceNumberRX' = sequenceNumberRX
          /\ framePositionRX' = framePositionRX + 1
          /\ provisionalFramePositionRX' = provisionalFramePositionRX + 1
      BY <1>6, <2>1, <2>2, <2>8 DEF RxPayloadNew, NextPosition
    <3>2. Len(received') = sequenceNumberRX' * FrameSize + framePositionRX'
      BY <1>0, <2>4, <2>5, <3>1, FrameStart
    <3>3. seqCommitted' <= sequenceNumberRX' /\ sequenceNumberRX' <= seqLast'
      BY <1>0, <2>1, <3>1 DEF IInv, ReceiverInv
    <3>4. parityRX' = Chain(provisionalSequenceNumberRX',
                            provisionalFramePositionRX')
      BY <2>1, <2>3, <3>1
    <3>5. /\ provisionalSequenceNumberRX' <= sequenceNumberRX'
          /\ provisionalSequenceNumberRX' < seqLast'
          /\ sequenceNumberRX' <= provisionalSequenceNumberRX' + MaxFrames
          /\ provisionalFramePositionRX' <= framePositionRX'
      BY <1>0, <2>1, <2>2, <2>3, <3>1
    <3> QED
      BY <2>5, <2>6, <3>2, <3>3, <3>4, <3>5 DEF ReceiverInv
  <2> QED
    BY <2>7, <2>8
<1>7. CASE RxPayloadRepeat
  <2>1. /\ UNCHANGED <<seqCommitted, seqLast, dataLast, taken, received,
                       provisionalSequenceNumberRX, framePositionRX,
                       sequenceNumberRX, frameErrorRX>>
        /\ link # <<>> /\ Head(link).type = "payload"
        /\ parityRX' = NextParityRX
        /\ provisionalFramePositionRX'
             = NextPosition(provisionalFramePositionRX)
        /\ NotCorrupt /\ ~frameErrorRX /\ ~NewWord
    BY <1>7 DEF RxPayloadRepeat, RxPayload, RxReady, txVars, dataVars, seqVars
  <2>2. parityRX' = Chain(provisionalSequenceNumberRX,
                          provisionalFramePositionRX + 1)
    BY <2>1, PayloadExact
  <2>3. \/ provisionalSequenceNumberRX # sequenceNumberRX
        \/ provisionalFramePositionRX < framePositionRX
    BY <1>0, <2>1, NewWordFrame DEF IInv, ReceiverInv
  <2>4. provisionalSequenceNumberRX = sequenceNumberRX
          => provisionalFramePositionRX' <= framePositionRX
    BY <1>0, <2>1, <2>3 DEF NextPosition
  <2>5. \/ parityRX' = Chain(provisionalSequenceNumberRX,
                             provisionalFramePositionRX')
        \/ /\ provisionalFramePositionRX' = 0
           /\ parityRX' = Chain(provisionalSequenceNumberRX, FrameSize)
    BY <1>0, <2>1, <2>2 DEF NextPosition
  <2>6. ExactlyOnceInOrder'
    BY <2>1 DEF IInv, ReceiverInv, ExactlyOnceInOrder
  <2> QED
    BY <1>0, <2>1, <2>4, <2>5, <2>6 DEF IInv, ReceiverInv
<1>8. CASE RxPayloadBad
  <2>1. /\ UNCHANGED <<seqCommitted, seqLast, dataLast, taken, received,
                       framePositionRX, sequenceNumberRX>>
        /\ frameErrorRX' = TRUE
    BY <1>8 DEF RxPayloadBad, RxPayload, txVars, dataVars, seqVars
  <2> QED
    BY <2>1 DEF IInv, ReceiverInv, ExactlyOnceInOrder
<1>9. CASE RxDone
  <2>1. /\ UNCHANGED <<frameVars, received, seqCommitted, seqLast, dataLast>>
        /\ taken' = taken + 1 /\ taken < Len(received)
    BY <1>9 DEF RxDone, txVars, dataVars, seqVars
  <2> QED
    BY <1>0, <2>1 DEF IInv, ReceiverInv, ExactlyOnceInOrder, frameVars
<1>10. CASE TickTX \/ TxHeader \/ TxSend \/ TimeoutTest \/ Timeout \/ DropAck
            \/ RxAck
  BY <1>1, <1>10 DEF TickTX, TxHeader, TxSend, TimeoutTest, Timeout, DropAck,
     RxAck, rxVars, dataVars, seqVars
<1>11. CASE TickRX \/ TxFC
  BY <1>1, <1>11 DEF TickRX, TxFC, txVars, dataVars, seqVars
<1>12. CASE LinkFault \/ UNCHANGED vars
  BY <1>1, <1>12 DEF LinkFault, LinkLose, LinkNoise, LinkSoftErr, AckLose,
     vars, txVars, rxVars, dataVars, seqVars
<1> QED
  BY <1>2, <1>3, <1>4, <1>5, <1>6, <1>7, <1>8, <1>9, <1>10, <1>11, <1>12
     DEF Next, Protocol

-----------------------------------------------------------------------------
(* The link. *)

(* What the link did to a flit, if the flit is still intact: nothing that  *)
(* the receiver could hash differently.                                    *)
SameFlit(x, y) == x.type = y.type /\ x.frame = y.frame /\ x.word = y.word
                  /\ x.hash = y.hash

(* Every intact flit of r is one of q, in the same order. *)
Shrinks(q, r) ==
    /\ \A i \in DOMAIN r : Intact(r[i]) =>
         \E j \in DOMAIN q : Intact(q[j]) /\ SameFlit(r[i], q[j])
    /\ FlitFrames(r) \subseteq FlitFrames(q)
    /\ FlitsInSequence(q) => FlitsInSequence(r)

(* Losing or reading a flit, noise and soft errors only shrink the link. *)
LEMMA TailShrinks ==
    ASSUME NEW q \in Seq(Flits), q # <<>>
    PROVE  Shrinks(q, Tail(q))
<1>1. /\ Len(q) \in Nat \ {0}
      /\ DOMAIN q = 1 .. Len(q) /\ DOMAIN Tail(q) = 1 .. Len(q) - 1
      /\ \A i \in DOMAIN Tail(q) : Tail(q)[i] = q[i + 1]
  BY QueueTail
<1>2. ASSUME NEW i \in DOMAIN Tail(q), Intact(Tail(q)[i])
      PROVE  \E j \in DOMAIN q : Intact(q[j]) /\ SameFlit(Tail(q)[i], q[j])
  <2>1. i + 1 \in DOMAIN q
    BY <1>1
  <2> QED
    BY <1>1, <1>2, <2>1 DEF SameFlit
<1> QED
  BY <1>2, FlitsTail DEF Shrinks

(* A damaged flit adds nothing intact to the link. *)
LEMMA NoiseShrinks ==
    ASSUME NEW q \in Seq(Flits), NEW type \in {"header", "payload"}
    PROVE  Shrinks(q, <<NoiseFlit(type)>> \o q)
<1> DEFINE r == <<NoiseFlit(type)>> \o q
<1>1. NoiseFlit(type) \in Flits /\ ~Intact(NoiseFlit(type))
  BY EmptySeq DEF NoiseFlit, Flit, Intact, Flits, NoSalt, Hashes
<1>2. <<NoiseFlit(type)>> \in Seq(Flits) /\ Len(<<NoiseFlit(type)>>) = 1
  BY <1>1
<1>3. /\ Len(q) \in Nat /\ DOMAIN q = 1 .. Len(q)
      /\ DOMAIN r = 1 .. Len(q) + 1
      /\ \A i \in DOMAIN r : r[i] = IF i = 1 THEN NoiseFlit(type) ELSE q[i - 1]
  BY <1>2, ConcatProperties, LenProperties
<1> HIDE DEF r
<1>4. \A i \in DOMAIN r : Intact(r[i]) => i - 1 \in DOMAIN q /\ r[i] = q[i - 1]
  BY <1>1, <1>3
<1>5. \A i \in DOMAIN r : Intact(r[i]) =>
         \E j \in DOMAIN q : Intact(q[j]) /\ SameFlit(r[i], q[j])
  BY <1>4 DEF SameFlit
<1>6. FlitFrames(r) \subseteq FlitFrames(q)
  BY <1>4 DEF FlitFrames
<1>7. ASSUME FlitsInSequence(q) PROVE FlitsInSequence(r)
  <2> SUFFICES ASSUME NEW i \in DOMAIN r, NEW j \in DOMAIN r, i < j,
                      Intact(r[i]), Intact(r[j])
               PROVE  MayFollow(r[i].frame, r[j].frame)
    BY DEF FlitsInSequence
  <2>1. i - 1 < j - 1
    BY <1>3
  <2> QED
    BY <1>4, <1>7, <2>1 DEF FlitsInSequence
<1> QED
  BY <1>5, <1>6, <1>7 DEF Shrinks, r

(* A soft error does not change what a flit carries. *)
LEMMA SoftErrShrinks ==
    ASSUME NEW q \in Seq(Flits), q # <<>>
    PROVE  Shrinks(q, [q EXCEPT ![1] = [q[1] EXCEPT !.softErr = TRUE]])
<1> DEFINE x == [q[1] EXCEPT !.softErr = TRUE]
           r == [q EXCEPT ![1] = x]
<1>1. q[1] \in Flits /\ 1 \in DOMAIN q
  BY QueueTail
<1>2. SameFlit(x, q[1])
  BY <1>1 DEF SameFlit, Flits
<1>3. DOMAIN r = DOMAIN q
  OBVIOUS
<1>4. \A i \in DOMAIN r : SameFlit(r[i], q[i])
  <2> HIDE DEF x
  <2> QED
    BY <1>1, <1>2 DEF SameFlit
<1> HIDE DEF r
<1>5. \A i \in DOMAIN r : Intact(r[i]) => Intact(q[i])
  BY <1>4 DEF SameFlit, Intact
<1>6. FlitFrames(r) \subseteq FlitFrames(q)
  BY <1>3, <1>4, <1>5 DEF FlitFrames, SameFlit
<1>7. FlitsInSequence(q) => FlitsInSequence(r)
  BY <1>3, <1>4, <1>5 DEF FlitsInSequence, SameFlit
<1> QED
  BY <1>3, <1>4, <1>5, <1>6, <1>7 DEF Shrinks, r

(* Every step but the sending of a flit shrinks the link or leaves it. *)
LEMMA LinkShrinks ==
    ASSUME TypeOK, Next, ~TxHeader, ~TxSend
    PROVE  UNCHANGED link \/ Shrinks(link, link')
<1> link \in Seq(Flits)
  BY DEF TypeOK, LinkTypeOK
<1>1. CASE RxHeader \/ RxPayload \/ LinkLose
  BY <1>1, TailShrinks DEF RxHeader, RxPayload, LinkLose, RxReady
<1>2. CASE LinkNoise
  BY <1>2, NoiseShrinks DEF LinkNoise
<1>3. CASE LinkSoftErr
  BY <1>3, SoftErrShrinks DEF LinkSoftErr
<1>4. CASE TickTX \/ SequenceStuffer \/ PassRewind \/ TimeoutTest \/ Timeout
  BY <1>4 DEF TickTX, SequenceStuffer, PassRewind, TimeoutTest, Timeout
<1>5. CASE HandleAck \/ DropAck \/ RxAck \/ TickRX \/ RxDone \/ TxFC \/ AckLose
  BY <1>5 DEF HandleAck, DropAck, RxAck, TickRX, RxDone, TxFC, AckLose
<1> QED
  BY <1>1, <1>2, <1>3, <1>4, <1>5 DEF Next, Protocol, LinkFault, RxPayloadNew,
     RxPayloadRepeat, RxPayloadBad

(* The write ends of the rewind buffers and sequenceNumberRX only grow. *)
LEMMA Growth ==
    ASSUME TypeOK, [Next]_vars
    PROVE  /\ seqLast' >= seqLast /\ dataLast' >= dataLast
           /\ \/ UNCHANGED sequenceNumberRX
              \/ RxPayloadNew /\ sequenceNumberRX' = sequenceNumberRX + 1
<1>0. seqLast \in Nat /\ dataLast \in Nat
  BY DEF TypeOK, TxTypeOK
<1>1. seqLast' = seqLast \/ seqLast' = seqLast + 1
  <2>1. CASE SequenceStuffer
    BY <2>1 DEF SequenceStuffer
  <2>2. CASE UNCHANGED txVars
    BY <2>2 DEF txVars, seqVars
  <2>3. CASE TickTX \/ PassRewind \/ TxHeader \/ TxSend \/ TimeoutTest
             \/ Timeout \/ HandleAck \/ DropAck \/ RxAck
    BY <2>3 DEF TickTX, PassRewind, TxHeader, TxSend, TimeoutTest, Timeout,
       HandleAck, DropAck, RxAck, seqVars
  <2> QED
    BY <2>1, <2>2, <2>3 DEF Next, Protocol, LinkFault, TickRX, RxHeader,
       RxPayloadNew, RxPayloadRepeat, RxPayloadBad, RxPayload, RxDone, TxFC,
       LinkLose, LinkNoise, LinkSoftErr, AckLose, vars
<1>2. dataLast' = dataLast \/ dataLast' = dataLast + 1
  <2>1. CASE PassRewind
    BY <2>1 DEF PassRewind
  <2>2. CASE UNCHANGED txVars
    BY <2>2 DEF txVars, dataVars
  <2>3. CASE TickTX \/ SequenceStuffer \/ TxHeader \/ TxSend \/ TimeoutTest
             \/ Timeout \/ HandleAck \/ DropAck \/ RxAck
    BY <2>3 DEF TickTX, SequenceStuffer, TxHeader, TxSend, TimeoutTest,
       Timeout, HandleAck, DropAck, RxAck, dataVars
  <2> QED
    BY <2>1, <2>2, <2>3 DEF Next, Protocol, LinkFault, TickRX, RxHeader,
       RxPayloadNew, RxPayloadRepeat, RxPayloadBad, RxPayload, RxDone, TxFC,
       LinkLose, LinkNoise, LinkSoftErr, AckLose, vars
<1>3. \/ UNCHANGED sequenceNumberRX
      \/ RxPayloadNew /\ sequenceNumberRX' = sequenceNumberRX + 1
  <2>1. CASE RxPayloadNew
    BY <2>1 DEF RxPayloadNew
  <2>2. CASE UNCHANGED rxVars
    BY <2>2 DEF rxVars, frameVars
  <2>3. CASE TickRX \/ RxHeader \/ RxPayloadRepeat \/ RxPayloadBad \/ RxDone
             \/ TxFC
    BY <2>3 DEF TickRX, RxHeader, RxPayloadRepeat, RxPayloadBad, RxDone, TxFC,
       frameVars
  <2> QED
    BY <2>1, <2>2, <2>3 DEF Next, Protocol, LinkFault, TickTX, SequenceStuffer,
       PassRewind, TxHeader, TxSend, TimeoutTest, Timeout, HandleAck, DropAck,
       RxAck, LinkLose, LinkNoise, LinkSoftErr, AckLose, vars
<1> QED
  BY <1>0, <1>1, <1>2, <1>3

(* The frame that is sent next: nothing ahead of it on the path forbids    *)
(* it.                                                                     *)
LEMMA SentFrame ==
    ASSUME IInv
    PROVE  /\ sequenceNumberRX <= seqFirst + MaxFrames
           /\ seqFirst >= seqCommitted
           /\ \A x \in Frames(ackRX) \cup Frames(ackLink)
                     \cup Frames(ackSequenceNumberTX) \cup CurrentFrame
                     \cup LinkFrames : MayFollow(x, seqFirst)
<1> USE ConstantTypes
<1>1. /\ seqCommitted \in Nat /\ seqFirst \in Nat /\ seqLast \in Nat
      /\ sequenceNumberRX \in Nat /\ Len(ackSequenceNumberRX) \in Nat
      /\ provisionalSequenceNumberRX \in Nat
      /\ ackRX \in Seq(Nat) /\ ackLink \in Seq(Nat)
      /\ ackSequenceNumberTX \in Seq(Nat) /\ link \in Seq(Flits)
  BY DEF IInv, TypeOK, TxTypeOK, RxTypeOK, LinkTypeOK
<1>2. seqFirst >= seqCommitted
  <2>1. seqFirst = seqCommitted + Len(ackSequenceNumberRX)
    BY DEF IInv, SenderInv, SenderInStep
  <2> QED
    BY <1>1, <2>1
<1>3. sequenceNumberRX <= seqLast /\ seqLast <= seqCommitted + MaxFrames
  BY DEF IInv, SenderInv, ReceiverInv
<1>5. ASSUME NEW x \in Nat, x < seqLast
      PROVE  MayFollow(x, seqFirst)
  BY <1>1, <1>2, <1>3, <1>5 DEF MayFollow
<1>6. \A x \in Frames(ackRX) \cup Frames(ackLink)
            \cup Frames(ackSequenceNumberTX) : x \in Nat /\ x < seqLast
  <2>1. \A x \in Frames(ackRX) \cup Frames(ackLink)
            \cup Frames(ackSequenceNumberTX) : x \in Nat
    BY <1>1 DEF Frames
  <2>2. \A x \in Frames(ackRX) \cup Frames(ackLink)
            \cup Frames(ackSequenceNumberTX) : x < sequenceNumberRX
    BY DEF IInv, AckInv
  <2> QED
    BY <1>1, <1>3, <2>1, <2>2
<1>7. \A x \in LinkFrames : x \in Nat /\ x < seqLast
  <2>1. ASSUME NEW i \in DOMAIN link, Intact(link[i])
        PROVE  link[i].frame \in Nat /\ link[i].frame < seqLast
    <3>1. link[i] \in Flits
      BY <1>1
    <3> QED
      BY <2>1, <3>1 DEF Flits, IInv, LinkInv, AsSent
  <2> QED
    BY <2>1 DEF LinkFrames, FlitFrames
<1>8. \A x \in CurrentFrame : MayFollow(x, seqFirst)
  <2>1. ~frameErrorRX => provisionalSequenceNumberRX < seqLast
    BY DEF IInv, ReceiverInv
  <2> QED
    BY <1>1, <1>5, <2>1 DEF CurrentFrame
<1>9. sequenceNumberRX <= seqFirst + MaxFrames
  BY <1>1, <1>2, <1>3
<1> QED
  BY <1>2, <1>5, <1>6, <1>7, <1>8, <1>9

(* The flit that txHeader or txSend puts on the link. *)
LEMMA SentFlit ==
    ASSUME IInv, TxHeader \/ TxSend
    PROVE  \E flit \in Flits : /\ link' = Append(link, flit)
                               /\ flit.frame = seqFirst
                               /\ Intact(flit) /\ AsSent(flit, seqLast, dataLast, sequenceNumberRX)
<1> USE ConstantTypes
<1>1. /\ seqFirst \in Nat /\ dataFirst \in Nat
      /\ framePositionTX \in 0 .. FrameSize - 1 /\ parityTX \in Hashes
      /\ seqFirst < seqLast /\ sequenceNumberRX <= seqFirst + MaxFrames
  BY SentFrame DEF IInv, TypeOK, TxTypeOK, TxHeader, TxSend
<1>2. CASE TxHeader
  <2> DEFINE flit == HeaderFlit(seqFirst)
  <2>1. flit \in Flits /\ link' = Append(link, flit)
    BY <1>1, <1>2, FlitTypes DEF TxHeader
  <2>2. /\ flit.frame = seqFirst /\ flit.type = "header"
        /\ flit.hash = Chain(seqFirst, 0)
    BY <1>1, ChainHeader DEF HeaderFlit, Flit
  <2>3. Chain(seqFirst, 0) # <<>>
    BY <1>1, ChainType DEF Hashes
  <2> HIDE DEF flit
  <2>4. Intact(flit) /\ AsSent(flit, seqLast, dataLast, sequenceNumberRX)
    BY <1>1, <2>2, <2>3 DEF Intact, AsSent, NoSalt
  <2> QED
    BY <2>1, <2>2, <2>4
<1>3. CASE TxSend
  <2> DEFINE flit == PayloadFlit(parityTX, seqFirst, dataFirst)
             p == framePositionTX
  <2>1. flit \in Flits /\ link' = Append(link, flit)
    BY <1>1, <1>3, FlitTypes DEF TxSend
  <2>2. /\ dataFirst = seqFirst * FrameSize + p
        /\ parityTX = Chain(seqFirst, p)
        /\ dataFirst < dataLast
    BY <1>3 DEF IInv, SenderInv, SenderInStep, TxSend
  <2>3. /\ flit.frame = seqFirst /\ flit.type = "payload"
        /\ flit.word = dataFirst
        /\ flit.hash = Chain(seqFirst, p + 1)
    <3>1. Hash(parityTX, <<"payload", dataFirst>>) = Chain(seqFirst, p + 1)
      <4>1. p \in Nat
        BY <1>1
      <4>2. Hash(Chain(seqFirst, p), <<"payload", seqFirst * FrameSize + p>>)
              = Chain(seqFirst, p + 1)
        BY <1>1, <4>1, ChainAppend
      <4> QED
        BY <2>2, <4>2
    <3> QED
      BY <3>1 DEF PayloadFlit, Flit
  <2>4. Chain(seqFirst, p + 1) # <<>>
    <3>1. p + 1 \in Nat /\ (p + 1) + 1 # 0
      BY <1>1
    <3>2. Len(Chain(seqFirst, p + 1)) = (p + 1) + 1
      BY <1>1, <3>1, ChainType
    <3> QED
      BY <3>1, <3>2, EmptySeq
  <2> HIDE DEF flit
  <2>5. Intact(flit) /\ AsSent(flit, seqLast, dataLast, sequenceNumberRX)
    BY <1>1, <2>2, <2>3, <2>4 DEF Intact, AsSent, NoSalt
  <2> QED
    BY <2>1, <2>3, <2>5
<1> QED
  BY <1>2, <1>3

(* Every intact flit stays as it was sent. *)
LEMMA LinkStep ==
    ASSUME IInv, [Next]_vars
    PROVE  LinkInv'
<1> USE ConstantTypes
<1>0. /\ seqLast \in Nat /\ dataLast \in Nat /\ sequenceNumberRX \in Nat
      /\ provisionalSequenceNumberRX \in Nat /\ link \in Seq(Flits)
      /\ seqLast' \in Nat /\ dataLast' \in Nat /\ sequenceNumberRX' \in Nat
  BY TypeStep DEF IInv, TypeOK, TxTypeOK, RxTypeOK, LinkTypeOK
<1>1. seqLast' >= seqLast /\ dataLast' >= dataLast
  BY Growth DEF IInv
<1> DEFINE Before(x) == AsSent(x, seqLast, dataLast, sequenceNumberRX)
           After(x) == AsSent(x, seqLast', dataLast', sequenceNumberRX')
<1>2. ASSUME NEW x \in Flits, Before(x),
             sequenceNumberRX' <= x.frame + MaxFrames
      PROVE  After(x)
  <2>1. x.frame \in Nat /\ x.word \in Nat
    BY DEF Flits
  <2>2. x.frame < seqLast' /\ (x.type = "payload" => x.word < dataLast')
    BY <1>0, <1>1, <1>2, <2>1 DEF AsSent
  <2> QED
    BY <1>2, <2>2 DEF AsSent
<1>3. CASE TxHeader \/ TxSend
  <2>1. UNCHANGED sequenceNumberRX
    BY <1>3 DEF TxHeader, TxSend, rxVars, frameVars
  <2>2. PICK flit \in Flits : link' = Append(link, flit) /\ Before(flit)
    BY <1>3, SentFlit
  <2>3. ASSUME NEW x \in Flits, Before(x) PROVE After(x)
    BY <1>2, <2>1, <2>3 DEF AsSent
  <2>4. ASSUME NEW i \in DOMAIN link', Intact(link'[i]) PROVE After(link'[i])
    <3>1. /\ DOMAIN link' = 1 .. Len(link) + 1
          /\ DOMAIN link = 1 .. Len(link) /\ Len(link) \in Nat
          /\ \A k \in DOMAIN link : link'[k] = link[k]
          /\ link'[Len(link) + 1] = flit
      BY <1>0, <2>2, QueueAppend
    <3>2. CASE i \in DOMAIN link
      <4>1. link'[i] = link[i] /\ link[i] \in Flits /\ Before(link[i])
        BY <1>0, <2>4, <3>1, <3>2 DEF IInv, LinkInv
      <4> HIDE DEF Before, After
      <4> QED
        BY <2>3, <4>1
    <3>3. CASE i = Len(link) + 1
      <4> HIDE DEF Before, After
      <4> QED
        BY <2>2, <2>3, <3>1, <3>3
    <3> QED
      BY <3>1, <3>2, <3>3
  <2> QED
    BY <2>4 DEF LinkInv
<1>4. CASE ~TxHeader /\ ~TxSend
  <2>1. \A i \in DOMAIN link' : Intact(link'[i]) =>
          \E j \in DOMAIN link : Intact(link[j]) /\ SameFlit(link'[i], link[j])
    <3>1. UNCHANGED link \/ Shrinks(link, link')
      BY <1>4, LinkShrinks DEF IInv, vars
    <3> QED
      BY <3>1 DEF Shrinks, SameFlit
  <2>2. ASSUME NEW j \in DOMAIN link, Intact(link[j])
        PROVE  sequenceNumberRX' <= link[j].frame + MaxFrames
    <3>1. /\ link[j] \in Flits /\ Before(link[j])
          /\ link[j].frame \in Nat /\ link[j].frame \in LinkFrames
      <4>0. link[j] \in Flits
        BY <1>0
      <4>1. link[j] \in Flits /\ link[j].frame \in Nat
        BY <4>0 DEF Flits
      <4>2. Before(link[j])
        BY <2>2 DEF IInv, LinkInv
      <4>3. link[j].frame \in LinkFrames
        BY <2>2 DEF LinkFrames, FlitFrames
      <4> HIDE DEF Before
      <4> QED
        BY <4>1, <4>2, <4>3
    <3>2. CASE UNCHANGED sequenceNumberRX
      BY <3>1, <3>2 DEF AsSent
    <3>3. CASE RxPayloadNew /\ sequenceNumberRX' = sequenceNumberRX + 1
      <4>1. provisionalSequenceNumberRX = sequenceNumberRX /\ ~frameErrorRX
        BY <3>3, NewWordFrame DEF RxPayloadNew
      <4>2. MayFollow(sequenceNumberRX, link[j].frame)
        BY <3>1, <4>1 DEF IInv, PathInv, Ordered, AllMayFollow, CurrentFrame
      <4> QED
        BY <1>0, <3>1, <3>3, <4>2 DEF MayFollow
    <3> QED
      BY <3>2, <3>3, Growth DEF IInv
  <2>3. ASSUME NEW i \in DOMAIN link', Intact(link'[i]) PROVE After(link'[i])
    <3>1. PICK j \in DOMAIN link : Intact(link[j]) /\ SameFlit(link'[i], link[j])
      BY <2>1, <2>3
    <3>2. link[j] \in Flits /\ Before(link[j])
      BY <1>0, <3>1 DEF IInv, LinkInv
    <3>3. After(link[j])
      <4>1. sequenceNumberRX' <= link[j].frame + MaxFrames
        BY <2>2, <3>1
      <4> HIDE DEF Before, After
      <4> QED
        BY <1>2, <3>2, <4>1
    <3> QED
      BY <3>1, <3>3 DEF SameFlit, AsSent
  <2> QED
    BY <2>3 DEF LinkInv
<1> QED
  BY <1>3, <1>4

-----------------------------------------------------------------------------
(* The path of acks and frames. *)

(* Every frame on the path is a number. *)
LEMMA PathTypes ==
    ASSUME TypeOK
    PROVE  \A x \in Frames(ackRX) \cup Frames(ackLink)
                   \cup Frames(ackSequenceNumberTX) \cup CurrentFrame
                   \cup LinkFrames : x \in Nat
<1>1. /\ ackRX \in Seq(Nat) /\ ackLink \in Seq(Nat)
      /\ ackSequenceNumberTX \in Seq(Nat) /\ link \in Seq(Flits)
      /\ provisionalSequenceNumberRX \in Nat
  BY DEF TypeOK, TxTypeOK, RxTypeOK, LinkTypeOK
<1>2. \A x \in Frames(ackRX) \cup Frames(ackLink)
            \cup Frames(ackSequenceNumberTX) : x \in Nat
  BY <1>1 DEF Frames
<1>3. \A x \in CurrentFrame : x \in Nat
  BY <1>1 DEF CurrentFrame
<1>4. ASSUME NEW i \in DOMAIN link PROVE link[i].frame \in Nat
  <2>1. link[i] \in Flits
    BY <1>1
  <2> QED
    BY <2>1 DEF Flits
<1>5. \A x \in LinkFrames : x \in Nat
  BY <1>4 DEF LinkFrames, FlitFrames
<1> QED
  BY <1>2, <1>3, <1>5

(* r is q without some of its elements. *)
Drops(q, r) == /\ Frames(r) \subseteq Frames(q)
               /\ InSequence(q) => InSequence(r)
LinkDrops(q, r) == /\ FlitFrames(r) \subseteq FlitFrames(q)
                   /\ FlitsInSequence(q) => FlitsInSequence(r)

(* Taking an ack from a queue keeps the order of the others. *)
LEMMA TailDrops ==
    ASSUME NEW q \in Seq(Nat), q # <<>>
    PROVE  Drops(q, Tail(q))
  BY FramesTail DEF Drops

(* Taking a flit from the link keeps the order of the others. *)
LEMMA LinkTailDrops ==
    ASSUME NEW q \in Seq(Flits), q # <<>>
    PROVE  LinkDrops(q, Tail(q))
  BY FlitsTail DEF LinkDrops

(* A step that only takes something away from the path. *)
LEMMA ShorterPath ==
    ASSUME IInv, UNCHANGED <<seqCommitted, sequenceNumberRX>>,
           Drops(ackRX, ackRX'), Drops(ackLink, ackLink'),
           Drops(ackSequenceNumberTX, ackSequenceNumberTX'),
           LinkDrops(link, link'), CurrentFrame' \subseteq CurrentFrame
    PROVE  AckInv' /\ PathInv'
<1>1. /\ Frames(ackRX') \subseteq Frames(ackRX)
      /\ Frames(ackLink') \subseteq Frames(ackLink)
      /\ Frames(ackSequenceNumberTX') \subseteq Frames(ackSequenceNumberTX)
      /\ LinkFrames' \subseteq LinkFrames
  BY DEF Drops, LinkDrops, LinkFrames
<1>2. AckInv'
  BY <1>1 DEF IInv, AckInv
<1>3. Ordered(Frames(ackRX), Frames(ackLink), Frames(ackSequenceNumberTX),
              CurrentFrame, LinkFrames)'
  BY <1>1 DEF IInv, PathInv, Ordered, AllMayFollow
<1>4. /\ InSequence(ackRX') /\ InSequence(ackLink')
      /\ InSequence(ackSequenceNumberTX') /\ FlitsInSequence(link')
  BY DEF IInv, PathInv, Drops, LinkDrops
<1> QED
  BY <1>2, <1>3, <1>4 DEF PathInv

(* txHeader and txSend: the sent frame joins the end of the path. *)
LEMMA SentPath ==
    ASSUME IInv, TxHeader \/ TxSend
    PROVE  AckInv' /\ PathInv'
<1> USE ConstantTypes
<1>0. /\ seqFirst \in Nat /\ seqCommitted \in Nat /\ link \in Seq(Flits)
  BY DEF IInv, TypeOK, TxTypeOK, LinkTypeOK
<1>1. UNCHANGED <<ackRX, ackLink, ackSequenceNumberTX, CurrentFrame,
                  seqCommitted, sequenceNumberRX>>
  BY DEF TxHeader, TxSend, rxVars, frameVars, seqVars, CurrentFrame
<1>2. PICK flit \in Flits : /\ link' = Append(link, flit)
                            /\ flit.frame = seqFirst /\ Intact(flit)
  BY SentFlit
<1>3. /\ LinkFrames' = LinkFrames \cup {seqFirst}
      /\ FlitsInSequence(link) /\ AllMayFollow(LinkFrames, {seqFirst})
            => FlitsInSequence(link')
  BY <1>0, <1>2, FlitsAppend DEF LinkFrames
<1>4. /\ seqFirst >= seqCommitted - MaxFrames
      /\ \A x \in Frames(ackRX) \cup Frames(ackLink)
                 \cup Frames(ackSequenceNumberTX) \cup CurrentFrame
                 \cup LinkFrames : MayFollow(x, seqFirst)
  BY <1>0, SentFrame
<1>5. AckInv'
  <2>1. /\ UNCHANGED <<Frames(ackRX), Frames(ackLink),
                       Frames(ackSequenceNumberTX)>>
    BY <1>1
  <2> QED
    BY <1>1, <1>3, <1>4, <2>1 DEF IInv, AckInv
<1>6. Ordered(Frames(ackRX), Frames(ackLink), Frames(ackSequenceNumberTX),
              CurrentFrame, LinkFrames)'
  BY <1>1, <1>3, <1>4 DEF IInv, PathInv, Ordered, AllMayFollow
<1>7. FlitsInSequence(link')
  BY <1>3, <1>4 DEF IInv, PathInv, AllMayFollow
<1> QED
  BY <1>1, <1>5, <1>6, <1>7 DEF IInv, PathInv

(* handleAck: an ack leaves the front of the path.  If it releases a frame *)
(* then all that follows it on the path is young enough.                   *)
LEMMA HandledPath ==
    ASSUME IInv, HandleAck
    PROVE  AckInv' /\ PathInv'
<1> USE ConstantTypes
<1>0. /\ seqCommitted \in Nat /\ ackRX \in Seq(Nat) /\ ackRX # <<>>
      /\ ackSequenceNumberRX \in Seq(Nat) /\ ackSequenceNumberRX # <<>>
  BY DEF IInv, TypeOK, TxTypeOK, HandleAck
<1>1. /\ UNCHANGED <<ackLink, ackSequenceNumberTX, CurrentFrame,
                     sequenceNumberRX, link>>
      /\ ackRX' = Tail(ackRX)
  BY DEF HandleAck, rxVars, frameVars, CurrentFrame
<1>2. CASE SeqNo(Head(ackSequenceNumberRX)) # SeqNo(Head(ackRX))
  <2>1. seqCommitted' = seqCommitted
    BY <1>2 DEF HandleAck
  <2>2. /\ Drops(ackRX, ackRX') /\ Drops(ackLink, ackLink')
        /\ Drops(ackSequenceNumberTX, ackSequenceNumberTX')
        /\ LinkDrops(link, link') /\ CurrentFrame' \subseteq CurrentFrame
    <3>1. Drops(ackRX, ackRX')
      BY <1>0, <1>1, TailDrops
    <3> QED
      BY <1>1, <3>1 DEF Drops, LinkDrops
  <2> QED
    BY <1>1, <2>1, <2>2, ShorterPath
<1>3. CASE SeqNo(Head(ackSequenceNumberRX)) = SeqNo(Head(ackRX))
  <2>1. Head(ackRX) = seqCommitted
    <3>1. Head(ackRX) = Head(ackSequenceNumberRX)
      BY <1>0, <1>3, AckIdentity DEF AckNamesOldestFrame
    <3>2. /\ Head(ackSequenceNumberRX) = ackSequenceNumberRX[1]
          /\ 1 \in DOMAIN ackSequenceNumberRX
      BY <1>0, QueueTail
    <3>3. ackSequenceNumberRX[1] = seqCommitted + 1 - 1
      BY <3>2 DEF IInv, SenderInv, SenderInStep
    <3> QED
      BY <1>0, <3>1, <3>2, <3>3
  <2>2. seqCommitted' = seqCommitted + 1
    BY <1>3 DEF HandleAck
  <2>3. /\ Frames(ackRX) = {seqCommitted} \cup Frames(ackRX')
        /\ InSequence(ackRX')
        /\ AllMayFollow({seqCommitted}, Frames(ackRX'))
    BY <1>0, <1>1, <2>1, FramesTail DEF IInv, PathInv
  <2>4. \A y \in Frames(ackRX') \cup Frames(ackLink)
               \cup Frames(ackSequenceNumberTX) \cup CurrentFrame
               \cup LinkFrames : MayFollow(seqCommitted, y) /\ y \in Nat
    <3>1. \A y \in Frames(ackLink)
               \cup Frames(ackSequenceNumberTX) \cup CurrentFrame
               \cup LinkFrames : MayFollow(seqCommitted, y)
      BY <2>3 DEF IInv, PathInv, Ordered, AllMayFollow
    <3>2. \A y \in Frames(ackRX') : MayFollow(seqCommitted, y)
      BY <2>3 DEF AllMayFollow
    <3> QED
      BY <2>3, <3>1, <3>2, PathTypes DEF IInv
  <2>5. \A y \in Frames(ackRX') \cup Frames(ackLink)
               \cup Frames(ackSequenceNumberTX) \cup CurrentFrame
               \cup LinkFrames : y >= seqCommitted' - MaxFrames
    BY <1>0, <2>2, <2>4 DEF MayFollow
  <2>6. LinkFrames' = LinkFrames
    BY <1>1 DEF LinkFrames
  <2>7. AckInv'
    BY <1>1, <2>3, <2>5, <2>6 DEF IInv, AckInv
  <2>8. Ordered(Frames(ackRX), Frames(ackLink), Frames(ackSequenceNumberTX),
                CurrentFrame, LinkFrames)'
    BY <1>1, <2>3, <2>6 DEF IInv, PathInv, Ordered, AllMayFollow
  <2> QED
    BY <1>1, <2>3, <2>7, <2>8 DEF IInv, PathInv
<1> QED
  BY <1>2, <1>3

(* rxAck and txFC: an ack moves forward from one queue to the next. *)
LEMMA MovedPath ==
    ASSUME IInv, RxAck \/ TxFC
    PROVE  AckInv' /\ PathInv'
<1>0. /\ ackRX \in Seq(Nat) /\ ackLink \in Seq(Nat)
      /\ ackSequenceNumberTX \in Seq(Nat)
  BY DEF IInv, TypeOK, TxTypeOK, RxTypeOK, LinkTypeOK
<1>1. UNCHANGED <<CurrentFrame, seqCommitted, sequenceNumberRX, link, LinkFrames>>
  <2>1. UNCHANGED <<frameVars, seqCommitted, link>>
    BY DEF RxAck, TxFC, rxVars, txVars, seqVars
  <2> QED
    BY <2>1 DEF frameVars, CurrentFrame, LinkFrames
<1>2. CASE RxAck
  <2> DEFINE h == Head(ackLink)
  <2>1. /\ ackRX' = Append(ackRX, h) /\ ackLink' = Tail(ackLink)
        /\ ackLink # <<>> /\ UNCHANGED ackSequenceNumberTX
    BY <1>2 DEF RxAck, rxVars
  <2>2. h \in Nat
    BY <1>0, <2>1, QueueTail
  <2>3. /\ Frames(ackLink) = {h} \cup Frames(ackLink')
        /\ InSequence(ackLink')
        /\ AllMayFollow({h}, Frames(ackLink'))
    BY <1>0, <2>1, FramesTail DEF IInv, PathInv
  <2>4. /\ Frames(ackRX') = Frames(ackRX) \cup {h}
        /\ InSequence(ackRX) /\ AllMayFollow(Frames(ackRX), {h})
             => InSequence(ackRX')
    BY <1>0, <2>1, <2>2, FramesAppend
  <2> HIDE DEF h
  <2>5. InSequence(ackRX')
    BY <2>3, <2>4 DEF IInv, PathInv, Ordered, AllMayFollow
  <2>6. AckInv'
    BY <1>1, <2>1, <2>3, <2>4 DEF IInv, AckInv
  <2>7. Ordered(Frames(ackRX), Frames(ackLink), Frames(ackSequenceNumberTX),
                CurrentFrame, LinkFrames)'
    BY <1>1, <2>1, <2>3, <2>4 DEF IInv, PathInv, Ordered, AllMayFollow
  <2> QED
    BY <1>1, <2>1, <2>3, <2>5, <2>6, <2>7 DEF IInv, PathInv
<1>3. CASE TxFC
  <2> DEFINE h == Head(ackSequenceNumberTX)
  <2>1. /\ ackLink' = Append(ackLink, h)
        /\ ackSequenceNumberTX' = Tail(ackSequenceNumberTX)
        /\ ackSequenceNumberTX # <<>> /\ UNCHANGED ackRX
    BY <1>3 DEF TxFC, txVars
  <2>2. h \in Nat
    BY <1>0, <2>1, QueueTail
  <2>3. /\ Frames(ackSequenceNumberTX) = {h} \cup Frames(ackSequenceNumberTX')
        /\ InSequence(ackSequenceNumberTX')
        /\ AllMayFollow({h}, Frames(ackSequenceNumberTX'))
    BY <1>0, <2>1, FramesTail DEF IInv, PathInv
  <2>4. /\ Frames(ackLink') = Frames(ackLink) \cup {h}
        /\ InSequence(ackLink) /\ AllMayFollow(Frames(ackLink), {h})
             => InSequence(ackLink')
    BY <1>0, <2>1, <2>2, FramesAppend
  <2> HIDE DEF h
  <2>5. InSequence(ackLink')
    BY <2>3, <2>4 DEF IInv, PathInv, Ordered, AllMayFollow
  <2>6. AckInv'
    BY <1>1, <2>1, <2>3, <2>4 DEF IInv, AckInv
  <2>7. Ordered(Frames(ackRX), Frames(ackLink), Frames(ackSequenceNumberTX),
                CurrentFrame, LinkFrames)'
    BY <1>1, <2>1, <2>3, <2>4 DEF IInv, PathInv, Ordered, AllMayFollow
  <2> QED
    BY <1>1, <2>1, <2>3, <2>5, <2>6, <2>7 DEF IInv, PathInv
<1> QED
  BY <1>2, <1>3

(* rxDemarsh on a header: the header's frame, if it is accepted, takes the *)
(* place of the frame being received.                                      *)
LEMMA HeaderPath ==
    ASSUME IInv, RxHeader
    PROVE  AckInv' /\ PathInv'
<1> DEFINE h == Head(link).frame
<1>0. link \in Seq(Flits) /\ link # <<>>
  BY DEF IInv, TypeOK, LinkTypeOK, RxHeader, RxReady
<1>1. /\ UNCHANGED <<ackRX, ackLink, ackSequenceNumberTX, seqCommitted,
                     sequenceNumberRX>>
      /\ link' = Tail(link) /\ provisionalSequenceNumberRX' = h
      /\ frameErrorRX' \/ NotCorrupt
  BY DEF RxHeader, txVars, seqVars
<1>2. CASE frameErrorRX'
  <2>1. CurrentFrame' \subseteq CurrentFrame
    BY <1>2 DEF CurrentFrame
  <2>2. LinkDrops(link, link')
    BY <1>0, <1>1, LinkTailDrops
  <2>3. /\ Drops(ackRX, ackRX') /\ Drops(ackLink, ackLink')
        /\ Drops(ackSequenceNumberTX, ackSequenceNumberTX')
    BY <1>1 DEF Drops
  <2> QED
    BY <1>1, <2>1, <2>2, <2>3, ShorterPath
<1>3. CASE ~frameErrorRX'
  <2>1. CurrentFrame' = {h}
    BY <1>1, <1>3 DEF CurrentFrame
  <2>2. HashMatches
    BY <1>1, <1>3 DEF NotCorrupt
  <2>3. Intact(Head(link)) /\ h \in LinkFrames
    BY <1>0, <2>2, HeadAsSent
  <2>4. /\ LinkFrames' \subseteq LinkFrames
        /\ FlitsInSequence(link')
        /\ AllMayFollow({h}, LinkFrames')
    BY <1>0, <1>1, <2>3, FlitsTail DEF IInv, PathInv, LinkFrames
  <2> HIDE DEF h
  <2>5. AckInv'
    BY <1>1, <2>1, <2>3, <2>4 DEF IInv, AckInv
  <2>6. Ordered(Frames(ackRX), Frames(ackLink), Frames(ackSequenceNumberTX),
                CurrentFrame, LinkFrames)'
    BY <1>1, <2>1, <2>3, <2>4 DEF IInv, PathInv, Ordered, AllMayFollow
  <2> QED
    BY <1>1, <2>4, <2>5, <2>6 DEF IInv, PathInv
<1> QED
  BY <1>2, <1>3

(* The last word of a frame is acked only when all of the frame was        *)
(* delivered.                                                              *)
LEMMA AckedFrame ==
    ASSUME IInv, RxPayloadNew \/ RxPayloadRepeat,
           provisionalFramePositionRX + 1 = FrameSize
    PROVE  provisionalSequenceNumberRX < sequenceNumberRX'
<1> USE ConstantTypes
<1>0. /\ sequenceNumberRX \in Nat /\ provisionalSequenceNumberRX \in Nat
      /\ framePositionRX \in 0 .. FrameSize - 1
      /\ provisionalFramePositionRX \in 0 .. FrameSize - 1
      /\ ~frameErrorRX
  BY DEF IInv, TypeOK, RxTypeOK, RxPayloadNew, RxPayloadRepeat
<1>1. CASE RxPayloadNew
  <2>1. /\ provisionalFramePositionRX = framePositionRX
        /\ provisionalSequenceNumberRX = sequenceNumberRX
    BY <1>0, <1>1, NewWordFrame DEF RxPayloadNew
  <2>2. sequenceNumberRX' = sequenceNumberRX + 1
    BY <1>1, <2>1 DEF RxPayloadNew
  <2> QED
    BY <1>0, <2>1, <2>2
<1>2. CASE RxPayloadRepeat
  <2>1. ~ /\ provisionalFramePositionRX = framePositionRX
          /\ provisionalSequenceNumberRX = sequenceNumberRX
    BY <1>0, <1>2, NewWordFrame DEF RxPayloadRepeat
  <2>2. /\ provisionalSequenceNumberRX <= sequenceNumberRX
        /\ provisionalSequenceNumberRX = sequenceNumberRX
             => provisionalFramePositionRX <= framePositionRX
    BY <1>0 DEF IInv, ReceiverInv
  <2>3. sequenceNumberRX' = sequenceNumberRX
    BY <1>2 DEF RxPayloadRepeat
  <2> QED
    BY <1>0, <2>1, <2>2, <2>3
<1> QED
  BY <1>1, <1>2

(* rxDemarsh on a correct word: its frame may be acked. *)
LEMMA PayloadPath ==
    ASSUME IInv, RxPayloadNew \/ RxPayloadRepeat
    PROVE  AckInv' /\ PathInv'
<1> USE ConstantTypes
<1> DEFINE x == provisionalSequenceNumberRX
           c == Frames(ackSequenceNumberTX)
<1>0. /\ link \in Seq(Flits) /\ link # <<>> /\ x \in Nat
      /\ ackSequenceNumberTX \in Seq(Nat) /\ sequenceNumberRX \in Nat
  BY DEF IInv, TypeOK, RxTypeOK, LinkTypeOK, RxPayloadNew, RxPayloadRepeat,
     RxPayload, RxReady
<1>1. /\ UNCHANGED <<ackRX, ackLink, seqCommitted, x>>
      /\ link' = Tail(link) /\ ~frameErrorRX
  BY DEF RxPayloadNew, RxPayloadRepeat, RxPayload, txVars, seqVars
<1>2. CurrentFrame = {x} /\ CurrentFrame' \subseteq {x}
  BY <1>1 DEF CurrentFrame
<1>3. LinkFrames' \subseteq LinkFrames /\ FlitsInSequence(link')
  BY <1>0, <1>1, LinkTailDrops DEF LinkDrops, LinkFrames, IInv, PathInv
<1>4. /\ c \subseteq c' /\ c' \subseteq c \cup {x}
      /\ x \in c' => x \in c \/ x < sequenceNumberRX'
      /\ InSequence(ackSequenceNumberTX')
  <2>1. AllMayFollow(c, {x}) /\ InSequence(ackSequenceNumberTX)
    BY <1>2 DEF IInv, PathInv, Ordered, AllMayFollow
  <2>2. CASE provisionalFramePositionRX + 1 = FrameSize
    <3>1. ackSequenceNumberTX' = Append(ackSequenceNumberTX, x)
      BY <2>2 DEF RxPayloadNew, RxPayloadRepeat, AckLastWord
    <3>2. /\ Frames(ackSequenceNumberTX') = c \cup {x}
          /\ InSequence(ackSequenceNumberTX')
      BY <1>0, <2>1, <3>1, FramesAppend
    <3>3. x < sequenceNumberRX'
      BY <2>2, AckedFrame
    <3> QED
      BY <3>2, <3>3
  <2>3. CASE provisionalFramePositionRX + 1 # FrameSize
    <3>1. ackSequenceNumberTX' = ackSequenceNumberTX
      BY <2>3 DEF RxPayloadNew, RxPayloadRepeat, AckLastWord
    <3> QED
      BY <2>1, <3>1
  <2> QED
    BY <2>2, <2>3
<1>5. MayFollow(x, x)
  BY <1>0 DEF MayFollow
<1>6. ASSUME NEW a \in Nat, a < sequenceNumberRX PROVE a < sequenceNumberRX'
  BY <1>0, <1>6, Growth DEF IInv, Next, Protocol
<1>7. AckInv'
  <2>1. \A a \in Frames(ackRX) \cup Frames(ackLink) \cup c :
          a < sequenceNumberRX /\ a \in Nat
    BY PathTypes DEF IInv, AckInv
  <2>2. \A a \in Frames(ackRX) \cup Frames(ackLink) \cup c \cup {x}
          \cup LinkFrames : a >= seqCommitted - MaxFrames
    BY <1>2 DEF IInv, AckInv
  <2>3. \A a \in (Frames(ackRX) \cup Frames(ackLink) \cup c)' :
          a < sequenceNumberRX'
    BY <1>1, <1>4, <1>6, <2>1
  <2>4. \A a \in (Frames(ackRX) \cup Frames(ackLink) \cup c
          \cup CurrentFrame \cup LinkFrames)' :
          a >= seqCommitted' - MaxFrames
    BY <1>1, <1>2, <1>3, <1>4, <2>2
  <2> QED
    BY <2>3, <2>4 DEF AckInv
<1>8. Ordered(Frames(ackRX), Frames(ackLink), Frames(ackSequenceNumberTX),
              CurrentFrame, LinkFrames)'
  <2>1. Ordered(Frames(ackRX), Frames(ackLink), c, {x}, LinkFrames)
    BY <1>2 DEF IInv, PathInv
  <2>2. UNCHANGED <<Frames(ackRX), Frames(ackLink)>>
    BY <1>1
  <2> QED
    BY <1>2, <1>3, <1>4, <1>5, <2>1, <2>2 DEF Ordered, AllMayFollow
<1> QED
  BY <1>1, <1>3, <1>4, <1>7, <1>8 DEF IInv, PathInv

(* Every rule keeps the order of the path. *)
LEMMA PathStep ==
    ASSUME IInv, [Next]_vars
    PROVE  AckInv' /\ PathInv'
<1>0. /\ ackRX \in Seq(Nat) /\ ackLink \in Seq(Nat) /\ link \in Seq(Flits)
  BY DEF IInv, TypeOK, TxTypeOK, LinkTypeOK
<1>1. CASE TxHeader \/ TxSend
  BY <1>1, SentPath
<1>2. CASE HandleAck
  BY <1>2, HandledPath
<1>3. CASE RxAck \/ TxFC
  BY <1>3, MovedPath
<1>4. CASE RxHeader
  BY <1>4, HeaderPath
<1>5. CASE RxPayloadNew \/ RxPayloadRepeat
  BY <1>5, PayloadPath
<1>6. CASE RxPayloadBad
  <2>1. /\ UNCHANGED <<ackRX, ackLink, ackSequenceNumberTX, seqCommitted,
                       sequenceNumberRX>>
        /\ link' = Tail(link) /\ link # <<>> /\ frameErrorRX' = TRUE
    BY <1>6 DEF RxPayloadBad, RxPayload, RxReady, txVars, seqVars
  <2>2. LinkDrops(link, link')
    BY <1>0, <2>1, LinkTailDrops
  <2>3. CurrentFrame' \subseteq CurrentFrame
    BY <2>1 DEF CurrentFrame
  <2>4. /\ Drops(ackRX, ackRX') /\ Drops(ackLink, ackLink')
        /\ Drops(ackSequenceNumberTX, ackSequenceNumberTX')
    BY <2>1 DEF Drops
  <2> QED
    BY <2>1, <2>2, <2>3, <2>4, ShorterPath
<1>7. CASE DropAck \/ AckLose
  <2>1. /\ UNCHANGED <<frameVars, seqCommitted, ackSequenceNumberTX, link>>
        /\ \/ ackRX # <<>> /\ ackRX' = Tail(ackRX) /\ UNCHANGED ackLink
           \/ ackLink # <<>> /\ ackLink' = Tail(ackLink) /\ UNCHANGED ackRX
    BY <1>7 DEF DropAck, AckLose, txVars, rxVars, seqVars
  <2>2. Drops(ackRX, ackRX') /\ Drops(ackLink, ackLink')
    <3>1. CASE ackRX # <<>> /\ ackRX' = Tail(ackRX) /\ UNCHANGED ackLink
      <4>1. Drops(ackRX, ackRX')
        BY <1>0, <3>1, TailDrops
      <4> QED
        BY <3>1, <4>1 DEF Drops
    <3>2. CASE ackLink # <<>> /\ ackLink' = Tail(ackLink) /\ UNCHANGED ackRX
      <4>1. Drops(ackLink, ackLink')
        BY <1>0, <3>2, TailDrops
      <4> QED
        BY <3>2, <4>1 DEF Drops
    <3> QED
      BY <2>1, <3>1, <3>2
  <2>3. /\ Drops(ackSequenceNumberTX, ackSequenceNumberTX')
        /\ LinkDrops(link, link') /\ CurrentFrame' \subseteq CurrentFrame
        /\ UNCHANGED <<seqCommitted, sequenceNumberRX>>
    BY <2>1 DEF Drops, LinkDrops, CurrentFrame, frameVars
  <2> QED
    BY <2>2, <2>3, ShorterPath
<1>8. CASE UNCHANGED <<frameVars, seqCommitted, ackRX, ackLink,
                       ackSequenceNumberTX>> /\ LinkDrops(link, link')
  <2>1. /\ Drops(ackSequenceNumberTX, ackSequenceNumberTX')
        /\ Drops(ackRX, ackRX') /\ Drops(ackLink, ackLink')
        /\ CurrentFrame' \subseteq CurrentFrame
        /\ UNCHANGED <<seqCommitted, sequenceNumberRX>>
    BY <1>8 DEF Drops, CurrentFrame, frameVars
  <2> QED
    BY <1>8, <2>1, ShorterPath
<1>9. CASE LinkLose \/ LinkNoise \/ LinkSoftErr
  <2>1. LinkDrops(link, link')
    <3>1. CASE LinkLose
      BY <1>0, <3>1, LinkTailDrops DEF LinkLose
    <3>2. CASE LinkNoise
      BY <1>0, <3>2, NoiseShrinks DEF LinkNoise, Shrinks, LinkDrops
    <3>3. CASE LinkSoftErr
      BY <1>0, <3>3, SoftErrShrinks DEF LinkSoftErr, Shrinks, LinkDrops
    <3> QED
      BY <1>9, <3>1, <3>2, <3>3
  <2> QED
    BY <1>8, <1>9, <2>1 DEF LinkLose, LinkNoise, LinkSoftErr, txVars, rxVars,
       seqVars
<1>10. CASE TickTX \/ SequenceStuffer \/ PassRewind \/ TimeoutTest
            \/ Timeout \/ TickRX \/ RxDone \/ UNCHANGED vars
  <2>1. UNCHANGED <<frameVars, seqCommitted, ackRX, ackLink,
                    ackSequenceNumberTX, link>>
    BY <1>10 DEF TickTX, SequenceStuffer, PassRewind, TimeoutTest, Timeout,
       TickRX, RxDone, vars, txVars, rxVars, seqVars
  <2> QED
    BY <1>8, <2>1 DEF LinkDrops
<1> QED
  BY <1>1, <1>2, <1>3, <1>4, <1>5, <1>6, <1>7, <1>9, <1>10 DEF Next, Protocol,
     LinkFault

-----------------------------------------------------------------------------
(* The invariant and what follows from it. *)

(* The invariant holds after reset. *)
LEMMA InvInit == Init => IInv
<1> SUFFICES ASSUME Init PROVE IInv
  OBVIOUS
<1> USE ConstantTypes, EmptySeq
<1>1. TypeOK
  BY TypeInit
<1>2. /\ frameInProgress = FALSE /\ frameErrorRX = TRUE
      /\ ackRX = <<>> /\ ackLink = <<>> /\ ackSequenceNumberTX = <<>>
      /\ ackSequenceNumberRX = <<>> /\ link = <<>> /\ received = <<>>
      /\ seqCommitted = 0 /\ seqFirst = 0 /\ seqLast = 0
      /\ dataCommitted = 0 /\ dataFirst = 0 /\ dataLast = 0
      /\ frameTimeout = 0 /\ taken = 0
      /\ sequenceNumberRX = 0 /\ framePositionRX = 0
  BY DEF Init
<1>3. DOMAIN <<>> = {} /\ Len(<<>>) = 0 /\ 0 * FrameSize = 0
  BY FrameStart
<1>4. SenderInv
  BY <1>2, <1>3 DEF SenderInv, SenderInStep
<1>5. ReceiverInv
  BY <1>2, <1>3 DEF ReceiverInv, ExactlyOnceInOrder
<1>6. LinkInv
  BY <1>2, <1>3 DEF LinkInv
<1>7. /\ Frames(<<>>) = {} /\ CurrentFrame = {} /\ LinkFrames = {}
  BY <1>2, <1>3 DEF Frames, CurrentFrame, LinkFrames, FlitFrames
<1>8. AckInv
  BY <1>2, <1>7 DEF AckInv
<1>9. PathInv
  BY <1>2, <1>3, <1>7 DEF PathInv, InSequence, FlitsInSequence, Ordered,
     AllMayFollow
<1> QED
  BY <1>1, <1>4, <1>5, <1>6, <1>8, <1>9 DEF IInv

(* Every step keeps the invariant. *)
LEMMA InvStep == IInv /\ [Next]_vars => IInv'
<1> SUFFICES ASSUME IInv, [Next]_vars PROVE IInv'
  OBVIOUS
<1>1. TypeOK'
  BY TypeStep DEF IInv
<1>2. SenderInv' /\ ReceiverInv' /\ LinkInv'
  <2>1. SenderInv'
    BY SenderStep DEF IInv
  <2>2. ReceiverInv'
    BY ReceiverStep
  <2>3. LinkInv'
    BY LinkStep
  <2> QED
    BY <2>1, <2>2, <2>3
<1>3. AckInv' /\ PathInv'
  BY PathStep
<1> QED
  BY <1>1, <1>2, <1>3 DEF IInv

(* The strengthening is inductive: transmitter, receiver, both links and   *)
(* the acks between them stay in the relation that the safety properties   *)
(* rest on, whatever the link loses or damages.                            *)
THEOREM InvariantHolds == Spec => []IInv
  BY InvInit, InvStep, PTL DEF Spec

(* The words that rxDemarsh delivers are those the user wrote, each once   *)
(* and in order.                                                           *)
THEOREM DeliveryCorrect == Spec => []ExactlyOnceInOrder
<1>1. IInv => ExactlyOnceInOrder
  BY DEF IInv, ReceiverInv
<1> QED
  BY <1>1, InvariantHolds, PTL

(* The invariant leaves no frame released too early. *)
LEMMA ReleasedFrames == IInv => NoEarlyRelease
<1> SUFFICES ASSUME IInv PROVE NoEarlyRelease
  OBVIOUS
<1>1. /\ seqCommitted \in Nat /\ sequenceNumberRX \in Nat
      /\ framePositionRX \in 0 .. FrameSize - 1
      /\ seqCommitted <= sequenceNumberRX
      /\ Len(received) = sequenceNumberRX * FrameSize + framePositionRX
  BY DEF IInv, TypeOK, TxTypeOK, RxTypeOK, ReceiverInv
<1>2. dataCommitted = seqCommitted * FrameSize
  BY DEF IInv, SenderInv, SenderInStep
<1>3. /\ seqCommitted * FrameSize <= sequenceNumberRX * FrameSize
      /\ seqCommitted * FrameSize \in Nat
      /\ sequenceNumberRX * FrameSize \in Nat
  BY <1>1, FrameOrder, FrameStart
<1> QED
  BY <1>1, <1>2, <1>3, ConstantTypes DEF NoEarlyRelease

(* A frame leaves the rewind buffers only after the receiver delivered it. *)
THEOREM ReleaseCorrect == Spec => []NoEarlyRelease
  BY ReleasedFrames, InvariantHolds, PTL

(* The rewind buffers, frameTimeout and ackSequenceNumberRX describe the   *)
(* same frames after every rule, timeout included.                         *)
THEOREM SenderCorrect == Spec => []SenderInStep
<1>1. IInv => SenderInStep
  BY DEF IInv, SenderInv
<1> QED
  BY <1>1, InvariantHolds, PTL

(* The comparison of wrapped sequence numbers in rxDemarsh refuses exactly *)
(* the future frames.                                                      *)
THEOREM HeaderTestCorrect == Spec => []HeaderTestExact
<1>1. IInv => HeaderTestExact
  BY HeaderExact
<1> QED
  BY <1>1, InvariantHolds, PTL

(* An ack that handleAck takes for the ack of the oldest frame is one.     *)
THEOREM AckCorrect == Spec => []AckNamesOldestFrame
<1>1. IInv => AckNamesOldestFrame
  BY AckIdentity
<1> QED
  BY <1>1, InvariantHolds, PTL

(* The chained hash tells rxDemarsh the position of every correct word.    *)
THEOREM ChainCorrect == Spec => []ChainFindsPosition
<1>1. IInv => ChainFindsPosition
  BY PayloadExact DEF ChainFindsPosition
<1> QED
  BY <1>1, InvariantHolds, PTL

-----------------------------------------------------------------------------
(* The link implements the abstract stream. *)

(* A delivery: the next word, and nothing else the users could see. *)
LEMMA DeliverStep ==
    ASSUME IInv, RxPayloadNew
    PROVE  Stream!StreamDeliver
<1>1. /\ link # <<>> /\ Head(link).type = "payload" /\ NotCorrupt
      /\ ~frameErrorRX /\ NewWord
      /\ received' = Append(received, Head(link).word)
      /\ UNCHANGED <<dataLast, dataCommitted>>
  BY DEF RxPayloadNew, RxPayload, RxReady, txVars, dataVars
<1>2. /\ Head(link).word = provisionalSequenceNumberRX * FrameSize
                           + provisionalFramePositionRX
      /\ Head(link).word < dataLast
  BY <1>1, PayloadExact
<1>3. Len(received) = provisionalSequenceNumberRX * FrameSize
                      + provisionalFramePositionRX
  BY <1>1, NewWordFrame DEF IInv, ReceiverInv
<1> QED
  BY <1>1, <1>2, <1>3 DEF Stream!StreamDeliver

(* A matching ack releases a frame that the receiver has. *)
LEMMA ReleaseStep ==
    ASSUME IInv, IInv', HandleAck,
           SeqNo(Head(ackSequenceNumberRX)) = SeqNo(Head(ackRX))
    PROVE  Stream!StreamRelease
<1>1. /\ dataCommitted' = dataCommitted + FrameSize
      /\ UNCHANGED <<dataLast, received>>
  BY DEF HandleAck, rxVars, outVars
<1>2. NoEarlyRelease'
  BY ReleasedFrames, PTL
<1> QED
  BY <1>1, <1>2 DEF NoEarlyRelease, Stream!StreamRelease

(* Every step of the link is a step of the stream or leaves it unchanged. *)
LEMMA StreamStep ==
    ASSUME IInv, IInv', [Next]_vars
    PROVE  [Stream!StreamNext]_(Stream!streamVars)
<1>1. CASE PassRewind
  <2>1. Stream!StreamWrite
    BY <1>1 DEF PassRewind, Stream!StreamWrite, rxVars, outVars
  <2> QED
    BY <2>1 DEF Stream!StreamNext
<1>2. CASE RxPayloadNew
  BY <1>2, DeliverStep DEF Stream!StreamNext
<1>3. CASE HandleAck
  <2>1. CASE SeqNo(Head(ackSequenceNumberRX)) = SeqNo(Head(ackRX))
    BY <1>3, <2>1, ReleaseStep DEF Stream!StreamNext
  <2>2. CASE SeqNo(Head(ackSequenceNumberRX)) # SeqNo(Head(ackRX))
    BY <1>3, <2>2 DEF HandleAck, rxVars, outVars, Stream!streamVars
  <2> QED
    BY <2>1, <2>2
<1>4. CASE UNCHANGED <<dataLast, dataCommitted, received>>
  BY <1>4 DEF Stream!streamVars
<1>5. CASE TickTX \/ SequenceStuffer \/ TxHeader \/ TxSend \/ TimeoutTest
           \/ Timeout \/ DropAck \/ RxAck
  BY <1>4, <1>5 DEF TickTX, SequenceStuffer, TxHeader, TxSend, TimeoutTest,
     Timeout, DropAck, RxAck, rxVars, outVars, dataVars
<1>6. CASE TickRX \/ RxHeader \/ RxPayloadRepeat \/ RxPayloadBad \/ RxDone
           \/ TxFC
  BY <1>4, <1>6 DEF TickRX, RxHeader, RxPayloadRepeat, RxPayloadBad, RxPayload,
     RxDone, TxFC, txVars, outVars, dataVars
<1>7. CASE LinkFault \/ UNCHANGED vars
  BY <1>4, <1>7 DEF LinkFault, LinkLose, LinkNoise, LinkSoftErr, AckLose, vars,
     txVars, rxVars, outVars, dataVars
<1> QED
  BY <1>1, <1>2, <1>3, <1>5, <1>6, <1>7 DEF Next, Protocol

(* To its two users the link is a lossless, ordered stream with a bounded  *)
(* retransmission store.                                                   *)
THEOREM Refinement == Spec => ImplementsStream
<1>1. Init => Stream!StreamInit
  BY DEF Init, Stream!StreamInit
<1>2. IInv /\ IInv' /\ [Next]_vars => [Stream!StreamNext]_(Stream!streamVars)
  BY StreamStep
<1> QED
  BY <1>1, <1>2, InvariantHolds, PTL DEF Spec, ImplementsStream,
     Stream!StreamSpec
=============================================================================
