---------------------------- MODULE AuroraReliable ----------------------------
(***************************************************************************)
(* One direction of the reliable Aurora link (aurora-reliable.bsv): the    *)
(* transmitter of one FPGA, the receiver of the other, the serial link     *)
(* that carries headers and payload forward and the one that carries acks  *)
(* back.  Every Bluespec rule is one atomic action; a rule's guard holds   *)
(* the rule's own condition and the implicit conditions of the methods it  *)
(* calls.                                                                  *)
(*                                                                         *)
(* Words are named by their index in the stream.  Sequence numbers are     *)
(* kept as unbounded frame numbers; what the hardware stores and sends is  *)
(* SeqNo(frame), and every comparison the hardware makes is made on SeqNo. *)
(***************************************************************************)
EXTENDS Integers, Sequences

CONSTANTS FrameSize,         \* frame_size: words in a frame
          MaxFrames,         \* max_frames: frames in flight
          SequenceNumbers,   \* sequence_numbers: 2^(width of a number)
          AckDepth,          \* depth of the FIFO ackRX
          CCCycles,          \* clock compensations to see before sending
          RxDepth,           \* words held between rxDemarsh and the user
          LinkBound,         \* bound: flits in flight, and acks in flight
          MaxWords           \* bound: words the writing user sends

(* The sequence space must have room for the frames that are in flight and *)
(* the forbidden ones on both sides; 8 >= 4 * 2 in the source.             *)
ASSUME AuroraAssumption ==
    /\ FrameSize \in Nat \ {0, 1}
    /\ MaxFrames \in Nat \ {0}
    /\ SequenceNumbers \in Nat
    /\ SequenceNumbers % 2 = 0
    /\ SequenceNumbers >= 4 * MaxFrames
    /\ AckDepth \in Nat \ {0}
    /\ CCCycles \in Nat
    /\ RxDepth \in Nat \ {0}
    /\ LinkBound \in Nat \ {0}
    /\ MaxWords \in Nat

VARIABLES
    \* the transmitter
    ccTX,                 \* ccCycles of the transmitter
    dataCommitted, dataFirst, dataLast,  \* txDataRewindBuffer
    seqCommitted, seqFirst, seqLast,     \* txSequenceRewindBuffer
    frameInProgress, framePositionTX, parityTX,
    frameTimeout,         \* number of entries of the FIFO frameTimeout
    ackSequenceNumberRX,  \* sent frames that wait for their ack
    ackRX,                \* acks received and not yet looked at
    timeoutQ,             \* TRUE: a timeout has been decided
    \* the receiver
    ccRX,                 \* ccCycles of the receiver
    framePositionRX, provisionalFramePositionRX,
    sequenceNumberRX, provisionalSequenceNumberRX,
    frameErrorRX, parityRX,
    ackSequenceNumberTX,  \* acks to send
    received,             \* words put into the demarshaller, in order
    taken,                \* how many of them the user has dequeued
    \* the two serial links, with the serdesInfifo at their end
    link, ackLink

dataVars == <<dataCommitted, dataFirst, dataLast>>
seqVars == <<seqCommitted, seqFirst, seqLast>>
sendVars == <<frameInProgress, framePositionTX, parityTX>>
waitVars == <<frameTimeout, ackSequenceNumberRX>>
txVars == <<ccTX, dataVars, seqVars, sendVars, waitVars, ackRX, timeoutQ>>

frameVars == <<framePositionRX, provisionalFramePositionRX, sequenceNumberRX,
               provisionalSequenceNumberRX, frameErrorRX, parityRX>>
outVars == <<received, taken>>
rxVars == <<ccRX, frameVars, ackSequenceNumberTX, outVars>>

vars == <<txVars, rxVars, link, ackLink>>

-----------------------------------------------------------------------------
(* A register of TLog(sequence_numbers) bits that holds a frame's number. *)
SeqNo(frame) == frame % SequenceNumbers

(* The most significant bit of a sequence number. *)
TopBit(s) == s >= SequenceNumbers \div 2

(* position + 1 in a register of TLog(frame_size) bits. *)
NextPosition(p) == IF p + 1 = FrameSize THEN 0 ELSE p + 1

(* Defective variant: the hash of a word does not depend on the words before it. *)
HashUnchained(salt, chunk) == <<chunk>>

(* crcgen.nextChunk, taken to be free of collisions: the hash of a chunk   *)
(* under a salt determines both.  NoSalt is the salt 0.                    *)
NoSalt == <<>>
Hash(salt, chunk) == Append(salt, chunk)

(* A flit of a frame.  A header carries SeqNo(frame) and no word, so its   *)
(* word is 0; a payload carries its word, and its frame is auxiliary: the  *)
(* receiver never looks at it.                                             *)
Flit(type, frame, word, hash) ==
    [type |-> type, frame |-> frame, word |-> word, hash |-> hash,
     softErr |-> FALSE]

HeaderFlit(frame) ==
    Flit("header", frame, 0, Hash(NoSalt, <<"header", SeqNo(frame)>>))

PayloadFlit(salt, frame, word) ==
    Flit("payload", frame, word, Hash(salt, <<"payload", word>>))

(* A flit whose bits changed on the way: no hash is ever NoSalt. *)
NoiseFlit(type) == Flit(type, 0, 0, NoSalt)

Init ==
    /\ ccTX = CCCycles /\ ccRX = CCCycles
    /\ dataCommitted = 0 /\ dataFirst = 0 /\ dataLast = 0
    /\ seqCommitted = 0 /\ seqFirst = 0 /\ seqLast = 0
    /\ frameInProgress = FALSE /\ framePositionTX = 0 /\ parityTX = NoSalt
    /\ frameTimeout = 0 /\ ackSequenceNumberRX = <<>> /\ ackRX = <<>>
    /\ timeoutQ = FALSE
    /\ framePositionRX = 0 /\ provisionalFramePositionRX = 0
    /\ sequenceNumberRX = 0 /\ provisionalSequenceNumberRX = 0
    /\ frameErrorRX = TRUE /\ parityRX = NoSalt
    /\ ackSequenceNumberTX = <<>> /\ received = <<>> /\ taken = 0
    /\ link = <<>> /\ ackLink = <<>>

-----------------------------------------------------------------------------
(* The transmitter. *)

(* tickCC, at the transmitter and at the receiver. *)
TickTX == /\ ccTX > 0
          /\ ccTX' = ccTX - 1
          /\ UNCHANGED <<dataVars, seqVars, sendVars, waitVars, ackRX, timeoutQ,
                         rxVars, link, ackLink>>

TickRX == /\ ccRX > 0
          /\ ccRX' = ccRX - 1
          /\ UNCHANGED <<txVars, frameVars, ackSequenceNumberTX, outVars, link,
                         ackLink>>

(* sequenceStuffer: the next sequence number enters its rewind buffer. *)
SequenceStuffer ==
    /\ seqLast - seqCommitted < MaxFrames
    /\ seqLast * FrameSize <= MaxWords
    /\ seqLast' = seqLast + 1
    /\ UNCHANGED <<ccTX, dataVars, seqCommitted, seqFirst, sendVars,
                   waitVars, ackRX, timeoutQ, rxVars, link, ackLink>>

(* write, crossDomain, passRewind: the user's next word enters the buffer. *)
PassRewind ==
    /\ dataLast - dataCommitted < MaxFrames * FrameSize
    /\ dataLast < MaxWords
    /\ dataLast' = dataLast + 1
    /\ UNCHANGED <<ccTX, dataCommitted, dataFirst, seqVars, sendVars,
                   waitVars, ackRX, timeoutQ, rxVars, link, ackLink>>

(* txHeader with sendData: a frame starts as soon as it has a number. *)
TxHeader ==
    /\ ~frameInProgress
    /\ ccTX = 0
    /\ Len(link) < LinkBound
    /\ seqFirst < seqLast
    /\ frameTimeout < MaxFrames
    /\ LET flit == HeaderFlit(seqFirst) IN
         /\ link' = Append(link, flit)
         /\ parityTX' = flit.hash
    /\ frameInProgress' = TRUE
    /\ framePositionTX' = 0
    /\ frameTimeout' = frameTimeout + 1
    /\ UNCHANGED <<ccTX, dataVars, seqVars, ackSequenceNumberRX, ackRX,
                   timeoutQ, rxVars, ackLink>>

(* txSend with sendData: the next word; the last one closes the frame. *)
TxSend ==
    /\ frameInProgress
    /\ Len(link) < LinkBound
    /\ dataFirst < dataLast
    /\ seqFirst < seqLast
    /\ Len(ackSequenceNumberRX) < MaxFrames
    /\ LET flit == PayloadFlit(parityTX, seqFirst, dataFirst) IN
         /\ link' = Append(link, flit)
         /\ parityTX' = flit.hash
    /\ dataFirst' = dataFirst + 1
    /\ \/ /\ framePositionTX + 1 = FrameSize
          /\ frameInProgress' = FALSE
          /\ seqFirst' = seqFirst + 1
          /\ ackSequenceNumberRX' = Append(ackSequenceNumberRX, seqFirst)
          /\ UNCHANGED framePositionTX
       \/ /\ framePositionTX + 1 # FrameSize
          /\ framePositionTX' = framePositionTX + 1
          /\ UNCHANGED <<frameInProgress, seqFirst, ackSequenceNumberRX>>
    /\ UNCHANGED <<ccTX, dataCommitted, dataLast, seqCommitted, seqLast,
                   frameTimeout, ackRX, timeoutQ, rxVars, ackLink>>

(* Defective variant: only completely sent frames are watched. *)
TimeoutTestSentOnly ==
    /\ ackSequenceNumberRX # <<>>
    /\ ~timeoutQ
    /\ timeoutQ' = TRUE
    /\ UNCHANGED <<ccTX, dataVars, seqVars, sendVars, waitVars, ackRX,
                   rxVars, link, ackLink>>

(* timeoutTest: the oldest open frame is too old; the timer is abstracted, *)
(* so any open frame may be found too old at any time.                     *)
TimeoutTest ==
    /\ frameTimeout > 0
    /\ ~timeoutQ
    /\ timeoutQ' = TRUE
    /\ UNCHANGED <<ccTX, dataVars, seqVars, sendVars, waitVars, ackRX,
                   rxVars, link, ackLink>>

(* Defective variant: the frames that wait for an ack are not forgotten. *)
TimeoutKeepAcks ==
    /\ timeoutQ
    /\ timeoutQ' = FALSE
    /\ frameTimeout' = 0
    /\ frameInProgress' = FALSE
    /\ dataFirst' = dataCommitted
    /\ seqFirst' = seqCommitted
    /\ UNCHANGED <<ccTX, dataCommitted, dataLast, seqCommitted, seqLast,
                   framePositionTX, parityTX, ackSequenceNumberRX, ackRX,
                   rxVars, link, ackLink>>

(* timeout: forget what was sent and start again at the oldest frame. *)
Timeout ==
    /\ timeoutQ
    /\ timeoutQ' = FALSE
    /\ frameTimeout' = 0
    /\ ackSequenceNumberRX' = <<>>
    /\ frameInProgress' = FALSE
    /\ dataFirst' = dataCommitted
    /\ seqFirst' = seqCommitted
    /\ UNCHANGED <<ccTX, dataCommitted, dataLast, seqCommitted, seqLast,
                   framePositionTX, parityTX, ackRX, rxVars, link, ackLink>>

(* Defective variant: every ack is taken for that of the oldest open frame. *)
HandleAckAny ==
    /\ ackRX # <<>>
    /\ ackSequenceNumberRX # <<>>
    /\ frameTimeout > 0
    /\ ackRX' = Tail(ackRX)
    /\ frameTimeout' = frameTimeout - 1
    /\ ackSequenceNumberRX' = Tail(ackSequenceNumberRX)
    /\ dataCommitted' = dataCommitted + FrameSize
    /\ seqCommitted' = seqCommitted + 1
    /\ UNCHANGED <<ccTX, dataFirst, dataLast, seqFirst, seqLast, sendVars,
                   timeoutQ, rxVars, link, ackLink>>

(* handleAck: an ack of the oldest open frame releases that frame; any     *)
(* other is dropped.                                                       *)
HandleAck ==
    /\ ackRX # <<>>
    /\ ackSequenceNumberRX # <<>>
    /\ frameTimeout > 0
    /\ ackRX' = Tail(ackRX)
    /\ \/ /\ SeqNo(Head(ackSequenceNumberRX)) = SeqNo(Head(ackRX))
          /\ frameTimeout' = frameTimeout - 1
          /\ ackSequenceNumberRX' = Tail(ackSequenceNumberRX)
          /\ dataCommitted' = dataCommitted + FrameSize
          /\ seqCommitted' = seqCommitted + 1
       \/ /\ SeqNo(Head(ackSequenceNumberRX)) # SeqNo(Head(ackRX))
          /\ UNCHANGED <<waitVars, dataCommitted, seqCommitted>>
    /\ UNCHANGED <<ccTX, dataFirst, dataLast, seqFirst, seqLast, sendVars,
                   timeoutQ, rxVars, link, ackLink>>

(* dropAck: no frame waits for an ack. *)
DropAck ==
    /\ ackRX # <<>>
    /\ ackSequenceNumberRX = <<>>
    /\ ackRX' = Tail(ackRX)
    /\ UNCHANGED <<ccTX, dataVars, seqVars, sendVars, waitVars, timeoutQ,
                   rxVars, link, ackLink>>

(* The ack branch of rxDemarsh, at the transmitter's end of the ack link. *)
RxAck ==
    /\ ackLink # <<>>
    /\ Len(ackRX) < AckDepth
    /\ ackRX' = Append(ackRX, Head(ackLink))
    /\ ackLink' = Tail(ackLink)
    /\ UNCHANGED <<ccTX, dataVars, seqVars, sendVars, waitVars, timeoutQ,
                   rxVars, link>>

-----------------------------------------------------------------------------
(* The receiver. *)

(* The implicit condition of rxDemarsh, whichever branch is taken. *)
RxReady == /\ link # <<>>
           /\ Len(received) - taken < RxDepth
           /\ Len(ackSequenceNumberTX) < MaxFrames

(* hashRX of the flit at the head of the link. *)
HashRX == LET flit == Head(link) IN
          IF flit.type = "payload"
          THEN Hash(parityRX, <<"payload", flit.word>>)
          ELSE Hash(NoSalt, <<"header", SeqNo(flit.frame)>>)

HashMatches == HashRX = Head(link).hash

NotCorrupt == HashMatches /\ ~Head(link).softErr

(* parityRX takes hashRX.  A hash that does not match the flit's leaves    *)
(* frameErrorRX set until the next header, so its value is never used.     *)
NextParityRX == IF HashMatches THEN HashRX ELSE NoSalt

(* Defective variant: the wrap-around clause for a high header is missing. *)
SequenceErrorNoHigh(r, h) == \/ r < h
                             \/ TopBit(r) /\ h < MaxFrames

(* The acceptance test on the sequence numbers of a header: r is           *)
(* sequenceNumberRX, h is headerSequence.                                  *)
SequenceError(r, h) == \/ r < h /\ ~(TopBit(h) /\ r < MaxFrames)
                       \/ TopBit(r) /\ h < MaxFrames

(* The header branch of rxDemarsh. *)
RxHeader ==
    /\ RxReady
    /\ Head(link).type = "header"
    /\ link' = Tail(link)
    /\ provisionalFramePositionRX' = 0
    /\ provisionalSequenceNumberRX' = Head(link).frame
    /\ frameErrorRX' = \/ SequenceError(SeqNo(sequenceNumberRX),
                                        SeqNo(Head(link).frame))
                       \/ ~NotCorrupt
    /\ parityRX' = NextParityRX
    /\ UNCHANGED <<txVars, ccRX, framePositionRX, sequenceNumberRX,
                   ackSequenceNumberTX, outVars, ackLink>>

(* Defective variant: the frame of the word is not compared. *)
NewWordAnyFrame == provisionalFramePositionRX = framePositionRX

(* The receiver has not yet delivered the word it expects now. *)
NewWord == /\ provisionalFramePositionRX = framePositionRX
           /\ SeqNo(provisionalSequenceNumberRX) = SeqNo(sequenceNumberRX)

(* Defective variant: the ack is sent one word early. *)
AckLastWordEarly ==
    ackSequenceNumberTX' = IF provisionalFramePositionRX + 2 = FrameSize
                           THEN Append(ackSequenceNumberTX,
                                       provisionalSequenceNumberRX)
                           ELSE ackSequenceNumberTX

(* If we got the last word of a frame correctly send an ack. *)
AckLastWord ==
    ackSequenceNumberTX' = IF provisionalFramePositionRX + 1 = FrameSize
                           THEN Append(ackSequenceNumberTX,
                                       provisionalSequenceNumberRX)
                           ELSE ackSequenceNumberTX

(* What the three payload branches of rxDemarsh have in common. *)
RxPayload ==
    /\ RxReady
    /\ Head(link).type = "payload"
    /\ link' = Tail(link)
    /\ parityRX' = NextParityRX
    /\ provisionalFramePositionRX' = NextPosition(provisionalFramePositionRX)
    /\ UNCHANGED <<txVars, ccRX, provisionalSequenceNumberRX, taken, ackLink>>

(* A correct word that was not delivered before. *)
RxPayloadNew ==
    /\ RxPayload
    /\ NotCorrupt /\ ~frameErrorRX
    /\ NewWord
    /\ received' = Append(received, Head(link).word)
    /\ framePositionRX' = NextPosition(framePositionRX)
    /\ \/ /\ framePositionRX + 1 = FrameSize
          /\ frameErrorRX' = TRUE
          /\ sequenceNumberRX' = sequenceNumberRX + 1
       \/ /\ framePositionRX + 1 # FrameSize
          /\ UNCHANGED <<frameErrorRX, sequenceNumberRX>>
    /\ AckLastWord

(* Defective variant: the ack of a frame is not repeated. *)
RxPayloadRepeatNoAck ==
    /\ RxPayload
    /\ NotCorrupt /\ ~frameErrorRX
    /\ ~NewWord
    /\ UNCHANGED <<framePositionRX, sequenceNumberRX, frameErrorRX, received,
                   ackSequenceNumberTX>>

(* A correct word that was delivered before: only the ack is repeated. *)
RxPayloadRepeat ==
    /\ RxPayload
    /\ NotCorrupt /\ ~frameErrorRX
    /\ ~NewWord
    /\ AckLastWord
    /\ UNCHANGED <<framePositionRX, sequenceNumberRX, frameErrorRX, received>>

(* Defective variant: a corrupt word does not put its frame in error. *)
RxPayloadBadIgnored ==
    /\ RxPayload
    /\ ~(NotCorrupt /\ ~frameErrorRX)
    /\ UNCHANGED <<framePositionRX, sequenceNumberRX, frameErrorRX,
                   ackSequenceNumberTX, received>>

(* A corrupt word, or a word of a frame already in error. *)
RxPayloadBad ==
    /\ RxPayload
    /\ ~(NotCorrupt /\ ~frameErrorRX)
    /\ frameErrorRX' = TRUE
    /\ UNCHANGED <<framePositionRX, sequenceNumberRX, ackSequenceNumberTX,
                   received>>

(* rxDone and the user's deq. *)
RxDone ==
    /\ taken < Len(received)
    /\ taken' = taken + 1
    /\ UNCHANGED <<txVars, ccRX, frameVars, ackSequenceNumberTX, received,
                   link, ackLink>>

(* txFC with sendData: an ack goes out on the other link. *)
TxFC ==
    /\ ccRX = 0
    /\ Len(ackLink) < LinkBound
    /\ ackSequenceNumberTX # <<>>
    /\ ackLink' = Append(ackLink, Head(ackSequenceNumberTX))
    /\ ackSequenceNumberTX' = Tail(ackSequenceNumberTX)
    /\ UNCHANGED <<txVars, ccRX, frameVars, outVars, link>>

-----------------------------------------------------------------------------
(* The links.  Both are FIFO.  A flit lost anywhere is lost at the head:   *)
(* nothing observes it in between.                                         *)

(* A flit vanishes, or rule drop discards it because rxIntake is blocked. *)
LinkLose == /\ link # <<>>
            /\ link' = Tail(link)
            /\ UNCHANGED <<txVars, rxVars, ackLink>>

(* Damaged bits that look like a header or a payload: what is left of a    *)
(* flit of this direction or of an ack of the other.  A damaged flit that  *)
(* looks like an ack is ignored by rxDemarsh, which is LinkLose.           *)
LinkNoise == /\ Len(link) < LinkBound
             /\ \E type \in {"header", "payload"} :
                   link' = <<NoiseFlit(type)>> \o link
             /\ UNCHANGED <<txVars, rxVars, ackLink>>

(* The transceiver reports a soft error with an intact flit. *)
LinkSoftErr == /\ link # <<>>
               /\ link' = [link EXCEPT ![1].softErr = TRUE]
               /\ UNCHANGED <<txVars, rxVars, ackLink>>

(* An ack is lost, or arrives damaged and is ignored. *)
AckLose == /\ ackLink # <<>>
           /\ ackLink' = Tail(ackLink)
           /\ UNCHANGED <<txVars, rxVars, link>>

-----------------------------------------------------------------------------
Protocol == \/ TickTX \/ TickRX \/ SequenceStuffer \/ PassRewind
            \/ TxHeader \/ TxSend \/ TimeoutTest \/ Timeout \/ HandleAck \/ DropAck \/ RxAck
            \/ RxHeader \/ RxPayloadNew \/ RxPayloadRepeat \/ RxPayloadBad
            \/ RxDone \/ TxFC

LinkFault == LinkLose \/ LinkNoise \/ LinkSoftErr \/ AckLose

Next == Protocol \/ LinkFault

Spec == Init /\ [][Next]_vars

-----------------------------------------------------------------------------
(* Fairness. *)

(* Every rule that has something to do fires: the Bluespec scheduler fires *)
(* each rule in every cycle its guard holds and no more urgent rule, of    *)
(* which txFC is the only one, conflicts with it.  The reading user        *)
(* dequeues what there is.  Nothing is assumed of the writing user.        *)
Fairness == /\ WF_vars(TickTX) /\ WF_vars(TickRX)
            /\ WF_vars(SequenceStuffer)
            /\ WF_vars(TxHeader) /\ WF_vars(TxSend)
            /\ WF_vars(TimeoutTest) /\ WF_vars(Timeout)
            /\ WF_vars(HandleAck \/ DropAck) /\ WF_vars(RxAck)
            /\ WF_vars(RxHeader \/ RxPayloadNew \/ RxPayloadRepeat
                                \/ RxPayloadBad)
            /\ WF_vars(RxDone) /\ WF_vars(TxFC)

(* Everything sent has been answered or lost and no rule but timeoutTest   *)
(* could move.                                                             *)
Quiet == /\ link = <<>> /\ ackLink = <<>>
         /\ ackSequenceNumberTX = <<>> /\ ackRX = <<>>
         /\ IF frameInProgress THEN dataFirst = dataLast
                               ELSE seqFirst = seqLast

(* A timeout of a frame whose words or ack are still on their way. *)
PrematureTimeout == TimeoutTest /\ ~Quiet

(* From some time on the link does no harm and the threshold of the timer  *)
(* (1000 times the capacity of the buffers) exceeds the time of a frame's  *)
(* way there and its ack's way back.                                       *)
EventuallyCalm == <>[][~LinkFault /\ ~PrematureTimeout]_vars

LiveSpec == Spec /\ Fairness /\ EventuallyCalm

-----------------------------------------------------------------------------
(* Properties. *)

Hashes == Seq({"header", "payload"} \X Nat)
Flits == [type : {"header", "payload"}, frame : Nat, word : Nat,
          hash : Hashes, softErr : BOOLEAN]

TxTypeOK ==
    /\ ccTX \in 0 .. CCCycles
    /\ dataCommitted \in Nat /\ dataFirst \in Nat /\ dataLast \in 0 .. MaxWords
    /\ seqCommitted \in Nat /\ seqFirst \in Nat /\ seqLast \in Nat
    /\ frameInProgress \in BOOLEAN /\ framePositionTX \in 0 .. FrameSize - 1
    /\ parityTX \in Hashes
    /\ frameTimeout \in 0 .. MaxFrames
    /\ ackSequenceNumberRX \in Seq(Nat) /\ ackRX \in Seq(Nat)
    /\ Len(ackSequenceNumberRX) <= MaxFrames /\ Len(ackRX) <= AckDepth
    /\ timeoutQ \in BOOLEAN

RxTypeOK ==
    /\ ccRX \in 0 .. CCCycles
    /\ framePositionRX \in 0 .. FrameSize - 1
    /\ provisionalFramePositionRX \in 0 .. FrameSize - 1
    /\ sequenceNumberRX \in Nat /\ provisionalSequenceNumberRX \in Nat
    /\ frameErrorRX \in BOOLEAN /\ parityRX \in Hashes
    /\ ackSequenceNumberTX \in Seq(Nat)
    /\ Len(ackSequenceNumberTX) <= MaxFrames
    /\ received \in Seq(Nat) /\ taken \in Nat

LinkTypeOK ==
    /\ link \in Seq(Flits) /\ Len(link) <= LinkBound
    /\ ackLink \in Seq(Nat) /\ Len(ackLink) <= LinkBound

(* Every register and queue holds a value of its type, and no queue        *)
(* exceeds its depth.                                                      *)
TypeOK == TxTypeOK /\ RxTypeOK /\ LinkTypeOK

(* Exactly once and in order: what rxDemarsh put into the demarshaller is  *)
(* a prefix of what the user wrote, whatever was lost, damaged or repeated *)
(* and however often the sequence numbers wrapped.                         *)
ExactlyOnceInOrder == /\ Len(received) <= dataLast
                      /\ \A i \in DOMAIN received : received[i] = i - 1

(* handleAck commits a frame of the rewind buffers only when the receiver  *)
(* has all of its words: a word that may have to be sent again is kept.    *)
NoEarlyRelease == /\ dataCommitted <= Len(received)
                  /\ seqCommitted <= sequenceNumberRX

(* The data and the sequence number rewind buffers, frameInProgress,       *)
(* frameTimeout and ackSequenceNumberRX are moved by different rules and   *)
(* wiped by timeout, and always describe the same frames: txSend sends the *)
(* words of the frame txHeader announced, every frame that waits for an    *)
(* ack has a timer running, and handleAck is never blocked.                *)
SenderInStep ==
    /\ dataCommitted = seqCommitted * FrameSize
    /\ dataFirst = seqFirst * FrameSize
                   + (IF frameInProgress THEN framePositionTX ELSE 0)
    /\ seqFirst = seqCommitted + Len(ackSequenceNumberRX)
    /\ frameTimeout = Len(ackSequenceNumberRX)
                      + (IF frameInProgress THEN 1 ELSE 0)
    /\ \A i \in DOMAIN ackSequenceNumberRX :
         ackSequenceNumberRX[i] = seqCommitted + i - 1

(* The wrap-around test of rxDemarsh on the few bits of two sequence       *)
(* numbers decides what it is meant to: a header is refused exactly when   *)
(* its frame is a future one, so no future frame is acked and every old    *)
(* frame is acked again.                                                   *)
HeaderTestExact ==
    link # <<>> /\ Head(link).type = "header" /\ HashMatches
      => (SequenceError(SeqNo(sequenceNumberRX), SeqNo(Head(link).frame))
            <=> Head(link).frame > sequenceNumberRX)

(* A stale or repeated ack never passes for the ack of a later frame with  *)
(* the same sequence number: what handleAck compares equal is the same     *)
(* frame, and the receiver has it.                                         *)
AckNamesOldestFrame ==
    ackRX # <<>> /\ ackSequenceNumberRX # <<>>
      /\ SeqNo(Head(ackSequenceNumberRX)) = SeqNo(Head(ackRX))
      => /\ Head(ackRX) = Head(ackSequenceNumberRX)
         /\ Head(ackRX) < sequenceNumberRX

(* The chained hash makes up for the missing position in a payload flit:   *)
(* a word that rxDemarsh takes for correct is the word at the provisional  *)
(* position of the provisional frame, even after a lost header or word.    *)
ChainFindsPosition ==
    link # <<>> /\ Head(link).type = "payload" /\ NotCorrupt /\ ~frameErrorRX
      => Head(link).word = provisionalSequenceNumberRX * FrameSize
                          + provisionalFramePositionRX

(* Every word the user wrote is eventually dequeued at the other end.      *)
WordsArrive == \A n \in 1 .. MaxWords : dataLast >= n ~> taken >= n

(* Every frame whose words were all written is eventually acked and its    *)
(* place in the rewind buffers released, so the writer is not blocked for  *)
(* ever.                                                                   *)
FramesReleased == \A n \in 1 .. MaxWords \div FrameSize :
                    dataLast >= n * FrameSize ~> seqCommitted >= n

(* The link implements the abstract lossless stream. *)
Stream == INSTANCE ReliableStream
            WITH FrameWords <- FrameSize, StoreWords <- MaxFrames * FrameSize,
                 LastWord <- MaxWords, written <- dataLast,
                 released <- dataCommitted, received <- received
ImplementsStream == Stream!StreamSpec
=============================================================================
