---------------------------- MODULE AuroraInvariant ----------------------------
(***************************************************************************)
(* The inductive invariant behind the safety properties of AuroraReliable. *)
(*                                                                         *)
(* Acks waiting at the transmitter, acks on their way, acks waiting at the *)
(* receiver, the frame being received and the flits on the link form one   *)
(* path.  Frames further up the path were sent later, and a transmitter    *)
(* that goes back goes back by fewer than MaxFrames frames.                *)
(***************************************************************************)
EXTENDS AuroraReliable

(* The hash of the header of frame f and the first p words of the frame. *)
Chain(f, p) == [k \in 1 .. p + 1 |->
                  IF k = 1 THEN <<"header", SeqNo(f)>>
                           ELSE <<"payload", f * FrameSize + k - 2>>]

(* A flit that arrives with the hash it was sent with. *)
Intact(flit) == flit.hash # NoSalt

(* y, which is behind x on the path, may follow it. *)
MayFollow(x, y) == y > x - MaxFrames

Frames(queue) == {queue[i] : i \in DOMAIN queue}

(* All elements of s may be followed by all of t. *)
AllMayFollow(s, t) == \A x \in s, y \in t : MayFollow(x, y)

(* Every element of the queue may be followed by every later one. *)
InSequence(queue) == \A i, j \in DOMAIN queue :
                        i < j => MayFollow(queue[i], queue[j])

(* The frames of the intact flits among flits, and their order. *)
FlitFrames(flits) ==
    {flits[i].frame : i \in {k \in DOMAIN flits : Intact(flits[k])}}
FlitsInSequence(flits) ==
    \A i, j \in DOMAIN flits :
      i < j /\ Intact(flits[i]) /\ Intact(flits[j])
        => MayFollow(flits[i].frame, flits[j].frame)

LinkFrames == FlitFrames(link)

(* The frame being received: none while it is in error. *)
CurrentFrame == IF frameErrorRX THEN {} ELSE {provisionalSequenceNumberRX}

(* The transmitter's pointers and queues describe the same frames. *)
SenderInv ==
    /\ SenderInStep
    /\ seqFirst <= seqLast /\ seqLast <= seqCommitted + MaxFrames
    /\ dataFirst <= dataLast
    /\ frameInProgress => /\ seqFirst < seqLast
                          /\ parityTX = Chain(seqFirst, framePositionTX)

(* What the receiver has delivered, and how far it is in the frame it is   *)
(* receiving.                                                              *)
ReceiverInv ==
    /\ ExactlyOnceInOrder
    /\ Len(received) = sequenceNumberRX * FrameSize + framePositionRX
    /\ taken <= Len(received)
    /\ seqCommitted <= sequenceNumberRX /\ sequenceNumberRX <= seqLast
    /\ ~frameErrorRX =>
         /\ provisionalSequenceNumberRX <= sequenceNumberRX
         /\ provisionalSequenceNumberRX < seqLast
         /\ sequenceNumberRX <= provisionalSequenceNumberRX + MaxFrames
         /\ provisionalSequenceNumberRX = sequenceNumberRX
              => provisionalFramePositionRX <= framePositionRX
         /\ \/ parityRX = Chain(provisionalSequenceNumberRX,
                                provisionalFramePositionRX)
            \/ /\ provisionalFramePositionRX = 0
               /\ parityRX = Chain(provisionalSequenceNumberRX, FrameSize)

(* Every intact flit on the link is as the transmitter sent it. *)
AsSent(flit, frames, words, expected) ==
    /\ flit.frame < frames
    /\ expected <= flit.frame + MaxFrames
    /\ flit.type = "header" => flit.hash = Chain(flit.frame, 0)
    /\ flit.type = "payload" =>
         /\ flit.word < words
         /\ \E p \in 0 .. FrameSize - 1 :
              /\ flit.word = flit.frame * FrameSize + p
              /\ flit.hash = Chain(flit.frame, p + 1)

LinkInv == \A i \in DOMAIN link :
             Intact(link[i])
               => AsSent(link[i], seqLast, dataLast, sequenceNumberRX)

(* Only complete frames are acked, and nothing on the path is older than   *)
(* the frames before the oldest one that is still kept.                    *)
AckInv ==
    /\ \A a \in Frames(ackRX) \cup Frames(ackLink)
                \cup Frames(ackSequenceNumberTX) : a < sequenceNumberRX
    /\ \A a \in Frames(ackRX) \cup Frames(ackLink)
                \cup Frames(ackSequenceNumberTX) \cup CurrentFrame
                \cup LinkFrames : a >= seqCommitted - MaxFrames

(* The order of the path, from its front to its end. *)
Ordered(a, b, c, d, e) == /\ AllMayFollow(a, b \cup c \cup d \cup e)
                          /\ AllMayFollow(b, c \cup d \cup e)
                          /\ AllMayFollow(c, d \cup e)
                          /\ AllMayFollow(d, e)

PathInv ==
    /\ InSequence(ackRX) /\ InSequence(ackLink)
    /\ InSequence(ackSequenceNumberTX) /\ FlitsInSequence(link)
    /\ Ordered(Frames(ackRX), Frames(ackLink), Frames(ackSequenceNumberTX),
               CurrentFrame, LinkFrames)

(* Inductive: it holds initially, every step preserves it, and it implies  *)
(* the invariants the runs check.                                          *)
IInv == TypeOK /\ SenderInv /\ ReceiverInv /\ LinkInv /\ AckInv /\ PathInv
=============================================================================
