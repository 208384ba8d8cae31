---------------------------- MODULE ReliableStream ----------------------------
(***************************************************************************)
(* What one direction of a reliable Aurora link promises to its two users: *)
(* a lossless FIFO of words with a bounded retransmission store in front.  *)
(* Words are named by their index: word i is the i-th word written.        *)
(***************************************************************************)
EXTENDS Naturals, Sequences

CONSTANTS FrameWords,   \* words released from the store at a time
          StoreWords,   \* capacity of the retransmission store
          LastWord      \* bound: words a run writes

VARIABLES written,      \* number of words accepted from the writing user
          released,     \* number of words the sender has forgotten
          received      \* the words handed to the reading side, in order

streamVars == <<written, released, received>>

StreamInit == written = 0 /\ released = 0 /\ received = <<>>

(* The writing user is only blocked by a full store. *)
StreamWrite == /\ written < LastWord
               /\ written - released < StoreWords
               /\ written' = written + 1
               /\ UNCHANGED <<released, received>>

(* The next undelivered word is delivered: none lost, repeated, reordered. *)
StreamDeliver == /\ Len(received) < written
                 /\ received' = Append(received, Len(received))
                 /\ UNCHANGED <<written, released>>

(* A frame is forgotten only when the receiver has every word of it. *)
StreamRelease == /\ released + FrameWords <= Len(received)
                 /\ released' = released + FrameWords
                 /\ UNCHANGED <<written, received>>

StreamNext == StreamWrite \/ StreamDeliver \/ StreamRelease

StreamSpec == StreamInit /\ [][StreamNext]_streamVars
=============================================================================
