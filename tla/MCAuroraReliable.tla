--------------------------- MODULE MCAuroraReliable ---------------------------
EXTENDS AuroraInvariant

(* Registers that are written before they are next read count as equal:    *)
(* those of the frame in progress when there is none, and those of the     *)
(* frame being received when it is in error.                               *)
LiveRegisters ==
    <<ccTX, dataVars, seqVars, waitVars, ackRX, timeoutQ, frameInProgress,
      IF frameInProgress THEN <<framePositionTX, parityTX>> ELSE <<>>,
      ccRX, framePositionRX, sequenceNumberRX, frameErrorRX,
      IF frameErrorRX THEN <<>>
      ELSE <<provisionalFramePositionRX, provisionalSequenceNumberRX,
             parityRX>>,
      ackSequenceNumberTX, outVars, link, ackLink>>
=============================================================================
