--------------------------- MODULE AuroraSimulation ---------------------------
(***************************************************************************)
(* The start of the credit link on the simulated transceiver               *)
(* (aurora-driver-simulation.bsv).  The heartbeat counter of the link and  *)
(* the clock compensation counter of the transceiver are registers of one  *)
(* clock and one reset: in every cycle each of them takes its next value   *)
(* and the rules that can fire do.                                         *)
(***************************************************************************)
EXTENDS Naturals

CONSTANTS HeartbeatPeriod,    \* 2^(width of heartbeat)
          AdjustPeriod,       \* 2^(width of ccAdjust)
          AdjustCycles,       \* cycles of clock compensation in a period
          CCCycles            \* initial value of ccCycles

VARIABLES heartbeat, ccAdjust, ccCycles,
          beaten      \* a heartbeat has been sent

simVars == <<heartbeat, ccAdjust, ccCycles, beaten>>

Init == heartbeat = 0 /\ ccAdjust = 0 /\ ccCycles = CCCycles /\ beaten = FALSE

(* The transceiver inserts clock compensation; send is not ready. *)
adjustTime == ccAdjust < AdjustCycles

TickCC == IF adjustTime /\ ccCycles > 0 THEN ccCycles - 1 ELSE ccCycles

(* txHeartbeat fires; nothing else is sent before the handshake. *)
TxHeartbeat == ccCycles = 0 /\ heartbeat = 0 /\ ~adjustTime

Cycle == /\ heartbeat' = (heartbeat + 1) % HeartbeatPeriod
         /\ ccAdjust' = (ccAdjust + 1) % AdjustPeriod
         /\ ccCycles' = TickCC
         /\ beaten' = (beaten \/ TxHeartbeat)

Spec == Init /\ [][Cycle]_simVars /\ WF_simVars(Cycle)

(* "The device interface consists of a simple FIFO with guaranteed         *)
(* transport to the other device": nothing is transported before the       *)
(* handshake, so a heartbeat must be sent at some time.                    *)
HeartbeatSent == <>beaten
=============================================================================
