-------------------------- MODULE MCAuroraFlowControl --------------------------
EXTENDS AuroraFlowControl

OneWordEach == [s \in Sides |-> 1]
OneWay == [s \in Sides |-> IF s = 0 THEN 5 ELSE 0]
BothWays == [s \in Sides |-> 5]

NoTrouble == {{}}
OneTrouble == {{"skip"}, {"lose"}}
BothTroubles == {{"skip", "lose"}}

(* Once both sides may send, nothing depends on the heartbeat counters nor *)
(* on what a heartbeat says.                                               *)
LiveCounters ==
    IF \A s \in Sides : handshakeTXDone[s] /\ handshakeRXDone[s]
    THEN <<turn, skipped, trouble, ccCycles, sendVars, receiveVars, outVars,
           [s \in Sides |-> [i \in DOMAIN link[s] |->
              IF link[s][i].kind = "heartbeat" THEN <<>> ELSE link[s][i]]]>>
    ELSE flowVars
=============================================================================
