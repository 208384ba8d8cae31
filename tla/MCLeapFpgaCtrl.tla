---------------------------- MODULE MCLeapFpgaCtrl ----------------------------
EXTENDS LeapFpgaCtrl, TLC

CONSTANTS p1, p2

TwoDevices == {0, 1}
FileEach == [d \in Devices |-> d]
FileShared == [d \in Devices |-> 0]
AnyDevice == [p \in Procs |-> Devices]
OneOperatorEach == [p \in Procs |-> IF p = p1 THEN {0} ELSE {1}]

(* Two names for one device with --force and kills; two devices with       *)
(* --force; two devices, each handled by a tool of its own.                *)
AliasSite == [fileOf |-> FileShared, targets |-> AnyDevice,
              mayForce |-> TRUE, mayCrash |-> TRUE]
ForceSite == [fileOf |-> FileEach, targets |-> AnyDevice,
              mayForce |-> TRUE, mayCrash |-> FALSE]
OperatorSite == [fileOf |-> FileEach, targets |-> OneOperatorEach,
                 mayForce |-> FALSE, mayCrash |-> FALSE]
PlainSite == [fileOf |-> FileEach, targets |-> AnyDevice,
              mayForce |-> FALSE, mayCrash |-> FALSE]

AllSites == {AliasSite, ForceSite, OperatorSite}
PlainSites == {PlainSite}

UserSymmetry == Permutations(Users)
=============================================================================
