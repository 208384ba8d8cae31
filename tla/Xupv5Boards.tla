----------------------------- MODULE Xupv5Boards -----------------------------
(* The devices of the XUPV5 kernel driver                                     *)
(* (drivers/linux/platforms/xupv5-pcie/src/main.c): a table of device slots    *)
(* whose index is the minor number, filled by probe and emptied by remove.     *)
(* The PCI core probes and removes one device at a time.                       *)
EXTENDS Integers, FiniteSets

CONSTANTS
    Devices,    \* PCI devices with an accepted vendor
    NumSlots,   \* NUM_SUPPORTED_DEVICES
    Procs,      \* processes that open device files
    Free        \* a slot whose pdev is NULL, a process without an open file

VARIABLES
    pdev,       \* the device recorded in each slot of bsemu_devices
    last,       \* slots used so far: pLastDevice - bsemu_devices
    locked,     \* bsemu_devices_lock is held by a probe that returned
    slot,       \* the drvdata of a device: its slot, 0 if there is none
    step,       \* the step of the probe of a device
    kept,       \* what the driver holds of a device
    opened,     \* private_data of a process's open file: a slot, 0 if there is none
    meant,      \* the device whose file the process opened
    told        \* the device that BSEMU_IOC_GETDEVICE or mmap last led the process to

fileVars == <<opened, meant, told>>
vars == <<pdev, last, locked, slot, step, kept, opened, meant, told>>

\* What probe acquires, in order, after it has a slot.
Ladder == <<"enabled", "bar0", "bar1", "cdev">>
AllKept == {Ladder[i] : i \in DOMAIN Ladder}

TypeOK ==
    /\ pdev \in [1 .. NumSlots -> Devices \cup {Free}]
    /\ last \in 0 .. NumSlots /\ locked \in BOOLEAN
    /\ slot \in [Devices -> 0 .. NumSlots]
    /\ step \in [Devices -> 0 .. 5]
    /\ kept \in [Devices -> SUBSET AllKept]
    /\ opened \in [Procs -> 0 .. NumSlots]
    /\ meant \in [Procs -> Devices \cup {Free}] /\ told \in [Procs -> Devices \cup {Free}]

Init ==
    /\ pdev = [i \in 1 .. NumSlots |-> Free]
    /\ last = 0 /\ locked = FALSE
    /\ slot = [d \in Devices |-> 0]
    /\ step = [d \in Devices |-> 0]
    /\ kept = [d \in Devices |-> {}]
    /\ opened = [p \in Procs |-> 0]
    /\ meant = [p \in Procs |-> Free] /\ told = [p \in Procs |-> Free]

Bound(d) == step[d] = 5
Quiet == \A d \in Devices : step[d] \in {0, 5}

-----------------------------------------------------------------------------
\* Defective variant: the slots in use are not looked at one by one.
NextSlotIgnoresHoles == IF last < NumSlots THEN {last + 1} ELSE {last}

\* The slot getDevice chooses: the first empty one among those used before, or a
\* new one; none if the table is full.
NextSlot ==
    LET holes == {i \in 1 .. last : pdev[i] = Free}
    IN  IF holes # {} THEN {CHOOSE i \in holes : \A j \in holes : i <= j}
        ELSE IF last < NumSlots THEN {last + 1} ELSE {}

\* getDevice, and the slot filled in by probe.
GetDevice(d) ==
    /\ step[d] = 0 /\ Quiet /\ ~locked
    /\ \E i \in NextSlot :
          /\ pdev' = [pdev EXCEPT ![i] = d]
          /\ last' = IF i > last THEN i ELSE last
          /\ slot' = [slot EXCEPT ![d] = i]
    /\ step' = [step EXCEPT ![d] = 1]
    /\ UNCHANGED <<locked, kept, fileVars>>

\* The table is full: getDevice returns with the lock held.
GetDeviceFull(d) ==
    /\ step[d] = 0 /\ Quiet /\ ~locked /\ NextSlot = {}
    /\ locked' = TRUE
    /\ UNCHANGED <<pdev, last, slot, step, kept, fileVars>>

ProbeStep(d) ==
    /\ step[d] \in DOMAIN Ladder
    /\ kept' = [kept EXCEPT ![d] = @ \cup {Ladder[step[d]]}]
    /\ step' = [step EXCEPT ![d] = @ + 1]
    /\ UNCHANGED <<pdev, last, locked, slot, fileVars>>

\* Defective variant: a failed mapping of BAR 1 gives BAR 1 back, not BAR 0.
ProbeFailsWrongLabel(d) ==
    /\ step[d] \in DOMAIN Ladder
    /\ kept' = [kept EXCEPT ![d] = IF step[d] = 3 THEN {"bar0"} ELSE {}]
    /\ step' = [step EXCEPT ![d] = 0]
    /\ UNCHANGED <<pdev, last, locked, slot, fileVars>>

\* A step fails: what was acquired is given back, the slot is not.
ProbeFails(d) ==
    /\ step[d] \in DOMAIN Ladder
    /\ kept' = [kept EXCEPT ![d] = {}]
    /\ step' = [step EXCEPT ![d] = 0]
    /\ UNCHANGED <<pdev, last, locked, slot, fileVars>>

\* remove ends with putDevice, which needs the lock.  Nothing in the driver keeps
\* it from a device whose file is open; that is not followed.
bsemu_remove(d) ==
    /\ Bound(d) /\ Quiet /\ ~locked
    /\ \A p \in Procs : opened[p] # slot[d]
    /\ kept' = [kept EXCEPT ![d] = {}]
    /\ pdev' = [pdev EXCEPT ![slot[d]] = Free]
    /\ step' = [step EXCEPT ![d] = 0]
    /\ UNCHANGED <<last, locked, slot, fileVars>>

\* The cdev, added with the minor number of the slot, leads open to the slot.
bsemu_open(p, d) ==
    /\ Bound(d) /\ opened[p] = 0
    /\ opened' = [opened EXCEPT ![p] = slot[d]]
    /\ meant' = [meant EXCEPT ![p] = d]
    /\ UNCHANGED <<pdev, last, locked, slot, step, kept, told>>

\* The ioctl reports, and mmap maps, what is in the slot.
bsemu_ioctl(p) ==
    /\ opened[p] # 0
    /\ told' = [told EXCEPT ![p] = pdev[opened[p]]]
    /\ UNCHANGED <<pdev, last, locked, slot, step, kept, opened, meant>>

bsemu_close(p) ==
    /\ opened[p] # 0
    /\ opened' = [opened EXCEPT ![p] = 0]
    /\ meant' = [meant EXCEPT ![p] = Free] /\ told' = [told EXCEPT ![p] = Free]
    /\ UNCHANGED <<pdev, last, locked, slot, step, kept>>

Next == \/ \E d \in Devices : \/ GetDevice(d) \/ GetDeviceFull(d) \/ ProbeStep(d)
                              \/ ProbeFails(d) \/ bsemu_remove(d)
        \/ \E p \in Procs : (\E d \in Devices : bsemu_open(p, d)) \/ bsemu_ioctl(p) \/ bsemu_close(p)

Spec == Init /\ [][Next]_vars

-----------------------------------------------------------------------------
\* Every bound device owns the slot, and with it the minor number, that its
\* drvdata names, though failed probes leave slots behind and removed ones are
\* used again; so that a process that opened the file of a device is told of, and
\* maps, that device.
MinorsDistinct ==
    /\ \A p \in Procs : told[p] \in {Free, meant[p]}
    /\ \A d \in Devices : Bound(d) =>
        /\ pdev[slot[d]] = d
        /\ \A e \in Devices \ {d} : Bound(e) => slot[e] # slot[d]

\* Between probes, a device is held completely or not at all.
AllOrNothing ==
    \A d \in Devices : step[d] \in {0, 5} => kept[d] = IF Bound(d) THEN AllKept ELSE {}
==============================================================================
