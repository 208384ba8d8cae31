---------------------------- MODULE WdDescriptors ----------------------------
(* What the platform cable's driver tells about a USB device                     *)
(* (windrvr/wdusb_linux.c): the descriptors are copied into one buffer whose     *)
(* size the caller asks for first, and interfaces are switched between their     *)
(* alternate settings.                                                           *)
EXTENDS Naturals, Sequences, FiniteSets, Sums

CONSTANTS
    Devices,    \* sequences of [value, ifs]: configurations with sequences of
                \* [num, alts]: interfaces with sequences of [alt, eps]: settings
    SizeOf,     \* bytes of each structure: device, config, interface, setting,
                \* endpoint, pipe, and pointer
    Numbers     \* interface and setting numbers that callers use

VARIABLES
    udev,       \* the descriptors of the device
    set,        \* the setting that was selected for each interface
    status,     \* what the last call returned
    size, used, written, \* of the last buffer: bytes allocated, handed out, written
    active      \* the interface and setting that the last buffer names as active
infoVars == <<udev, set, status, size, used, written, active>>

NoActive == [if |-> <<0, 0>>, alt |-> <<0, 0, 0>>]

Init ==
    /\ udev \in Devices
    /\ set = [n \in Numbers |-> 0]
    /\ status = "none" /\ size = 0 /\ used = 0 /\ written = 0 /\ active = NoActive

SettingBytes(s) == SizeOf.setting + (SizeOf.endpoint + SizeOf.pipe) * s.eps

\* Defective variant: only the first setting of an interface is counted.
InterfaceBytes_First(f) == SettingBytes(f.alts[1])

\* The size that a caller without a buffer is told.
InterfaceBytes(f) == Sum([k \in DOMAIN f.alts |-> SettingBytes(f.alts[k])])
ConfigBytes(c) ==
    SizeOf.config + SizeOf.interface * Len(c.ifs)
    + Sum([j \in DOMAIN c.ifs |-> InterfaceBytes(c.ifs[j])])
calc_device_info_size(d) == SizeOf.device + Sum([i \in DOMAIN d |-> ConfigBytes(d[i])])

\* What OS_get_device_info takes out of the buffer, array by array.
InterfaceTaken(f) ==
    SizeOf.setting * Len(f.alts)
    + Sum([k \in DOMAIN f.alts |->
              SizeOf.endpoint * f.alts[k].eps + SizeOf.pipe * f.alts[k].eps])
ConfigTaken(c) ==
    SizeOf.interface * Len(c.ifs) + Sum([j \in DOMAIN c.ifs |-> InterfaceTaken(c.ifs[j])])
Taken(d) ==
    SizeOf.device + SizeOf.config * Len(d) + Sum([i \in DOMAIN d |-> ConfigTaken(d[i])])

\* The places of settings, and the last of some in the order of the loops.
Settings(d) ==
    UNION {UNION {{<<i, j, k>> : k \in DOMAIN d[i].ifs[j].alts} : j \in DOMAIN d[i].ifs} :
              i \in DOMAIN d}
Before(p, q) == \/ p[1] < q[1] \/ (p[1] = q[1] /\ p[2] < q[2])
                \/ (p[1] = q[1] /\ p[2] = q[2] /\ p[3] < q[3])
LastOf(S) == CHOOSE p \in S : \A q \in S \ {p} : Before(q, p)

\* The loops run over all the configurations, and what they find last stays: the
\* interface with the number of the active one, and the setting.  Without an interface
\* it is the first of the active configuration, without a setting the first of that.
ActiveIn(d, config, ifnum, alt) ==
    LET ifs == {p \in Settings(d) : d[p[1]].ifs[p[2]].num = ifnum}
        alts == {p \in ifs : d[p[1]].ifs[p[2]].alts[p[3]].alt = alt}
        current == {p \in Settings(d) : d[p[1]].value = config}
        if == IF ifs # {} THEN SubSeq(LastOf(ifs), 1, 2) ELSE <<LastOf(current)[1], 1>>
    IN  [if |-> if, alt |-> IF alts # {} THEN LastOf(alts) ELSE <<if[1], if[2], 1>>]

\* The size is asked for, then the buffer filled.
OS_get_device_info(config, ifnum, alt) ==
    /\ \E i \in DOMAIN udev : udev[i].value = config
    /\ size' = calc_device_info_size(udev)
    /\ used' = Taken(udev) /\ written' = Taken(udev)
    /\ active' = ActiveIn(udev, config, ifnum, alt)
    /\ status' = "info"
    /\ UNCHANGED <<udev, set>>

find_alt_set_index(if, alt) ==
    IF \E k \in DOMAIN if.alts : if.alts[k].alt = alt
    THEN CHOOSE k \in DOMAIN if.alts :
             if.alts[k].alt = alt /\ \A m \in 1 .. k - 1 : if.alts[m].alt # alt
    ELSE 0

\* Defective variant: the buffer is sized for the pointers only.
SettingBuffer_Pointers(s) == SizeOf.setting + (SizeOf.endpoint + SizeOf.pointer) * s.eps

\* The buffer for one setting.  The pipes are taken with the size of a pointer, and
\* written with their own.
SettingBuffer(s) == SettingBytes(s)

\* The interface of the first configuration (the one the kernel selects) is switched.
OS_set_interface(ifnum, alt) ==
    LET ifs == udev[1].ifs
        j == IF \E i \in DOMAIN ifs : ifs[i].num = ifnum
             THEN CHOOSE i \in DOMAIN ifs : ifs[i].num = ifnum ELSE 0
        k == IF j = 0 THEN 0 ELSE find_alt_set_index(ifs[j], alt)
    IN  /\ \/ k = 0 /\ status' = "WD_INVALID_PARAMETER"
              /\ UNCHANGED <<set, size, used, written>>
           \/ k # 0 /\ status' = "error" /\ UNCHANGED <<set, size, used, written>>
           \/ /\ k # 0 /\ status' = "set"
              /\ set' = [set EXCEPT ![ifnum] = alt]
              /\ size' = SettingBuffer(ifs[j].alts[k])
              /\ used' = SizeOf.setting + (SizeOf.endpoint + SizeOf.pointer) * ifs[j].alts[k].eps
              /\ written' = SettingBytes(ifs[j].alts[k])
        /\ UNCHANGED <<udev, active>>

Next ==
    \/ \E c, n, a \in Numbers : OS_get_device_info(c, n, a)
    \/ \E n, a \in Numbers : OS_set_interface(n, a)

Spec == Init /\ [][Next]_infoVars

-----------------------------------------------------------------------------
\* What is handed out and written stays inside the buffer whose size was computed
\* beforehand, in another way.
InfoFits == used <= size /\ written <= size

\* The active setting exists, and when the device has one configuration it belongs to the
\* active interface.  (The loops do not leave out the other configurations.)
ActiveExists ==
    status = "info" => /\ active.alt \in Settings(udev)
                       /\ Len(udev) = 1 => active.if = SubSeq(active.alt, 1, 2)

\* A selected setting is one of the interface's own.
SelectedExists ==
    \A n \in Numbers : set[n] # 0 =>
        \E j \in DOMAIN udev[1].ifs :
            udev[1].ifs[j].num = n /\ \E k \in DOMAIN udev[1].ifs[j].alts :
                                          udev[1].ifs[j].alts[k].alt = set[n]
==============================================================================
