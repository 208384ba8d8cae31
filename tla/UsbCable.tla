------------------------------- MODULE UsbCable -------------------------------
(* The USB side of the cable driver                                             *)
(* (drivers/linux/Xilinx_Platform_Cable/usb-driver/usb-driver.c): the tool opens *)
(* /dev/windrvr6, registers for a cable, is told of it, asks for its             *)
(* descriptors with a first call for the size and a second one for the data,     *)
(* claims an interface, transfers data and closes the file.  The descriptors are *)
(* laid out in one buffer with pointers between its pieces.                      *)
EXTENDS Integers, Sequences, SequencesExt, Sums

CONSTANTS
    Devices,    \* the devices on the busses in their order: [id, configs]; a
                \* configuration is a sequence of interfaces, an interface a sequence
                \* of alternate settings [proto, eps], eps the number of endpoints
    Tables,     \* match tables of a registration: sequences of [id, proto]
    Fds,        \* file descriptors
    None        \* no device, no descriptor, no interface

VARIABLES
    fds,            \* open descriptors of /dev/windrvr6
    windrvrfd,      \* the one that the driver knows
    usbdevice,      \* the device found (its place on the busses)
    usb_devhandle,  \* the device that libusb has open
    usbinterface, claimed,  \* the interface to release, and those that are claimed
    switched,       \* another device was found while the handle was open
    told, target,   \* the device that an event has named since the last registration,
                    \* and the one that the last transfer went to
    announced,      \* [dev, bytes]: the answer to the call for the size
    filled          \* [dev, size, pieces]: the buffer, and what was written to it

usbVars == <<fds, windrvrfd, usbdevice, usb_devhandle, usbinterface, claimed, switched,
             told, target, announced, filled>>

Nowhere == [dev |-> None, bytes |-> 0]
Unfilled == [dev |-> None, size |-> 0, pieces |-> <<>>]

\* A piece of the buffer: its kind, and its own indices among the configurations,
\* interfaces, alternate settings and endpoints (0 where an index has no meaning).
Piece(kind, i, j, k, l) == [kind |-> kind, at |-> <<i, j, k, l>>]
Size(kind) == CASE kind = "device" -> 5 [] kind = "config" -> 4 [] kind = "interface" -> 2
                [] kind = "setting" -> 4 [] kind = "endpoint" -> 1 [] kind = "pipe" -> 2

-----------------------------------------------------------------------------
Init ==
    /\ fds = {} /\ windrvrfd = None /\ usbdevice = None
    /\ usb_devhandle = None /\ usbinterface = None /\ claimed = {} /\ switched = FALSE
    /\ told = None /\ target = None /\ announced = Nowhere /\ filled = Unfilled

\* ioctl answers the calls on the descriptor that the driver knows.
ioctl == windrvrfd # None

open(f) ==
    /\ f \notin fds
    /\ fds' = fds \cup {f} /\ windrvrfd' = f
    /\ UNCHANGED <<usbdevice, usb_devhandle, usbinterface, claimed, switched, told, target,
                   announced, filled>>

\* Only the first interface of a configuration is compared, and only by protocol.
Matches(d, entry) ==
    /\ d.id = entry.id
    /\ \E c \in DOMAIN d.configs : \E a \in DOMAIN d.configs[c][1] :
          d.configs[c][1][a].proto = entry.proto

\* The device that a registration leaves: the last match of the last entry that
\* has one; without a match the one found before.
Found(table, before) ==
    LET Hits(e) == {n \in DOMAIN Devices : Matches(Devices[n], table[e])}
        LastOf(S) == CHOOSE n \in S : \A m \in S : m <= n
        entries == {e \in DOMAIN table : Hits(e) # {}}
    IN  IF entries = {} THEN before ELSE LastOf(Hits(LastOf(entries)))

EVENT_REGISTER(table) ==
    /\ ioctl
    /\ told' = None
    /\ usbdevice' = Found(table, usbdevice)
    /\ switched' = (switched \/ (usb_devhandle # None /\ usbdevice' # usbdevice))
    /\ UNCHANGED <<fds, windrvrfd, usb_devhandle, usbinterface, claimed, target, announced, filled>>

\* The event of the device found: the first interface of its first configuration.
EVENT_PULL ==
    /\ ioctl
    /\ told' = IF usbdevice # None THEN usbdevice ELSE told
    /\ UNCHANGED <<fds, windrvrfd, usbdevice, usb_devhandle, usbinterface, claimed, switched,
                   target, announced, filled>>

\* A control, read or write transfer, in either way by the handle, which is not
\* looked at.  One that fails has gone nowhere, nor has one without a handle, which
\* libusb (external) refuses or ends the tool for: then nothing follows.
USB_TRANSFER ==
    /\ ioctl
    /\ target' \in {target} \cup ({usb_devhandle} \ {None})
    /\ UNCHANGED <<fds, windrvrfd, usbdevice, usb_devhandle, usbinterface, claimed, switched,
                   told, announced, filled>>

\* Defective variant: the pipes are not counted.
SettingBytes_NoPipes(s) == Size("setting") + Size("endpoint") * s.eps

\* usb_deviceinfo without a buffer: the bytes needed.
SettingBytes(s)   == Size("setting") + (Size("endpoint") + Size("pipe")) * s.eps
InterfaceBytes(f) == Sum([k \in DOMAIN f |-> SettingBytes(f[k])])
ConfigBytes(c)    == Size("config") + Size("interface") * Len(c)
                     + Sum([j \in DOMAIN c |-> InterfaceBytes(c[j])])
usb_deviceinfo_Bytes(d) ==
    Size("device") + Sum([i \in DOMAIN d.configs |-> ConfigBytes(d.configs[i])])

\* usb_deviceinfo with a buffer: the pieces in the order in which they are written.
SettingPieces(s, i, j, k) ==
    <<Piece("setting", i, j, k, 0)>>
    \o [l \in 1 .. s.eps |-> Piece("endpoint", i, j, k, l)]
    \o [l \in 1 .. s.eps |-> Piece("pipe", i, j, k, l)]
InterfacePieces(f, i, j) == FlattenSeq([k \in DOMAIN f |-> SettingPieces(f[k], i, j, k)])
ConfigPieces(c, i) ==
    <<Piece("config", i, 0, 0, 0)>>
    \o [j \in DOMAIN c |-> Piece("interface", i, j, 0, 0)]
    \o FlattenSeq([j \in DOMAIN c |-> InterfacePieces(c[j], i, j)])
usb_deviceinfo(d) ==
    <<Piece("device", 0, 0, 0, 0)>>
    \o FlattenSeq([i \in DOMAIN d.configs |-> ConfigPieces(d.configs[i], i)])

\* The call for the size: dwBytes is 0, and is left alone when there is no device.
GetSize ==
    /\ ioctl /\ usbdevice # None
    /\ announced' = [dev |-> usbdevice, bytes |-> usb_deviceinfo_Bytes(Devices[usbdevice])]
    /\ UNCHANGED <<fds, windrvrfd, usbdevice, usb_devhandle, usbinterface, claimed, switched,
                   told, target, filled>>

\* The call with a buffer of the size that was announced, which is not compared.
GetData ==
    /\ ioctl /\ announced.bytes > 0
    /\ filled' = [dev |-> usbdevice, size |-> announced.bytes,
                  pieces |-> usb_deviceinfo(Devices[usbdevice])]
    /\ UNCHANGED <<fds, windrvrfd, usbdevice, usb_devhandle, usbinterface, claimed, switched,
                   told, target, announced>>

\* The device is opened if need be and the interface is claimed, which may fail;
\* the interface is always one of the first configuration.
USB_SET_INTERFACE(i) ==
    /\ ioctl /\ usbdevice # None
    /\ i \in DOMAIN Devices[usbdevice].configs[1]
    /\ usb_devhandle' = IF usb_devhandle = None THEN usbdevice ELSE usb_devhandle
    /\ \/ usbinterface' = i /\ claimed' = claimed \cup {i}
       \/ UNCHANGED <<usbinterface, claimed>>
    /\ UNCHANGED <<fds, windrvrfd, usbdevice, switched, told, target, announced, filled>>

\* Defective variant: the handle of the closed device is kept.
close_KeepsHandle(f) ==
    /\ f \in fds /\ fds' = fds \ {f}
    /\ IF f = windrvrfd
       THEN /\ windrvrfd' = None /\ usbinterface' = None /\ claimed' = {}
            /\ switched' = FALSE /\ target' = None
            /\ UNCHANGED usb_devhandle
       ELSE UNCHANGED <<windrvrfd, usb_devhandle, usbinterface, claimed, switched, target>>
    /\ UNCHANGED <<usbdevice, told, announced, filled>>

\* One interface is released, and closing the handle releases the others.
close(f) ==
    /\ f \in fds /\ fds' = fds \ {f}
    /\ IF f = windrvrfd
       THEN /\ windrvrfd' = None /\ usb_devhandle' = None /\ usbinterface' = None
            /\ claimed' = IF usb_devhandle # None THEN {} ELSE claimed \ {usbinterface}
            /\ switched' = FALSE /\ target' = None
       ELSE UNCHANGED <<windrvrfd, usb_devhandle, usbinterface, claimed, switched, target>>
    /\ UNCHANGED <<usbdevice, told, announced, filled>>

Next ==
    \/ \E f \in Fds : open(f) \/ close(f)
    \/ \E t \in Tables : EVENT_REGISTER(t)
    \/ EVENT_PULL \/ USB_TRANSFER \/ GetSize \/ GetData
    \/ \E i \in 1 .. 2 : USB_SET_INTERFACE(i)

Spec == Init /\ [][Next]_usbVars

-----------------------------------------------------------------------------
\* Interfaces are claimed only on an open handle, a handle is open only while the
\* driver knows a descriptor, and it is a handle of the device that was found last,
\* unless a registration found another one in between: the transfers go to the device
\* that the tool was told of.
HandleIsOfDevice ==
    /\ claimed # {} => usb_devhandle # None
    /\ usb_devhandle # None => windrvrfd # None
    /\ ~switched => usb_devhandle \in {None, usbdevice}
    /\ ~switched /\ told # None => target \in {None, told}

Bytes(pieces) == Sum([n \in DOMAIN pieces |-> Size(pieces[n].kind)])
Offset(pieces, n) == Bytes(SubSeq(pieces, 1, n - 1))

\* What a reader of the buffer finds at an offset.
PieceAt(pieces, off) == {pieces[n] : n \in {m \in DOMAIN pieces : Offset(pieces, m) = off}}
Place(pieces, piece) ==
    Offset(pieces, CHOOSE n \in DOMAIN pieces : pieces[n] = piece)

\* The pointer to an array leads to its first element and the elements follow each
\* other: the configurations from pConfigs, which is set to the last one written;
\* the interfaces, the alternate settings, the endpoints and the pipes.
ArraysReadable(d, pieces) ==
    LET Reads(first, Elem(_), n) ==
            \A e \in 1 .. n : PieceAt(pieces, Place(pieces, first) + (e - 1) * Size(first.kind))
                                 = {Elem(e)}
    IN  /\ Reads(Piece("config", Len(d.configs), 0, 0, 0),
                 LAMBDA e : Piece("config", e, 0, 0, 0), Len(d.configs))
        /\ \A i \in DOMAIN d.configs :
             /\ Reads(Piece("interface", i, 1, 0, 0), LAMBDA e : Piece("interface", i, e, 0, 0),
                      Len(d.configs[i]))
             /\ \A j \in DOMAIN d.configs[i] :
                  /\ Reads(Piece("setting", i, j, 1, 0), LAMBDA e : Piece("setting", i, j, e, 0),
                           Len(d.configs[i][j]))
                  /\ \A k \in DOMAIN d.configs[i][j] :
                       LET n == d.configs[i][j][k].eps
                       IN  n > 0 =>
                           /\ Reads(Piece("endpoint", i, j, k, 1),
                                    LAMBDA e : Piece("endpoint", i, j, k, e), n)
                           /\ Reads(Piece("pipe", i, j, k, 1),
                                    LAMBDA e : Piece("pipe", i, j, k, e), n)

\* A device that the layout can describe: one configuration, and alternate settings
\* followed by another one have no endpoints.
Simple(d) ==
    /\ Len(d.configs) = 1
    /\ \A j \in DOMAIN d.configs[1] : \A k \in DOMAIN d.configs[1][j] :
          k < Len(d.configs[1][j]) => d.configs[1][j][k].eps = 0

\* The data fill exactly the buffer of the announced size when the device is still
\* the same, and the tool can read a simple device from it.
DescriptorsFit ==
    filled # Unfilled =>
       /\ announced.dev = filled.dev /\ announced.bytes = filled.size
             => Bytes(filled.pieces) = filled.size
       /\ Simple(Devices[filled.dev]) => ArraysReadable(Devices[filled.dev], filled.pieces)
==============================================================================
