------------------------------- MODULE MCCable -------------------------------
(* Instances of the drivers of the Xilinx programming cables: the library that   *)
(* stands in for WinDriver, with its JTAG monitor and the firmware loader, and   *)
(* the kernel modules of WinDriver and of the parallel port.  A behaviour        *)
(* exercises one of them.                                                        *)
EXTENDS JtagKeyTransfer, JtagMonitor, FiniteSets

CONSTANTS
    Threads, Streams, Ports, Fds, None,                             \* of CableDriver
    BusDevices, Tables,                                             \* of UsbCable
    Firmwares, Loader, ChipRegions, HexBufSize, MemSize, RETRY_LIMIT,   \* of EzusbLoad
    Types, UsbSizes, MAX_ALLOC_SIZE, UsbPage, PacketSize, MAX_PACKETS,  \* of WdUsb
    InfoDevices, DescriptorSizes, Numbers,                          \* of WdDescriptors
    Irqs, Ctxs, MaxWrappers, KernelPage, DmaAddresses, DmaSizes, MapBuffers,    \* of WdKernel
    Seconds, Files, PortRegions, Stopped,                           \* of Xpc4Port
    SemKinds, MaxSem, MaxSets, ServPage, Frames, ServSizes, High, Top   \* of WdServices

VARIABLES
    part,       \* the program or library part that the behaviour exercises
    focus, ftdi, found, pport, parportfd, ftdiOpen, hCard, mistaken,
    pins, last_pp_write, asked, int_wait, enabled, waiting, upset,
    streams, modulesfp, modules_read, baseaddrfp, baseaddrnum,
    fds, windrvrfd, usbdevice, usb_devhandle, usbinterface, claimed, switched,
    told, target, announced, filled,
    opts, pc, phases, line, seg, out, retry, ram, cpu, boot, chain, link,
    driver, connected, heap, xfer, req, left, single_len, reported, timeLeft, urb, urbStatus,
    actual, is_finished, is_halted, rc, moved, cur, late, touched, missed, badPacket, leaked,
    udev, set, status, size, used, written, active,
    loaded, resources, badDestroy, live, hw, c_list, calls, sameCtx, pinCount, dma,
    private_data, mmap_sem, mapped, mapPc,
    xpcLoaded, data, regions, ioctl, TimeRemaining, pending, handler, ticks, limit, expired,
    counter, count, noticed, kind, sem, sets, passed, inside, buffers, taken, reserved,
    handles, vmaps, bh, workPending, queued, running, wanted

-----------------------------------------------------------------------------
(* Constants of the instances *)

MCPins(v) == v % 2

Setting(proto, eps) == [proto |-> proto, eps |-> eps]
MCDevices ==
    <<[id |-> 1, configs |-> << <<<<Setting(1, 0), Setting(1, 2)>>, <<Setting(2, 1)>>>> >>],
      [id |-> 2, configs |-> << <<<<Setting(1, 1), Setting(2, 1)>>>>, <<<<Setting(2, 0)>>>> >>],
      [id |-> 1, configs |-> << <<<<Setting(2, 3)>>>> >>]>>
Entry(id, proto) == [id |-> id, proto |-> proto]
MCTables ==
    {<<Entry(1, 1)>>, <<Entry(1, 2), Entry(2, 1)>>, <<Entry(2, 2), Entry(1, 2)>>, <<Entry(3, 1)>>}

Rec(off, len) == [kind |-> "data", off |-> off, len |-> len]
Eof == [kind |-> "eof", off |-> 0, len |-> 0]
Comment == [kind |-> "comment", off |-> 0, len |-> 0]
Bad == [kind |-> "bad", off |-> 0, len |-> 0]
MCLoader == <<Comment, Rec(0, 2), Eof>>
MCRegions == {<<0, 6>>, <<10, 12>>}
MCFirmwares == {
    <<Rec(0, 2), Rec(2, 2), Rec(4, 2), Eof>>,
    <<Rec(1, 2), Rec(7, 2), Rec(4, 1), Eof>>,
    <<Rec(6, 2), Rec(8, 2), Rec(10, 2), Rec(3, 1)>>,
    <<Rec(4, 2), Rec(6, 2), Eof>>,
    <<Rec(3, 0), Rec(1, 1), Eof>>,
    <<Rec(2, 1), Bad, Rec(4, 1), Eof>>}
Alt(a, e) == [alt |-> a, eps |-> e]
If(n, as) == [num |-> n, alts |-> as]
Conf(v, i) == [value |-> v, ifs |-> i]
MCAlts == {<<Alt(1, 2)>>, <<Alt(2, 1)>>, <<Alt(1, 2), Alt(2, 1)>>}
MCIfs == {<<If(1, a)>> : a \in MCAlts} \cup {<<If(1, a), If(2, b)>> : a, b \in MCAlts}
MCUdevs == {<<Conf(1, i)>> : i \in MCIfs} \cup
           {<<Conf(1, <<If(1, a)>>), Conf(2, <<If(2, b)>>)>> : a, b \in MCAlts}
MCSizeOf == [device |-> 64, config |-> 16, interface |-> 8, setting |-> 12, endpoint |-> 7,
             pipe |-> 20, pointer |-> 4]

\* The files hold records, and a record of at most 255 bytes fits into the buffer of
\* 1023; the addresses of a firmware are those of the chip.  None is no port, stream,
\* descriptor, value written or device, and 0 is no thread.  A device has configurations,
\* these have interfaces with numbers of their own, and these have settings; a pointer is
\* not longer than the description of a pipe.  A packet fits into a page.  The kernel
\* gives out at most the eight frames that get_order is modelled for.
HexRecords == [kind : {"data", "eof", "comment", "bad"}, off : Nat, len : Nat]
Configurations ==
    [value : Nat, ifs : Seq([num : Nat, alts : Seq([alt : Nat, eps : Nat]) \ {<<>>}]) \ {<<>>}]
UsbDevices == [id : Nat, configs : Seq(Seq(Seq([proto : Nat, eps : Nat])))]
Structures == [device : Nat, config : Nat, interface : Nat, setting : Nat, endpoint : Nat,
               pipe : Nat, pointer : Nat]
ASSUME CableAssumption ==
    /\ \A f \in Firmwares \cup {Loader} :
          f \in Seq(HexRecords) /\ \A i \in DOMAIN f : f[i].len <= HexBufSize
    /\ \A f \in Firmwares : \A i \in DOMAIN f :
          f[i].kind = "data" => f[i].off + f[i].len <= MemSize
    /\ HexBufSize \in Nat /\ MemSize \in Nat /\ RETRY_LIMIT \in Nat
    /\ \A r \in ChipRegions : r[1] \in Nat /\ r[2] \in Nat
    /\ Seconds \subseteq Nat /\ Stopped \in Nat
    /\ IsFiniteSet(Threads) /\ 0 \notin Threads
    /\ None \notin Ports \cup Streams \cup Fds \cup {0, 1}
    /\ UsbSizes \subseteq Nat /\ MAX_ALLOC_SIZE \in Nat /\ MAX_PACKETS \in Nat
    /\ UsbPage \in Nat /\ PacketSize \in Nat \ {0}
    /\ MAX_ALLOC_SIZE > 0 /\ MAX_PACKETS > 0 /\ PacketSize <= UsbPage
    /\ BusDevices \in Seq(UsbDevices) /\ None \notin DOMAIN BusDevices
    /\ Tables \subseteq Seq([id : Nat, proto : Nat])
    /\ DescriptorSizes \in Structures /\ DescriptorSizes.pointer <= DescriptorSizes.pipe
    /\ KernelPage \in Nat \ {0} /\ DmaAddresses \subseteq Nat /\ DmaSizes \subseteq Nat \ {0}
    /\ InfoDevices \subseteq Seq(Configurations) \ {<<>>}
    /\ \A d \in InfoDevices : \A i \in DOMAIN d : \A j, k \in DOMAIN d[i].ifs :
          d[i].ifs[j].num = d[i].ifs[k].num => j = k
    /\ ServPage \in Nat \ {0} /\ Frames \in Nat /\ ServSizes \subseteq 1 .. 8 * ServPage
    /\ High \in Nat

Cable == INSTANCE CableDriver
Usb == INSTANCE UsbCable WITH Devices <- BusDevices
Hex == INSTANCE EzusbLoad WITH Regions <- ChipRegions, BufSize <- HexBufSize
Wd == INSTANCE WdUsb WITH Sizes <- UsbSizes, PAGE_SIZE <- UsbPage, len <- left
Info == INSTANCE WdDescriptors WITH Devices <- InfoDevices, SizeOf <- DescriptorSizes
Kernel == INSTANCE WdKernel WITH PAGE_SIZE <- KernelPage, Addresses <- DmaAddresses,
                                 Sizes <- DmaSizes, Buffers <- MapBuffers, pins <- pinCount
Port == INSTANCE Xpc4Port WITH Regions <- PortRegions
Serv == INSTANCE WdServices WITH Callers <- Threads, Kinds <- SemKinds, PAGE_SIZE <- ServPage,
                                 Sizes <- ServSizes, pending <- workPending

-----------------------------------------------------------------------------
cablePart == <<focus, ftdi, found, pport, parportfd, ftdiOpen, hCard, mistaken, pins,
               last_pp_write, asked, int_wait, enabled, waiting, upset, streams, modulesfp, modules_read, baseaddrfp, baseaddrnum>>
usbPart == <<fds, windrvrfd, usbdevice, usb_devhandle, usbinterface, claimed, switched,
             told, target, announced, filled>>
hexPart == <<opts, pc, phases, line, seg, out, retry, ram, cpu, boot, chain, link>>
wdPart == <<driver, connected, heap, xfer, req, left, single_len, reported, timeLeft, urb,
            urbStatus, actual, is_finished, is_halted, rc, moved, cur, late, touched, missed,
            badPacket, leaked>>
infoPart == <<udev, set, status, size, used, written, active>>
kernelPart == <<loaded, resources, badDestroy, live, hw, c_list, calls, sameCtx, pinCount, dma,
                private_data, mmap_sem, mapped, mapPc>>
xpcPart == <<xpcLoaded, data, regions, ioctl, TimeRemaining, pending, handler, ticks, limit,
             expired>>
countPart == <<counter, count, noticed>>
semPart == <<kind, sem, sets, passed, inside>>
pagePart == <<buffers, taken, reserved>>
remapPart == <<handles, vmaps>>
workPart == <<bh, workPending, queued, running, wanted>>
servPart == <<countPart, semPart, pagePart, remapPart, workPart>>
library == <<vars, cablePart, usbPart, monVars, hexPart>>
modules == <<wdPart, infoPart, kernelPart, xpcPart, servPart>>
mcVars == <<part, library, modules>>

LibraryParts == {"jtagkey", "cable", "usb", "tap", "fxload"}
ModuleParts == {"transfer", "info", "irq", "dma", "map", "xpc4"}
ServiceParts == {"count", "sem", "pages", "remap", "work"}

CableInit ==
    /\ part \in LibraryParts \cup ModuleParts \cup ServiceParts
    /\ Init /\ Cable!Init /\ Usb!Init /\ MonitorInit /\ Hex!Init
    /\ part # "cable" => focus = "port" /\ ftdi = {}
    /\ part # "fxload" => opts = [ihex |-> <<>>, stage1 |-> FALSE, config |-> FALSE,
                                  type |-> FALSE, link |-> FALSE, device |-> FALSE] /\ ~boot
    /\ Wd!Init /\ Info!Init /\ Kernel!Init /\ Port!Init /\ Serv!Init
    /\ part # "sem" => kind = CHOOSE k \in SemKinds : TRUE
    /\ part # "info" => udev = CHOOSE u \in InfoDevices : TRUE

LibraryNext ==
    \/ part = "jtagkey" /\ Next /\ UNCHANGED <<cablePart, usbPart, monVars, hexPart>>
    \/ part = "cable" /\ Cable!Next /\ UNCHANGED <<vars, usbPart, monVars, hexPart>>
    \/ part = "usb" /\ Usb!Next /\ UNCHANGED <<vars, cablePart, monVars, hexPart>>
    \/ part = "tap" /\ MonitorNext /\ UNCHANGED <<vars, cablePart, usbPart, hexPart>>
    \/ part = "fxload" /\ Hex!Next /\ UNCHANGED <<vars, cablePart, usbPart, monVars>>

ModuleNext ==
    \/ part = "transfer" /\ Wd!Next /\ UNCHANGED <<infoPart, kernelPart, xpcPart>>
    \/ part = "info" /\ Info!Next /\ UNCHANGED <<wdPart, kernelPart, xpcPart>>
    \/ part = "irq" /\ Kernel!IrqNext /\ UNCHANGED <<wdPart, infoPart, xpcPart>>
    \/ part = "dma" /\ Kernel!DmaNext /\ UNCHANGED <<wdPart, infoPart, xpcPart>>
    \/ part = "map" /\ Kernel!MapNext /\ UNCHANGED <<wdPart, infoPart, xpcPart>>
    \/ part = "xpc4" /\ Port!Next /\ UNCHANGED <<wdPart, infoPart, kernelPart>>

ServiceNext ==
    \/ part = "count" /\ Serv!CountNext /\ UNCHANGED <<semPart, pagePart, remapPart, workPart>>
    \/ part = "sem" /\ Serv!SemNext /\ UNCHANGED <<countPart, pagePart, remapPart, workPart>>
    \/ part = "pages" /\ Serv!PageNext /\ UNCHANGED <<countPart, semPart, remapPart, workPart>>
    \/ part = "remap" /\ Serv!RemapNext /\ UNCHANGED <<countPart, semPart, pagePart, workPart>>
    \/ part = "work" /\ Serv!WorkNext /\ UNCHANGED <<countPart, semPart, pagePart, remapPart>>

CableNext ==
    \/ part \in LibraryParts /\ LibraryNext /\ UNCHANGED <<part, modules>>
    \/ part \in ModuleParts /\ ModuleNext /\ UNCHANGED <<part, library, servPart>>
    \/ /\ part \in ServiceParts /\ ServiceNext
       /\ UNCHANGED <<part, library, wdPart, infoPart, kernelPart, xpcPart>>

\* A thread that finds the interrupt mutex free time and again gets it, and goes on;
\* the firmware loader is a sequential program whose requests all return; the USB
\* core calls the handler of a URB that is done, and the thread that waits goes on.
CableSpec ==
    /\ CableInit /\ [][CableNext]_mcVars
    /\ \A t \in Threads : /\ SF_cablePart(part = "cable" /\ Cable!LockIntWait(t))
                          /\ WF_cablePart(part = "cable" /\ Cable!UnlockIntWait(t))
    /\ WF_hexPart(part = "fxload" /\ Hex!Next)
    /\ WF_wdPart(part = "transfer" /\ Wd!usb_common_completion)
    /\ WF_wdPart(part = "transfer" /\ (Wd!Woken \/ Wd!AfterPiece \/ Wd!Exit
                                       \/ Wd!usb_transfer_single))

-----------------------------------------------------------------------------
\* A registered card uses its own port and leaves none open, a handle of libusb is
\* one of the device found and ends with the descriptor, and made-up lines are
\* returned only for the streams they stand for.  A URB, an interrupt handler and a
\* timer use what is allocated while they run, the file of the port module owns its
\* regions, and what a transfer or a module took is given back at its end.  The last
\* of the callers of a counter is told so, a semaphore lets through as many as it has
\* been raised for, the pages of a buffer are marked while it is mapped, and deferred
\* work is not freed while it is queued or runs.
ReleasedWithOwner ==
    /\ Cable!CardOwnsItsPort /\ Usb!HandleIsOfDevice /\ Cable!FakesOnlyItsFiles
    /\ Wd!ContextsAlive /\ Wd!HeapOwned
    /\ Kernel!HandlersAlive /\ Kernel!ModuleOut
    /\ Port!TimerEndsWithIoctl /\ Port!RegionsOwned
    /\ Serv!LastIsNoticed /\ Serv!SemaphoresHold /\ Serv!PagesReservedExactly
    /\ Serv!WorkAlive

\* Bits that the chip of the cable returns are matched with the writes that asked for
\* them.  OS_transfer reports the bytes that moved, in the order of the buffer, and
\* what cut it short; the active interface and the selected setting are ones that the
\* device has, and a mapping is made for the buffer that its caller asked for.
ReadsMatch ==
    /\ ReadsAligned
    /\ Wd!TransferExact /\ Wd!WholeTransfer
    /\ Info!ActiveExists /\ Info!SelectedExists
    /\ Kernel!MappingsOwn

\* Neither the bytes for the chip of the cable nor the segment of a firmware file
\* overrun their buffers, and the buffered bytes end in the pins set last.  The
\* descriptors of a device fill the buffer of the size announced for it, and a
\* simple device can be read from there through the pointers and counts.  The pieces
\* of a transfer are not empty, a scatter list covers its buffer exactly, and
\* an address handed out for device memory reaches all of it.
BuffersBounded ==
    /\ BufferBounded /\ Len(seg.data) <= HexBufSize /\ Usb!DescriptorsFit
    /\ Info!InfoFits /\ Wd!PieceNotEmpty /\ Kernel!ListCovers
    /\ Serv!RemapReaches

\* INT_WAIT: a wait ends only when interrupts have been disabled; and the port module
\* reports a timeout only when the time that was set has passed.
WaitsUntilDisabled == Cable!WaitsUntilDisabled /\ Port!TimeoutInTime

\* fxload: when it reports success, the memory holds every byte of the file where
\* the file says; and a device boots from its EEPROM only if that holds the earlier
\* image untouched or the whole new one, whenever the load stops.
LoadedWhenDone == Hex!LoadedWhenDone /\ Hex!BootsWholeImage

\* ezusb_load_ram: the memory of a running CPU changes only where the loader that
\* it runs writes, outside the chip.
RunningCodeIntact == [][Hex!RunningCodeStep]_hexPart

\* INT_DISABLE wakes the threads that wait, every load of fxload ends, whatever
\* requests time out, and a transfer that is halted ends.
WaitsAndLoadsEnd ==
    /\ Wd!HaltEnds
    /\ part = "cable" => Cable!DisableWakesWaiters
    /\ part = "fxload" => <>(pc \in {"done", "failed", "usage"})
==============================================================================
