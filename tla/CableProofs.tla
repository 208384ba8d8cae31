------------------------------ MODULE CableProofs ------------------------------
(* Proofs about the drivers of the programming cables: what a thread, a timer, a *)
(* URB, an interrupt handler, a card or a buffer uses is there while it is used,  *)
(* and is given back at its end; waits end when they should; and the firmware     *)
(* loader leaves the code of a running CPU alone.                                 *)
EXTENDS CableLemmas

-----------------------------------------------------------------------------
(* The invariants of the parts *)

\* The library: the card that is registered and what is open for it.
CardKept ==
    /\ pport \in Ports \cup {None} /\ pins \in [Ports -> {0, 1}]
    /\ ~mistaken =>
          /\ pport = None => parportfd = None /\ ~ftdiOpen
          /\ pport # None /\ pport \in ftdi =>
                parportfd = None /\ hCard # "port" /\ (ftdiOpen => hCard = "ftdi")
          /\ pport # None /\ pport \notin ftdi =>
                /\ ~ftdiOpen /\ (hCard = "port" => parportfd = pport)
                /\ parportfd # None => hCard = "port"
          /\ asked # None => pport # None /\ pins[pport] = asked /\ last_pp_write = asked

\* The emulated interrupt: as long as it is switched in turn, the mutex is locked while
\* interrupts are enabled.
WaitsKept ==
    /\ waiting \in [Threads -> [pc : {"out", "locking", "holding"}, counter : {0, 1}]]
    /\ int_wait \in BOOLEAN /\ enabled \in BOOLEAN /\ upset \in BOOLEAN
    /\ ~upset => (enabled => int_wait) /\ Cable!WaitsUntilDisabled

FilesKept ==
    /\ streams \in [Streams -> Cable!Kinds \cup {Cable!Closed}]
    /\ modulesfp \in Streams \cup {None} /\ baseaddrfp \in Streams \cup {None}
    /\ Cable!FakesOnlyItsFiles

\* The device of libusb: transfers go to the handle, and events name the device found.
HandleKept ==
    /\ Usb!HandleIsOfDevice
    /\ target \in {None, usb_devhandle} /\ told \in {None, usbdevice}

\* A URB flies, or is done and not handled, only while OS_transfer waits for it, unless
\* the time limit has met it between its end and its handler.
TransferKept ==
    /\ Wd!ContextsAlive /\ Wd!HeapOwned
    /\ xfer \in {"submit", "wait", "after"} =>
          "tc" \in heap /\ (req.bytes > 0 => "trans_buf" \in heap)
    /\ urb = "flying" \/ (urb = "set" /\ ~late) => xfer = "wait" /\ ~is_finished

\* Every wrapper that is allocated is in the list once or in one call, and as long as no
\* context is used for two lines, all those are installed.
Wrapped == [id : Int, irq : Irqs, ctx : Ctxs]
WrappersKept ==
    /\ live \subseteq Wrapped /\ c_list \in Seq(Wrapped)
    /\ \A v, w \in live : v.id = w.id => v = w
    /\ \A c \in calls : c.w \in live
    /\ \A c, d \in calls : c.w = d.w => c = d
    /\ \A i \in 1 .. Len(c_list) : c_list[i] \in live
    /\ \A i, j \in 1 .. Len(c_list) : c_list[i] = c_list[j] => i = j
    /\ \A i \in 1 .. Len(c_list), c \in calls : c.w # c_list[i]
    /\ \A w \in live : (\E i \in 1 .. Len(c_list) : c_list[i] = w) \/ \E c \in calls : c.w = w
    /\ ~sameCtx => /\ hw = live
                   /\ \A v, w \in live : v.ctx = w.ctx => v.irq = w.irq
                   /\ \A c \in calls : c.op = "free" => c.irq = c.w.irq
    /\ Kernel!ModuleOut

\* The timer of a file: while the library waits, the time that remains and the seconds
\* that have passed make up the limit at least.
TimerKept(f) ==
    /\ ~data[f] => ioctl[f] = "none" /\ regions[f] = {}
    /\ TimeRemaining[f] \in Int /\ ticks[f] \in Nat /\ limit[f] \in Nat
    /\ ioctl[f] \in {"none", "called"} => ~pending[f]
    /\ ioctl[f] \in {"none", "called", "adding"} => handler[f] = "no"
    /\ ioctl[f] = "adding" => ticks[f] = 0
    /\ ioctl[f] = "waiting" =>
          /\ TimeRemaining[f] >= 0 /\ TimeRemaining[f] + ticks[f] >= limit[f]
          /\ handler[f] = "count" => /\ TimeRemaining[f] > 0
                                     /\ TimeRemaining[f] + ticks[f] > limit[f]
    /\ expired[f] => ticks[f] >= limit[f]
PortTyped ==
    /\ data \in [Files -> BOOLEAN] /\ DOMAIN regions = Files /\ DOMAIN ioctl = Files
    /\ DOMAIN TimeRemaining = Files /\ DOMAIN pending = Files /\ DOMAIN handler = Files
    /\ DOMAIN ticks = Files /\ DOMAIN limit = Files /\ DOMAIN expired = Files
PortKept ==
    /\ PortTyped
    /\ \A f \in Files : TimerKept(f)
    /\ Port!RegionsOwned

\* The counter counts the callers that have raised it and not lowered it.
Counted == {c \in Threads : count[c] \in {"raised", "in"}}
CounterKept ==
    /\ count \in [Threads -> {"out", "raised", "in", "lowered"}]
    /\ counter = Cardinality(Counted)
    /\ counter = 0 => noticed \/ \E c \in Threads : count[c] = "lowered"

\* The mutex is free, or one caller is inside.
SemaphoreKept ==
    /\ sem \in Nat /\ sets \in Nat /\ passed \in Nat /\ passed + sem = sets + Serv!Created(kind)
    /\ kind = "mutex" => \/ sem = 1 /\ inside = {}
                         \/ sem = 0 /\ \E c \in Threads : inside = {c}

\* The frames of a buffer; those taken are the frames of the buffers, which are apart.
FramesOf(b) == IF b.size = 0 THEN {} ELSE b.first .. b.first + Serv!OrderFrames(b.size) - 1
MarkedOf(b) == IF b.reserved THEN Serv!PagesOf(b) ELSE {}
BufferRecords == [first : Nat, size : ServSizes \cup {0}, reserved : BOOLEAN]
PagesKept ==
    /\ buffers \in [Threads -> BufferRecords]
    /\ \A c \in Threads : buffers[c].size = 0 => buffers[c] = Serv!NoBuffer
    /\ \A n : n \in taken <=> \E c \in Threads : n \in FramesOf(buffers[c])
    /\ \A n : n \in reserved <=> \E c \in Threads : n \in MarkedOf(buffers[c])
    /\ \A c, d \in Threads : c # d => FramesOf(buffers[c]) \cap FramesOf(buffers[d]) = {}

WorkKept ==
    /\ bh \in {"none", "flushed"} => ~queued /\ ~running
    /\ wanted \/ workPending => queued

\* The phases of fxload that are left, and what the CPU does in each: it stands still
\* while its own memory is written, and runs the loader in the phase that needs it.
Pass(loader, mode) == [loader |-> loader, mode |-> mode]
PhasesLeft ==
    {<<>>, <<Pass(FALSE, "internal_only")>>, <<Pass(FALSE, "eeprom")>>,
     <<Pass(FALSE, "skip_external")>>, <<Pass(TRUE, "internal_only"), Pass(FALSE, "eeprom")>>,
     <<Pass(FALSE, "skip_internal"), Pass(FALSE, "skip_external")>>,
     <<Pass(TRUE, "internal_only"), Pass(FALSE, "skip_internal"), Pass(FALSE, "skip_external")>>}
LoaderKept ==
    /\ phases \in PhasesLeft /\ line \in Nat /\ seg \in Segments /\ out \in Segments
    /\ opts \in Hex!Options /\ DOMAIN ram = Hex!Addresses
    /\ pc \in {"begin", "parse", "poke", "run"} => phases # <<>>
    /\ pc \in {"parse", "poke", "run"} /\ Hex!Mode \in {"internal_only", "skip_external"} =>
          cpu = "stopped"
    /\ pc \in {"begin", "parse", "poke", "run"} /\ Hex!Mode = "skip_internal" => cpu = "loader"

Outside(f, k) == Hex!is_external(SegOf(f)[k].addr, Len(SegOf(f)[k].data))

\* How far a pass over the firmware has come: the segment read so far is that of the
\* lines read, or has just been taken out to be written.
InFile == pc \in {"parse", "poke"} /\ ~phases[1].loader
AtEnd == pc \in {"run", "last", "config", "type"} /\ ~phases[1].loader
\* fxload: what has been read is the segment gathered so far, or an empty one behind it.
Emptied(f, k) ==
    /\ Flushes(f, k) /\ seg.data = <<>> /\ ~seg.first
    /\ k < Len(f) /\ Hex!Data(f[k + 1]) => seg.addr = f[k + 1].off
ReadTo(f, k) ==
    /\ k \in 0 .. Len(f) /\ Hex!BeforeEof(f, k)
    /\ pc = "parse" => seg = SegOf(f)[k] \/ Emptied(f, k)
    /\ pc = "poke" => /\ Emptied(f, k)
                      /\ out.addr = SegOf(f)[k].addr /\ out.data = SegOf(f)[k].data
FileKept ==
    /\ InFile => ReadTo(opts.ihex, line - 1)
    /\ AtEnd => Ends(opts.ihex, line - 1)

\* Segments that have been passed, and of those the ones that must be in memory.
Handled(k) ==
    \/ InFile /\ (k < line - 1 \/ (k = line - 1 /\ pc = "parse" /\ seg.data = <<>>))
    \/ AtEnd
Due(f, k) ==
    \/ Handled(k) /\ (Hex!Mode = "skip_internal" => Outside(f, k))
    \/ /\ pc \in {"begin", "parse", "poke", "run"} /\ Hex!Mode = "skip_external"
       /\ Outside(f, k)
    \/ pc \in {"link", "done"} /\ f # <<>>
Held(f, k) == \A m \in 1 .. Len(SegOf(f)[k].data) :
                 ram[SegOf(f)[k].addr + m - 1] = SegOf(f)[k].data[m]
MemoryKept ==
    /\ pc \in {"last", "config", "type"} => phases # <<>> /\ Hex!Mode = "eeprom"
    /\ ~opts.config => \A i \in 1 .. Len(phases) : phases[i].mode # "eeprom"
    /\ ~opts.config /\ Hex!Plain(opts.ihex) =>
          \A k \in 1 .. Len(opts.ihex) :
             Flushes(opts.ihex, k) /\ Due(opts.ihex, k) => Held(opts.ihex, k)

\* The EEPROM: while it is written it does not boot, and every segment that has been
\* passed is in it, before the commands that end the image.
Parts == (Nat \X Seq(FileBytes)) \cup {<<"old">>, <<"reset">>, <<"config">>}
Part(f, k) == <<SegOf(f)[k].addr, SegOf(f)[k].data>>
InEeprom(f, k, n) == \E i \in 1 .. n : chain[i] = Part(f, k)
Commands == CASE pc = "config" -> 1 [] pc = "type" -> 2 [] OTHER -> 0
Closed == chain[Len(chain) - 1] = <<"reset">> /\ chain[Len(chain)] = <<"config">>
Whole(f) == /\ Len(chain) >= 2 /\ Closed
            /\ \A k \in 1 .. Len(f) : Flushes(f, k) => InEeprom(f, k, Len(chain) - 2)
Storing == pc \in {"parse", "poke", "last", "config", "type"} /\ Hex!Mode = "eeprom"
EepromKept ==
    /\ chain \in Seq(Parts)
    /\ boot => chain = Hex!Old \/ Whole(opts.ihex)
    /\ Storing =>
          /\ ~boot
          /\ chain = Hex!Old => pc \notin {"config", "type"}
          /\ pc = "config" => chain # <<>> /\ chain[Len(chain)] = <<"reset">>
          /\ pc = "type" => Len(chain) >= 2 /\ Closed
          /\ \A k \in 1 .. Len(opts.ihex) : Flushes(opts.ihex, k) /\ Handled(k) =>
                chain # Hex!Old /\ InEeprom(opts.ihex, k, Len(chain) - Commands)

\* The FTDI cable between two batches: the last byte written has the pins kept for it.
BatchKept ==
    /\ writebuf \in Seq(PinValues) /\ last_write \in Values /\ onPins \in PinValues
    /\ last_data = Pins(last_write)
    /\ BufferBounded /\ ReadsAligned

\* OS_transfer: the bytes reported and left make up the request, a piece that is under way
\* has moved none or the actual ones, and bytes move in the order of the buffer.
BytesCounted ==
    /\ req.bytes \in Nat /\ req.allocated \in Nat /\ left \in Nat /\ reported \in Nat
    /\ single_len \in Nat /\ actual \in Nat /\ moved \in Seq(Nat)
    /\ xfer \in {"none", "submit", "wait", "after", "exit", "done"}
    /\ cur = reported /\ reported + left = req.bytes
    /\ \A i \in 1 .. Len(moved) : moved[i] = i
    /\ xfer = "none" => req.bytes = 0 /\ moved = <<>> /\ rc = "0"
    /\ xfer = "submit" => Len(moved) = reported /\ rc = "0"
    /\ xfer \in {"wait", "after"} =>
          /\ single_len <= left
          /\ left <= req.allocated /\ ~(req.type = "iso" /\ left % PacketSize # 0) =>
                single_len = left
          /\ urb = "flying" => Len(moved) = reported
          /\ urb # "flying" => Len(moved) = reported + actual /\ actual <= single_len
    /\ xfer \in {"submit", "wait", "after"} /\ ~req.limit => reported = 0
    /\ xfer \in {"exit", "done"} =>
          reported <= Len(moved) /\ (rc = "0" => Len(moved) = reported)
    /\ Wd!WholeTransfer

\* A thread that is past the lock holds it, and the file's data are what it has set.
MapKept ==
    /\ mapPc \in [Threads -> {"idle", "locked", "io", "buffer"}]
    /\ \A t \in Threads : /\ mapPc[t] # "idle" => mmap_sem = t
                          /\ mapPc[t] = "io" => private_data = 0
                          /\ mapPc[t] = "buffer" => private_data # 0
    /\ Kernel!MappingsOwn

\* The descriptors stay, and what was found in them exists.
SelectedKept ==
    /\ udev \in InfoDevices /\ DOMAIN set = Numbers
    /\ Info!ActiveExists /\ Info!SelectedExists

\* The device found is on the busses, a size was announced for a device, and the buffer
\* holds the descriptors of one.
DescriptorsKept ==
    /\ usbdevice \in DOMAIN BusDevices \cup {None}
    /\ announced # Usb!Nowhere =>
          /\ usbdevice # None /\ announced.dev \in DOMAIN BusDevices
          /\ announced.bytes = Usb!usb_deviceinfo_Bytes(BusDevices[announced.dev])
    /\ filled # Usb!Unfilled =>
          /\ announced # Usb!Nowhere /\ filled.dev \in DOMAIN BusDevices
          /\ filled.pieces = Usb!usb_deviceinfo(BusDevices[filled.dev])

\* The segment that is gathered fits into its buffer.
SegmentKept == Len(seg.data) <= HexBufSize

\* Something is left of a transfer that goes on, and something was allocated for it.
PiecesKept ==
    /\ xfer \in {"submit", "wait", "after"} /\ req.bytes > 0 => req.allocated > 0
    /\ xfer = "submit" /\ req.bytes > 0 => left > 0
    /\ Wd!PieceNotEmpty

\* The pages that are pinned are those of the transfer; its list is empty or complete.
PinnedFor(d) == Kernel!PagesIn(d.buf, d.res)
DmaRecords == [buf : DmaAddresses, size : DmaSizes, res : Nat, sgl : {<<>>} \cup
                 {Kernel!Pieces(b, s) : b \in DmaAddresses, s \in DmaSizes}]
ListKept ==
    /\ DOMAIN pinCount = Kernel!Pages
    /\ \/ dma = <<>> /\ \A p \in Kernel!Pages : pinCount[p] = 0
       \/ \E d \in DmaRecords :
             /\ dma = <<d>> /\ d.res <= Kernel!PAGE_COUNT(d.buf, d.size)
             /\ \A p \in Kernel!Pages : pinCount[p] = IF p \in PinnedFor(d) THEN 1 ELSE 0
             /\ d.sgl # <<>> => /\ d.res = Kernel!PAGE_COUNT(d.buf, d.size)
                                /\ d.sgl = Kernel!Pieces(d.buf, d.size)

\* The mappings of the kernel are those of the addresses that were handed out.
RemapKept ==
    /\ DOMAIN handles = Threads
    /\ Serv!RemapReaches

CableInv ==
    /\ CardKept /\ WaitsKept /\ FilesKept /\ HandleKept /\ ResetNears /\ LoaderKept
    /\ FileKept /\ MemoryKept /\ EepromKept
    /\ BatchKept /\ BytesCounted /\ MapKept /\ SelectedKept
    /\ DescriptorsKept /\ SegmentKept /\ PiecesKept /\ Info!InfoFits /\ ListKept /\ RemapKept
    /\ TransferKept /\ WrappersKept /\ PortKept
    /\ CounterKept /\ SemaphoreKept /\ PagesKept /\ WorkKept

-----------------------------------------------------------------------------
(* The JTAG monitor *)

\* An edge with TMS set leads to the reset or one edge nearer to it; the successors
\* are states of the TAP.
LEMMA HighNears ==
    ASSUME NEW s \in tap_states
    PROVE  /\ TmsHigh(s) \in tap_states
           /\ s = "TEST_LOGIC_RESET" => TmsHigh(s) = "TEST_LOGIC_RESET"
           /\ s # "TEST_LOGIC_RESET" => ToReset(TmsHigh(s)) + 1 = ToReset(s)
  <1>1. CASE s \in {"TEST_LOGIC_RESET", "SELECT_IR"}
    <2>1. CASE s = "TEST_LOGIC_RESET"
      BY <2>1 DEF tap_states, TmsHigh, ToReset
    <2>2. CASE s = "SELECT_IR"
      BY <2>2 DEF tap_states, TmsHigh, ToReset
    <2> QED BY <1>1, <2>1, <2>2
  <1>2. CASE s \in {"RUN_TEST_IDLE", "UPDATE_DR", "UPDATE_IR"}
    BY <1>2 DEF tap_states, TmsHigh, ToReset
  <1>3. CASE s = "SELECT_DR"
    BY <1>3 DEF tap_states, TmsHigh, ToReset
  <1>4. CASE s \in {"CAPTURE_DR", "SHIFT_DR"}
    BY <1>4 DEF tap_states, TmsHigh, ToReset
  <1>5. CASE s \in {"CAPTURE_IR", "SHIFT_IR"}
    BY <1>5 DEF tap_states, TmsHigh, ToReset
  <1>6. CASE s \in {"EXIT1_DR", "EXIT2_DR"}
    BY <1>6 DEF tap_states, TmsHigh, ToReset
  <1>7. CASE s \in {"EXIT1_IR", "EXIT2_IR"}
    BY <1>7 DEF tap_states, TmsHigh, ToReset
  <1>8. CASE s \in {"PAUSE_DR", "PAUSE_IR"}
    <2>1. CASE s = "PAUSE_DR"
      BY <2>1 DEF tap_states, TmsHigh, ToReset
    <2>2. CASE s = "PAUSE_IR"
      BY <2>2 DEF tap_states, TmsHigh, ToReset
    <2> QED BY <1>8, <2>1, <2>2
  <1> QED BY <1>1, <1>2, <1>3, <1>4, <1>5, <1>6, <1>7, <1>8 DEF tap_states

LEMMA LowIsState ==
    ASSUME NEW s \in tap_states
    PROVE  TmsLow(s) \in tap_states /\ ToReset(TmsLow(s)) \in 0 .. 5
  BY DEF tap_states, TmsLow, ToReset

LEMMA DistanceBounded ==
    ASSUME NEW s \in tap_states
    PROVE  ToReset(s) \in 0 .. 5 /\ (ToReset(s) = 0 => s = "TEST_LOGIC_RESET")
  BY DEF tap_states, ToReset

\* jtagmon keeps the distance to the reset and the count of edges in step.
LEMMA ResetNearsInductive ==
    ResetNears /\ [MonitorNext]_monVars => ResetNears'
  <1> SUFFICES ASSUME ResetNears, [MonitorNext]_monVars
               PROVE  ResetNears'
    OBVIOUS
  <1>1. CASE UNCHANGED monVars
    BY <1>1 DEF ResetNears, MonitorTypeOK, monVars
  <1>2. ASSUME NEW tck \in BOOLEAN, NEW tms \in BOOLEAN, jtagmon(tck, tms)
        PROVE  ResetNears'
    <2>0. state \in tap_states /\ ones \in 0 .. 5 /\ last_tck' \in BOOLEAN
      BY <1>2 DEF ResetNears, MonitorTypeOK, jtagmon
    <2>1. CASE ~(tck /\ ~last_tck)
      BY <1>2, <2>0, <2>1 DEF ResetNears, MonitorTypeOK, jtagmon
    <2>2. CASE tck /\ ~last_tck /\ tms
      <3>1. state' = TmsHigh(state) /\ ones' = (IF ones < 5 THEN ones + 1 ELSE 5)
        BY <1>2, <2>2 DEF jtagmon
      <3>2. state' \in tap_states /\ ones' \in 0 .. 5
        BY <2>0, <3>1, HighNears
      <3>3. CASE state = "TEST_LOGIC_RESET"
        BY <2>0, <3>1, <3>2, <3>3, HighNears DEF ResetNears, MonitorTypeOK
      <3>4. CASE state # "TEST_LOGIC_RESET"
        <4>1. ToReset(state) + ones <= 5
          BY <3>4 DEF ResetNears
        <4>2. ToReset(state') + 1 = ToReset(state)
          BY <2>0, <3>1, <3>4, HighNears
        <4>3. ToReset(state') \in 0 .. 5 /\ ToReset(state) \in 0 .. 5
          BY <2>0, <3>2, DistanceBounded
        <4>4. ToReset(state') + ones' <= 5
          BY <2>0, <3>1, <4>1, <4>2, <4>3
        <4> QED BY <2>0, <3>2, <4>4 DEF ResetNears, MonitorTypeOK
      <3> QED BY <3>3, <3>4
    <2>3. CASE tck /\ ~last_tck /\ ~tms
      <3>1. state' = TmsLow(state) /\ ones' = 0
        BY <1>2, <2>3 DEF jtagmon
      <3> QED BY <2>0, <3>1, LowIsState DEF ResetNears, MonitorTypeOK
    <2> QED BY <2>1, <2>2, <2>3
  <1> QED BY <1>1, <1>2 DEF MonitorNext

\* The monitor's distance to the reset shrinks with every edge that it counts.
THEOREM MonitorInvariant == MonitorSpec => []ResetNears
  <1>1. MonitorInit => ResetNears
    BY DEF MonitorInit, ResetNears, MonitorTypeOK, tap_states, ToReset
  <1> QED BY <1>1, ResetNearsInductive, PTL DEF MonitorSpec

\* After five rising edges of TCK with TMS set the monitor is in Test-Logic-Reset,
\* whatever the tool did before.
THEOREM MonitorResets == MonitorSpec => []ResetInFive
  <1>1. ResetNears => ResetInFive
    BY DistanceBounded DEF ResetNears, MonitorTypeOK, ResetInFive
  <1> QED BY <1>1, MonitorInvariant, PTL

-----------------------------------------------------------------------------
(* The library *)

LEMMA CardKeptInductive ==
    CardKept /\ (Cable!Next \/ UNCHANGED cablePart) => CardKept'
  <1> USE CableAssumption DEF CardKept, Cable!intVars, Cable!fileVars, Cable!portVars
  <1> SUFFICES ASSUME CardKept, Cable!Next \/ UNCHANGED cablePart
               PROVE  CardKept'
    OBVIOUS
  <1>1. CASE UNCHANGED cablePart
    BY <1>1 DEF cablePart
  <1>2. ASSUME NEW n \in Ports, Cable!CARD_REGISTER(n)
        PROVE  CardKept'
    <2>1. CASE n \in ftdi
      BY <1>2, <2>1 DEF Cable!CARD_REGISTER, Cable!PortStep, Cable!config_get, Cable!jtagkey_open
    <2>2. CASE n \notin ftdi
      BY <1>2, <2>2 DEF Cable!CARD_REGISTER, Cable!PortStep, Cable!config_get, Cable!parport_open
    <2> QED BY <2>1, <2>2
  <1>3. CASE Cable!CARD_UNREGISTER
    BY <1>3 DEF Cable!CARD_UNREGISTER, Cable!PortStep, Cable!config_get, Cable!parport_close
  <1>4. ASSUME NEW v \in {0, 1}, Cable!TRANSFER(v)
        PROVE  CardKept'
    BY <1>4 DEF Cable!TRANSFER, Cable!PortStep, Cable!config_get, Cable!parport_transfer
  <1>5. CASE UNCHANGED <<ftdi, Cable!portVars>>
    BY <1>5
  <1>6. CASE Cable!INT_ENABLE \/ Cable!INT_DISABLE
    BY <1>5, <1>6 DEF Cable!INT_ENABLE, Cable!INT_DISABLE, Cable!IntStep
  <1>7. ASSUME NEW t \in Threads,
               Cable!INT_WAIT(t) \/ Cable!LockIntWait(t) \/ Cable!UnlockIntWait(t)
        PROVE  CardKept'
    BY <1>5, <1>7 DEF Cable!INT_WAIT, Cable!LockIntWait, Cable!UnlockIntWait, Cable!IntStep
  <1>8. ASSUME NEW f \in Streams,
               (\E k \in Cable!Kinds : Cable!fopen(f, k)) \/ Cable!fgets(f) \/ Cable!fclose(f)
        PROVE  CardKept'
    BY <1>5, <1>8 DEF Cable!fopen, Cable!fgets, Cable!fclose, Cable!FileStep
  <1> QED BY <1>1, <1>2, <1>3, <1>4, <1>6, <1>7, <1>8 DEF Cable!Next

LEMMA WaitsKeptInductive ==
    WaitsKept /\ (Cable!Next \/ UNCHANGED cablePart) => WaitsKept'
  <1> USE DEF WaitsKept, Cable!WaitsUntilDisabled
  <1> SUFFICES ASSUME WaitsKept, Cable!Next \/ UNCHANGED cablePart
               PROVE  WaitsKept'
    OBVIOUS
  <1>1. CASE UNCHANGED Cable!intVars
    BY <1>1 DEF Cable!intVars
  <1>2. CASE UNCHANGED cablePart
    BY <1>1, <1>2 DEF cablePart, Cable!intVars
  <1>3. CASE Cable!INT_ENABLE
    BY <1>3 DEF Cable!INT_ENABLE, Cable!Leaving
  <1>4. CASE Cable!INT_DISABLE
    BY <1>4 DEF Cable!INT_DISABLE, Cable!Leaving
  <1>5. ASSUME NEW t \in Threads, Cable!INT_WAIT(t)
        PROVE  WaitsKept'
    BY <1>5 DEF Cable!INT_WAIT
  <1>6. ASSUME NEW t \in Threads, Cable!LockIntWait(t)
        PROVE  WaitsKept'
    BY <1>6 DEF Cable!LockIntWait
  <1>7. ASSUME NEW t \in Threads, Cable!UnlockIntWait(t)
        PROVE  WaitsKept'
    BY <1>7 DEF Cable!UnlockIntWait
  <1>8. CASE \/ \E n \in Ports : Cable!CARD_REGISTER(n)
             \/ Cable!CARD_UNREGISTER \/ (\E v \in {0, 1} : Cable!TRANSFER(v))
    BY <1>1, <1>8 DEF Cable!CARD_REGISTER, Cable!CARD_UNREGISTER, Cable!TRANSFER, Cable!PortStep
  <1>9. ASSUME NEW f \in Streams,
               (\E k \in Cable!Kinds : Cable!fopen(f, k)) \/ Cable!fgets(f) \/ Cable!fclose(f)
        PROVE  WaitsKept'
    BY <1>1, <1>9 DEF Cable!fopen, Cable!fgets, Cable!fclose, Cable!FileStep
  <1> QED BY <1>2, <1>3, <1>4, <1>5, <1>6, <1>7, <1>8, <1>9 DEF Cable!Next

LEMMA FilesKeptInductive ==
    FilesKept /\ (Cable!Next \/ UNCHANGED cablePart) => FilesKept'
  <1> USE CableAssumption DEF FilesKept, Cable!FakesOnlyItsFiles, Cable!Closed, Cable!Kinds
  <1> SUFFICES ASSUME FilesKept, Cable!Next \/ UNCHANGED cablePart
               PROVE  FilesKept'
    OBVIOUS
  <1>1. CASE UNCHANGED Cable!fileVars
    BY <1>1 DEF Cable!fileVars
  <1>2. CASE UNCHANGED cablePart
    BY <1>1, <1>2 DEF cablePart, Cable!fileVars
  <1>3. ASSUME NEW f \in Streams, NEW k \in Cable!Kinds, Cable!fopen(f, k)
        PROVE  FilesKept'
    BY <1>3 DEF Cable!fopen
  <1>4. ASSUME NEW f \in Streams, Cable!fgets(f)
        PROVE  FilesKept'
    BY <1>4 DEF Cable!fgets
  <1>5. ASSUME NEW f \in Streams, Cable!fclose(f)
        PROVE  FilesKept'
    BY <1>5 DEF Cable!fclose
  <1>6. CASE \/ \E n \in Ports : Cable!CARD_REGISTER(n)
             \/ Cable!CARD_UNREGISTER \/ (\E v \in {0, 1} : Cable!TRANSFER(v))
    BY <1>1, <1>6 DEF Cable!CARD_REGISTER, Cable!CARD_UNREGISTER, Cable!TRANSFER, Cable!PortStep
  <1>7. CASE \/ Cable!INT_ENABLE \/ Cable!INT_DISABLE
             \/ \E t \in Threads :
                   Cable!INT_WAIT(t) \/ Cable!LockIntWait(t) \/ Cable!UnlockIntWait(t)
    BY <1>1, <1>7 DEF Cable!INT_ENABLE, Cable!INT_DISABLE, Cable!INT_WAIT, Cable!LockIntWait,
                      Cable!UnlockIntWait, Cable!IntStep
  <1> QED BY <1>2, <1>3, <1>4, <1>5, <1>6, <1>7 DEF Cable!Next

LEMMA HandleKeptInductive ==
    HandleKept /\ (Usb!Next \/ UNCHANGED usbPart) => HandleKept'
  <1> USE CableAssumption DEF HandleKept, Usb!HandleIsOfDevice, Usb!ioctl
  <1> SUFFICES ASSUME HandleKept, Usb!Next \/ UNCHANGED usbPart
               PROVE  HandleKept'
    OBVIOUS
  <1>1. CASE UNCHANGED usbPart
    BY <1>1 DEF usbPart
  <1>2. ASSUME NEW f \in Fds, Usb!open(f)
        PROVE  HandleKept'
    BY <1>2 DEF Usb!open
  <1>3. ASSUME NEW f \in Fds, Usb!close(f)
        PROVE  HandleKept'
    BY <1>3 DEF Usb!close
  <1>4. ASSUME NEW t \in Tables, Usb!EVENT_REGISTER(t)
        PROVE  HandleKept'
    <2>1. told' = None /\ UNCHANGED <<claimed, usb_devhandle, windrvrfd, target>>
      BY <1>4 DEF Usb!EVENT_REGISTER
    <2>2. switched' = (switched \/ (usb_devhandle # None /\ usbdevice' # usbdevice))
      BY <1>4 DEF Usb!EVENT_REGISTER
    <2> QED BY <2>1, <2>2
  <1>5. CASE Usb!EVENT_PULL
    BY <1>5 DEF Usb!EVENT_PULL
  <1>6. CASE Usb!USB_TRANSFER
    BY <1>6 DEF Usb!USB_TRANSFER
  <1>7. CASE Usb!GetSize \/ Usb!GetData
    BY <1>7 DEF Usb!GetSize, Usb!GetData
  <1>8. ASSUME NEW i \in 1 .. 2, Usb!USB_SET_INTERFACE(i)
        PROVE  HandleKept'
    BY <1>8 DEF Usb!USB_SET_INTERFACE
  <1> QED BY <1>1, <1>2, <1>3, <1>4, <1>5, <1>6, <1>7, <1>8 DEF Usb!Next

-----------------------------------------------------------------------------
(* The kernel module: USB transfers *)

LEMMA TransferKeptInductive ==
    TransferKept /\ (Wd!Next \/ UNCHANGED wdPart) => TransferKept'
  <1> USE DEF TransferKept, Wd!ContextsAlive, Wd!HeapOwned, Wd!transferVars
  <1> SUFFICES ASSUME TransferKept, Wd!Next \/ UNCHANGED wdPart
               PROVE  TransferKept'
    OBVIOUS
  <1>1. CASE UNCHANGED wdPart
    BY <1>1 DEF wdPart
  <1>2. CASE Wd!OS_register_devices
    BY <1>2 DEF Wd!OS_register_devices
  <1>3. CASE Wd!OS_unregister_devices
    BY <1>3 DEF Wd!OS_unregister_devices, Wd!Attached
  <1>4. CASE Wd!usb_generic_probe
    BY <1>4 DEF Wd!usb_generic_probe, Wd!Attached
  <1>5. CASE Wd!DisconnectBegins
    BY <1>5 DEF Wd!DisconnectBegins
  <1>6. CASE Wd!CoreEndsUrb
    BY <1>6 DEF Wd!CoreEndsUrb
  <1>7. CASE Wd!DisconnectEnds
    BY <1>7 DEF Wd!DisconnectEnds, Wd!Detach, Wd!Attached
  <1>8. ASSUME NEW r \in Wd!Requests, Wd!Begin(r)
        PROVE  TransferKept'
    <2>1. /\ xfer = "none" /\ "dev" \in heap /\ xfer' \in {"submit", "exit"}
          /\ req'.bytes = r.bytes
          /\ heap' \in {heap, heap \cup {"tc"}, heap \cup {"trans_buf"},
                        heap \cup {"tc", "trans_buf"}}
          /\ xfer' = "submit" => "tc" \in heap' /\ (r.bytes > 0 => "trans_buf" \in heap')
          /\ UNCHANGED <<driver, urb, touched, late, is_finished>>
      BY <1>8 DEF Wd!Begin, Wd!Attached, Wd!Requests
    <2> QED BY <2>1
  <1>9. CASE Wd!StopAtRemainder
    BY <1>9 DEF Wd!StopAtRemainder
  <1>10. CASE Wd!usb_transfer_single
    BY <1>10 DEF Wd!usb_transfer_single
  <1>11. ASSUME NEW n, NEW st, Wd!Complete(n, st)
         PROVE  TransferKept'
    BY <1>11 DEF Wd!Complete
  <1>12. CASE Wd!usb_common_completion
    BY <1>12 DEF Wd!usb_common_completion
  <1>13. CASE Wd!Woken
    BY <1>13 DEF Wd!Woken
  <1>14. CASE Wd!TimedOut
    BY <1>14 DEF Wd!TimedOut, Wd!Killed
  <1>15. CASE Wd!AfterPiece
    BY <1>15 DEF Wd!AfterPiece
  <1>16. CASE Wd!OS_halt_transfer
    BY <1>16 DEF Wd!OS_halt_transfer, Wd!Killed
  <1>17. CASE Wd!Exit
    BY <1>17 DEF Wd!Exit
  <1> QED BY <1>1, <1>2, <1>3, <1>4, <1>5, <1>6, <1>7, <1>8, <1>9, <1>10, <1>11, <1>12, <1>13,
             <1>14, <1>15, <1>16, <1>17 DEF Wd!Next

-----------------------------------------------------------------------------
(* The port module: the timer of an ioctl *)

\* What an action leaves alone for one file.
LEMMA TimerUntouched ==
    ASSUME NEW f \in Files, TimerKept(f),
           data'[f] = data[f], regions'[f] = regions[f], ioctl'[f] = ioctl[f],
           TimeRemaining'[f] = TimeRemaining[f], pending'[f] = pending[f],
           handler'[f] = handler[f], ticks'[f] = ticks[f], limit'[f] = limit[f],
           expired'[f] = expired[f]
    PROVE  TimerKept(f)'
  BY DEF TimerKept

LEMMA PortKeptInductive ==
    PortKept /\ (Port!Next \/ UNCHANGED xpcPart) => PortKept'
  <1> USE CableAssumption DEF Port!timerVars
  <1> SUFFICES ASSUME PortKept, Port!Next \/ UNCHANGED xpcPart
               PROVE  PortKept'
    OBVIOUS
  <1>0. PortTyped /\ (\A f \in Files : TimerKept(f)) /\ Port!RegionsOwned
    BY DEF PortKept, PortTyped
  <1>a. ASSUME PortTyped', \A f \in Files : TimerKept(f)',
               \A f, g \in Files : f # g => regions'[f] \cap regions'[g] = {}
        PROVE  PortKept'
    BY <1>a DEF PortKept, PortTyped, Port!RegionsOwned, TimerKept
  <1>b. ASSUME UNCHANGED <<data, regions, ioctl, Port!timerVars>>
        PROVE  PortKept'
    BY <1>0, <1>b DEF PortKept, PortTyped, Port!RegionsOwned, TimerKept
  <1>1. CASE UNCHANGED xpcPart
    BY <1>b, <1>1 DEF xpcPart
  <1>2. CASE Port!xpc4drvr_init_module \/ Port!xpc4drvr_cleanup_module
    BY <1>b, <1>2 DEF Port!xpc4drvr_init_module, Port!xpc4drvr_cleanup_module
  <1>3. ASSUME NEW f \in Files, Port!xpc4_open(f)
        PROVE  PortKept'
    <2>1. PortTyped'
      BY <1>0, <1>3 DEF PortTyped, Port!xpc4_open
    <2>2. TimerKept(f)'
      BY <1>0, <1>3 DEF PortTyped, TimerKept, Port!xpc4_open
    <2>3. ASSUME NEW g \in Files, g # f
          PROVE  TimerKept(g)'
      BY <1>0, <1>3, <2>3, TimerUntouched DEF PortTyped, Port!xpc4_open
    <2>4. \A g, h \in Files : g # h => regions'[g] \cap regions'[h] = {}
      BY <1>0, <1>3 DEF PortTyped, Port!RegionsOwned, Port!xpc4_open
    <2> QED BY <1>a, <2>1, <2>2, <2>3, <2>4
  <1>4. ASSUME NEW f \in Files, Port!xpc4_release(f)
        PROVE  PortKept'
    <2>1. PortTyped'
      BY <1>0, <1>4 DEF PortTyped, Port!xpc4_release, Port!xpc4_release_data
    <2>2. TimerKept(f)'
      BY <1>0, <1>4 DEF PortTyped, TimerKept, Port!xpc4_release, Port!xpc4_release_data
    <2>3. ASSUME NEW g \in Files, g # f
          PROVE  TimerKept(g)'
      BY <1>0, <1>4, <2>3, TimerUntouched DEF PortTyped, Port!xpc4_release, Port!xpc4_release_data
    <2>4. \A g, h \in Files : g # h => regions'[g] \cap regions'[h] = {}
      BY <1>0, <1>4 DEF PortTyped, Port!RegionsOwned, Port!xpc4_release, Port!xpc4_release_data
    <2> QED BY <1>a, <2>1, <2>2, <2>3, <2>4
  <1>5. ASSUME NEW f \in Files, Port!xpc4_ioctl(f)
        PROVE  PortKept'
    <2>1. PortTyped'
      BY <1>0, <1>5 DEF PortTyped, Port!xpc4_ioctl
    <2>2. TimerKept(f)'
      BY <1>0, <1>5 DEF PortTyped, TimerKept, Port!xpc4_ioctl
    <2>3. ASSUME NEW g \in Files, g # f
          PROVE  TimerKept(g)'
      BY <1>0, <1>5, <2>3, TimerUntouched DEF PortTyped, Port!xpc4_ioctl
    <2>4. \A g, h \in Files : g # h => regions'[g] \cap regions'[h] = {}
      BY <1>0, <1>5 DEF PortTyped, Port!RegionsOwned, Port!xpc4_ioctl
    <2> QED BY <1>a, <2>1, <2>2, <2>3, <2>4
  <1>6. ASSUME NEW f \in Files, Port!SetTime(f)
        PROVE  PortKept'
    <2>1. PortTyped'
      BY <1>0, <1>6 DEF PortTyped, Port!SetTime
    <2>2. TimerKept(f)'
      BY <1>0, <1>6 DEF PortTyped, TimerKept, Port!SetTime
    <2>3. ASSUME NEW g \in Files, g # f
          PROVE  TimerKept(g)'
      BY <1>0, <1>6, <2>3, TimerUntouched DEF PortTyped, Port!SetTime
    <2>4. \A g, h \in Files : g # h => regions'[g] \cap regions'[h] = {}
      BY <1>0, <1>6 DEF PortTyped, Port!RegionsOwned, Port!SetTime
    <2> QED BY <1>a, <2>1, <2>2, <2>3, <2>4
  <1>7. ASSUME NEW f \in Files, Port!xpc4_is_timeout(f)
        PROVE  PortKept'
    <2>1. PortTyped'
      BY <1>0, <1>7 DEF PortTyped, Port!xpc4_is_timeout
    <2>2. TimerKept(f)'
      <3>1. ioctl[f] = "waiting" /\ (expired'[f] <=> TimeRemaining[f] = 0)
        BY <1>0, <1>7, Zenon DEF PortTyped, Port!xpc4_is_timeout
      <3>2. UNCHANGED <<data, regions, ioctl, TimeRemaining, pending, handler, ticks, limit>>
        BY <1>7 DEF Port!xpc4_is_timeout
      <3>3. TimeRemaining[f] + ticks[f] >= limit[f] /\ TimeRemaining[f] \in Int
            /\ ticks[f] \in Nat /\ limit[f] \in Nat
        BY <1>0, <3>1 DEF TimerKept
      <3>4. expired'[f] => ticks[f] >= limit[f]
        BY <3>1, <3>3
      <3> QED BY <1>0, <3>2, <3>4 DEF TimerKept
    <2>3. ASSUME NEW g \in Files, g # f
          PROVE  TimerKept(g)'
      BY <1>0, <1>7, <2>3, TimerUntouched DEF PortTyped, Port!xpc4_is_timeout
    <2>4. \A g, h \in Files : g # h => regions'[g] \cap regions'[h] = {}
      BY <1>0, <1>7 DEF PortTyped, Port!RegionsOwned, Port!xpc4_is_timeout
    <2> QED BY <1>a, <2>1, <2>2, <2>3, <2>4
  <1>8. ASSUME NEW f \in Files, Port!xpc4_stop_timer(f)
        PROVE  PortKept'
    <2>1. PortTyped'
      BY <1>0, <1>8 DEF PortTyped, Port!xpc4_stop_timer
    <2>2. TimerKept(f)'
      BY <1>0, <1>8 DEF PortTyped, TimerKept, Port!xpc4_stop_timer
    <2>3. ASSUME NEW g \in Files, g # f
          PROVE  TimerKept(g)'
      BY <1>0, <1>8, <2>3, TimerUntouched DEF PortTyped, Port!xpc4_stop_timer
    <2>4. \A g, h \in Files : g # h => regions'[g] \cap regions'[h] = {}
      BY <1>0, <1>8 DEF PortTyped, Port!RegionsOwned, Port!xpc4_stop_timer
    <2> QED BY <1>a, <2>1, <2>2, <2>3, <2>4
  <1>9. ASSUME NEW f \in Files, Port!del_timer_sync(f)
        PROVE  PortKept'
    <2>1. PortTyped'
      BY <1>0, <1>9 DEF PortTyped, Port!del_timer_sync, Port!HandlerOut
    <2>2. TimerKept(f)'
      BY <1>0, <1>9 DEF PortTyped, TimerKept, Port!del_timer_sync, Port!HandlerOut
    <2>3. ASSUME NEW g \in Files, g # f
          PROVE  TimerKept(g)'
      BY <1>0, <1>9, <2>3, TimerUntouched DEF PortTyped, Port!del_timer_sync, Port!HandlerOut
    <2>4. \A g, h \in Files : g # h => regions'[g] \cap regions'[h] = {}
      BY <1>0, <1>9 DEF PortTyped, Port!RegionsOwned, Port!del_timer_sync, Port!HandlerOut
    <2> QED BY <1>a, <2>1, <2>2, <2>3, <2>4
  <1>10. ASSUME NEW f \in Files, Port!IoctlReturns(f)
        PROVE  PortKept'
    <2>1. PortTyped'
      BY <1>0, <1>10 DEF PortTyped, Port!IoctlReturns
    <2>2. TimerKept(f)'
      BY <1>0, <1>10 DEF PortTyped, TimerKept, Port!IoctlReturns
    <2>3. ASSUME NEW g \in Files, g # f
          PROVE  TimerKept(g)'
      BY <1>0, <1>10, <2>3, TimerUntouched DEF PortTyped, Port!IoctlReturns
    <2>4. \A g, h \in Files : g # h => regions'[g] \cap regions'[h] = {}
      BY <1>0, <1>10 DEF PortTyped, Port!RegionsOwned, Port!IoctlReturns
    <2> QED BY <1>a, <2>1, <2>2, <2>3, <2>4
  <1>11. ASSUME NEW f \in Files, Port!Expire(f)
        PROVE  PortKept'
    <2>1. PortTyped'
      BY <1>0, <1>11 DEF PortTyped, Port!Expire
    <2>2. TimerKept(f)'
      BY <1>0, <1>11 DEF PortTyped, TimerKept, Port!Expire
    <2>3. ASSUME NEW g \in Files, g # f
          PROVE  TimerKept(g)'
      BY <1>0, <1>11, <2>3, TimerUntouched DEF PortTyped, Port!Expire
    <2>4. \A g, h \in Files : g # h => regions'[g] \cap regions'[h] = {}
      BY <1>0, <1>11 DEF PortTyped, Port!RegionsOwned, Port!Expire
    <2> QED BY <1>a, <2>1, <2>2, <2>3, <2>4
  <1>12. ASSUME NEW f \in Files, Port!CountDown(f)
        PROVE  PortKept'
    <2>1. PortTyped'
      BY <1>0, <1>12 DEF PortTyped, Port!CountDown
    <2>2. TimerKept(f)'
      BY <1>0, <1>12 DEF PortTyped, TimerKept, Port!CountDown
    <2>3. ASSUME NEW g \in Files, g # f
          PROVE  TimerKept(g)'
      BY <1>0, <1>12, <2>3, TimerUntouched DEF PortTyped, Port!CountDown
    <2>4. \A g, h \in Files : g # h => regions'[g] \cap regions'[h] = {}
      BY <1>0, <1>12 DEF PortTyped, Port!RegionsOwned, Port!CountDown
    <2> QED BY <1>a, <2>1, <2>2, <2>3, <2>4
  <1>13. ASSUME NEW f \in Files, Port!mod_timer(f)
        PROVE  PortKept'
    <2>1. PortTyped'
      BY <1>0, <1>13 DEF PortTyped, Port!mod_timer
    <2>2. TimerKept(f)'
      BY <1>0, <1>13 DEF PortTyped, TimerKept, Port!mod_timer
    <2>3. ASSUME NEW g \in Files, g # f
          PROVE  TimerKept(g)'
      BY <1>0, <1>13, <2>3, TimerUntouched DEF PortTyped, Port!mod_timer
    <2>4. \A g, h \in Files : g # h => regions'[g] \cap regions'[h] = {}
      BY <1>0, <1>13 DEF PortTyped, Port!RegionsOwned, Port!mod_timer
    <2> QED BY <1>a, <2>1, <2>2, <2>3, <2>4
  <1>14. ASSUME NEW f \in Files, NEW s \in Seconds, Port!xpc4_start_timer(f, s)
        PROVE  PortKept'
    <2>1. PortTyped'
      BY <1>0, <1>14 DEF PortTyped, Port!xpc4_start_timer
    <2>2. TimerKept(f)'
      BY <1>0, <1>14 DEF PortTyped, TimerKept, Port!xpc4_start_timer
    <2>3. ASSUME NEW g \in Files, g # f
          PROVE  TimerKept(g)'
      BY <1>0, <1>14, <2>3, TimerUntouched DEF PortTyped, Port!xpc4_start_timer
    <2>4. \A g, h \in Files : g # h => regions'[g] \cap regions'[h] = {}
      BY <1>0, <1>14 DEF PortTyped, Port!RegionsOwned, Port!xpc4_start_timer
    <2> QED BY <1>a, <2>1, <2>2, <2>3, <2>4
  <1>15. ASSUME NEW f \in Files, NEW r \in PortRegions, Port!XPC4_request_region(f, r)
        PROVE  PortKept'
    <2>1. PortTyped'
      BY <1>0, <1>15 DEF PortTyped, Port!XPC4_request_region
    <2>2. TimerKept(f)'
      BY <1>0, <1>15 DEF PortTyped, TimerKept, Port!XPC4_request_region
    <2>3. ASSUME NEW g \in Files, g # f
          PROVE  TimerKept(g)'
      BY <1>0, <1>15, <2>3, TimerUntouched DEF PortTyped, Port!XPC4_request_region
    <2>4. \A g, h \in Files : g # h => regions'[g] \cap regions'[h] = {}
      BY <1>0, <1>15 DEF PortTyped, Port!RegionsOwned, Port!XPC4_request_region
    <2> QED BY <1>a, <2>1, <2>2, <2>3, <2>4
  <1> QED BY <1>1, <1>2, <1>3, <1>4, <1>5, <1>6, <1>7, <1>8, <1>9, <1>10, <1>11, <1>12, <1>13, <1>14, <1>15 DEF Port!Next

-----------------------------------------------------------------------------
(* The services: semaphores and deferred work *)

LEMMA SemaphoreKeptInductive ==
    SemaphoreKept /\ (Serv!SemNext \/ UNCHANGED semPart) => SemaphoreKept'
  <1> USE DEF SemaphoreKept, Serv!Created
  <1> SUFFICES ASSUME SemaphoreKept, Serv!SemNext \/ UNCHANGED semPart
               PROVE  SemaphoreKept'
    OBVIOUS
  <1>1. CASE UNCHANGED semPart
    BY <1>1 DEF semPart
  <1>2. CASE Serv!LINUX_up
    BY <1>2 DEF Serv!LINUX_up
  <1>3. CASE Serv!Again
    BY <1>3 DEF Serv!Again
  <1>4. ASSUME NEW c \in Threads, Serv!LINUX_down_interruptible(c)
        PROVE  SemaphoreKept'
    <2>1. CASE kind = "mutex"
      BY <1>4, <2>1 DEF Serv!LINUX_down_interruptible, Serv!Interrupted
    <2>2. CASE kind # "mutex"
      BY <1>4, <2>2 DEF Serv!LINUX_down_interruptible, Serv!Interrupted
    <2> QED BY <2>1, <2>2
  <1> QED BY <1>1, <1>2, <1>3, <1>4 DEF Serv!SemNext

LEMMA WorkKeptInductive ==
    WorkKept /\ (Serv!WorkNext \/ UNCHANGED workPart) => WorkKept'
  <1> USE DEF WorkKept
  <1> SUFFICES ASSUME WorkKept, Serv!WorkNext \/ UNCHANGED workPart
               PROVE  WorkKept'
    OBVIOUS
  <1>1. CASE UNCHANGED workPart
    BY <1>1 DEF workPart
  <1>2. CASE Serv!LINUX_bh_alloc
    BY <1>2 DEF Serv!LINUX_bh_alloc
  <1>3. CASE Serv!LINUX_schedule_task
    BY <1>3 DEF Serv!LINUX_schedule_task
  <1>4. CASE Serv!Worker
    BY <1>4 DEF Serv!Worker
  <1>5. CASE Serv!LINUX_flush_scheduled_tasks
    BY <1>5 DEF Serv!LINUX_flush_scheduled_tasks, Serv!Flushed
  <1>6. CASE Serv!LINUX_bh_free
    BY <1>6 DEF Serv!LINUX_bh_free
  <1> QED BY <1>1, <1>2, <1>3, <1>4, <1>5, <1>6 DEF Serv!WorkNext

-----------------------------------------------------------------------------
(* The services: counters *)

LEMMA CounterKeptInductive ==
    CounterKept /\ (Serv!CountNext \/ UNCHANGED countPart) => CounterKept'
  <1> SUFFICES ASSUME CounterKept, Serv!CountNext \/ UNCHANGED countPart
               PROVE  CounterKept'
    OBVIOUS
  <1>0. /\ count \in [Threads -> {"out", "raised", "in", "lowered"}]
        /\ counter = Cardinality(Counted)
        /\ counter = 0 => noticed \/ \E c \in Threads : count[c] = "lowered"
    BY DEF CounterKept
  <1>a. IsFiniteSet(Counted) /\ Cardinality(Counted) \in Nat
    <2>1. Counted \subseteq Threads
      BY DEF Counted
    <2> QED BY <2>1, CableAssumption, FS_Subset, FS_CardinalityType
  <1>1. CASE UNCHANGED countPart
    BY <1>0, <1>1 DEF countPart, CounterKept, Counted
  <1>2. ASSUME NEW c \in Threads, Serv!LINUX_atomic_inc(c)
        PROVE  CounterKept'
    <2>1. /\ count' = [count EXCEPT ![c] = "raised"] /\ counter' = counter + 1
          /\ count[c] = "out"
      BY <1>2 DEF Serv!LINUX_atomic_inc
    <2>2. Counted' = Counted \cup {c} /\ c \notin Counted
      BY <1>0, <2>1 DEF Counted
    <2>3. Cardinality(Counted)' = Cardinality(Counted) + 1
      BY <1>a, <2>2, FS_AddElement
    <2> QED BY <1>0, <1>a, <2>1, <2>3 DEF CounterKept
  <1>3. ASSUME NEW c \in Threads, Serv!LINUX_atomic_dec(c)
        PROVE  CounterKept'
    <2>1. /\ count' = [count EXCEPT ![c] = "lowered"] /\ counter' = counter - 1
          /\ count[c] = "in"
      BY <1>3 DEF Serv!LINUX_atomic_dec
    <2>2. Counted' = Counted \ {c} /\ c \in Counted
      BY <1>0, <2>1 DEF Counted
    <2>3. Cardinality(Counted)' = Cardinality(Counted) - 1
      BY <1>a, <2>2, FS_RemoveElement
    <2>4. count'[c] = "lowered"
      BY <1>0, <2>1
    <2> QED BY <1>0, <1>a, <2>1, <2>3, <2>4 DEF CounterKept
  <1>4. ASSUME NEW c \in Threads, Serv!Return(c)
        PROVE  CounterKept'
    <2>1. CASE count[c] = "raised"
      <3>1. count' = [count EXCEPT ![c] = "in"] /\ UNCHANGED <<counter, noticed>>
        BY <1>4, <2>1 DEF Serv!Return
      <3>2. Counted' = Counted
        BY <1>0, <2>1, <3>1 DEF Counted
      <3>3. \A t \in Threads : count[t] = "lowered" => count'[t] = "lowered"
        BY <1>0, <2>1, <3>1
      <3>4. Cardinality(Counted)' = Cardinality(Counted)
        BY <3>2
      <3> QED BY <1>0, <3>1, <3>3, <3>4 DEF CounterKept
    <2>2. CASE count[c] = "lowered"
      <3>1. count' = [count EXCEPT ![c] = "out"] /\ counter' = counter
        BY <1>4, <2>2 DEF Serv!Return
      <3>2. counter = 0 => noticed'
        BY <1>4, <2>2, Zenon DEF Serv!Return, Serv!Result
      <3>3. Counted' = Counted
        BY <1>0, <2>2, <3>1 DEF Counted
      <3>4. Cardinality(Counted)' = Cardinality(Counted)
        BY <3>3
      <3> QED BY <1>0, <3>1, <3>2, <3>4 DEF CounterKept
    <2> QED BY <1>4, <2>1, <2>2 DEF Serv!Return
  <1> QED BY <1>1, <1>2, <1>3, <1>4 DEF Serv!CountNext

-----------------------------------------------------------------------------
(* The kernel module: wrappers of interrupt handlers *)

LEMMA PutFirst ==
    ASSUME NEW S, NEW s \in Seq(S), NEW w \in S
    PROVE  /\ <<w>> \o s \in Seq(S) /\ Len(<<w>> \o s) = Len(s) + 1
           /\ (<<w>> \o s)[1] = w
           /\ \A i \in 1 .. Len(s) : (<<w>> \o s)[i + 1] = s[i]
           /\ \A i \in 2 .. Len(s) + 1 : (<<w>> \o s)[i] = s[i - 1]
  OBVIOUS

LEMMA TakenOut ==
    ASSUME NEW S, NEW s \in Seq(S), NEW i \in 1 .. Len(s)
    PROVE  /\ Kernel!RemoveAt(s, i) \in Seq(S) /\ Len(Kernel!RemoveAt(s, i)) = Len(s) - 1
           /\ \A j \in 1 .. i - 1 : Kernel!RemoveAt(s, i)[j] = s[j]
           /\ \A j \in i .. Len(s) - 1 : Kernel!RemoveAt(s, i)[j] = s[j + 1]
  <1> DEFINE a == SubSeq(s, 1, i - 1)
             b == SubSeq(s, i + 1, Len(s))
  <1>1. /\ a \in Seq(S) /\ Len(a) = i - 1
        /\ \A j \in 1 .. i - 1 : a[j] = s[j]
    OBVIOUS
  <1>2. /\ b \in Seq(S) /\ Len(b) = Len(s) - i
        /\ \A j \in 1 .. Len(s) - i : b[j] = s[i + j]
    OBVIOUS
  <1>3. Kernel!RemoveAt(s, i) = a \o b
    BY DEF Kernel!RemoveAt
  <1> HIDE DEF a, b
  <1>4. a \o b \in Seq(S) /\ Len(a \o b) = Len(s) - 1
    <2>1. a \o b \in Seq(S) /\ Len(a \o b) = Len(a) + Len(b)
      BY <1>1, <1>2, Joined
    <2>2. Len(s) \in Nat
      OBVIOUS
    <2> QED BY <1>1, <1>2, <2>1, <2>2
  <1>5. \A j \in 1 .. i - 1 : (a \o b)[j] = s[j]
    BY <1>1, <1>2
  <1>6. ASSUME NEW j \in i .. Len(s) - 1
        PROVE  (a \o b)[j] = s[j + 1]
    <2>1. (a \o b)[j] = b[j - (i - 1)]
      BY <1>1, <1>2
    <2>2. b[j - (i - 1)] = s[i + (j - (i - 1))]
      BY <1>2
    <2> QED BY <2>1, <2>2
  <1> QED BY <1>3, <1>4, <1>5, <1>6

LEMMA WrappersKeptInductive ==
    WrappersKept /\ (Kernel!IrqNext \/ Kernel!DmaNext \/ Kernel!MapNext \/ UNCHANGED kernelPart)
        => WrappersKept'
  <1> USE DEF WrappersKept, Kernel!ModuleOut, Kernel!moduleVars, Kernel!dmaVars,
              Kernel!mapVars
  <1> SUFFICES ASSUME WrappersKept,
                      Kernel!IrqNext \/ Kernel!DmaNext \/ Kernel!MapNext \/ UNCHANGED kernelPart
               PROVE  WrappersKept'
    OBVIOUS
  <1>1. CASE UNCHANGED <<Kernel!irqVars, Kernel!moduleVars>>
    BY <1>1 DEF Kernel!irqVars
  <1>2. CASE UNCHANGED kernelPart
    BY <1>1, <1>2 DEF kernelPart, Kernel!irqVars
  <1>3. CASE Kernel!init_module
    BY <1>3 DEF Kernel!init_module, Kernel!LINUX_register_chrdev, Kernel!irqVars
  <1>4. CASE Kernel!cleanup_module
    <2>1. /\ c_list = <<>> /\ calls = {} /\ resources' = {} /\ UNCHANGED Kernel!irqVars
      BY <1>4 DEF Kernel!cleanup_module, Kernel!LINUX_unregister_chrdev
    <2>2. live = {}
      BY <2>1
    <2> QED BY <2>1, <2>2 DEF Kernel!irqVars
  <1>5. ASSUME NEW irq \in Irqs, NEW ctx \in Ctxs, Kernel!LINUX_request_irq(irq, ctx)
        PROVE  WrappersKept'
    <2>1. PICK n \in Kernel!Wrappers \ Kernel!Made :
             /\ loaded = "in"
             /\ live' = live \cup {[id |-> n, irq |-> irq, ctx |-> ctx]}
             /\ hw' = hw \cup {[id |-> n, irq |-> irq, ctx |-> ctx]}
             /\ calls' = calls \cup {[op |-> "insert", w |-> [id |-> n, irq |-> irq, ctx |-> ctx]]}
             /\ sameCtx' = (sameCtx \/ \E v \in live : v.ctx = ctx /\ v.irq # irq)
             /\ UNCHANGED <<c_list, loaded, resources>>
      BY <1>5, Zenon DEF Kernel!LINUX_request_irq
    <2> DEFINE w == [id |-> n, irq |-> irq, ctx |-> ctx]
    <2>2. w \in Wrapped /\ w.id = n /\ w.ctx = ctx /\ w.irq = irq
      BY <2>1 DEF Wrapped, Kernel!Wrappers
    <2>3. \A v \in live : v.id # w.id /\ v # w
      BY <2>1 DEF Kernel!Made
    <2>4. /\ live' = live \cup {w} /\ hw' = hw \cup {w}
          /\ calls' = calls \cup {[op |-> "insert", w |-> w]}
      BY <2>1
    <2>5. ~sameCtx' => ~sameCtx /\ \A v \in live : v.ctx = w.ctx => v.irq = w.irq
      BY <2>1, <2>2
    <2>6. UNCHANGED <<c_list, loaded, resources>> /\ loaded = "in"
      BY <2>1
    <2> HIDE DEF w
    <2>7. /\ (live \subseteq Wrapped)' /\ (c_list \in Seq(Wrapped))'
          /\ (\A u, v \in live : u.id = v.id => u = v)'
      BY <2>2, <2>3, <2>4, <2>6
    <2>8. /\ (\A c \in calls : c.w \in live)'
          /\ (\A c, d \in calls : c.w = d.w => c = d)'
      BY <2>3, <2>4
    <2>9. /\ (\A i \in 1 .. Len(c_list) : c_list[i] \in live)'
          /\ (\A i, j \in 1 .. Len(c_list) : c_list[i] = c_list[j] => i = j)'
      BY <2>4, <2>6
    <2>10. (\A i \in 1 .. Len(c_list), c \in calls : c.w # c_list[i])'
      BY <2>3, <2>4, <2>6
    <2>11. (\A v \in live : (\E i \in 1 .. Len(c_list) : c_list[i] = v) \/ \E c \in calls : c.w = v)'
      <3> DEFINE call == [op |-> "insert", w |-> w]
      <3>0. call \in calls' /\ call.w = w
        BY <2>4
      <3> HIDE DEF call
      <3>1. \E c \in calls' : c.w = w
        BY <3>0
      <3> QED BY <2>4, <2>6, <3>1
    <2>12. (~sameCtx => /\ hw = live
                        /\ \A u, v \in live : u.ctx = v.ctx => u.irq = v.irq
                        /\ \A c \in calls : c.op = "free" => c.irq = c.w.irq)'
      BY <2>4, <2>5
    <2> QED BY <2>6, <2>7, <2>8, <2>9, <2>10, <2>11, <2>12
  <1>6. CASE Kernel!InsertWrapper
    <2>1. PICK c \in calls : /\ c_list' = <<c.w>> \o c_list /\ calls' = calls \ {c}
                             /\ c.op = "insert"
                             /\ UNCHANGED <<live, hw, sameCtx, loaded, resources>>
      BY <1>6 DEF Kernel!InsertWrapper
    <2>2. c.w \in live /\ c.w \in Wrapped
      OBVIOUS
    <2>3. /\ c_list' \in Seq(Wrapped) /\ Len(c_list') = Len(c_list) + 1 /\ c_list'[1] = c.w
          /\ \A i \in 1 .. Len(c_list) : c_list'[i + 1] = c_list[i]
          /\ \A i \in 2 .. Len(c_list) + 1 : c_list'[i] = c_list[i - 1]
      BY <2>1, <2>2, PutFirst
    <2>4. Len(c_list) \in Nat
      OBVIOUS
    <2>5. \A i \in 1 .. Len(c_list') :
             \/ i = 1 /\ c_list'[i] = c.w
             \/ i - 1 \in 1 .. Len(c_list) /\ c_list'[i] = c_list[i - 1]
      BY <2>3, <2>4
    <2>6. (\A i \in 1 .. Len(c_list) : c_list[i] \in live)'
      BY <2>1, <2>2, <2>5
    <2>7. (\A i, j \in 1 .. Len(c_list) : c_list[i] = c_list[j] => i = j)'
      <3> SUFFICES ASSUME NEW i \in 1 .. Len(c_list'), NEW j \in 1 .. Len(c_list'),
                          c_list'[i] = c_list'[j]
                   PROVE  i = j
        OBVIOUS
      <3>1. CASE i = 1
        BY <2>5, <3>1
      <3>2. CASE j = 1
        BY <2>5, <3>2
      <3>3. CASE i # 1 /\ j # 1
        <4>1. i - 1 = j - 1
          BY <2>5, <3>3
        <4> QED BY <4>1, <2>3, <2>4
      <3> QED BY <3>1, <3>2, <3>3
    <2>8. (\A i \in 1 .. Len(c_list), d \in calls : d.w # c_list[i])'
      <3>1. \A d \in calls' : d \in calls /\ d.w # c.w
        BY <2>1
      <3>2. \A d \in calls, i \in 1 .. Len(c_list) : d.w # c_list[i]
        OBVIOUS
      <3> QED BY ONLY <2>5, <3>1, <3>2
    <2>9. (\A v \in live : (\E i \in 1 .. Len(c_list) : c_list[i] = v) \/ \E d \in calls : d.w = v)'
      <3> SUFFICES ASSUME NEW v \in live
                   PROVE  \/ \E i \in 1 .. Len(c_list') : c_list'[i] = v
                          \/ \E d \in calls' : d.w = v
        BY <2>1
      <3>1. CASE v = c.w
        BY <2>3, <2>4, <3>1
      <3>2. ASSUME NEW i \in 1 .. Len(c_list), c_list[i] = v
            PROVE  \E k \in 1 .. Len(c_list') : c_list'[k] = v
        <4>1. i + 1 \in 1 .. Len(c_list')
          BY <2>3, <2>4
        <4> QED BY <2>3, <3>2, <4>1
      <3> QED BY <2>1, <3>1, <3>2
    <2> QED BY <2>1, <2>3, <2>6, <2>7, <2>8, <2>9
  <1>7. ASSUME NEW irq \in Irqs, NEW ctx \in Ctxs, Kernel!LINUX_free_irq(irq, ctx)
        PROVE  WrappersKept'
    <2>1. PICK v \in live : v.irq = irq /\ v.ctx = ctx
      BY <1>7 DEF Kernel!LINUX_free_irq
    <2>2. PICK i \in 1 .. Len(c_list) :
             /\ c_list[i].ctx = ctx
             /\ calls' = calls \cup {[op |-> "free", w |-> c_list[i], irq |-> irq]}
             /\ c_list' = Kernel!RemoveAt(c_list, i)
             /\ UNCHANGED <<live, hw, sameCtx, loaded, resources>>
      BY <1>7 DEF Kernel!LINUX_free_irq
    <2>3. /\ c_list' \in Seq(Wrapped) /\ Len(c_list') = Len(c_list) - 1
          /\ \A j \in 1 .. i - 1 : c_list'[j] = c_list[j]
          /\ \A j \in i .. Len(c_list) - 1 : c_list'[j] = c_list[j + 1]
      <3>1. c_list \in Seq(Wrapped) /\ c_list' = Kernel!RemoveAt(c_list, i)
        BY <2>2
      <3> QED BY ONLY <3>1, i \in 1 .. Len(c_list), TakenOut
    <2> DEFINE u == c_list[i]
               call == [op |-> "free", w |-> u, irq |-> irq]
    <2>4. u \in live /\ call.w = u /\ call.op = "free" /\ call.irq = irq
      OBVIOUS
    <2>5. ~sameCtx => u.irq = irq
      BY <2>1, <2>2, <2>4
    <2>6. calls' = calls \cup {call} /\ \A c \in calls : c.w # u
      BY <2>2
    <2>7. i \in Nat /\ Len(c_list) \in Nat
      OBVIOUS
    <2> DEFINE at(j) == IF j < i THEN j ELSE j + 1
    <2>8. \A j \in 1 .. Len(c_list') :
             at(j) \in 1 .. Len(c_list) /\ at(j) # i /\ c_list'[j] = c_list[at(j)]
      BY <2>3, <2>7
    <2>9. \A j, k \in 1 .. Len(c_list') : at(j) = at(k) => j = k
      BY <2>3, <2>7
    <2>10. \A j \in 1 .. Len(c_list) : j # i =>
              \E k \in 1 .. Len(c_list') : c_list'[k] = c_list[j]
      <3> SUFFICES ASSUME NEW j \in 1 .. Len(c_list), j # i
                   PROVE  \E k \in 1 .. Len(c_list') : c_list'[k] = c_list[j]
        OBVIOUS
      <3>1. CASE j < i
        BY <2>3, <2>7, <3>1
      <3>2. CASE j > i
        <4>1. j - 1 \in i .. Len(c_list) - 1 /\ j - 1 \in 1 .. Len(c_list') /\ (j - 1) + 1 = j
          BY <2>3, <2>7, <3>2
        <4>2. c_list'[j - 1] = c_list[j]
          BY <2>3, <4>1
        <4> QED BY <4>1, <4>2
      <3> QED BY <2>7, <3>1, <3>2
    <2> HIDE DEF u, call, at
    <2>11. c_list[i] = u
      BY DEF u
    <2>12. /\ (\A c \in calls : c.w \in live)'
           /\ (\A c, d \in calls : c.w = d.w => c = d)'
      BY <2>2, <2>4, <2>6
    <2>13. /\ (\A j \in 1 .. Len(c_list) : c_list[j] \in live)'
           /\ (\A j, k \in 1 .. Len(c_list) : c_list[j] = c_list[k] => j = k)'
      <3>1. \A j \in 1 .. Len(c_list') : c_list'[j] \in live
        BY <2>8
      <3>2. ASSUME NEW j \in 1 .. Len(c_list'), NEW k \in 1 .. Len(c_list'),
                   c_list'[j] = c_list'[k]
            PROVE  j = k
        <4>1. c_list[at(j)] = c_list[at(k)] /\ at(j) \in 1 .. Len(c_list)
              /\ at(k) \in 1 .. Len(c_list)
          BY <2>8, <3>2
        <4>2. at(j) = at(k)
          BY <4>1
        <4> QED BY <2>9, <4>2
      <3> QED BY <2>2, <3>1, <3>2
    <2>14. (\A j \in 1 .. Len(c_list), c \in calls : c.w # c_list[j])'
      BY <2>4, <2>6, <2>8, <2>11
    <2>15. (\A w \in live : (\E j \in 1 .. Len(c_list) : c_list[j] = w) \/ \E c \in calls : c.w = w)'
      BY <2>2, <2>4, <2>6, <2>10, <2>11
    <2>16. (~sameCtx => /\ hw = live
                        /\ \A w, x \in live : w.ctx = x.ctx => w.irq = x.irq
                        /\ \A c \in calls : c.op = "free" => c.irq = c.w.irq)'
      BY <2>2, <2>4, <2>5, <2>6
    <2> QED BY <2>2, <2>3, <2>12, <2>13, <2>14, <2>15, <2>16
  <1>8. CASE Kernel!FreeWrapper
    <2>1. PICK c \in calls : /\ c.op = "free" /\ c.w \in live /\ live' = live \ {c.w}
                             /\ hw' = (IF c.irq = c.w.irq THEN hw \ {c.w} ELSE hw)
                             /\ calls' = calls \ {c}
                             /\ UNCHANGED <<c_list, sameCtx, loaded, resources>>
      BY <1>8 DEF Kernel!FreeWrapper, Kernel!ReleaseWrapper
    <2>2. (\A d \in calls : d.w \in live)' /\ (\A d, e \in calls : d.w = e.w => d = e)'
      BY <2>1
    <2>3. (\A i \in 1 .. Len(c_list) : c_list[i] \in live)'
      BY <2>1
    <2>4. (\A w \in live : (\E i \in 1 .. Len(c_list) : c_list[i] = w) \/ \E d \in calls : d.w = w)'
      BY <2>1
    <2>5. (~sameCtx => /\ hw = live
                       /\ \A w, x \in live : w.ctx = x.ctx => w.irq = x.irq
                       /\ \A d \in calls : d.op = "free" => d.irq = d.w.irq)'
      BY <2>1
    <2>6. Kernel!ModuleOut'
      BY <2>1
    <2> QED BY <2>1, <2>2, <2>3, <2>4, <2>5, <2>6
  <1>9. CASE \/ \E b \in DmaAddresses, s \in DmaSizes : Kernel!LINUX_build_sg_dma(b, s)
             \/ Kernel!build_dma_list_26 \/ Kernel!LINUX_free_sg_dma
    BY <1>1, <1>9 DEF Kernel!LINUX_build_sg_dma, Kernel!build_dma_list_26,
                      Kernel!LINUX_free_sg_dma
  <1>10. CASE \/ \E t \in Threads : Kernel!DoMmapLock(t) \/ Kernel!wd_mmap(t)
                                    \/ \E b \in MapBuffers : Kernel!DoMmapSet(t, b)
              \/ Kernel!LINUX_do_munmap
    BY <1>1, <1>10 DEF Kernel!DoMmapLock, Kernel!wd_mmap, Kernel!DoMmapSet,
                       Kernel!LINUX_do_munmap
  <1> QED BY <1>2, <1>3, <1>4, <1>5, <1>6, <1>7, <1>8, <1>9, <1>10
          DEF Kernel!IrqNext, Kernel!DmaNext, Kernel!MapNext

-----------------------------------------------------------------------------
(* The services: contiguous buffers and their pages *)

LEMMA DivTimes ==
    ASSUME NEW k \in Nat, NEW P \in Nat \ {0}
    PROVE  k * P \in Nat /\ (k * P) \div P = k
  <1> DEFINE n == k * P
  <1>1. n \in Nat
    OBVIOUS
  <1>2. n \div P <= k
    BY <1>1, DivBounds, TimesCancels
  <1>3. k <= n \div P
    <2>1. k * P < (n \div P) * P + P
      BY <1>1, DivBounds
    <2> QED BY <1>1, <2>1, DivBounds, TimesCancels
  <1>4. n \div P \in Nat
    BY <1>1, DivBounds
  <1> QED BY <1>1, <1>2, <1>3, <1>4

\* The pages of the first to the last byte are the pages of all the bytes.
LEMMA PagesOfBytes ==
    ASSUME NEW a \in Nat, NEW s \in Nat \ {0}, NEW P \in Nat \ {0}
    PROVE  {a + i \div P : i \in 0 .. s - 1} = a .. a + (s - 1) \div P
  <1>1. ASSUME NEW i \in 0 .. s - 1
        PROVE  a + i \div P \in a .. a + (s - 1) \div P
    <2>1. i \div P \in Nat /\ (s - 1) \div P \in Nat /\ i \div P <= (s - 1) \div P
      BY DivBounds, DivMonotone
    <2> QED BY <2>1
  <1>2. ASSUME NEW n \in a .. a + (s - 1) \div P
        PROVE  \E i \in 0 .. s - 1 : n = a + i \div P
    <2> DEFINE k == n - a
               q == (s - 1) \div P
    <2>1. q \in Nat /\ q * P <= s - 1
      BY DivBounds
    <2>2. k \in Nat /\ k <= q /\ n = a + k
      BY <2>1
    <2> HIDE DEF k, q
    <2>3. k * P \in Nat /\ k * P <= q * P /\ (k * P) \div P = k /\ q * P \in Int
      BY <2>1, <2>2, TimesMonotone, DivTimes
    <2>4. k * P \in 0 .. s - 1
      BY <2>1, <2>3
    <2> QED BY <2>2, <2>3, <2>4
  <1> QED BY <1>1, <1>2

\* The frames that are allocated hold all the bytes.
LEMMA OrderCovers ==
    ASSUME NEW s \in ServSizes
    PROVE  /\ Serv!OrderFrames(s) \in {1, 2, 4, 8}
           /\ s \in Nat \ {0} /\ s <= Serv!OrderFrames(s) * ServPage
  <1> DEFINE S == {n \in {1, 2, 4, 8} : n * ServPage >= s}
  <1>1. s \in Nat \ {0} /\ 8 \in S /\ S \subseteq {1, 2, 4, 8}
    BY CableAssumption
  <1>2. \E x \in S : \A y \in S : x <= y
    BY <1>1
  <1>3. Serv!Min(S) \in S
    BY <1>2 DEF Serv!Min
  <1>4. Serv!OrderFrames(s) = Serv!Min(S)
    BY DEF Serv!OrderFrames
  <1> QED BY <1>1, <1>3, <1>4

LEMMA PagesWithinFrames ==
    ASSUME NEW s \in ServSizes
    PROVE  (s - 1) \div ServPage \in Nat /\ (s - 1) \div ServPage < Serv!OrderFrames(s)
  <1> DEFINE q == (s - 1) \div ServPage
             n == Serv!OrderFrames(s)
  <1>1. s \in Nat \ {0} /\ s - 1 \in Nat /\ n \in {1, 2, 4, 8} /\ s <= n * ServPage
    BY OrderCovers
  <1>2. ServPage \in Nat \ {0}
    BY CableAssumption
  <1>3. q \in Nat /\ q * ServPage <= s - 1
    BY <1>1, <1>2, DivBounds
  <1> HIDE DEF q, n
  <1>4. (q + 1) * ServPage = q * ServPage + ServPage /\ q * ServPage \in Int /\ n * ServPage \in Int
    BY <1>1, <1>2, <1>3
  <1>5. (q + 1) * ServPage < n * ServPage + ServPage
    BY <1>1, <1>2, <1>3, <1>4
  <1>6. q + 1 <= n
    BY <1>1, <1>2, <1>3, <1>5, TimesCancels
  <1> QED BY <1>1, <1>3, <1>6 DEF q, n

\* The pages that are marked are frames of the buffer.
LEMMA MarkedInFrames ==
    ASSUME NEW b \in BufferRecords, b.size = 0 => b = Serv!NoBuffer
    PROVE  MarkedOf(b) \subseteq FramesOf(b)
  <1>1. CASE b.size = 0
    BY <1>1 DEF MarkedOf, Serv!NoBuffer
  <1>2. CASE b.size # 0
    <2> DEFINE q == (b.size - 1) \div ServPage
               n == Serv!OrderFrames(b.size)
    <2>1. b.size \in ServSizes /\ b.first \in Nat
      BY <1>2 DEF BufferRecords
    <2>2. q \in Nat /\ q < n /\ n \in {1, 2, 4, 8}
      BY <2>1, PagesWithinFrames, OrderCovers
    <2>3. MarkedOf(b) \subseteq b.first .. b.first + q
      BY DEF MarkedOf, Serv!PagesOf
    <2>4. FramesOf(b) = b.first .. b.first + n - 1
      BY <1>2 DEF FramesOf
    <2> HIDE DEF q, n
    <2>5. b.first .. b.first + q \subseteq b.first .. b.first + n - 1
      BY <2>1, <2>2
    <2> QED BY <2>3, <2>4, <2>5
  <1> QED BY <1>1, <1>2

\* What happens to the frames and pages when the buffer of one caller changes.
LEMMA BufferChanges ==
    ASSUME PagesKept, NEW c \in Threads, NEW b \in BufferRecords,
           b.size = 0 => b = Serv!NoBuffer,
           buffers' = [buffers EXCEPT ![c] = b],
           \A n : n \in taken' <=>
               (n \in taken /\ n \notin FramesOf(buffers[c])) \/ n \in FramesOf(b),
           \A n : n \in reserved' <=>
               (n \in reserved /\ n \notin MarkedOf(buffers[c])) \/ n \in MarkedOf(b),
           \A d \in Threads \ {c} : FramesOf(b) \cap FramesOf(buffers[d]) = {}
    PROVE  PagesKept'
  <1>1. /\ buffers \in [Threads -> BufferRecords]
        /\ \A d \in Threads : buffers[d].size = 0 => buffers[d] = Serv!NoBuffer
        /\ \A n : n \in taken <=> \E d \in Threads : n \in FramesOf(buffers[d])
        /\ \A n : n \in reserved <=> \E d \in Threads : n \in MarkedOf(buffers[d])
        /\ \A d, e \in Threads : d # e => FramesOf(buffers[d]) \cap FramesOf(buffers[e]) = {}
    BY DEF PagesKept
  <1>2. buffers' \in [Threads -> BufferRecords] /\ buffers'[c] = b
        /\ \A d \in Threads \ {c} : buffers'[d] = buffers[d]
    BY <1>1
  <1>3. \A d \in Threads : MarkedOf(buffers[d]) \subseteq FramesOf(buffers[d])
    BY <1>1, MarkedInFrames
  <1>4. \A d \in Threads : buffers'[d].size = 0 => buffers'[d] = Serv!NoBuffer
    BY <1>1, <1>2
  <1>5. \A n : n \in taken' <=> \E d \in Threads : n \in FramesOf(buffers'[d])
    <2> SUFFICES ASSUME NEW n
                 PROVE  n \in taken' <=> \E d \in Threads : n \in FramesOf(buffers'[d])
      OBVIOUS
    <2>1. (\E d \in Threads : n \in FramesOf(buffers'[d])) <=>
             n \in FramesOf(b) \/ \E d \in Threads \ {c} : n \in FramesOf(buffers[d])
      BY <1>2
    <2>2. (n \in taken /\ n \notin FramesOf(buffers[c])) <=>
             \E d \in Threads \ {c} : n \in FramesOf(buffers[d])
      BY <1>1
    <2> QED BY <2>1, <2>2
  <1>6. \A n : n \in reserved' <=> \E d \in Threads : n \in MarkedOf(buffers'[d])
    <2> SUFFICES ASSUME NEW n
                 PROVE  n \in reserved' <=> \E d \in Threads : n \in MarkedOf(buffers'[d])
      OBVIOUS
    <2>1. (\E d \in Threads : n \in MarkedOf(buffers'[d])) <=>
             n \in MarkedOf(b) \/ \E d \in Threads \ {c} : n \in MarkedOf(buffers[d])
      BY <1>2
    <2>2. \A d \in Threads \ {c} : n \in MarkedOf(buffers[d]) => n \notin MarkedOf(buffers[c])
      BY <1>1, <1>3
    <2>3. (n \in reserved /\ n \notin MarkedOf(buffers[c])) <=>
             \E d \in Threads \ {c} : n \in MarkedOf(buffers[d])
      BY <1>1, <2>2
    <2> QED BY <2>1, <2>3
  <1>7. \A d, e \in Threads : d # e => FramesOf(buffers'[d]) \cap FramesOf(buffers'[e]) = {}
    BY <1>1, <1>2
  <1> QED BY <1>2, <1>4, <1>5, <1>6, <1>7 DEF PagesKept

LEMMA PagesKeptInductive ==
    PagesKept /\ (Serv!PageNext \/ UNCHANGED pagePart) => PagesKept'
  <1> SUFFICES ASSUME PagesKept, Serv!PageNext \/ UNCHANGED pagePart
               PROVE  PagesKept'
    OBVIOUS
  <1>0. /\ buffers \in [Threads -> BufferRecords]
        /\ \A d \in Threads : buffers[d].size = 0 => buffers[d] = Serv!NoBuffer
        /\ \A n : n \in taken <=> \E d \in Threads : n \in FramesOf(buffers[d])
        /\ \A n : n \in reserved <=> \E d \in Threads : n \in MarkedOf(buffers[d])
    BY DEF PagesKept
  <1>1. CASE UNCHANGED pagePart
    BY <1>1 DEF pagePart, PagesKept
  <1>2. ASSUME NEW c \in Threads, NEW s \in ServSizes, Serv!LINUX_dma_contig_alloc(c, s)
        PROVE  PagesKept'
    <2>1. PICK f \in 0 .. Frames - Serv!OrderFrames(s) :
             /\ (f .. f + Serv!OrderFrames(s) - 1) \cap taken = {}
             /\ taken' = taken \cup (f .. f + Serv!OrderFrames(s) - 1)
             /\ buffers' = [buffers EXCEPT ![c] = [first |-> f, size |-> s, reserved |-> FALSE]]
      BY <1>2 DEF Serv!LINUX_dma_contig_alloc
    <2>2. buffers[c] = Serv!NoBuffer /\ reserved' = reserved
      BY <1>2 DEF Serv!LINUX_dma_contig_alloc
    <2> DEFINE b == [first |-> f, size |-> s, reserved |-> FALSE]
    <2>3. s \in Nat \ {0} /\ Serv!OrderFrames(s) \in {1, 2, 4, 8}
      BY OrderCovers
    <2>4. b \in BufferRecords /\ b.size # 0
      <3>1. f \in Nat
        BY <2>1, <2>3, CableAssumption
      <3> QED BY <2>3, <3>1 DEF BufferRecords
    <2>5. FramesOf(b) = f .. f + Serv!OrderFrames(s) - 1 /\ MarkedOf(b) = {}
      BY <2>3 DEF FramesOf, MarkedOf
    <2>6. FramesOf(buffers[c]) = {} /\ MarkedOf(buffers[c]) = {}
      BY <2>2 DEF FramesOf, MarkedOf, Serv!NoBuffer
    <2>7. buffers' = [buffers EXCEPT ![c] = b]
      BY <2>1
    <2> HIDE DEF b
    <2>8. \A d \in Threads \ {c} : FramesOf(b) \cap FramesOf(buffers[d]) = {}
      BY <1>0, <2>1, <2>5
    <2>9. /\ \A n : n \in taken' <=>
               (n \in taken /\ n \notin FramesOf(buffers[c])) \/ n \in FramesOf(b)
          /\ \A n : n \in reserved' <=>
               (n \in reserved /\ n \notin MarkedOf(buffers[c])) \/ n \in MarkedOf(b)
      BY <2>1, <2>2, <2>5, <2>6
    <2> QED BY <2>4, <2>7, <2>8, <2>9, BufferChanges
  <1>3. ASSUME NEW c \in Threads, Serv!LINUX_dma_contig_free(c)
        PROVE  PagesKept'
    <2> DEFINE b == Serv!NoBuffer
    <2>1. /\ buffers[c].size # 0 /\ ~buffers[c].reserved
          /\ taken' = taken \ (buffers[c].first .. buffers[c].first
                                                    + Serv!OrderFrames(buffers[c].size) - 1)
          /\ buffers' = [buffers EXCEPT ![c] = b] /\ reserved' = reserved
      BY <1>3 DEF Serv!LINUX_dma_contig_free
    <2>2. FramesOf(buffers[c]) = buffers[c].first .. buffers[c].first
                                                     + Serv!OrderFrames(buffers[c].size) - 1
      BY <2>1 DEF FramesOf
    <2>3. /\ b \in BufferRecords /\ b = Serv!NoBuffer
          /\ FramesOf(b) = {} /\ MarkedOf(b) = {} /\ MarkedOf(buffers[c]) = {}
      BY <2>1 DEF BufferRecords, FramesOf, MarkedOf, Serv!NoBuffer
    <2> HIDE DEF b
    <2>4. taken' = taken \ FramesOf(buffers[c])
      BY <2>1, <2>2
    <2> QED BY <2>1, <2>3, <2>4, BufferChanges
  <1>4. ASSUME NEW c \in Threads, Serv!LINUX_mem_map_reserve(c)
        PROVE  PagesKept'
    <2> DEFINE b == [buffers[c] EXCEPT !.reserved = TRUE]
    <2>1. /\ buffers[c].size # 0 /\ ~buffers[c].reserved
          /\ reserved' = reserved \cup Serv!PagesOf(buffers[c]) /\ taken' = taken
          /\ buffers' = [buffers EXCEPT ![c].reserved = TRUE]
      BY <1>4 DEF Serv!LINUX_mem_map_reserve
    <2>2. /\ b \in BufferRecords /\ b.first = buffers[c].first /\ b.size = buffers[c].size
          /\ b.reserved = TRUE
      BY <1>0 DEF BufferRecords
    <2>3. buffers' = [buffers EXCEPT ![c] = b]
      BY <2>1
    <2> HIDE DEF b
    <2>4. /\ FramesOf(b) = FramesOf(buffers[c]) /\ MarkedOf(b) = Serv!PagesOf(buffers[c])
          /\ MarkedOf(buffers[c]) = {}
      BY <2>1, <2>2 DEF FramesOf, MarkedOf, Serv!PagesOf
    <2>5. \A d \in Threads \ {c} : FramesOf(b) \cap FramesOf(buffers[d]) = {}
      BY <2>4 DEF PagesKept
    <2>6. \A n : n \in FramesOf(buffers[c]) => n \in taken
      BY <1>0
    <2>7. b.size # 0
      BY <2>1, <2>2
    <2>8. /\ \A n : n \in taken' <=>
               (n \in taken /\ n \notin FramesOf(buffers[c])) \/ n \in FramesOf(b)
          /\ \A n : n \in reserved' <=>
               (n \in reserved /\ n \notin MarkedOf(buffers[c])) \/ n \in MarkedOf(b)
      BY <2>1, <2>4, <2>6
    <2> QED BY <2>2, <2>3, <2>5, <2>7, <2>8, BufferChanges
  <1>5. ASSUME NEW c \in Threads, Serv!LINUX_mem_map_unreserve(c)
        PROVE  PagesKept'
    <2> DEFINE b == [buffers[c] EXCEPT !.reserved = FALSE]
    <2>1. /\ buffers[c].reserved
          /\ reserved' = reserved \ Serv!PagesOf(buffers[c]) /\ taken' = taken
          /\ buffers' = [buffers EXCEPT ![c].reserved = FALSE]
      BY <1>5 DEF Serv!LINUX_mem_map_unreserve
    <2>2. /\ b \in BufferRecords /\ b.first = buffers[c].first /\ b.size = buffers[c].size
          /\ b.reserved = FALSE
      BY <1>0 DEF BufferRecords
    <2>3. buffers' = [buffers EXCEPT ![c] = b]
      BY <2>1
    <2>4. b.size # 0
      BY <1>0, <2>1, <2>2 DEF Serv!NoBuffer
    <2> HIDE DEF b
    <2>5. /\ FramesOf(b) = FramesOf(buffers[c]) /\ MarkedOf(b) = {}
          /\ MarkedOf(buffers[c]) = Serv!PagesOf(buffers[c])
      BY <2>1, <2>2 DEF FramesOf, MarkedOf
    <2>6. \A d \in Threads \ {c} : FramesOf(b) \cap FramesOf(buffers[d]) = {}
      BY <2>5 DEF PagesKept
    <2>7. \A n : n \in FramesOf(buffers[c]) => n \in taken
      BY <1>0
    <2>8. /\ \A n : n \in taken' <=>
               (n \in taken /\ n \notin FramesOf(buffers[c])) \/ n \in FramesOf(b)
          /\ \A n : n \in reserved' <=>
               (n \in reserved /\ n \notin MarkedOf(buffers[c])) \/ n \in MarkedOf(b)
      BY <2>1, <2>5, <2>7
    <2> QED BY <2>2, <2>3, <2>4, <2>6, <2>8, BufferChanges
  <1> QED BY <1>1, <1>2, <1>3, <1>4, <1>5 DEF Serv!PageNext

-----------------------------------------------------------------------------
(* fxload: the CPU and its memory *)

LEMMA FilesAreRecords ==
    ASSUME LoaderKept, phases # <<>>
    PROVE  Hex!File \in Seq(HexRecords)
  <1>1. opts.ihex \in Firmwares \cup {<<>>}
    BY DEF LoaderKept, Hex!Options
  <1>2. \A f \in Firmwares \cup {Loader} : f \in Seq(HexRecords)
    BY CableAssumption
  <1>3. <<>> \in Seq(HexRecords)
    OBVIOUS
  <1> QED BY <1>1, <1>2, <1>3 DEF Hex!File

LEMMA OnePhase ==
    ASSUME NEW a
    PROVE  <<a>>[1] = a /\ Len(<<a>>) = 1 /\ Tail(<<a>>) = <<>> /\ <<a>> # <<>>
  OBVIOUS

LEMMA TwoPhases ==
    ASSUME NEW a, NEW b
    PROVE  /\ <<a, b>>[1] = a /\ Len(<<a, b>>) = 2 /\ <<a, b>> # <<>>
           /\ Tail(<<a, b>>) = <<b>> /\ Tail(<<a, b>>)[1] = b /\ Tail(<<a, b>>) # <<>>
           /\ <<a>> \o <<b>> = <<a, b>>
  <1>1. <<a, b>>[1] = a /\ Len(<<a, b>>) = 2 /\ <<a, b>> # <<>>
    OBVIOUS
  <1>2. Tail(<<a, b>>) = <<b>> /\ <<b>>[1] = b /\ <<b>> # <<>>
    OBVIOUS
  <1>3. <<a>> \o <<b>> = <<a, b>>
    <2> DEFINE S == {a, b}
               s == <<a>> \o <<b>>
               t == <<a, b>>
    <2>1. s \in Seq(S) /\ Len(s) = 2 /\ s[1] = a /\ s[2] = b
      OBVIOUS
    <2>2. t \in Seq(S) /\ Len(t) = 2 /\ t[1] = a /\ t[2] = b
      OBVIOUS
    <2> HIDE DEF s, t
    <2>3. \A i \in 1 .. Len(s) : s[i] = t[i]
      BY <2>1, <2>2
    <2>4. s = t
      BY <2>1, <2>2, <2>3, SameElements
    <2> QED BY <2>4 DEF s, t
  <1> QED BY <1>1, <1>2, <1>3

LEMMA ThreePhases ==
    ASSUME NEW a, NEW b, NEW c
    PROVE  /\ <<a, b, c>>[1] = a /\ Len(<<a, b, c>>) = 3 /\ <<a, b, c>> # <<>>
           /\ Tail(<<a, b, c>>) = <<b, c>> /\ Tail(<<a, b, c>>)[1] = b
           /\ Tail(<<a, b, c>>) # <<>> /\ <<a>> \o <<b, c>> = <<a, b, c>>
  <1>1. <<a, b, c>>[1] = a /\ Len(<<a, b, c>>) = 3 /\ <<a, b, c>> # <<>>
    OBVIOUS
  <1>2. Tail(<<a, b, c>>) = <<b, c>> /\ <<b, c>>[1] = b /\ <<b, c>> # <<>>
    OBVIOUS
  <1>3. <<a>> \o <<b, c>> = <<a, b, c>>
    <2> DEFINE S == {a, b, c}
               s == <<a>> \o <<b, c>>
               t == <<a, b, c>>
    <2>1. s \in Seq(S) /\ Len(s) = 3 /\ s[1] = a /\ s[2] = b /\ s[3] = c
      OBVIOUS
    <2>2. t \in Seq(S) /\ Len(t) = 3 /\ t[1] = a /\ t[2] = b /\ t[3] = c
      OBVIOUS
    <2> HIDE DEF s, t
    <2>3. \A i \in 1 .. Len(s) : s[i] = t[i]
      BY <2>1, <2>2
    <2>4. s = t
      BY <2>1, <2>2, <2>3, SameElements
    <2> QED BY <2>4 DEF s, t
  <1> QED BY <1>1, <1>2, <1>3

\* What the phases may be that begin with a given mode, and those that follow.
LEMMA PhasesFollow ==
    ASSUME phases \in PhasesLeft, phases # <<>>
    PROVE  /\ Tail(phases) \in PhasesLeft
           /\ Hex!Mode \in {"internal_only", "skip_internal", "skip_external", "eeprom"}
           /\ phases[1].loader \in BOOLEAN
           /\ Len(phases) = 1 => Tail(phases) = <<>>
           /\ Len(phases) # 1 => Tail(phases) # <<>>
           /\ Len(phases) # 1 /\ Tail(phases)[1].mode = "skip_internal" =>
                 phases[1].loader /\ Hex!Mode = "internal_only"
  <1>1. CASE phases = <<Pass(FALSE, "internal_only")>>
    <2>1. /\ phases[1] = Pass(FALSE, "internal_only") /\ Len(phases) = 1
          /\ Tail(phases) = <<>>
      BY ONLY <1>1, OnePhase
    <2>2. Tail(phases) \in PhasesLeft
      BY <2>1 DEF PhasesLeft
    <2> QED BY ONLY <2>1, <2>2 DEF Pass, Hex!Mode
  <1>2. CASE phases = <<Pass(FALSE, "eeprom")>>
    <2>1. /\ phases[1] = Pass(FALSE, "eeprom") /\ Len(phases) = 1
          /\ Tail(phases) = <<>>
      BY ONLY <1>2, OnePhase
    <2>2. Tail(phases) \in PhasesLeft
      BY <2>1 DEF PhasesLeft
    <2> QED BY ONLY <2>1, <2>2 DEF Pass, Hex!Mode
  <1>3. CASE phases = <<Pass(FALSE, "skip_external")>>
    <2>1. /\ phases[1] = Pass(FALSE, "skip_external") /\ Len(phases) = 1
          /\ Tail(phases) = <<>>
      BY ONLY <1>3, OnePhase
    <2>2. Tail(phases) \in PhasesLeft
      BY <2>1 DEF PhasesLeft
    <2> QED BY ONLY <2>1, <2>2 DEF Pass, Hex!Mode
  <1>4. CASE phases = <<Pass(TRUE, "internal_only"), Pass(FALSE, "eeprom")>>
    <2>1. /\ phases[1] = Pass(TRUE, "internal_only") /\ Len(phases) = 2
          /\ Tail(phases) = <<Pass(FALSE, "eeprom")>>
          /\ Tail(phases)[1] = Pass(FALSE, "eeprom") /\ Tail(phases) # <<>>
      BY ONLY <1>4, TwoPhases
    <2>2. Tail(phases) \in PhasesLeft
      BY <2>1 DEF PhasesLeft
    <2> QED BY ONLY <2>1, <2>2 DEF Pass, Hex!Mode
  <1>5. CASE phases = <<Pass(FALSE, "skip_internal"), Pass(FALSE, "skip_external")>>
    <2>1. /\ phases[1] = Pass(FALSE, "skip_internal") /\ Len(phases) = 2
          /\ Tail(phases) = <<Pass(FALSE, "skip_external")>>
          /\ Tail(phases)[1] = Pass(FALSE, "skip_external") /\ Tail(phases) # <<>>
      BY ONLY <1>5, TwoPhases
    <2>2. Tail(phases) \in PhasesLeft
      BY <2>1 DEF PhasesLeft
    <2> QED BY ONLY <2>1, <2>2 DEF Pass, Hex!Mode
  <1>6. CASE phases =
            <<Pass(TRUE, "internal_only"), Pass(FALSE, "skip_internal"), Pass(FALSE, "skip_external")>>
    <2>1. /\ phases[1] = Pass(TRUE, "internal_only") /\ Len(phases) = 3
          /\ Tail(phases) = <<Pass(FALSE, "skip_internal"), Pass(FALSE, "skip_external")>>
          /\ Tail(phases)[1] = Pass(FALSE, "skip_internal") /\ Tail(phases) # <<>>
      <3> DEFINE a == Pass(TRUE, "internal_only")
                 b == Pass(FALSE, "skip_internal")
                 c == Pass(FALSE, "skip_external")
      <3>2. phases = <<a, b, c>>
        BY <1>6
      <3> HIDE DEF a, b, c
      <3>3. /\ phases[1] = a /\ Len(phases) = 3 /\ Tail(phases) = <<b, c>>
            /\ Tail(phases)[1] = b /\ Tail(phases) # <<>>
        BY ONLY <3>2, ThreePhases
      <3> QED BY <3>3 DEF a, b, c
    <2>2. Tail(phases) \in PhasesLeft
      BY <2>1 DEF PhasesLeft
    <2> QED BY ONLY <2>1, <2>2 DEF Pass, Hex!Mode
  <1> QED BY <1>1, <1>2, <1>3, <1>4, <1>5, <1>6 DEF PhasesLeft

LEMMA Flushed ==
    ASSUME NEW s \in Segments, NEW n \in Nat
    PROVE  /\ [addr |-> s.addr, data |-> s.data, first |-> FALSE] \in Segments
           /\ [s EXCEPT !.addr = n, !.data = <<>>] \in Segments
  <1>1. s.addr \in Nat /\ s.data \in Seq(FileBytes) /\ s.first \in BOOLEAN
    BY DEF Segments
  <1>2. <<>> \in Seq(FileBytes)
    OBVIOUS
  <1>3. [s EXCEPT !.addr = n] \in Segments
    BY DEF Segments
  <1>4. \A t \in Segments : [t EXCEPT !.data = <<>>] \in Segments
    BY <1>2 DEF Segments
  <1>5. [s EXCEPT !.addr = n, !.data = <<>>] = [[s EXCEPT !.addr = n] EXCEPT !.data = <<>>]
    OBVIOUS
  <1>6. [addr |-> s.addr, data |-> s.data, first |-> FALSE] \in Segments
    BY <1>1 DEF Segments
  <1> QED BY <1>3, <1>4, <1>5, <1>6

LEMMA LoaderKeptInductive ==
    LoaderKept /\ (Hex!Next \/ UNCHANGED hexPart) => LoaderKept'
  <1> SUFFICES ASSUME LoaderKept, Hex!Next \/ UNCHANGED hexPart
               PROVE  LoaderKept'
    OBVIOUS
  <1>0. /\ phases \in PhasesLeft /\ line \in Nat /\ seg \in Segments /\ out \in Segments
        /\ opts \in Hex!Options /\ DOMAIN ram = Hex!Addresses
        /\ pc \in {"begin", "parse", "poke", "run"} => phases # <<>>
        /\ pc \in {"parse", "poke", "run"} /\ Hex!Mode \in {"internal_only", "skip_external"} =>
              cpu = "stopped"
        /\ pc \in {"begin", "parse", "poke", "run"} /\ Hex!Mode = "skip_internal" =>
              cpu = "loader"
    BY DEF LoaderKept
  <1> USE DEF Hex!Goto, Hex!Fail, Hex!Load, Hex!Device
  <1>a. Hex!Empty \in Segments
    BY DEF Hex!Empty, Segments
  <1>b. ASSUME UNCHANGED <<phases, cpu, opts>>, DOMAIN ram' = Hex!Addresses, line' \in Nat,
               seg' \in Segments, out' \in Segments,
               \/ pc' \notin {"begin", "parse", "poke", "run"}
               \/ pc \in {"parse", "poke", "run"} /\ pc' \in {"parse", "poke", "run"}
        PROVE  LoaderKept'
    BY <1>0, <1>b DEF LoaderKept, Hex!Mode
  <1>1. CASE UNCHANGED hexPart
    BY <1>0, <1>1 DEF hexPart, LoaderKept, Hex!Mode
  <1>2. CASE Hex!main
    <2>1. CASE phases' = Hex!Passes /\ pc' = "begin"
      <3>1. /\ Hex!Passes \in PhasesLeft /\ Hex!Passes # <<>>
            /\ Hex!Passes[1].mode # "skip_internal"
        <4>1. CASE opts.stage1 /\ opts.config
          <5>1. Hex!Passes = <<Pass(TRUE, "internal_only"), Pass(FALSE, "eeprom")>>
            <6>1. Hex!Passes = <<Pass(TRUE, "internal_only")>> \o <<Pass(FALSE, "eeprom")>>
              BY <4>1 DEF Hex!Passes, Hex!Pass, Pass
            <6> QED BY ONLY <6>1, TwoPhases
          <5>2. Hex!Passes[1] = Pass(TRUE, "internal_only") /\ Hex!Passes # <<>>
            BY ONLY <5>1, TwoPhases
          <5> QED BY <5>1, <5>2 DEF PhasesLeft, Pass
        <4>2. CASE opts.stage1 /\ ~opts.config
          <5>1. Hex!Passes = <<Pass(TRUE, "internal_only"), Pass(FALSE, "skip_internal"),
                               Pass(FALSE, "skip_external")>>
            <6>1. Hex!Passes = <<Pass(TRUE, "internal_only")>>
                               \o <<Pass(FALSE, "skip_internal"), Pass(FALSE, "skip_external")>>
              BY <4>2 DEF Hex!Passes, Hex!Pass, Pass
            <6> QED BY ONLY <6>1, ThreePhases
          <5>2. Hex!Passes[1] = Pass(TRUE, "internal_only") /\ Hex!Passes # <<>>
            BY ONLY <5>1, ThreePhases
          <5> QED BY <5>1, <5>2 DEF PhasesLeft, Pass
        <4>3. CASE ~opts.stage1
          BY <4>3 DEF Hex!Passes, Hex!Pass, PhasesLeft, Pass
        <4> QED BY <4>1, <4>2, <4>3
      <3>2. Hex!Mode' # "skip_internal"
        BY <2>1, <3>1 DEF Hex!Mode
      <3>3. UNCHANGED <<opts, line, seg, out, ram>>
        BY <1>2 DEF Hex!main
      <3> QED BY <1>0, <2>1, <3>1, <3>2, <3>3 DEF LoaderKept
    <2>2. CASE pc' \in {"usage", "link"} /\ phases' = phases
      BY <1>0, <1>2, <1>b, <2>2 DEF Hex!main
    <2> QED BY <1>2, <2>1, <2>2 DEF Hex!main
  <1>3. CASE Hex!Finish
    BY <1>0, <1>3, <1>b DEF Hex!Finish
  <1>4. CASE Hex!BeginRam
    <2>1. /\ pc = "begin" /\ pc' \in {"parse", "failed"}
          /\ line' = 1 /\ seg' = Hex!Empty /\ out' = Hex!Empty
          /\ UNCHANGED <<opts, phases, ram>>
          /\ pc' = "parse" => cpu' = IF Hex!Mode = "skip_internal" THEN cpu ELSE "stopped"
      BY <1>4 DEF Hex!BeginRam, Hex!BeginFile, Hex!ezusb_cpucs
    <2>2. Hex!Mode' = Hex!Mode
      BY <2>1 DEF Hex!Mode
    <2> QED BY <1>0, <1>a, <2>1, <2>2 DEF LoaderKept
  <1>5. CASE Hex!BeginEeprom
    <2>1. /\ Hex!Mode = "eeprom" /\ pc = "begin" /\ pc' \in {"parse", "failed"}
          /\ line' = 1 /\ seg' = Hex!Empty /\ out' = Hex!Empty
          /\ UNCHANGED <<opts, phases, ram, cpu>>
      BY <1>5 DEF Hex!BeginEeprom, Hex!BeginFile
    <2>2. Hex!Mode' = Hex!Mode
      BY <2>1 DEF Hex!Mode
    <2> QED BY <1>0, <1>a, <2>1, <2>2 DEF LoaderKept
  <1>6. CASE Hex!Run
    <2>1. UNCHANGED <<opts, line, seg, out, ram>> /\ phases # <<>>
      BY <1>0, <1>6 DEF Hex!Run
    <2>2. CASE /\ phases' = Tail(phases)
               /\ IF Hex!Mode = "skip_internal" THEN UNCHANGED cpu
                  ELSE cpu' = IF phases[1].loader THEN "loader" ELSE "firmware"
               /\ pc' = IF Len(phases) = 1 THEN "link" ELSE "begin"
      <3>1. phases' \in PhasesLeft /\ (pc' = "begin" => phases' # <<>>)
        BY <1>0, <2>1, <2>2, PhasesFollow
      <3>2. pc' = "begin" /\ Hex!Mode' = "skip_internal" => cpu' = "loader"
        <4>1. Hex!Mode' = Tail(phases)[1].mode
          BY <2>2 DEF Hex!Mode
        <4> QED BY <1>0, <2>1, <2>2, <4>1, PhasesFollow
      <3> QED BY <1>0, <2>1, <2>2, <3>1, <3>2 DEF LoaderKept
    <2>3. CASE pc' = "failed" /\ UNCHANGED <<phases, cpu>>
      BY <1>0, <1>b, <2>1, <2>3
    <2> QED BY <1>6, <2>2, <2>3 DEF Hex!Run, Hex!ezusb_cpucs
  <1>7. CASE Hex!ParseRecord
    <2>1. /\ pc = "parse" /\ line \in DOMAIN Hex!File
          /\ UNCHANGED <<opts, phases, ram, cpu>> /\ phases # <<>>
      BY <1>0, <1>7 DEF Hex!ParseRecord, Hex!EndOfFile
    <2> DEFINE rec == Hex!File[line]
    <2>2. rec \in HexRecords
      BY <2>1, FilesAreRecords
    <2>3. CASE rec.kind = "comment" /\ line' = line + 1 /\ UNCHANGED <<seg, out, pc>>
      BY <1>0, <1>b, <2>1, <2>3
    <2>4. CASE rec.kind = "bad" /\ pc' = "failed" /\ UNCHANGED <<line, seg, out>>
      BY <1>0, <1>b, <2>1, <2>4
    <2>5. CASE Hex!Flush(rec.off)
      <3>1. /\ out' = [addr |-> seg.addr, data |-> seg.data, first |-> FALSE]
            /\ seg' = [seg EXCEPT !.addr = rec.off, !.data = <<>>]
            /\ pc' = "poke" /\ line' = line
        BY <2>5 DEF Hex!Flush
      <3>2. out' \in Segments /\ seg' \in Segments
        BY <1>0, <2>2, <3>1, Flushed DEF HexRecords
      <3> QED BY <1>0, <1>b, <2>1, <3>1, <3>2
    <2>6. CASE Hex!Append1(rec)
      <3> DEFINE new == [j \in 1 .. rec.len |-> Hex!Byte(line, j)]
                 start == IF seg.first THEN rec.off ELSE seg.addr
      <3>1. /\ seg' = [addr |-> start, first |-> FALSE, data |-> seg.data \o new]
            /\ line' = line + 1 /\ UNCHANGED <<out, pc>>
        BY <2>6 DEF Hex!Append1
      <3>2. rec.len \in Nat /\ start \in Nat /\ seg.data \in Seq(FileBytes)
        BY <1>0, <2>2 DEF HexRecords, Segments
      <3>3. \A j \in 1 .. rec.len : Hex!Byte(line, j) \in FileBytes
        BY <1>0, <2>1, <3>2, PhasesFollow DEF Hex!Byte, FileBytes
      <3>4. new \in Seq(FileBytes)
        BY <3>2, <3>3
      <3>5. seg.data \o new \in Seq(FileBytes)
        BY ONLY <3>2, <3>4, Joined
      <3> HIDE DEF new, start
      <3>6. seg' \in Segments
        BY <3>1, <3>2, <3>5 DEF Segments
      <3> QED BY <1>0, <1>b, <2>1, <3>1, <3>6
    <2> QED BY <1>7, <2>3, <2>4, <2>5, <2>6 DEF Hex!ParseRecord
  <1>8. CASE Hex!ParseEnd
    <2>1. pc = "parse" /\ UNCHANGED <<opts, phases, ram, cpu>>
      BY <1>8 DEF Hex!ParseEnd
    <2>2. CASE Hex!Flush(seg.addr)
      <3>1. /\ out' = [addr |-> seg.addr, data |-> seg.data, first |-> FALSE]
            /\ seg' = [seg EXCEPT !.addr = seg.addr, !.data = <<>>]
            /\ pc' = "poke" /\ line' = line
        BY <2>2 DEF Hex!Flush
      <3>2. out' \in Segments /\ seg' \in Segments
        <4>1. seg.addr \in Nat
          BY <1>0 DEF Segments
        <4> QED BY <1>0, <3>1, <4>1, Flushed
      <3> QED BY <1>0, <1>b, <2>1, <3>1, <3>2
    <2>3. CASE pc' \in {"last", "run"} /\ UNCHANGED <<line, seg, out>>
      BY <1>0, <1>b, <2>1, <2>3
    <2> QED BY <1>8, <2>2, <2>3 DEF Hex!ParseEnd
  <1>9. CASE Hex!ram_poke
    <2>1. /\ pc = "poke" /\ pc' \in {"parse", "poke", "failed"} /\ ram' \in {ram, Hex!Written}
          /\ UNCHANGED <<opts, phases, line, seg, out, cpu>>
      BY <1>9 DEF Hex!ram_poke
    <2>2. DOMAIN ram' = Hex!Addresses
      BY <1>0, <2>1 DEF Hex!Written
    <2> QED BY <1>0, <1>b, <2>1, <2>2
  <1>10. CASE Hex!eeprom_poke
    BY <1>0, <1>b, <1>10 DEF Hex!eeprom_poke
  <1>11. CASE Hex!EepromLast \/ Hex!EepromConfig
    BY <1>0, <1>b, <1>11 DEF Hex!EepromLast, Hex!EepromConfig
  <1>12. CASE Hex!EepromType
    <2>1. pc' \in {"link", "failed"} /\ UNCHANGED <<opts, line, seg, out, ram, cpu>>
      BY <1>12 DEF Hex!EepromType
    <2>2. phases' \in PhasesLeft
      <3>1. phases' = phases \/ phases' = Tail(phases)
        BY <1>12 DEF Hex!EepromType
      <3>2. phases = <<>> => Tail(phases) \in PhasesLeft
        BY DEF PhasesLeft
      <3> QED BY <1>0, <3>1, <3>2, PhasesFollow
    <2> QED BY <1>0, <2>1, <2>2 DEF LoaderKept
  <1> QED BY <1>1, <1>2, <1>3, <1>4, <1>5, <1>6, <1>7, <1>8, <1>9, <1>10, <1>11, <1>12
          DEF Hex!Next

\* A segment that lies on one side of each border of the chip's memory is written into
\* it only while the CPU stands still.
LEMMA RunningCodeKept ==
    ASSUME LoaderKept, Hex!Next \/ UNCHANGED hexPart
    PROVE  Hex!RunningCodeStep
  <1> SUFFICES ASSUME ram' # ram, cpu # "stopped", ~Hex!Straddles
               PROVE  /\ cpu = "loader"
                      /\ \A a \in Hex!Addresses : ram'[a] # ram[a] =>
                            ~\E r \in ChipRegions : a \in r[1] .. r[2] - 1
    BY DEF Hex!RunningCodeStep
  <1>1. Hex!ram_poke
    BY DEF Hex!Next, hexPart, Hex!main, Hex!Finish, Hex!BeginRam, Hex!BeginEeprom, Hex!Run,
           Hex!ParseRecord, Hex!ParseEnd, Hex!eeprom_poke, Hex!EepromLast, Hex!EepromConfig,
           Hex!EepromType, Hex!Load, Hex!Device
  <1>2. pc = "poke" /\ ~Hex!Skipped /\ ram' = Hex!Written /\ Hex!Mode # "eeprom"
    BY <1>1 DEF Hex!ram_poke
  <1>3. Hex!Mode = "skip_internal" /\ cpu = "loader"
    BY <1>2, PhasesFollow DEF LoaderKept
  <1>4. Hex!External
    BY <1>2, <1>3 DEF Hex!Skipped
  <1>5. out.addr \in Nat /\ Len(out.data) \in Nat
    BY DEF LoaderKept, Segments
  <1>6. ASSUME NEW a \in Hex!Addresses, ram'[a] # ram[a],
               NEW r \in ChipRegions, a \in r[1] .. r[2] - 1
        PROVE  FALSE
    <2>1. a \in out.addr .. out.addr + Len(out.data) - 1
      BY <1>2, <1>6 DEF Hex!Written
    <2>2. r[1] \in Nat /\ r[2] \in Nat
      BY CableAssumption
    <2>3. out.addr < r[2] /\ r[1] < out.addr + Len(out.data)
      BY <1>5, <1>6, <2>1, <2>2
    <2>4. ~(out.addr < r[1]) /\ ~(out.addr + Len(out.data) > r[2])
      BY <2>3 DEF Hex!Straddles
    <2>5. r[1] <= out.addr /\ out.addr < r[2] /\ out.addr + Len(out.data) <= r[2]
      BY <1>5, <2>2, <2>3, <2>4
    <2> QED BY <1>4, <2>5 DEF Hex!External, Hex!is_external
  <1> QED BY <1>3, <1>6

-----------------------------------------------------------------------------
(* fxload: the segments of a file *)

\* When the file has been read to its end, each byte is in a segment that was written.
LEMMA WrittenAtEnd ==
    ASSUME NEW f \in Seq(HexRecords), NEW n \in 0 .. Len(f), Ends(f, n),
           NEW i \in 1 .. Len(f), Hex!Data(f[i]), Hex!BeforeEof(f, i),
           NEW j \in 1 .. f[i].len
    PROVE  \E k \in 1 .. Len(f) : Flushes(f, k) /\ \E m \in 1 .. Len(SegOf(f)[k].data) :
               SegOf(f)[k].data[m] = Hex!FileByte(i, j)
  <1>0. Len(f) \in Nat /\ Hex!BeforeEof(f, n)
    BY DEF Ends
  <1>1. i \in 1 .. n
    <2>1. SUFFICES ASSUME n < i
                   PROVE  FALSE
      OBVIOUS
    <2>2. n < Len(f) /\ n + 1 \in 1 .. i
      BY <1>0, <2>1
    <2>3. f[n + 1].kind = "eof"
      BY <2>2 DEF Ends
    <2> QED BY <2>2, <2>3 DEF Hex!BeforeEof
  <1>2. HasRecord(f, n, i) \/ \E l \in 1 .. Len(f) : Flushes(f, l) /\ HasRecord(f, l, i)
    BY <1>0, <1>1, AllCovered DEF Covered
  <1>3. CASE HasRecord(f, n, i)
    <2>1. PICK m \in 1 .. Len(SegOf(f)[n].data) : SegOf(f)[n].data[m] = Hex!FileByte(i, j)
      BY <1>3 DEF HasRecord
    <2>2. SegOf(f)[n].data # <<>>
      BY <2>1
    <2>3. n \in 1 .. Len(f)
      BY <1>0, <1>1
    <2>4. Flushes(f, n)
      BY <1>0, <2>2, <2>3 DEF Flushes
    <2> QED BY <2>1, <2>3, <2>4
  <1>4. CASE \E l \in 1 .. Len(f) : Flushes(f, l) /\ HasRecord(f, l, i)
    BY <1>4 DEF HasRecord
  <1> QED BY <1>2, <1>3, <1>4

LEMMA FirstEmpty ==
    ASSUME NEW f \in Seq(HexRecords)
    PROVE  \A k \in 0 .. Len(f) : SegOf(f)[k].data # <<>> => SegOf(f)[k].first = FALSE
  <1> DEFINE T == {k \in 0 .. Len(f) : SegOf(f)[k].data # <<>> => SegOf(f)[k].first = FALSE}
  <1>0. Len(f) \in Nat
    OBVIOUS
  <1>1. 0 \in T
    <2>1. SegOf(f)[0].data = <<>>
      BY <1>0, SegmentsExist DEF Hex!Empty
    <2> QED BY <1>0, <2>1
  <1>2. \A k \in 1 .. Len(f) : k - 1 \in T => k \in T
    <2> SUFFICES ASSUME NEW k \in 1 .. Len(f), k - 1 \in T
                 PROVE  k \in T
      OBVIOUS
    <2>1. SegOf(f)[k] = After(SegOf(f)[k - 1], f, k)
      BY <1>0, SegmentsExist
    <2>2. SegOf(f)[k].first = FALSE \/ SegOf(f)[k] = SegOf(f)[k - 1]
      BY <2>1 DEF After, Extended
    <2> QED BY <2>2
  <1> HIDE DEF T
  <1>3. \A k \in 0 .. Len(f) : k \in T
    BY <1>0, <1>1, <1>2, UpTo
  <1> QED BY <1>3 DEF T

-----------------------------------------------------------------------------
(* fxload: reading the file *)

LEMMA FirmwareRecords ==
    ASSUME LoaderKept
    PROVE  /\ opts.ihex \in Seq(HexRecords) /\ Len(opts.ihex) \in Nat
           /\ DOMAIN opts.ihex = 1 .. Len(opts.ihex) /\ Fits(opts.ihex)
  <1>1. opts.ihex \in Firmwares \cup {<<>>}
    BY DEF LoaderKept, Hex!Options
  <1>2. \A f \in Firmwares : f \in Seq(HexRecords) /\ Fits(f)
    BY CableAssumption DEF Fits, Hex!Data
  <1>3. <<>> \in Seq(HexRecords) /\ Fits(<<>>)
    BY DEF Fits
  <1>4. opts.ihex \in Seq(HexRecords) /\ Fits(opts.ihex)
    BY <1>1, <1>2, <1>3
  <1> QED BY <1>4

\* A record is added to the segment as SegOf says.
LEMMA RecordAdded ==
    ASSUME NEW f \in Seq(HexRecords), NEW k \in 0 .. Len(f) - 1, Hex!Data(f[k + 1]),
           seg \in Segments, seg = SegOf(f)[k] \/ Emptied(f, k), ~Parted(seg, f[k + 1]),
           seg' = [addr |-> IF seg.first THEN f[k + 1].off ELSE seg.addr, first |-> FALSE,
                   data |-> seg.data \o RecBytes(f, k + 1)]
    PROVE  seg' = SegOf(f)[k + 1]
  <1>1. Len(f) \in Nat /\ k + 1 \in 1 .. Len(f) /\ (k + 1) - 1 = k /\ k < Len(f)
    OBVIOUS
  <1>2. SegOf(f)[k + 1] = Extended(Opened(SegOf(f)[k], f[k + 1]), f, k + 1)
    BY <1>1, SegmentsExist DEF After
  <1>3. CASE seg = SegOf(f)[k]
    <2>1. Opened(SegOf(f)[k], f[k + 1]) = seg
      BY <1>3 DEF Opened
    <2> QED BY <1>2, <2>1 DEF Extended
  <1>4. CASE Emptied(f, k)
    <2>1. seg.data = <<>> /\ ~seg.first /\ seg.addr = f[k + 1].off /\ Flushes(f, k)
      BY <1>1, <1>4 DEF Emptied
    <2>2. Parted(SegOf(f)[k], f[k + 1])
      BY <1>1, <2>1 DEF Flushes, Ends, Hex!Data
    <2>3. Opened(SegOf(f)[k], f[k + 1]) = [addr |-> f[k + 1].off, data |-> <<>>, first |-> FALSE]
      BY <2>2 DEF Opened
    <2> QED BY <1>2, <2>1, <2>3 DEF Extended
  <1> QED BY <1>3, <1>4

\* A segment that is taken out is one that SegOf says is written.
LEMMA SegmentTaken ==
    ASSUME NEW f \in Seq(HexRecords), NEW k \in 0 .. Len(f), Hex!BeforeEof(f, k), NEW next \in Nat,
           seg \in Segments, seg = SegOf(f)[k] \/ Emptied(f, k), seg.data # <<>>,
           Ends(f, k) \/ (k < Len(f) /\ Hex!Data(f[k + 1]) /\ Parted(seg, f[k + 1])),
           k < Len(f) /\ Hex!Data(f[k + 1]) => next = f[k + 1].off,
           Hex!Flush(next)
    PROVE  /\ Flushes(f, k) /\ seg'.data = <<>> /\ ~seg'.first /\ seg'.addr = next
           /\ pc' = "poke" /\ line' = line
           /\ out'.addr = SegOf(f)[k].addr /\ out'.data = SegOf(f)[k].data
  <1>1. seg = SegOf(f)[k]
    BY DEF Emptied
  <1>2. /\ out' = [addr |-> seg.addr, data |-> seg.data, first |-> FALSE]
        /\ seg' = [seg EXCEPT !.addr = next, !.data = <<>>] /\ pc' = "poke" /\ line' = line
    BY DEF Hex!Flush, Hex!Goto
  <1>3. seg.first = FALSE
    BY <1>1, FirstEmpty
  <1>4. seg'.data = <<>> /\ seg'.first = FALSE /\ seg'.addr = next
    <2>1. [seg EXCEPT !.addr = next, !.data = <<>>] = [[seg EXCEPT !.addr = next] EXCEPT !.data = <<>>]
      OBVIOUS
    <2>2. [seg EXCEPT !.addr = next] \in Segments
      BY DEF Segments
    <2>3. [seg EXCEPT !.addr = next].addr = next /\ [seg EXCEPT !.addr = next].first = seg.first
      BY DEF Segments
    <2>4. \A t \in Segments : /\ [t EXCEPT !.data = <<>>].data = <<>>
                              /\ [t EXCEPT !.data = <<>>].first = t.first
                              /\ [t EXCEPT !.data = <<>>].addr = t.addr
      BY DEF Segments
    <2> QED BY <1>2, <1>3, <2>1, <2>2, <2>3, <2>4
  <1>5. k \in 1 .. Len(f)
    <2>1. k # 0
      <3>1. Len(f) \in Nat
        OBVIOUS
      <3>2. SegOf(f)[0].data = <<>>
        BY <3>1, SegmentsExist DEF Hex!Empty
      <3> QED BY <1>1, <3>2
    <2> QED BY <2>1
  <1>6. Flushes(f, k)
    BY <1>1, <1>5 DEF Flushes
  <1> QED BY <1>1, <1>2, <1>4, <1>6

\* A line that has been read leaves the segment that SegOf says.
LEMMA LineRead ==
    ASSUME LoaderKept, FileKept, InFile, Hex!ParseRecord, line' = line + 1
    PROVE  /\ line \in 1 .. Len(opts.ihex) /\ Hex!BeforeEof(opts.ihex, line)
           /\ pc' = "parse" /\ phases' = phases /\ seg' = SegOf(opts.ihex)[line]
  <1> USE DEF Hex!Goto, Hex!Fail
  <1> DEFINE f == opts.ihex
             k == line - 1
  <1>0. /\ f \in Seq(HexRecords) /\ Len(f) \in Nat /\ DOMAIN f = 1 .. Len(f)
        /\ line \in Nat /\ seg \in Segments /\ ReadTo(f, k)
    BY FirmwareRecords DEF LoaderKept, FileKept
  <1>1. /\ pc = "parse" /\ line \in DOMAIN Hex!File /\ Hex!File[line].kind # "eof"
        /\ UNCHANGED phases /\ ~phases[1].loader
    BY DEF Hex!ParseRecord, Hex!EndOfFile, InFile
  <1> HIDE DEF f
  <1>2. Hex!File = f /\ line \in 1 .. Len(f)
    BY <1>0, <1>1 DEF Hex!File, f
  <1>3. k \in 0 .. Len(f) - 1 /\ k + 1 = line /\ k < Len(f) /\ (k + 1) - 1 = k
    BY <1>0, <1>2
  <1> HIDE DEF k
  <1>4. Hex!BeforeEof(f, k) /\ (seg = SegOf(f)[k] \/ Emptied(f, k))
    BY <1>0, <1>1 DEF ReadTo
  <1> DEFINE rec == f[k + 1]
  <1>5. rec = Hex!File[line]
    BY <1>2, <1>3
  <1>6. Hex!BeforeEof(f, k + 1)
    <2>1. \A i \in 1 .. k + 1 : i \in 1 .. k \/ i = k + 1
      BY <1>3
    <2> QED BY <1>1, <1>4, <1>5, <2>1 DEF Hex!BeforeEof
  <1>7. CASE rec.kind = "comment" /\ UNCHANGED <<seg, out, pc>>
    <2>1. ~Emptied(f, k)
      BY <1>3, <1>7 DEF Emptied, Flushes, Ends, Hex!Data
    <2>2. SegOf(f)[k + 1] = After(SegOf(f)[(k + 1) - 1], f, k + 1)
      BY <1>0, <1>2, <1>3, SegmentsExist
    <2>3. SegOf(f)[k + 1] = SegOf(f)[k]
      BY <1>3, <1>7, <2>2 DEF After, Hex!Data
    <2>4. seg' = SegOf(f)[k + 1]
      BY <1>4, <1>7, <2>1, <2>3
    <2> QED BY <1>1, <1>2, <1>3, <1>6, <1>7, <2>4 DEF f
  <1>8. CASE Hex!Data(rec) /\ ~Hex!MustFlush(rec) /\ Hex!Append1(rec)
    <2>1. ~Parted(seg, rec)
      BY <1>8 DEF Hex!MustFlush, Parted
    <2>2. \A j : Hex!Byte(line, j) = Hex!FileByte(k + 1, j)
      <3>1. phases[1].loader = FALSE
        BY <1>1, PhasesFollow DEF LoaderKept
      <3> QED BY <1>3, <3>1 DEF Hex!Byte, Hex!FileByte
    <2>3. [j \in 1 .. rec.len |-> Hex!Byte(line, j)] = RecBytes(f, k + 1)
      BY <2>2 DEF RecBytes
    <2>4. seg' = [addr |-> IF seg.first THEN rec.off ELSE seg.addr, first |-> FALSE,
                  data |-> seg.data \o RecBytes(f, k + 1)]
      BY <1>8, <2>3 DEF Hex!Append1
    <2>5. seg' = SegOf(f)[k + 1]
      BY <1>0, <1>3, <1>4, <1>8, <2>1, <2>4, RecordAdded
    <2>6. pc' = "parse"
      BY <1>1, <1>8 DEF Hex!Append1
    <2> QED BY <1>1, <1>2, <1>3, <1>6, <2>5, <2>6 DEF f
  <1>9. line' # line
    BY <1>0
  <1> QED BY <1>5, <1>7, <1>8, <1>9 DEF Hex!ParseRecord, Hex!Flush

LEMMA FileKeptInductive ==
    ASSUME LoaderKept, FileKept, Hex!Next \/ UNCHANGED hexPart
    PROVE  FileKept'
  <1> USE DEF Hex!Goto, Hex!Fail, Hex!Load, Hex!Device
  <1> DEFINE f == opts.ihex
             k == line - 1
  <1>0. /\ f \in Seq(HexRecords) /\ Len(f) \in Nat /\ DOMAIN f = 1 .. Len(f)
        /\ line \in Nat /\ seg \in Segments /\ opts' = opts /\ f' = f
    BY FirmwareRecords DEF LoaderKept, Hex!Next, hexPart, Hex!main, Hex!Finish, Hex!BeginRam,
       Hex!BeginEeprom, Hex!Run, Hex!ParseRecord, Hex!ParseEnd, Hex!ram_poke, Hex!eeprom_poke,
       Hex!EepromLast, Hex!EepromConfig, Hex!EepromType
  <1>a. /\ InFile => ReadTo(f, k)
        /\ AtEnd => Ends(f, k)
    BY DEF FileKept
  <1> HIDE DEF f
  <1>b. SUFFICES /\ InFile' => ReadTo(f, line - 1)'
                 /\ AtEnd' => Ends(f, line' - 1)
    BY <1>0 DEF FileKept, f
  <1>1. CASE UNCHANGED hexPart
    BY <1>0, <1>1, <1>a DEF hexPart, InFile, AtEnd, ReadTo, Emptied
  <1>2. CASE Hex!main \/ Hex!Finish \/ Hex!Run \/ Hex!EepromType
    BY <1>2 DEF Hex!main, Hex!Finish, Hex!Run, Hex!EepromType, InFile, AtEnd
  <1>3. CASE Hex!BeginRam \/ Hex!BeginEeprom
    <2>1. pc' \in {"parse", "failed"} /\ line' = 1 /\ seg' = Hex!Empty
      BY <1>3 DEF Hex!BeginRam, Hex!BeginEeprom, Hex!BeginFile
    <2>2. SegOf(f)[0] = Hex!Empty /\ Hex!BeforeEof(f, 0) /\ line' - 1 = 0 /\ 0 \in 0 .. Len(f)
      BY <1>0, <2>1, SegmentsExist DEF Hex!BeforeEof
    <2> QED BY <1>0, <2>1, <2>2 DEF InFile, AtEnd, ReadTo
  <1>4. CASE Hex!ParseRecord
    <2>1. /\ pc = "parse" /\ line \in DOMAIN Hex!File /\ Hex!File[line].kind # "eof"
          /\ UNCHANGED phases
      BY <1>4 DEF Hex!ParseRecord, Hex!EndOfFile
    <2>2. CASE phases[1].loader
      BY <2>1, <2>2 DEF InFile, AtEnd
    <2>3. CASE ~phases[1].loader
      <3>1. Hex!File = f /\ InFile /\ line \in 1 .. Len(f)
        BY <1>0, <2>1, <2>3 DEF Hex!File, InFile, f
      <3>2. /\ k \in 0 .. Len(f) - 1 /\ k \in 0 .. Len(f) /\ k + 1 = line /\ k < Len(f)
            /\ k + 1 \in 1 .. Len(f) /\ k + 1 \in 0 .. Len(f) /\ (line + 1) - 1 = k + 1
        BY <1>0, <3>1
      <3> HIDE DEF k
      <3>3. Hex!BeforeEof(f, k) /\ (seg = SegOf(f)[k] \/ Emptied(f, k))
        BY <1>a, <2>1, <3>1 DEF ReadTo
      <3> DEFINE rec == f[k + 1]
      <3>4. rec \in HexRecords /\ rec.off \in Nat /\ rec.len \in Nat /\ rec.kind # "eof"
        <4>1. rec \in HexRecords /\ rec = Hex!File[line]
          BY <1>0, <3>1, <3>2
        <4> HIDE DEF rec
        <4> QED BY <2>1, <4>1 DEF HexRecords
      <3>6. CASE line' = line + 1
        <4>1. /\ Hex!BeforeEof(f, k + 1) /\ line' - 1 = k + 1
              /\ pc' = "parse" /\ seg' = SegOf(f)[k + 1]
          BY <3>1, <3>2, <3>6, <1>4, LineRead DEF f
        <4> QED BY <1>0, <3>2, <4>1 DEF ReadTo, AtEnd
      <3>7. CASE pc' = "failed"
        BY <3>7 DEF InFile, AtEnd
      <3>8. CASE Hex!Data(rec) /\ Hex!MustFlush(rec) /\ Hex!Flush(rec.off)
        <4>1. Parted(seg, rec) /\ seg.data # <<>>
          BY <3>8 DEF Hex!MustFlush, Parted
        <4>2. /\ Flushes(f, k) /\ seg'.data = <<>> /\ ~seg'.first /\ seg'.addr = rec.off
              /\ pc' = "poke" /\ line' = line
              /\ out'.addr = SegOf(f)[k].addr /\ out'.data = SegOf(f)[k].data
          BY <1>0, <3>2, <3>3, <3>4, <3>8, <4>1, SegmentTaken
        <4>3. line' - 1 = k
          BY <1>0, <3>2, <4>2
        <4> QED BY <1>0, <3>2, <3>3, <4>2, <4>3 DEF ReadTo, AtEnd, Emptied
      <3> QED BY <1>4, <3>1, <3>2, <3>6, <3>7, <3>8 DEF Hex!ParseRecord, Hex!Append1
    <2> QED BY <2>2, <2>3
  <1>5. CASE Hex!ParseEnd
    <2>1. pc = "parse" /\ (line \in DOMAIN Hex!File => Hex!File[line].kind = "eof") /\ UNCHANGED phases
      BY <1>5 DEF Hex!ParseEnd, Hex!EndOfFile
    <2>2. CASE phases[1].loader
      BY <2>1, <2>2 DEF InFile, AtEnd
    <2>3. CASE ~phases[1].loader
      <3>1. Hex!File = f /\ InFile
        BY <1>0, <2>1, <2>3 DEF Hex!File, InFile, f
      <3>2. /\ k \in 0 .. Len(f) /\ Hex!BeforeEof(f, k) /\ k + 1 = line
            /\ seg = SegOf(f)[k] \/ Emptied(f, k)
        BY <1>0, <1>a, <2>1, <3>1 DEF ReadTo
      <3>3. Ends(f, k)
        <4>1. k < Len(f) => line \in 1 .. Len(f)
          BY <1>0, <3>2
        <4> QED BY <1>0, <2>1, <3>1, <3>2, <4>1 DEF Ends
      <3> HIDE DEF k
      <3>4. CASE seg.data # <<>> /\ Hex!Flush(seg.addr)
        <4>1. ~(k < Len(f) /\ Hex!Data(f[k + 1])) /\ seg.addr \in Nat
          BY <1>0, <3>3 DEF Ends, Hex!Data, Segments
        <4>2. /\ Flushes(f, k) /\ seg'.data = <<>> /\ ~seg'.first
              /\ pc' = "poke" /\ line' = line
              /\ out'.addr = SegOf(f)[k].addr /\ out'.data = SegOf(f)[k].data
          BY <1>0, <3>2, <3>3, <3>4, <4>1, SegmentTaken
        <4>3. line' - 1 = k
          BY <1>0, <3>2, <4>2
        <4> QED BY <1>0, <3>2, <4>1, <4>2, <4>3 DEF ReadTo, AtEnd, Emptied
      <3>5. CASE pc' \in {"last", "run"} /\ UNCHANGED line
        <4>1. line' - 1 = k
          BY <3>2, <3>5 DEF k
        <4> QED BY <3>3, <3>5, <4>1 DEF InFile
      <3> QED BY <1>5, <3>4, <3>5 DEF Hex!ParseEnd
    <2> QED BY <2>2, <2>3
  <1>6. CASE Hex!ram_poke \/ Hex!eeprom_poke
    <2>1. /\ pc = "poke" /\ pc' \in {"poke", "parse", "failed"}
          /\ UNCHANGED <<phases, line, seg, out>>
      BY <1>6 DEF Hex!ram_poke, Hex!eeprom_poke
    <2>2. InFile' => InFile
      BY <2>1 DEF InFile
    <2> QED BY <1>0, <1>a, <2>1, <2>2 DEF ReadTo, Emptied, AtEnd
  <1>7. CASE Hex!EepromLast \/ Hex!EepromConfig
    <2>1. /\ pc \in {"last", "config"} /\ pc' \in {"config", "type", "failed"}
          /\ UNCHANGED <<phases, line, seg, out>>
      BY <1>7 DEF Hex!EepromLast, Hex!EepromConfig
    <2> QED BY <1>a, <2>1 DEF InFile, AtEnd
  <1> QED BY <1>1, <1>2, <1>3, <1>4, <1>5, <1>6, <1>7 DEF Hex!Next

-----------------------------------------------------------------------------
(* fxload: the memory of the chip *)

Modes == {"internal_only", "skip_internal", "skip_external", "eeprom"}
PassRecords == [loader : BOOLEAN, mode : Modes]

LEMMA PhasesAreSeq ==
    ASSUME phases \in PhasesLeft
    PROVE  /\ phases \in Seq(PassRecords) /\ Len(phases) \in Nat
           /\ phases # <<>> => 1 \in 1 .. Len(phases)
           /\ \A i \in 1 .. Len(Tail(phases)) :
                 phases # <<>> => Tail(phases)[i] = phases[i + 1] /\ i + 1 \in 1 .. Len(phases)
  <1>1. \A l \in BOOLEAN, m \in Modes : Pass(l, m) \in PassRecords
    BY DEF Pass, PassRecords
  <1>2. phases \in Seq(PassRecords)
    <2>1. /\ Pass(FALSE, "internal_only") \in PassRecords /\ Pass(FALSE, "eeprom") \in PassRecords
          /\ Pass(FALSE, "skip_external") \in PassRecords /\ Pass(TRUE, "internal_only") \in PassRecords
          /\ Pass(FALSE, "skip_internal") \in PassRecords
      BY <1>1 DEF Modes
    <2>2. \A a, b, c \in PassRecords : <<>> \in Seq(PassRecords) /\ <<a>> \in Seq(PassRecords)
                /\ <<a, b>> \in Seq(PassRecords) /\ <<a, b, c>> \in Seq(PassRecords)
      OBVIOUS
    <2> QED BY <2>1, <2>2 DEF PhasesLeft
  <1>3. ASSUME phases # <<>>, NEW i \in 1 .. Len(Tail(phases))
        PROVE  Tail(phases)[i] = phases[i + 1] /\ i + 1 \in 1 .. Len(phases)
    BY ONLY <1>2, <1>3
  <1>4. phases # <<>> => 1 \in 1 .. Len(phases)
    BY ONLY <1>2
  <1> QED BY <1>2, <1>3, <1>4

\* The loader goes into the chip; what follows each phase; the last phase.
LEMMA PhaseOrder ==
    ASSUME phases \in PhasesLeft, phases # <<>>
    PROVE  /\ phases[1].loader => Hex!Mode = "internal_only" /\ Len(phases) # 1
           /\ Hex!Mode = "skip_internal" => Len(phases) # 1
           /\ Len(phases) # 1 /\ Tail(phases)[1].mode = "skip_external" =>
                 ~phases[1].loader /\ Hex!Mode = "skip_internal"
  <1>1. CASE \E m \in {"internal_only", "eeprom", "skip_external"} : phases = <<Pass(FALSE, m)>>
    <2>1. PICK m \in {"internal_only", "eeprom", "skip_external"} : phases = <<Pass(FALSE, m)>>
      BY <1>1
    <2>2. phases[1] = Pass(FALSE, m) /\ Len(phases) = 1
      BY ONLY <2>1, OnePhase
    <2> QED BY <2>2 DEF Pass, Hex!Mode
  <1>2. CASE phases = <<Pass(TRUE, "internal_only"), Pass(FALSE, "eeprom")>>
    <2>1. /\ phases[1] = Pass(TRUE, "internal_only") /\ Len(phases) = 2
          /\ Tail(phases)[1] = Pass(FALSE, "eeprom")
      BY ONLY <1>2, TwoPhases
    <2> QED BY <2>1 DEF Pass, Hex!Mode
  <1>3. CASE phases = <<Pass(FALSE, "skip_internal"), Pass(FALSE, "skip_external")>>
    <2>1. /\ phases[1] = Pass(FALSE, "skip_internal") /\ Len(phases) = 2
      BY ONLY <1>3, TwoPhases
    <2> QED BY <2>1 DEF Pass, Hex!Mode
  <1>4. CASE phases =
            <<Pass(TRUE, "internal_only"), Pass(FALSE, "skip_internal"), Pass(FALSE, "skip_external")>>
    <2> DEFINE a == Pass(TRUE, "internal_only")
               b == Pass(FALSE, "skip_internal")
               c == Pass(FALSE, "skip_external")
    <2>1. phases = <<a, b, c>>
      BY <1>4
    <2> HIDE DEF a, b, c
    <2>2. phases[1] = a /\ Len(phases) = 3 /\ Tail(phases)[1] = b
      BY ONLY <2>1, ThreePhases
    <2>3. a.loader = TRUE /\ a.mode = "internal_only" /\ b.mode = "skip_internal"
      BY DEF a, b, Pass
    <2>4. /\ phases[1].mode = "internal_only" /\ Tail(phases)[1].mode = "skip_internal"
          /\ Len(phases) # 1
      BY <2>2, <2>3
    <2> QED BY <2>4 DEF Hex!Mode
  <1> QED BY <1>1, <1>2, <1>3, <1>4 DEF PhasesLeft

\* The phases that a load begins with.
LEMMA PassesBegin ==
    ASSUME LoaderKept
    PROVE  /\ Hex!Passes # <<>> /\ Hex!Passes[1].mode # "skip_external"
           /\ ~opts.config => \A i \in 1 .. Len(Hex!Passes) : Hex!Passes[i].mode # "eeprom"
  <1>1. CASE opts.stage1 /\ opts.config
    <2>1. Hex!Passes = <<Pass(TRUE, "internal_only")>> \o <<Pass(FALSE, "eeprom")>>
      BY <1>1 DEF Hex!Passes, Hex!Pass, Pass
    <2>2. Hex!Passes[1] = Pass(TRUE, "internal_only") /\ Hex!Passes # <<>>
      BY ONLY <2>1, TwoPhases
    <2> QED BY <1>1, <2>2 DEF Pass
  <1>2. CASE opts.stage1 /\ ~opts.config
    <2> DEFINE a == Pass(TRUE, "internal_only")
               b == Pass(FALSE, "skip_internal")
               c == Pass(FALSE, "skip_external")
    <2>1. Hex!Passes = <<a>> \o <<b, c>>
      BY <1>2 DEF Hex!Passes, Hex!Pass, Pass
    <2> HIDE DEF a, b, c
    <2>2. Hex!Passes = <<a, b, c>>
      BY ONLY <2>1, ThreePhases
    <2>3. Hex!Passes # <<>> /\ Hex!Passes[1] = a /\ Hex!Passes[2] = b /\ Hex!Passes[3] = c
          /\ Len(Hex!Passes) = 3
      BY ONLY <2>2
    <2>4. a.mode = "internal_only" /\ b.mode = "skip_internal" /\ c.mode = "skip_external"
      BY DEF a, b, c, Pass
    <2>5. \A i \in 1 .. 3 : Hex!Passes[i] \in {a, b, c}
      BY <2>3
    <2> QED BY <2>3, <2>4, <2>5
  <1>3. CASE ~opts.stage1
    <2>1. Hex!Passes = <<Pass(FALSE, "internal_only")>>
      BY <1>3 DEF Hex!Passes, Hex!Pass, Pass
    <2>2. Hex!Passes[1] = Pass(FALSE, "internal_only") /\ Len(Hex!Passes) = 1 /\ Hex!Passes # <<>>
      BY ONLY <2>1, OnePhase
    <2>3. \A i \in 1 .. 1 : i = 1
      OBVIOUS
    <2> QED BY <2>2, <2>3 DEF Pass
  <1> QED BY <1>1, <1>2, <1>3

\* What has been handled after a line has been read was so before, or is the segment
\* that the line before had ended.
LEMMA HandledBefore ==
    ASSUME LoaderKept, FileKept, Hex!ParseRecord \/ Hex!ParseEnd,
           NEW k \in 1 .. Len(opts.ihex), Flushes(opts.ihex, k), Handled(k)'
    PROVE  Handled(k)
  <1> USE DEF Hex!Goto, Hex!Fail
  <1> DEFINE f == opts.ihex
             n == line - 1
  <1>0. /\ f \in Seq(HexRecords) /\ Len(f) \in Nat /\ DOMAIN f = 1 .. Len(f)
        /\ line \in Nat /\ pc = "parse" /\ f' = f /\ phases' = phases
    BY FirmwareRecords DEF LoaderKept, Hex!ParseRecord, Hex!ParseEnd
  <1>1. ~phases[1].loader /\ InFile
    BY <1>0 DEF Handled, InFile, AtEnd
  <1>2. Hex!File = f
    BY <1>1 DEF Hex!File
  <1> HIDE DEF f
  <1>3. n \in 0 .. Len(f) /\ n + 1 = line /\ (seg = SegOf(f)[n] \/ Emptied(f, n))
    BY <1>0, <1>1 DEF FileKept, ReadTo, f
  <1>4. SegOf(f)[k].data # <<>> /\ Flushes(f, k) /\ k \in 1 .. Len(f)
    BY DEF Flushes, f
  <1>5. k < n => Handled(k)
    BY <1>0, <1>1 DEF Handled
  <1>6. seg.data = <<>> => (k = n => Handled(k))
    BY <1>0, <1>1 DEF Handled
  <1>7. CASE Hex!ParseRecord
    <2>1. line \in 1 .. Len(f) /\ f[line].kind # "eof"
      BY <1>0, <1>2, <1>7 DEF Hex!ParseRecord, Hex!EndOfFile
    <2>2. CASE pc' = "poke" /\ line' = line
      <3>1. k < n
        BY <2>2 DEF Handled, InFile, AtEnd
      <3> QED BY <1>5, <3>1
    <2>3. CASE pc' = "failed"
      BY <2>3 DEF Handled, InFile, AtEnd
    <2>4. CASE pc' = "parse" /\ line' = line + 1
      <3>1. line' - 1 = n + 1
        BY <1>3, <2>4
      <3>3. seg' = SegOf(f)[n + 1]
        BY <1>1, <1>3, <1>7, <2>4, LineRead DEF f
      <3>4. k < n + 1 \/ (k = n + 1 /\ seg'.data = <<>>)
        BY <2>4, <3>1 DEF Handled, AtEnd
      <3>5. CASE k < n
        BY <1>5, <3>5
      <3>6. CASE k = n
        <4>1. k < Len(f) /\ f[k + 1] = f[line]
          BY <1>0, <1>3, <2>1, <3>6
        <4>2. Hex!Data(f[line]) /\ Parted(SegOf(f)[k], f[line])
          BY <1>4, <2>1, <4>1 DEF Flushes, Ends
        <4>3. ~Parted(seg, f[line])
          <5>1. f[line].kind # "comment"
            BY <4>2 DEF Hex!Data
          <5>2. ~Hex!MustFlush(f[line])
            BY <1>2, <1>7, <2>4, <5>1 DEF Hex!ParseRecord, Hex!Flush
          <5> QED BY <5>2 DEF Hex!MustFlush, Parted
        <4>4. seg.data = <<>>
          BY <1>3, <3>6, <4>2, <4>3 DEF Emptied
        <4> QED BY <1>6, <3>6, <4>4
      <3> QED BY <1>3, <1>4, <3>3, <3>4, <3>5, <3>6
    <2> QED BY <1>0, <1>7, <2>2, <2>3, <2>4
        DEF Hex!ParseRecord, Hex!Append1, Hex!Flush
  <1>8. CASE Hex!ParseEnd
    <2>1. line \in 1 .. Len(f) => f[line].kind = "eof"
      BY <1>0, <1>2, <1>8 DEF Hex!ParseEnd, Hex!EndOfFile
    <2>2. CASE pc' = "poke" /\ line' = line
      <3>1. k < n
        BY <2>2 DEF Handled, InFile, AtEnd
      <3> QED BY <1>5, <3>1
    <2>3. CASE seg.data = <<>>
      <3>1. k <= n
        <4>1. SUFFICES ASSUME n < k
                       PROVE  FALSE
          BY <1>3
        <4>2. line \in 1 .. Len(f) /\ line \in 1 .. k
          BY <1>0, <1>3, <1>4, <4>1
        <4>3. Hex!BeforeEof(f, k)
          BY <1>4 DEF Flushes
        <4> QED BY <2>1, <4>2, <4>3 DEF Hex!BeforeEof
      <3>2. k < n \/ k = n
        BY <1>3, <3>1
      <3> QED BY <1>5, <1>6, <2>3, <3>2
    <2> QED BY <1>8, <2>2, <2>3 DEF Hex!ParseEnd, Hex!Flush
  <1> QED BY <1>7, <1>8

\* A segment in memory stays there when another one of the file is written.
LEMMA WrittenHeld ==
    ASSUME NEW f \in Seq(HexRecords), Hex!Plain(f), Fits(f), NEW k \in 1 .. Len(f),
           NEW n \in 0 .. Len(f), out.addr = SegOf(f)[n].addr, out.data = SegOf(f)[n].data,
           ram' = Hex!Written
    PROVE  /\ Held(f, k) => Held(f, k)'
           /\ n = k => Held(f, k)'
  <1> DEFINE s == SegOf(f)[k]
             t == SegOf(f)[n]
  <1>0. /\ Len(f) \in Nat /\ k \in 0 .. Len(f) /\ s \in Segments /\ t \in Segments
        /\ s.addr \in Nat /\ t.addr \in Nat /\ Len(s.data) \in Nat /\ Len(t.data) \in Nat
    <2>1. Len(f) \in Nat /\ k \in 0 .. Len(f)
      OBVIOUS
    <2>2. s \in Segments /\ t \in Segments
      BY <2>1, SegmentsTyped
    <2> QED BY <2>1, <2>2 DEF Segments
  <1>1. \A a \in Hex!Addresses : ram'[a] = IF a \in t.addr .. t.addr + Len(t.data) - 1
                                          THEN t.data[a - t.addr + 1] ELSE ram[a]
    BY DEF Hex!Written
  <1>2. SUFFICES ASSUME NEW m \in 1 .. Len(s.data), ram[s.addr + m - 1] = s.data[m] \/ n = k
                 PROVE  ram'[s.addr + m - 1] = s.data[m]
    BY DEF Held
  <1> DEFINE a == s.addr + m - 1
  <1>3. a \in Hex!Addresses /\ a \in Int
    <2>1. s.addr + m - 1 \in Hex!Addresses
      BY <1>0, SegmentsFit
    <2>2. \A x \in Hex!Addresses : x \in Int
      BY DEF Hex!Addresses
    <2> QED BY <2>1, <2>2
  <1>4. CASE a \in t.addr .. t.addr + Len(t.data) - 1
    <2>1. ram'[a] = t.data[a - t.addr + 1]
      BY <1>1, <1>3, <1>4
    <2> DEFINE y == a - t.addr + 1
               p == t.addr
               q == Len(t.data)
    <2>2. y \in 1 .. Len(t.data) /\ a = t.addr + y - 1
      <3>1. p \in Nat /\ q \in Nat /\ a \in p .. p + q - 1 /\ y = a - p + 1
        BY <1>0, <1>4
      <3> HIDE DEF a, p, q, y
      <3>2. y \in 1 .. q /\ a = p + y - 1
        BY ONLY <3>1
      <3> QED BY <3>2 DEF p, q
    <2>3. s.data[m] = t.data[y]
      <3> HIDE DEF y
      <3> QED BY <1>0, <2>2, SegmentsAgree
    <2> QED BY <2>1, <2>3
  <1>5. CASE a \notin t.addr .. t.addr + Len(t.data) - 1
    <2>1. n # k
      <3> DEFINE p == s.addr
                 q == Len(s.data)
      <3>1. p \in Nat /\ q \in Nat /\ m \in 1 .. q /\ a = p + m - 1
        BY <1>0
      <3>2. a \in p .. p + q - 1
        <4> HIDE DEF a, p, q
        <4> QED BY ONLY <3>1
      <3> QED BY <1>5, <3>2
    <2> QED BY <1>1, <1>2, <1>3, <1>5, <2>1
  <1> QED BY <1>4, <1>5

LEMMA MemoryKeptInductive ==
    ASSUME LoaderKept, FileKept, MemoryKept, Hex!Next \/ UNCHANGED hexPart
    PROVE  MemoryKept'
  <1> USE DEF Hex!Goto, Hex!Fail, Hex!Load, Hex!Device
  <1> DEFINE f == opts.ihex
  <1>0. /\ f \in Seq(HexRecords) /\ Len(f) \in Nat /\ DOMAIN f = 1 .. Len(f) /\ Fits(f)
        /\ line \in Nat /\ phases \in PhasesLeft /\ opts' = opts /\ f' = f
        /\ pc \in {"begin", "parse", "poke", "run", "last", "config", "type"} => phases # <<>>
    BY FirmwareRecords DEF LoaderKept, MemoryKept, Hex!Next, hexPart, Hex!main, Hex!Finish,
       Hex!BeginRam, Hex!BeginEeprom, Hex!Run, Hex!ParseRecord, Hex!ParseEnd, Hex!ram_poke,
       Hex!eeprom_poke, Hex!EepromLast, Hex!EepromConfig, Hex!EepromType
  <1>a. pc' \in {"last", "config", "type"} => phases' # <<>> /\ Hex!Mode' = "eeprom"
    <2>1. CASE UNCHANGED hexPart
      BY <2>1 DEF hexPart, MemoryKept, Hex!Mode
    <2>2. CASE Hex!main \/ Hex!Finish \/ Hex!BeginRam \/ Hex!BeginEeprom \/ Hex!Run
               \/ Hex!ParseRecord \/ Hex!ram_poke \/ Hex!eeprom_poke \/ Hex!EepromType
      BY <2>2 DEF Hex!main, Hex!Finish, Hex!BeginRam, Hex!BeginEeprom, Hex!Run, Hex!ParseRecord,
                  Hex!Flush, Hex!Append1, Hex!ram_poke, Hex!eeprom_poke, Hex!EepromType
    <2>3. CASE Hex!ParseEnd
      BY <1>0, <2>3 DEF Hex!ParseEnd, Hex!Flush, Hex!Mode
    <2>4. CASE Hex!EepromLast \/ Hex!EepromConfig
      BY <2>4 DEF Hex!EepromLast, Hex!EepromConfig, MemoryKept, Hex!Mode
    <2> QED BY <2>1, <2>2, <2>3, <2>4 DEF Hex!Next
  <1>b. phases' = phases \/ (phases' = Tail(phases) /\ phases # <<>>) \/ phases' = Hex!Passes
    BY <1>0 DEF hexPart, Hex!Next, Hex!main, Hex!Finish, Hex!BeginRam, Hex!BeginEeprom, Hex!Run,
       Hex!ParseRecord, Hex!ParseEnd, Hex!ram_poke, Hex!eeprom_poke, Hex!EepromLast,
       Hex!EepromConfig, Hex!EepromType
  <1>c. ~opts.config => \A i \in 1 .. Len(phases') : phases'[i].mode # "eeprom"
    <2>1. CASE phases' = phases
      BY <2>1 DEF MemoryKept
    <2>2. CASE phases' = Tail(phases) /\ phases # <<>>
      BY <1>0, <2>2, PhasesAreSeq DEF MemoryKept
    <2>3. CASE phases' = Hex!Passes
      BY <2>3, PassesBegin
    <2> QED BY <1>b, <2>1, <2>2, <2>3
  <1> HIDE DEF f
  <1>d. SUFFICES ASSUME ~opts.config, Hex!Plain(f), NEW k \in 1 .. Len(f), Flushes(f, k), Due(f, k)'
                 PROVE  Held(f, k)'
    BY <1>0, <1>a, <1>c DEF MemoryKept, f
  <1>e. Due(f, k) => Held(f, k)
    BY <1>d DEF MemoryKept, f
  <1>f. ram' = ram /\ Held(f, k) => Held(f, k)'
    BY <1>0 DEF Held
  <1>g. phases # <<>> => Hex!Mode # "eeprom" /\ phases[1].loader \in BOOLEAN
                        /\ (phases[1].loader => Hex!Mode = "internal_only")
    <2>1. phases # <<>> => phases[1].mode # "eeprom"
      BY <1>0, <1>d, PhasesAreSeq DEF MemoryKept
    <2> QED BY <1>0, <2>1, PhaseOrder, PhasesFollow DEF Hex!Mode
  <1>h. Outside(f, k)' = Outside(f, k)
    BY <1>0 DEF Outside, Hex!is_external
  <1>1. CASE UNCHANGED hexPart
    <2>1. Due(f, k)
      BY <1>0, <1>1, <1>d, <1>h DEF hexPart, Due, Handled, InFile, AtEnd, Hex!Mode
    <2> QED BY <1>1, <1>e, <1>f, <2>1 DEF hexPart
  <1>2. CASE Hex!main
    <2>1. CASE pc' = "begin" /\ phases' = Hex!Passes
      BY <1>d, <2>1, PassesBegin DEF Due, Handled, InFile, AtEnd, Hex!Mode
    <2>2. CASE pc' = "usage"
      BY <1>d, <2>2 DEF Due, Handled, InFile, AtEnd
    <2>3. CASE pc' = "link" /\ f = <<>>
      BY <1>d, <2>3
    <2> QED BY <1>2, <2>1, <2>2, <2>3 DEF Hex!main, f
  <1>3. CASE Hex!Finish
    <2>1. Due(f, k)
      BY <1>0, <1>3, <1>d DEF Hex!Finish, Due, Handled, InFile, AtEnd
    <2> QED BY <1>3, <1>e, <1>f, <2>1 DEF Hex!Finish
  <1>4. CASE Hex!BeginRam
    <2>1. pc = "begin" /\ pc' \in {"parse", "failed"} /\ line' = 1 /\ UNCHANGED <<phases, ram>>
      BY <1>4 DEF Hex!BeginRam, Hex!BeginFile
    <2>2. ~Handled(k)'
      <3>1. line' - 1 = 0 /\ ~(k < 0) /\ k # 0
        BY <2>1
      <3> QED BY <2>1, <3>1 DEF Handled, AtEnd
    <2>3. Due(f, k)
      BY <1>d, <1>h, <2>1, <2>2 DEF Due, Hex!Mode
    <2> QED BY <1>e, <1>f, <2>1, <2>3
  <1>5. CASE Hex!BeginEeprom \/ Hex!eeprom_poke
    BY <1>0, <1>5, <1>g DEF Hex!BeginEeprom, Hex!eeprom_poke
  <1>6. CASE Hex!EepromLast \/ Hex!EepromConfig \/ Hex!EepromType
    <2>1. pc \in {"last", "config", "type"}
      BY <1>6 DEF Hex!EepromLast, Hex!EepromConfig, Hex!EepromType
    <2> QED BY <1>0, <1>g, <2>1 DEF MemoryKept
  <1>7. CASE Hex!Run
    <2>1. pc = "run" /\ ram' = ram /\ phases # <<>>
      BY <1>0, <1>7 DEF Hex!Run
    <2>2. CASE pc' = "failed"
      BY <1>d, <2>2 DEF Due, Handled, InFile, AtEnd
    <2>3. CASE pc' = "link" /\ Len(phases) = 1
      <3>1. ~phases[1].loader /\ Hex!Mode # "skip_internal"
        BY <1>0, <2>1, <2>3, PhaseOrder
      <3>2. Due(f, k)
        BY <2>1, <3>1 DEF Due, Handled, AtEnd
      <3> QED BY <1>e, <1>f, <2>1, <3>2
    <2>4. CASE pc' = "begin" /\ Len(phases) # 1 /\ phases' = Tail(phases)
      <3>1. Hex!Mode' = Tail(phases)[1].mode
        BY <2>4 DEF Hex!Mode
      <3>2. Hex!Mode' = "skip_external" /\ Outside(f, k)
        BY <1>d, <1>h, <2>4 DEF Due, Handled, InFile, AtEnd
      <3>3. ~phases[1].loader /\ Hex!Mode = "skip_internal"
        BY <1>0, <2>1, <2>4, <3>1, <3>2, PhaseOrder
      <3>4. Due(f, k)
        BY <2>1, <3>2, <3>3 DEF Due, Handled, AtEnd
      <3> QED BY <1>e, <1>f, <2>1, <3>4
    <2> QED BY <1>7, <2>2, <2>3, <2>4 DEF Hex!Run
  <1>8. CASE Hex!ParseRecord \/ Hex!ParseEnd
    <2>1. pc = "parse" /\ UNCHANGED <<phases, ram>> /\ pc' \in {"parse", "poke", "run", "last", "failed"}
      BY <1>8 DEF Hex!ParseRecord, Hex!ParseEnd, Hex!Flush, Hex!Append1
    <2>2. Hex!Mode' = Hex!Mode
      BY <2>1 DEF Hex!Mode
    <2>3. Handled(k)' => Handled(k)
      BY <1>8, <1>d, HandledBefore DEF f
    <2>4. Due(f, k)
      BY <1>d, <1>h, <2>1, <2>2, <2>3 DEF Due
    <2> QED BY <1>e, <1>f, <2>1, <2>4
  <1>9. CASE Hex!ram_poke
    <2> DEFINE n == line - 1
    <2>1. /\ pc = "poke" /\ pc' \in {"poke", "parse", "failed"} /\ phases # <<>>
          /\ UNCHANGED <<phases, line, seg, out>> /\ ram' \in {ram, Hex!Written}
      BY <1>0, <1>9 DEF Hex!ram_poke
    <2>2. Hex!Mode' = Hex!Mode /\ line' - 1 = n
      BY <2>1 DEF Hex!Mode
    <2>3. ~phases[1].loader /\ InFile
      <3>1. CASE phases[1].loader
        <4>1. Hex!Mode # "skip_external"
          BY <1>g, <2>1, <3>1
        <4>2. ~Handled(k)'
          BY <2>1, <3>1 DEF Handled, InFile, AtEnd
        <4> QED BY <1>d, <2>1, <2>2, <4>1, <4>2 DEF Due
      <3> QED BY <2>1, <3>1 DEF InFile
    <2>4. /\ n \in 0 .. Len(f) /\ out.addr = SegOf(f)[n].addr /\ out.data = SegOf(f)[n].data
      BY <1>0, <2>1, <2>3 DEF FileKept, ReadTo, f
    <2>5. pc' # "failed"
      BY <1>d DEF Due, Handled, InFile, AtEnd
    <2> HIDE DEF n
    <2>6. Held(f, k) => Held(f, k)'
      BY <1>0, <1>d, <1>f, <2>1, <2>4, WrittenHeld
    <2>7. CASE Due(f, k)
      BY <1>e, <2>6, <2>7
    <2>8. CASE ~Due(f, k)
      <3>1. Handled(k)' /\ ~Handled(k)
        BY <1>d, <1>h, <2>1, <2>2, <2>8 DEF Due
      <3>2. k = n /\ pc' = "parse"
        BY <2>1, <2>2, <2>3, <3>1 DEF Handled, InFile, AtEnd, n
      <3>3. CASE ram' = Hex!Written
        BY <1>0, <1>d, <2>4, <3>2, <3>3, WrittenHeld
      <3>4. CASE Hex!Skipped
        <4>1. Hex!External <=> Outside(f, k)
          BY <2>4, <3>2 DEF Hex!External, Outside
        <4>2. CASE Hex!Mode = "skip_external"
          <5>1. Outside(f, k)
            BY <3>4, <4>1, <4>2 DEF Hex!Skipped
          <5> QED BY <2>1, <2>8, <4>2, <5>1 DEF Due
        <4>3. CASE Hex!Mode = "skip_internal"
          <5>1. ~Outside(f, k)
            BY <3>4, <4>1, <4>3 DEF Hex!Skipped
          <5> QED BY <1>d, <1>h, <2>2, <3>2, <4>3, <5>1 DEF Due
        <4> QED BY <3>4, <4>2, <4>3 DEF Hex!Skipped
      <3> QED BY <1>9, <3>2, <3>3, <3>4, <2>1 DEF Hex!ram_poke
    <2> QED BY <2>7, <2>8
  <1> QED BY <1>1, <1>2, <1>3, <1>4, <1>5, <1>6, <1>7, <1>8, <1>9 DEF Hex!Next

-----------------------------------------------------------------------------
(* fxload: the EEPROM *)

LEMMA PartsDiffer ==
    ASSUME NEW a, NEW b
    PROVE  <<a, b>> # <<"old">> /\ <<"reset">> # <<"old">> /\ <<"config">> # <<"old">>
  <1>1. Len(<<a, b>>) = 2 /\ Len(<<"old">>) = 1
    OBVIOUS
  <1>2. <<"reset">>[1] = "reset" /\ <<"config">>[1] = "config" /\ <<"old">>[1] = "old"
    OBVIOUS
  <1>3. <<a, b>> # <<"old">>
    BY <1>1
  <1>4. <<"reset">> # <<"old">> /\ <<"config">> # <<"old">>
    BY <1>2
  <1> QED BY <1>3, <1>4

\* Adding a part leaves those before it where they are.
LEMMA PutBehind ==
    ASSUME chain \in Seq(Parts), NEW p \in Parts, p # <<"old">>, Hex!Put(p)
    PROVE  /\ chain' \in Seq(Parts) /\ Len(chain) \in Nat /\ Len(chain') \in Nat
           /\ chain' # Hex!Old /\ chain' # <<>> /\ chain'[Len(chain')] = p
           /\ chain # Hex!Old => /\ Len(chain') = Len(chain) + 1
                                 /\ \A i \in 1 .. Len(chain) : chain'[i] = chain[i]
  <1> DEFINE c == IF chain = Hex!Old THEN <<>> ELSE chain
  <1>1. c \in Seq(Parts) /\ chain' = Append(c, p) /\ Len(chain) \in Nat
    BY DEF Hex!Put
  <1> HIDE DEF c
  <1>2. /\ chain' \in Seq(Parts) /\ Len(c) \in Nat /\ Len(chain') = Len(c) + 1 /\ chain' # <<>>
        /\ chain'[Len(c) + 1] = p /\ \A i \in 1 .. Len(c) : chain'[i] = c[i]
    BY <1>1
  <1>3. chain' # Hex!Old
    <2>1. Len(Hex!Old) = 1 /\ Hex!Old[1] = <<"old">>
      BY DEF Hex!Old
    <2>2. SUFFICES ASSUME chain' = Hex!Old
                   PROVE  FALSE
      OBVIOUS
    <2>3. Len(c) + 1 = 1
      BY <1>2, <2>1, <2>2
    <2>4. chain'[1] = p
      BY <1>2, <2>3
    <2> QED BY <2>1, <2>2, <2>4
  <1>4. chain # Hex!Old => c = chain
    BY DEF c
  <1> QED BY <1>1, <1>2, <1>3, <1>4

LEMMA EepromKeptInductive ==
    ASSUME LoaderKept, FileKept, MemoryKept, EepromKept, Hex!Next \/ UNCHANGED hexPart
    PROVE  EepromKept'
  <1> USE DEF Hex!Goto, Hex!Fail, Hex!Load, Hex!Device
  <1> DEFINE f == opts.ihex
  <1>0. /\ f \in Seq(HexRecords) /\ Len(f) \in Nat /\ line \in Nat /\ phases \in PhasesLeft
        /\ opts' = opts /\ f' = f
        /\ pc \in {"begin", "parse", "poke", "run", "last", "config", "type"} => phases # <<>>
    BY FirmwareRecords DEF LoaderKept, MemoryKept, Hex!Next, hexPart, Hex!main, Hex!Finish,
       Hex!BeginRam, Hex!BeginEeprom, Hex!Run, Hex!ParseRecord, Hex!ParseEnd, Hex!ram_poke,
       Hex!eeprom_poke, Hex!EepromLast, Hex!EepromConfig, Hex!EepromType
  <1> HIDE DEF f
  <1>a. /\ chain \in Seq(Parts) /\ Len(chain) \in Nat
        /\ boot => chain = Hex!Old \/ Whole(f)
    BY DEF EepromKept, f
  <1>b. ASSUME Storing
        PROVE  /\ ~boot /\ phases # <<>> /\ ~phases[1].loader
               /\ pc = "config" => chain # Hex!Old /\ chain # <<>> /\ chain[Len(chain)] = <<"reset">>
               /\ pc = "type" => Len(chain) >= 2 /\ Closed
               /\ \A k \in 1 .. Len(f) : Flushes(f, k) /\ Handled(k) =>
                     chain # Hex!Old /\ InEeprom(f, k, Len(chain) - Commands)
    <2>1. phases # <<>>
      BY <1>0, <1>b DEF Storing
    <2>2. ~phases[1].loader
      BY <1>0, <1>b, <2>1, PhaseOrder DEF Storing
    <2> QED BY <1>b, <2>1, <2>2 DEF EepromKept, f
  <1>c. SUFFICES /\ chain' \in Seq(Parts)
                 /\ boot' => chain' = Hex!Old \/ Whole(f)'
                 /\ Storing' =>
                      /\ ~boot'
                      /\ chain' = Hex!Old => pc' \notin {"config", "type"}
                      /\ pc' = "config" => chain' # <<>> /\ chain'[Len(chain')] = <<"reset">>
                      /\ pc' = "type" => Len(chain') >= 2 /\ Closed'
                      /\ \A k \in 1 .. Len(f) : Flushes(f, k) /\ Handled(k)' =>
                            chain' # Hex!Old /\ InEeprom(f, k, Len(chain) - Commands)'
    BY <1>0 DEF EepromKept, Hex!Old, f
  <1>d. chain' = chain => (Whole(f)' <=> Whole(f))
    BY <1>0 DEF Whole, Closed, InEeprom
  <1>e. \A k \in 1 .. Len(f), m, n \in Int :
            /\ InEeprom(f, k, m) /\ m <= n /\ (\A i \in 1 .. m : chain'[i] = chain[i])
            => \E i \in 1 .. n : chain'[i] = Part(f, k)
    BY DEF InEeprom
  <1>1. CASE UNCHANGED hexPart
    <2>1. Storing' <=> Storing
      BY <1>1 DEF hexPart, Storing, Hex!Mode
    <2>2. \A k : Handled(k)' <=> Handled(k)
      BY <1>1 DEF hexPart, Handled, InFile, AtEnd
    <2>3. UNCHANGED <<chain, boot, pc>> /\ Commands' = Commands
      BY <1>1 DEF hexPart, Commands
    <2>4. (Closed' <=> Closed) /\ \A k, n : InEeprom(f, k, n)' <=> InEeprom(f, k, n)
      BY <1>0, <2>3 DEF Closed, InEeprom
    <2>5. ASSUME Storing'
          PROVE  /\ ~boot' /\ (chain' = Hex!Old => pc' \notin {"config", "type"})
                 /\ pc' = "config" => chain' # <<>> /\ chain'[Len(chain')] = <<"reset">>
                 /\ pc' = "type" => Len(chain') >= 2 /\ Closed'
      <3>1. Storing
        BY <2>1, <2>5
      <3>2. chain = Hex!Old => pc # "type"
        BY <1>b, <3>1 DEF EepromKept
      <3> QED BY <1>b, <2>3, <2>4, <3>1, <3>2
    <2>6. ASSUME Storing', NEW k \in 1 .. Len(f), Flushes(f, k), Handled(k)'
          PROVE  chain' # Hex!Old /\ InEeprom(f, k, Len(chain) - Commands)'
      <3>1. chain # Hex!Old /\ InEeprom(f, k, Len(chain) - Commands)
        BY <1>b, <2>1, <2>2, <2>6
      <3>2. InEeprom(f, k, Len(chain) - Commands)' <=> InEeprom(f, k, Len(chain) - Commands)
        BY <1>0, <2>3 DEF InEeprom
      <3> QED BY <2>3, <3>1, <3>2
    <2>7. boot' => chain' = Hex!Old \/ Whole(f)'
      BY <1>a, <1>d, <2>3
    <2> QED BY <1>a, <2>3, <2>5, <2>6, <2>7
  <1>2. CASE Hex!main \/ Hex!Finish \/ Hex!BeginRam \/ Hex!Run \/ Hex!ram_poke
    <2>1. UNCHANGED <<chain, boot>>
      BY <1>2 DEF Hex!main, Hex!Finish, Hex!BeginRam, Hex!Run, Hex!ram_poke
    <2>2. ~Storing'
      BY <1>2 DEF Hex!main, Hex!Finish, Hex!BeginRam, Hex!Run, Hex!ram_poke, Storing, Hex!Mode
    <2> QED BY <1>a, <1>d, <2>1, <2>2
  <1>3. CASE Hex!BeginEeprom
    <2>1. /\ pc' \in {"parse", "failed"} /\ line' = 1 /\ chain' = chain
          /\ boot' = FALSE \/ (pc' = "failed" /\ boot' = boot)
      BY <1>3 DEF Hex!BeginEeprom, Hex!BeginFile
    <2>2. \A k \in 1 .. Len(f) : ~Handled(k)'
      <3>1. line' - 1 = 0 /\ \A k \in 1 .. Len(f) : ~(k < 0) /\ k # 0
        BY <2>1
      <3> QED BY <2>1, <3>1 DEF Handled, AtEnd
    <2>3. Storing' => pc' = "parse"
      BY <2>1 DEF Storing
    <2> QED BY <1>a, <1>d, <2>1, <2>2, <2>3
  <1>4. CASE Hex!ParseRecord \/ Hex!ParseEnd
    <2>1. /\ pc = "parse" /\ UNCHANGED <<phases, chain, boot>>
          /\ pc' \in {"parse", "poke", "run", "last", "failed"}
      BY <1>4 DEF Hex!ParseRecord, Hex!ParseEnd, Hex!Flush, Hex!Append1
    <2>2. Storing' => Storing
      BY <2>1 DEF Storing, Hex!Mode
    <2>3. \A k \in 1 .. Len(f) : Flushes(f, k) /\ Handled(k)' => Handled(k)
      BY <1>4, HandledBefore DEF f
    <2>4. Commands = 0 /\ Commands' = 0
      BY <2>1 DEF Commands
    <2> QED BY <1>0, <1>a, <1>b, <1>d, <2>1, <2>2, <2>3, <2>4 DEF InEeprom
  <1>5. CASE Hex!eeprom_poke
    <2> DEFINE n == line - 1
    <2>1. /\ pc = "poke" /\ pc' \in {"parse", "failed"} /\ Storing
          /\ UNCHANGED <<phases, line, seg, out, boot>>
      BY <1>5 DEF Hex!eeprom_poke, Storing
    <2>2. ~boot' /\ Commands = 0 /\ Commands' = 0 /\ ~phases[1].loader /\ InFile
      BY <1>b, <2>1 DEF Commands, InFile
    <2>3. out.addr \in Nat /\ out.data \in Seq(FileBytes) /\ <<>> \in Seq(FileBytes)
      BY DEF LoaderKept, Segments
    <2>4. \A d \in Seq(FileBytes) : <<out.addr, d>> \in Parts /\ <<out.addr, d>> # <<"old">>
      BY <2>3, PartsDiffer DEF Parts
    <2>5. CASE pc' = "failed"
      <3>1. chain' = chain \/ \E d \in {<<>>, out.data} : Hex!Put(<<out.addr, d>>)
        BY <1>5, <2>5 DEF Hex!eeprom_poke
      <3>2. chain' \in Seq(Parts)
        BY <1>a, <2>3, <2>4, <3>1, PutBehind
      <3> QED BY <2>2, <2>5, <3>2 DEF Storing
    <2>6. CASE pc' = "parse"
      <3>1. Hex!Put(<<out.addr, out.data>>)
        BY <1>5, <2>6 DEF Hex!eeprom_poke
      <3>2. /\ chain' \in Seq(Parts) /\ Len(chain') \in Nat /\ chain' # Hex!Old /\ chain' # <<>>
            /\ chain'[Len(chain')] = <<out.addr, out.data>>
            /\ chain # Hex!Old => /\ Len(chain') = Len(chain) + 1
                                  /\ \A i \in 1 .. Len(chain) : chain'[i] = chain[i]
        BY <1>a, <2>3, <2>4, <3>1, PutBehind
      <3>3. <<out.addr, out.data>> = Part(f, n)
        BY <2>1, <2>2 DEF FileKept, ReadTo, Part, f
      <3>4. Len(chain') \in 1 .. Len(chain')
        <4>1. Len(chain') # 0
          BY <3>2
        <4> QED BY <3>2, <4>1
      <3>5. ASSUME NEW k \in 1 .. Len(f), Flushes(f, k), Handled(k)'
            PROVE  \E i \in 1 .. Len(chain') : chain'[i] = Part(f, k)
        <4>1. Handled(k) \/ k = n
          BY <2>1, <2>2, <2>6, <3>5 DEF Handled, InFile, AtEnd
        <4>2. CASE Handled(k)
          <5>1. chain # Hex!Old /\ InEeprom(f, k, Len(chain))
            <6>1. Len(chain) - Commands = Len(chain)
              BY <1>a, <2>2
            <6> QED BY <1>b, <2>1, <3>5, <4>2, <6>1
          <5>2. Len(chain) <= Len(chain') /\ Len(chain) \in Int /\ Len(chain') \in Int
            BY <1>a, <3>2, <5>1
          <5> QED BY <1>e, <3>2, <5>1, <5>2
        <4>3. CASE k = n
          BY <3>2, <3>3, <3>4, <4>3
        <4> QED BY <4>1, <4>2, <4>3
      <3>6. \A k \in 1 .. Len(f) : Flushes(f, k) /\ Handled(k)' =>
                InEeprom(f, k, Len(chain) - Commands)'
        <4>1. Len(chain') - Commands' = Len(chain')
          BY <2>2, <3>2
        <4> QED BY <1>0, <3>5, <4>1 DEF InEeprom, Part
      <3> QED BY <2>2, <2>6, <3>2, <3>6
    <2> QED BY <2>1, <2>5, <2>6
  <1>6. CASE Hex!EepromLast \/ Hex!EepromConfig
    <2> DEFINE p == IF pc = "last" THEN <<"reset">> ELSE <<"config">>
    <2>1. /\ pc \in {"last", "config"} /\ pc' \in {"failed", IF pc = "last" THEN "config" ELSE "type"}
          /\ UNCHANGED <<phases, line, seg, boot>>
          /\ Hex!Put(p) \/ (pc' = "failed" /\ chain' = chain)
      BY <1>6 DEF Hex!EepromLast, Hex!EepromConfig
    <2>2. Storing /\ ~phases[1].loader /\ AtEnd
      <3>1. Storing
        BY <2>1 DEF Storing, MemoryKept
      <3> QED BY <1>b, <2>1, <3>1 DEF AtEnd
    <2>3. ~boot'
      BY <1>b, <2>1, <2>2
    <2>4. p \in Parts /\ p # <<"old">>
      BY PartsDiffer DEF Parts
    <2> HIDE DEF p
    <2>5. CASE pc' = "failed"
      <3>1. chain' \in Seq(Parts)
        BY <1>a, <2>1, <2>4, PutBehind
      <3> QED BY <2>3, <2>5, <3>1 DEF Storing
    <2>6. CASE pc' # "failed"
      <3>1. /\ chain' \in Seq(Parts) /\ Len(chain') \in Nat /\ chain' # Hex!Old /\ chain' # <<>>
            /\ chain'[Len(chain')] = p
            /\ chain # Hex!Old => /\ Len(chain') = Len(chain) + 1
                                  /\ \A i \in 1 .. Len(chain) : chain'[i] = chain[i]
        BY <1>a, <2>1, <2>4, <2>6, PutBehind
      <3>2. ASSUME NEW k \in 1 .. Len(f), Flushes(f, k)
            PROVE  InEeprom(f, k, Len(chain) - Commands)'
        <4>1. chain # Hex!Old /\ InEeprom(f, k, Len(chain) - Commands)
          BY <1>b, <2>2, <3>2 DEF Handled
        <4>2. /\ Len(chain) - Commands \in Int /\ Len(chain') - Commands' \in Int
              /\ Len(chain) - Commands <= Len(chain') - Commands'
              /\ \A i \in 1 .. Len(chain) - Commands : i \in 1 .. Len(chain)
          <5>1. CASE pc = "last"
            <6>1. Commands = 0 /\ Commands' = 1
              BY <2>1, <2>6, <5>1 DEF Commands
            <6> QED BY <1>a, <3>1, <4>1, <6>1
          <5>2. CASE pc = "config"
            <6>1. Commands = 1 /\ Commands' = 2
              BY <2>1, <2>6, <5>2 DEF Commands
            <6> QED BY <1>a, <3>1, <4>1, <6>1
          <5> QED BY <2>1, <5>1, <5>2
        <4>3. \E i \in 1 .. Len(chain') - Commands' : chain'[i] = Part(f, k)
          BY <1>e, <3>1, <4>1, <4>2
        <4> QED BY <1>0, <4>3 DEF InEeprom, Part
      <3>3. CASE pc = "last"
        <4>1. pc' = "config" /\ p = <<"reset">>
          BY <2>1, <2>6, <3>3 DEF p
        <4> QED BY <2>3, <3>1, <3>2, <4>1
      <3>4. CASE pc = "config"
        <4>1. pc' = "type" /\ p = <<"config">>
          BY <2>1, <2>6, <3>4 DEF p
        <4>2. chain # Hex!Old /\ chain # <<>> /\ chain[Len(chain)] = <<"reset">>
          BY <1>b, <2>2, <3>4
        <4>3. Len(chain) # 0
          BY <1>a, <4>2
        <4>4. Len(chain') >= 2 /\ Len(chain') - 1 = Len(chain) /\ Len(chain) \in 1 .. Len(chain)
          BY <1>a, <3>1, <4>2, <4>3
        <4>5. Closed'
          BY <3>1, <4>1, <4>2, <4>4 DEF Closed
        <4> QED BY <2>3, <3>1, <3>2, <4>1, <4>4, <4>5
      <3> QED BY <2>1, <3>3, <3>4
    <2> QED BY <2>5, <2>6
  <1>7. CASE Hex!EepromType
    <2>1. pc = "type" /\ pc' \in {"link", "failed"} /\ chain' = chain
      BY <1>7 DEF Hex!EepromType
    <2>2. Storing
      BY <2>1 DEF Storing, MemoryKept
    <2>3. \A k : Handled(k)
      BY <1>b, <2>1, <2>2 DEF Handled, AtEnd
    <2>4. Commands = 2
      BY <2>1 DEF Commands
    <2>5. Whole(f)
      BY <1>b, <2>1, <2>2, <2>3, <2>4 DEF Whole
    <2>6. ~Storing'
      BY <2>1 DEF Storing
    <2> QED BY <1>a, <1>d, <2>1, <2>5, <2>6
  <1> QED BY <1>1, <1>2, <1>3, <1>4, <1>5, <1>6, <1>7 DEF Hex!Next

-----------------------------------------------------------------------------
(* fxload: what success means *)

\* A file ends before its first eof record, or behind its last line.
LEMMA EndExists ==
    ASSUME NEW f \in Seq(HexRecords)
    PROVE  \E n \in 0 .. Len(f) : Ends(f, n)
  <1> DEFINE T == {k \in Nat : k <= Len(f) /\ (k < Len(f) => f[k + 1].kind = "eof")}
  <1>1. Len(f) \in Nat /\ Len(f) \in T
    OBVIOUS
  <1>2. T \in SUBSET Nat /\ T # {}
    BY <1>1
  <1>3. PICK n \in T : \A k \in T : n <= k
    BY <1>2, LeastExists
  <1>4. n \in 0 .. Len(f) /\ n \in Nat /\ (n < Len(f) => f[n + 1].kind = "eof")
    BY <1>1, <1>3
  <1>5. ASSUME NEW k \in 1 .. n, f[k].kind = "eof"
        PROVE  FALSE
    <2>1. k - 1 \in Nat /\ k - 1 < n /\ k - 1 <= Len(f) /\ (k - 1) + 1 = k
      BY <1>1, <1>4
    <2>2. k - 1 \in T
      BY <1>5, <2>1
    <2>3. n <= k - 1
      BY <1>3, <2>2
    <2>4. ~(n <= k - 1)
      BY <1>4
    <2> QED BY <2>3, <2>4
  <1> QED BY <1>4, <1>5 DEF Ends, Hex!BeforeEof

\* A byte of a segment is where the file puts it.
LEMMA ByteInPlace ==
    ASSUME NEW f \in Seq(HexRecords), Hex!Plain(f), NEW k \in 0 .. Len(f),
           NEW m \in 1 .. Len(SegOf(f)[k].data), NEW i \in 1 .. Len(f), NEW j \in 1 .. f[i].len,
           SegOf(f)[k].data[m] = Hex!FileByte(i, j)
    PROVE  SegOf(f)[k].addr + m - 1 = f[i].off + j - 1
  <1>1. PICK l \in 1 .. k : StandsFor(f, SegOf(f)[k], m, l)
    BY SegmentsPlaced DEF Placed
  <1>2. PICK x \in 1 .. f[l].len :
            /\ SegOf(f)[k].data[m] = Hex!FileByte(l, x)
            /\ SegOf(f)[k].addr + m - 1 = f[l].off + x - 1
    BY <1>1 DEF StandsFor
  <1>3. Hex!FileByte(i, j).rec = Hex!FileByte(l, x).rec
        /\ Hex!FileByte(i, j).pos = Hex!FileByte(l, x).pos
    BY <1>2
  <1>4. i = l /\ j = x
    BY <1>3 DEF Hex!FileByte
  <1> QED BY <1>2, <1>4

\* When fxload is done the memory holds the file.
LEMMA MemoryHoldsFile ==
    ASSUME LoaderKept, MemoryKept
    PROVE  Hex!LoadedWhenDone
  <1> DEFINE f == opts.ihex
  <1>0. f \in Seq(HexRecords) /\ Len(f) \in Nat /\ DOMAIN f = 1 .. Len(f)
    BY FirmwareRecords
  <1>1. SUFFICES ASSUME pc = "done", f # <<>>, ~opts.config, Hex!Plain(f),
                        NEW i \in 1 .. Len(f), Hex!Data(f[i]), Hex!BeforeEof(f, i),
                        NEW j \in 1 .. f[i].len
                 PROVE  ram[f[i].off + j - 1] = Hex!FileByte(i, j)
    BY <1>0 DEF Hex!LoadedWhenDone
  <1>2. \A k \in 1 .. Len(f) : Flushes(f, k) => Held(f, k)
    BY <1>1 DEF MemoryKept, Due
  <1> HIDE DEF f
  <1>3. PICK n \in 0 .. Len(f) : Ends(f, n)
    BY <1>0, EndExists
  <1>4. PICK k \in 1 .. Len(f) : Flushes(f, k) /\ \E m \in 1 .. Len(SegOf(f)[k].data) :
            SegOf(f)[k].data[m] = Hex!FileByte(i, j)
    BY <1>0, <1>1, <1>3, WrittenAtEnd
  <1>5. PICK m \in 1 .. Len(SegOf(f)[k].data) : SegOf(f)[k].data[m] = Hex!FileByte(i, j)
    BY <1>4
  <1>6. ram[SegOf(f)[k].addr + m - 1] = Hex!FileByte(i, j)
    BY <1>2, <1>4, <1>5 DEF Held
  <1>7. SegOf(f)[k].addr + m - 1 = f[i].off + j - 1
    <2>1. k \in 0 .. Len(f)
      BY <1>0
    <2> QED BY <1>0, <1>1, <1>5, <2>1, ByteInPlace
  <1> QED BY <1>6, <1>7

\* The EEPROM boots only the earlier image or the whole file.
LEMMA ImageIsWhole ==
    ASSUME LoaderKept, EepromKept
    PROVE  Hex!BootsWholeImage
  <1> DEFINE f == opts.ihex
  <1>0. f \in Seq(HexRecords) /\ Len(f) \in Nat /\ DOMAIN f = 1 .. Len(f)
    BY FirmwareRecords
  <1>1. CASE ~boot \/ chain = Hex!Old
    BY <1>1 DEF Hex!BootsWholeImage
  <1>2. CASE Whole(f)
    <2>1. /\ Len(chain) >= 2 /\ Closed
          /\ \A k \in 1 .. Len(f) : Flushes(f, k) => InEeprom(f, k, Len(chain) - 2)
      BY <1>2 DEF Whole
    <2>2. ASSUME NEW i \in 1 .. Len(f), Hex!Data(f[i]), Hex!BeforeEof(f, i),
                 NEW j \in 1 .. f[i].len
          PROVE  \E n \in 1 .. Len(chain) - 2 : \E k \in DOMAIN chain[n][2] :
                     chain[n][2][k] = Hex!FileByte(i, j)
      <3> HIDE DEF f
      <3>1. PICK e \in 0 .. Len(f) : Ends(f, e)
        BY <1>0, EndExists
      <3>2. PICK k \in 1 .. Len(f) : Flushes(f, k) /\ \E m \in 1 .. Len(SegOf(f)[k].data) :
                SegOf(f)[k].data[m] = Hex!FileByte(i, j)
        BY <1>0, <2>2, <3>1, WrittenAtEnd
      <3>3. PICK m \in 1 .. Len(SegOf(f)[k].data) : SegOf(f)[k].data[m] = Hex!FileByte(i, j)
        BY <3>2
      <3>4. PICK n \in 1 .. Len(chain) - 2 : chain[n] = Part(f, k)
        BY <2>1, <3>2 DEF InEeprom
      <3>5. chain[n][2] = SegOf(f)[k].data
        BY <3>4 DEF Part
      <3>6. DOMAIN SegOf(f)[k].data = 1 .. Len(SegOf(f)[k].data)
        <4>1. SegOf(f)[k] \in Segments
          BY <1>0, SegmentsTyped
        <4> QED BY <4>1 DEF Segments
      <3> QED BY <3>3, <3>5, <3>6
    <2> QED BY <1>0, <2>1, <2>2 DEF Hex!BootsWholeImage, Closed
  <1> QED BY <1>1, <1>2 DEF EepromKept
-----------------------------------------------------------------------------
(* The FTDI cable: two walks over a batch *)

LEMMA BatchBegins ==
    ASSUME Init
    PROVE  BatchKept
  <1>1. Zero \in Values /\ BufSize \in Nat
    BY TransferAssumption
  <1>2. Pins(Zero) \in PinValues
    BY <1>1 DEF PinValues
  <1> QED BY <1>1, <1>2 DEF Init, BatchKept, BufferBounded, ReadsAligned

\* A batch keeps it.
LEMMA BatchKeeps ==
    ASSUME BatchKept, NEW n \in 1 .. MaxBatch, NEW tr \in [1 .. n -> Accesses],
           jtagkey_transfer(tr)
    PROVE  BatchKept'
  <1> DEFINE sent   == MustSend(writebuf, tr)
             before == IF sent THEN <<>> ELSE writebuf
             s      == <<before, last_data, last_write>>
             c      == Collect(s, tr)
             u      == Answers(tr, last_write)
             first  == c[n]
             second == u[n]
             p      == IF sent THEN last_data ELSE onPins
  <1>0. /\ MaxBatch \in Nat /\ BufSize \in Nat /\ MaxBatch < BufSize
        /\ n \in Nat /\ n > 0 /\ n <= MaxBatch /\ tr \in Seq(Accesses) /\ Len(tr) = n
        /\ n \in 0 .. n
    BY TransferAssumption
  <1>1. /\ writebuf \in Seq(PinValues) /\ last_write \in Values /\ onPins \in PinValues
        /\ last_data = Pins(last_write) /\ last_data \in PinValues
        /\ Len(writebuf) \in Nat /\ Len(writebuf) <= BufSize
        /\ last_data = IF writebuf = <<>> THEN onPins ELSE writebuf[Len(writebuf)]
    BY DEF BatchKept, BufferBounded, PinValues, Last
  <1>2. before \in Seq(PinValues) /\ Len(before) \in Nat
    BY <1>1
  <1>3. s[1] = before /\ s[2] = last_data /\ s[3] = last_write
    OBVIOUS
  <1>4. s \in Gathered
    BY <1>1, <1>2 DEF Gathered
  <1>5. s[2] = IF before = <<>> THEN p ELSE before[Len(before)]
    BY <1>1, <1>3
  <1>6. /\ last_data' = first[2]
        /\ plain' = Plain(tr, last_write)
        /\ HasRead(tr) =>
             /\ writebuf' = <<>> /\ last_write' = second[2] /\ onPins' = first[2]
             /\ aligned' = \A k \in DOMAIN second[3] :
                             /\ second[3][k][2] < Len(Append(first[1], first[2]))
                             /\ Changes(Append(first[1], first[2]), last_data, second[3][k][2])
                                  = ChangesAsked(tr, last_write, second[3][k][1])
        /\ ~HasRead(tr) =>
             /\ writebuf' = first[1] /\ last_write' = first[3] /\ aligned' = TRUE
             /\ onPins' = IF sent /\ writebuf # <<>> THEN writebuf[Len(writebuf)] ELSE onPins
    <2> HIDE DEF sent
    <2> USE <1>0 DEF jtagkey_transfer, Last
    <2>1. last_data' = first[2] /\ plain' = Plain(tr, last_write)
      BY DEF sent
    <2>2. CASE HasRead(tr)
      BY <2>1, <2>2 DEF sent
    <2>3. CASE ~HasRead(tr)
      BY <2>1, <2>3 DEF sent
    <2> QED BY <2>1, <2>2, <2>3
  <1>7. Len(before) + n <= BufSize
    <2> DEFINE l == Len(writebuf)
               k == Len(before)
    <2>1. CASE sent
      <3>1. k = 0
        BY <2>1
      <3> HIDE DEF k
      <3>2. k + n <= BufSize
        BY <1>0, <3>1
      <3> QED BY <3>2 DEF k
    <2>2. CASE ~sent
      <3>1. k = l /\ ~(l > BufSize - n)
        BY <1>0, <2>2 DEF MustSend
      <3>2. l \in Nat
        BY <1>1
      <3> HIDE DEF k, l
      <3>3. k + n <= BufSize
        BY ONLY <1>0, <3>1, <3>2
      <3> QED BY <3>3 DEF k
    <2> QED BY <2>1, <2>2
  <1>8. HasRead(tr) => before = <<>>
    BY DEF MustSend
  <1> HIDE DEF sent, before, s, p
  <1>9. Good(s, p)
    BY <1>1, <1>3, <1>5 DEF Good
  <1>10. /\ c \in [0 .. n -> Gathered] /\ u \in [0 .. n -> Matched]
    BY <1>0, <1>1, <1>4, CollectWalks, AnswersWalk
  <1>11. /\ Good(first, p) /\ Len(first[1]) \in Nat /\ Len(first[1]) <= Len(s[1]) + n
         /\ first[1] # <<>>
    BY <1>0, <1>4, <1>9, CollectKeeps
  <1>12. first[3] = second[2]
    BY <1>0, <1>1, <1>3, <1>4, SameWrite
  <1>13. ASSUME HasRead(tr), Plain(tr, last_write)
         PROVE  InStep(tr, last_write, n, first, second)
    <2>1. s = <<<<>>, Pins(last_write), last_write>>
      BY <1>1, <1>8, <1>13 DEF s
    <2> QED BY <1>0, <1>1, <1>13, <2>1, WalksAgree
  <1>14. first \in Gathered /\ second \in Matched
    BY <1>0, <1>10
  <1> HIDE DEF c, u, first, second
  <1>15. /\ first[1] \in Seq(PinValues) /\ first[2] \in PinValues /\ first[3] \in Values
         /\ first[2] = Pins(first[3]) /\ first[2] = first[1][Len(first[1])]
         /\ second[3] \in Seq(Nat \X Nat)
    BY <1>11, <1>14 DEF Gathered, Matched, Good
  <1>16. Len(first[1]) <= BufSize
    <2> DEFINE x == Len(first[1])
               y == Len(before)
    <2>1. x \in Nat /\ y \in Nat /\ x <= y + n /\ y + n <= BufSize
      BY <1>2, <1>3, <1>7, <1>11
    <2> HIDE DEF x, y
    <2>2. x <= BufSize
      BY <1>0, <2>1
    <2> QED BY <2>2 DEF x
  <1>17. /\ writebuf' \in Seq(PinValues) /\ last_write' \in Values /\ onPins' \in PinValues
         /\ last_data' = Pins(last_write')
    <2>1. CASE HasRead(tr)
      <3>1. /\ writebuf' = <<>> /\ last_write' = first[3] /\ onPins' = first[2]
            /\ last_data' = first[2]
        BY <1>6, <1>12, <2>1
      <3>2. <<>> \in Seq(PinValues)
        OBVIOUS
      <3>3. Pins(last_write') = first[2]
        BY <1>15, <3>1
      <3> QED BY <1>15, <3>1, <3>2, <3>3
    <2>2. CASE ~HasRead(tr)
      <3>1. writebuf # <<>> => writebuf[Len(writebuf)] \in PinValues
        BY <1>1
      <3> QED BY <1>1, <1>6, <1>15, <2>2, <3>1
    <2> QED BY <2>1, <2>2
  <1>18. BufferBounded'
    <2>1. CASE HasRead(tr)
      BY <1>0, <1>6, <2>1 DEF BufferBounded
    <2>2. CASE ~HasRead(tr)
      BY <1>6, <1>11, <1>15, <1>16, <2>2 DEF BufferBounded, Last
    <2> QED BY <2>1, <2>2
  <1>19. ReadsAligned'
    <2>1. CASE ~HasRead(tr)
      BY <1>6, <2>1 DEF ReadsAligned
    <2>2. ASSUME HasRead(tr), Plain(tr, last_write)
          PROVE  aligned'
      <3> DEFINE b == first[1]
                 r == second[3]
                 stream == Append(b, first[2])
      <3>1. /\ b \in Seq(PinValues) /\ Len(b) \in Nat /\ first[2] \in PinValues
            /\ r \in Seq(Nat \X Nat) /\ Len(stream) = Len(b) + 1
        BY <1>11, <1>15
      <3>2. \A k \in 1 .. Len(r) :
                /\ r[k][2] \in 0 .. Len(b)
                /\ Changes(b, last_data, r[k][2]) = ChangesAsked(tr, last_write, r[k][1])
        BY <1>1, <1>13, <2>2 DEF InStep
      <3> HIDE DEF b, r
      <3>3. \A m \in 0 .. Len(b) : Changes(stream, last_data, m) = Changes(b, last_data, m)
        <4> DEFINE x == first[2]
        <4>1. b \in Seq(PinValues) /\ x \in PinValues
          BY <3>1
        <4> HIDE DEF x
        <4>2. \A m \in 0 .. Len(b) : Changes(Append(b, x), last_data, m) = Changes(b, last_data, m)
          BY <1>1, <4>1, ChangesStep
        <4> QED BY <4>2 DEF x
      <3> HIDE DEF stream
      <3>4. ASSUME NEW k \in DOMAIN r
            PROVE  /\ r[k][2] < Len(stream)
                   /\ Changes(stream, last_data, r[k][2]) = ChangesAsked(tr, last_write, r[k][1])
        <4>1. k \in 1 .. Len(r)
          BY <3>1
        <4>2. /\ r[k][2] \in 0 .. Len(b)
              /\ Changes(b, last_data, r[k][2]) = ChangesAsked(tr, last_write, r[k][1])
          BY <3>2, <4>1
        <4> DEFINE x == r[k][2]
        <4>3. x \in 0 .. Len(b)
          BY <4>2
        <4> HIDE DEF x
        <4>4. x < Len(stream)
          BY <3>1, <4>3
        <4> QED BY <3>3, <4>2, <4>4 DEF x
      <3> QED BY <1>6, <2>2, <3>4 DEF stream, b, r
    <2> QED BY <1>6, <2>1, <2>2 DEF ReadsAligned
  <1> QED BY <1>17, <1>18, <1>19 DEF BatchKept

LEMMA BatchKeptInductive ==
    BatchKept /\ (Next \/ UNCHANGED vars) => BatchKept'
  <1>1. ASSUME BatchKept, UNCHANGED vars
        PROVE  BatchKept'
    <2>1. /\ writebuf' = writebuf /\ last_data' = last_data /\ last_write' = last_write
          /\ onPins' = onPins /\ (aligned' <=> aligned) /\ (plain' <=> plain)
      BY <1>1 DEF vars
    <2>2. BufferBounded' /\ ReadsAligned'
      BY <1>1, <2>1, Zenon DEF BatchKept, BufferBounded, ReadsAligned
    <2> QED BY <1>1, <2>1, <2>2, Zenon DEF BatchKept
  <1> QED BY <1>1, BatchKeeps DEF Next

-----------------------------------------------------------------------------
(* The kernel module: mappings and interfaces *)

LEMMA MapKeptInductive ==
    /\ MapKept
    /\ Kernel!IrqNext \/ Kernel!DmaNext \/ Kernel!MapNext \/ UNCHANGED kernelPart
    => MapKept'
  <1> SUFFICES ASSUME MapKept,
                      Kernel!IrqNext \/ Kernel!DmaNext \/ Kernel!MapNext \/ UNCHANGED kernelPart
               PROVE  MapKept'
    OBVIOUS
  <1> USE DEF Kernel!mapVars
  <1>0. 0 \notin Threads
    BY CableAssumption
  <1>1. CASE UNCHANGED Kernel!mapVars
    BY <1>1 DEF MapKept, Kernel!MappingsOwn
  <1>2. CASE Kernel!IrqNext \/ Kernel!DmaNext \/ Kernel!init_module \/ UNCHANGED kernelPart
    <2>1. UNCHANGED Kernel!mapVars
      BY <1>2 DEF Kernel!IrqNext, Kernel!DmaNext, Kernel!init_module, Kernel!cleanup_module,
                  Kernel!LINUX_request_irq, Kernel!LINUX_free_irq, Kernel!InsertWrapper,
                  Kernel!FreeWrapper, Kernel!LINUX_build_sg_dma, Kernel!build_dma_list_26,
                  Kernel!LINUX_free_sg_dma, kernelPart
    <2> QED BY <1>1, <2>1
  <1>3. ASSUME NEW t \in Threads, Kernel!DoMmapLock(t)
        PROVE  MapKept'
    <2>1. /\ mapPc[t] = "idle" /\ mmap_sem \in {0, t} /\ mmap_sem' = t
          /\ mapPc' = [mapPc EXCEPT ![t] = "locked"] /\ UNCHANGED <<private_data, mapped>>
      BY <1>3 DEF Kernel!DoMmapLock, Kernel!MmLocked
    <2>2. \A u \in Threads : mapPc'[u] # "idle" => u = t
      BY <1>0, <2>1 DEF MapKept
    <2> QED BY <2>1, <2>2 DEF MapKept, Kernel!MappingsOwn
  <1>4. ASSUME NEW t \in Threads, NEW b \in MapBuffers, Kernel!DoMmapSet(t, b)
        PROVE  MapKept'
    <2>1. /\ mapPc[t] = "locked" /\ private_data' = b
          /\ mapPc' = [mapPc EXCEPT ![t] = IF b = 0 THEN "io" ELSE "buffer"]
          /\ mapped' \subseteq mapped /\ UNCHANGED mmap_sem
      BY <1>4 DEF Kernel!DoMmapSet
    <2>2. \A u \in Threads : mapPc[u] # "idle" => u = t
      BY <2>1 DEF MapKept
    <2> QED BY <2>1, <2>2 DEF MapKept, Kernel!MappingsOwn
  <1>5. ASSUME NEW t \in Threads, Kernel!wd_mmap(t)
        PROVE  MapKept'
    <2> DEFINE m == [thread |-> t, asked |-> mapPc[t], vm_private_data |-> private_data]
    <2>1. /\ mapPc[t] \in {"io", "buffer"} /\ mapped' \subseteq mapped \cup {m}
          /\ mapPc' = [mapPc EXCEPT ![t] = "idle"] /\ UNCHANGED private_data
      BY <1>5 DEF Kernel!wd_mmap
    <2>2. \A u \in Threads : mapPc'[u] = "idle"
      BY <2>1 DEF MapKept
    <2>3. (m.asked = "io") <=> (m.vm_private_data = 0)
      BY <2>1 DEF MapKept
    <2> HIDE DEF m
    <2>4. Kernel!MappingsOwn'
      BY <2>1, <2>3 DEF MapKept, Kernel!MappingsOwn
    <2> QED BY <2>1, <2>2, <2>4 DEF MapKept
  <1>6. CASE Kernel!LINUX_do_munmap
    BY <1>6 DEF Kernel!LINUX_do_munmap, MapKept, Kernel!MappingsOwn
  <1> QED BY <1>2, <1>3, <1>4, <1>5, <1>6 DEF Kernel!MapNext

LEMMA SelectedKeptInductive ==
    SelectedKept /\ (Info!Next \/ UNCHANGED infoPart) => SelectedKept'
  <1> SUFFICES ASSUME SelectedKept, Info!Next \/ UNCHANGED infoPart
               PROVE  SelectedKept'
    OBVIOUS
  <1>0. udev \in Seq(Configurations)
    BY CableAssumption DEF SelectedKept
  <1>1. CASE UNCHANGED infoPart
    BY <1>1 DEF infoPart, SelectedKept, Info!ActiveExists, Info!SelectedExists
  <1>2. ASSUME NEW c \in Numbers, NEW n \in Numbers, NEW a \in Numbers,
               Info!OS_get_device_info(c, n, a)
        PROVE  SelectedKept'
    <2>1. UNCHANGED <<udev, set>> /\ active' = Info!ActiveIn(udev, c, n, a)
      BY <1>2 DEF Info!OS_get_device_info
    <2>2. \E i \in DOMAIN udev : udev[i].value = c
      BY <1>2 DEF Info!OS_get_device_info
    <2>3. Info!ActiveExists'
      BY <2>1, <2>2, ActiveFound DEF SelectedKept, Info!ActiveExists
    <2> QED BY <2>1, <2>3 DEF SelectedKept, Info!SelectedExists
  <1>3. ASSUME NEW n \in Numbers, NEW a \in Numbers, Info!OS_set_interface(n, a)
        PROVE  SelectedKept'
    <2> DEFINE ifs == udev[1].ifs
               j == IF \E i \in DOMAIN ifs : ifs[i].num = n
                    THEN CHOOSE i \in DOMAIN ifs : ifs[i].num = n ELSE 0
               k == IF j = 0 THEN 0 ELSE Info!find_alt_set_index(ifs[j], a)
    <2>1. /\ UNCHANGED <<udev, active>> /\ status' # "info"
          /\ UNCHANGED set \/ (k # 0 /\ set' = [set EXCEPT ![n] = a])
      BY <1>3 DEF Info!OS_set_interface
    <2>2. Info!ActiveExists'
      BY <2>1 DEF Info!ActiveExists
    <2>3. ASSUME k # 0
          PROVE  \E x \in DOMAIN ifs :
                     ifs[x].num = n /\ \E y \in DOMAIN ifs[x].alts : ifs[x].alts[y].alt = a
      <3>1. j # 0 /\ Info!find_alt_set_index(ifs[j], a) # 0
        BY <2>3
      <3>2. j \in DOMAIN ifs /\ ifs[j].num = n
        BY <3>1
      <3>3. \E y \in DOMAIN ifs[j].alts : ifs[j].alts[y].alt = a
        BY <3>1 DEF Info!find_alt_set_index
      <3> QED BY <3>2, <3>3
    <2> HIDE DEF ifs, j, k
    <2>4. Info!SelectedExists'
      BY <2>1, <2>3 DEF SelectedKept, Info!SelectedExists, ifs
    <2> QED BY <2>1, <2>2, <2>4 DEF SelectedKept
  <1> QED BY <1>1, <1>2, <1>3 DEF Info!Next

\* The bytes that a piece moves go on in order.
LEMMA MovedOn ==
    ASSUME moved \in Seq(Nat), cur \in Nat, Len(moved) = cur,
           \A i \in 1 .. Len(moved) : moved[i] = i,
           NEW n \in Nat, moved' = moved \o [i \in 1 .. n |-> cur + i]
    PROVE  /\ moved' \in Seq(Nat) /\ Len(moved') = cur + n
           /\ \A i \in 1 .. Len(moved') : moved'[i] = i
  <1> DEFINE u == [i \in 1 .. n |-> cur + i]
             N == Nat
             s == moved
             t == moved'
             m == cur
  <1>1. u \in Seq(N) /\ Len(u) = n /\ (\A i \in 1 .. n : u[i] = m + i) /\ s \in Seq(N)
    OBVIOUS
  <1>t. t = s \o u /\ m \in Nat /\ Len(s) = m /\ \A i \in 1 .. m : s[i] = i
    OBVIOUS
  <1> HIDE DEF u, N, s, t, m
  <1>2. /\ s \o u \in Seq(N) /\ Len(s \o u) = Len(s) + Len(u)
        /\ \A i \in 1 .. Len(s) : (s \o u)[i] = s[i]
        /\ \A i \in 1 .. Len(u) : (s \o u)[Len(s) + i] = u[i]
    <2>1. u \in Seq(N) /\ s \in Seq(N)
      BY <1>1
    <2>2. s \o u \in Seq(N)
      BY ONLY <2>1, Joined
    <2>3. /\ Len(s \o u) = Len(s) + Len(u)
          /\ \A i \in 1 .. Len(s) : (s \o u)[i] = s[i]
          /\ \A i \in 1 .. Len(u) : (s \o u)[Len(s) + i] = u[i]
      BY ONLY <2>1, Halves
    <2> QED BY <2>2, <2>3
  <1>3. /\ t \in Seq(N) /\ Len(t) = m + n
        /\ \A i \in 1 .. m : t[i] = i
        /\ \A i \in 1 .. n : t[m + i] = m + i
    BY <1>1, <1>t, <1>2
  <1>4. ASSUME NEW i \in 1 .. m + n
        PROVE  t[i] = i
    <2> USE <1>t
    <2>1. CASE i <= m
      BY <1>3, <2>1
    <2>2. CASE ~(i <= m)
      <3>1. i - m \in 1 .. n /\ m + (i - m) = i
        BY <2>2
      <3>2. t[m + (i - m)] = m + (i - m)
        BY <1>3, <3>1
      <3> QED BY <3>1, <3>2
    <2> QED BY <2>1, <2>2
  <1> QED BY <1>3, <1>4 DEF N, t, m

-----------------------------------------------------------------------------
(* The kernel module: the bytes of a transfer *)

\* A piece is part of what is left, or all if that fits and ends in a full packet.
LEMMA PieceFits ==
    ASSUME NEW l \in Nat, NEW a \in Nat
    PROVE  LET s == Wd!PieceOf(Wd!Min2(l, a))
           IN  /\ s \in Nat /\ s <= l
               /\ l <= a /\ ~(req.type = "iso" /\ l % PacketSize # 0) => s = l
  <1> DEFINE m == Wd!Min2(l, a)
             w == (m \div PacketSize) * PacketSize
  <1>1. m \in Nat /\ m <= l /\ (l <= a => m = l)
    BY DEF Wd!Min2
  <1> HIDE DEF m
  <1>2. w \in Nat /\ w <= m /\ (m % PacketSize = 0 => w = m)
    BY <1>1, WholePackets, CableAssumption
  <1> HIDE DEF w
  <1>3. Wd!PieceOf(m) = IF req.type = "iso" /\ m > PacketSize THEN w ELSE m
    BY DEF Wd!PieceOf, w
  <1> QED BY <1>1, <1>2, <1>3 DEF m

LEMMA BytesCountedInductive ==
    TransferKept /\ BytesCounted /\ (Wd!Next \/ UNCHANGED wdPart) => BytesCounted'
  <1> SUFFICES ASSUME TransferKept, BytesCounted, Wd!Next \/ UNCHANGED wdPart
               PROVE  BytesCounted'
    OBVIOUS
  <1> USE DEF Wd!transferVars
  <1>0. /\ xfer \notin {"none", "done"} => "dev" \in heap
        /\ urb = "flying" => xfer = "wait" /\ ~is_finished
    BY DEF TransferKept, Wd!ContextsAlive
  <1>1. CASE UNCHANGED wdPart
    BY <1>1 DEF wdPart, BytesCounted, Wd!WholeTransfer
  <1>2. CASE Wd!OS_register_devices
    BY <1>2 DEF Wd!OS_register_devices, BytesCounted, Wd!WholeTransfer
  <1>3. CASE Wd!OS_unregister_devices
    BY <1>3 DEF Wd!OS_unregister_devices, BytesCounted, Wd!WholeTransfer
  <1>4. CASE Wd!usb_generic_probe
    BY <1>0, <1>4 DEF Wd!usb_generic_probe, Wd!Attached, BytesCounted, Wd!WholeTransfer
  <1>5. CASE Wd!DisconnectBegins
    BY <1>5 DEF Wd!DisconnectBegins, BytesCounted, Wd!WholeTransfer
  <1>6. CASE Wd!CoreEndsUrb
    BY <1>0, <1>6 DEF Wd!CoreEndsUrb, BytesCounted, Wd!WholeTransfer
  <1>7. CASE Wd!DisconnectEnds
    BY <1>7 DEF Wd!DisconnectEnds, BytesCounted, Wd!WholeTransfer
  <1>8. ASSUME NEW r \in Wd!Requests, Wd!Begin(r)
        PROVE  BytesCounted'
    <2>1. r.bytes \in Nat /\ r.allocated = 0
      BY CableAssumption DEF Wd!Requests
    <2>2. /\ xfer = "none" /\ left' = r.bytes /\ xfer' \in {"submit", "exit"}
          /\ xfer' = "exit" => rc' # "0"
          /\ xfer' = "submit" => UNCHANGED rc
          /\ UNCHANGED <<single_len, reported, urb, actual, moved, cur>>
      BY <1>8 DEF Wd!Begin
    <2>3. req' = r \/ \E n \in Nat : req' = [r EXCEPT !.allocated = n]
      <3>1. r.bytes # 0 => Wd!try_allocate(r.type, r.bytes) \subseteq Nat
        BY <2>1, AllocatePositive
      <3> QED BY <2>1, <1>8, <3>1 DEF Wd!Begin
    <2>4. req'.bytes = r.bytes /\ req'.allocated \in Nat
      BY <2>1, <2>3 DEF Wd!Requests
    <2>5. reported = 0 /\ moved = <<>> /\ Len(moved) = 0 /\ rc = "0"
      BY <2>2 DEF BytesCounted
    <2> QED BY <2>1, <2>2, <2>4, <2>5 DEF BytesCounted, Wd!WholeTransfer
  <1>9. CASE Wd!StopAtRemainder
    BY <1>9 DEF Wd!StopAtRemainder, BytesCounted, Wd!WholeTransfer
  <1>10. CASE Wd!usb_transfer_single
    <2>1. /\ xfer = "submit" /\ single_len' = Wd!PieceOf(Wd!Min2(left, req.allocated))
          /\ \/ xfer' = "wait" /\ urb' = "flying"
             \/ xfer' = "exit" /\ rc' # "0"
          /\ UNCHANGED <<req, left, reported, actual, moved, cur>>
      BY <1>10 DEF Wd!usb_transfer_single
    <2>2. left \in Nat /\ req.allocated \in Nat
      BY DEF BytesCounted
    <2>3. /\ single_len' \in Nat /\ single_len' <= left
          /\ left <= req.allocated /\ ~(req.type = "iso" /\ left % PacketSize # 0) =>
                single_len' = left
      BY <2>1, <2>2, PieceFits
    <2> QED BY <2>1, <2>3 DEF BytesCounted, Wd!WholeTransfer
  <1>11. ASSUME NEW n \in 0 .. single_len, NEW st \in Wd!Statuses, Wd!Complete(n, st)
         PROVE  BytesCounted'
    <2>1. /\ urb = "flying" /\ xfer = "wait" /\ urb' = "set" /\ actual' = n
          /\ moved' = moved \o [i \in 1 .. n |-> cur + i]
          /\ UNCHANGED <<xfer, req, left, single_len, reported, rc, cur>>
      BY <1>0, <1>11 DEF Wd!Complete
    <2>2. n \in Nat /\ n <= single_len
      BY DEF BytesCounted
    <2>3. cur = reported /\ Len(moved) = cur /\ cur \in Nat /\ moved \in Seq(Nat)
          /\ \A i \in 1 .. Len(moved) : moved[i] = i
      BY <2>1 DEF BytesCounted
    <2>4. /\ moved' \in Seq(Nat) /\ Len(moved') = cur + n
          /\ \A i \in 1 .. Len(moved') : moved'[i] = i
      BY <2>1, <2>2, <2>3, MovedOn
    <2> QED BY <2>1, <2>2, <2>3, <2>4 DEF BytesCounted, Wd!WholeTransfer
  <1>12. CASE Wd!usb_common_completion
    BY <1>12 DEF Wd!usb_common_completion, BytesCounted, Wd!WholeTransfer
  <1>13. CASE Wd!Woken
    BY <1>0, <1>13 DEF Wd!Woken, BytesCounted, Wd!WholeTransfer
  <1>14. CASE Wd!TimedOut
    BY <1>0, <1>14 DEF Wd!TimedOut, Wd!Killed, BytesCounted, Wd!WholeTransfer
  <1>15. CASE Wd!AfterPiece
    <2>0. /\ req.bytes \in Nat /\ left \in Nat /\ reported \in Nat /\ single_len \in Nat
          /\ actual \in Nat /\ cur = reported /\ reported + left = req.bytes
          /\ single_len <= left /\ Len(moved) = reported + actual /\ actual <= single_len
          /\ left <= req.allocated /\ ~(req.type = "iso" /\ left % PacketSize # 0) =>
                single_len = left
          /\ ~req.limit => reported = 0
      BY <1>0, <1>15 DEF Wd!AfterPiece, BytesCounted
    <2>1. CASE rc \notin {"0", "-EOVERFLOW"}
      BY <1>15, <2>0, <2>1 DEF Wd!AfterPiece, BytesCounted, Wd!WholeTransfer
    <2>2. CASE rc \in {"0", "-EOVERFLOW"}
      <3> DEFINE n == Wd!Min2(actual, single_len)
      <3>1. n = actual
        BY <2>0 DEF Wd!Min2
      <3> HIDE DEF n
      <3>2. /\ cur' = cur + n /\ left' = left - n /\ reported' = reported + n
            /\ rc' = IF req.bytes = 0 THEN rc ELSE "0"
            /\ timeLeft' \in Wd!Passed
            /\ xfer' = IF \/ req.bytes = 0
                          \/ req.type # "iso" /\ n < single_len
                          \/ left' = 0 \/ ~timeLeft' \/ ~connected \/ is_halted
                       THEN "exit" ELSE "submit"
            /\ UNCHANGED <<connected, req, single_len, urb, actual, is_halted, moved>>
        BY <1>15, <2>2 DEF Wd!AfterPiece, n
      <3>3. /\ cur' = reported' /\ left' \in Nat /\ reported' \in Nat
            /\ reported' + left' = req.bytes /\ Len(moved) = reported'
        BY <2>0, <3>1, <3>2
      <3>4. ~req.limit => timeLeft' = FALSE
        BY <3>2 DEF Wd!Passed
      <3>5. xfer' = "submit" => rc' = "0" /\ req.limit
        BY <3>2, <3>4
      <3>6. Wd!WholeTransfer'
        <4> SUFFICES ASSUME xfer' = "exit", reported' < req.bytes, ~(actual < single_len),
                            ~is_halted, connected, ~req.limit,
                            ~(req.bytes > req.allocated
                              \/ (req.type = "iso" /\ req.bytes % PacketSize # 0))
                     PROVE  FALSE
          <5>1. xfer' = "exit" /\ ~is_halted /\ connected /\ reported' < req.bytes
                /\ ~(actual < single_len) /\ req.limit => ~timeLeft'
            BY <2>0, <3>1, <3>2, <3>3
          <5> QED BY <3>2, <5>1 DEF Wd!WholeTransfer
        <4>1. req.allocated \in Nat
          BY DEF BytesCounted
        <4>2. reported = 0 /\ left = req.bytes
          BY <2>0
        <4>3. single_len = left
          BY <2>0, <4>1, <4>2
        <4> QED BY <2>0, <3>1, <3>2, <4>2, <4>3
      <3>7. xfer' \in {"submit", "exit"}
        BY <3>2
      <3> QED BY <3>2, <3>3, <3>5, <3>6, <3>7, SMTT(30) DEF BytesCounted
    <2> QED BY <2>1, <2>2
  <1>16. CASE Wd!OS_halt_transfer
    BY <1>0, <1>16 DEF Wd!OS_halt_transfer, Wd!Killed, BytesCounted, Wd!WholeTransfer
  <1>17. CASE Wd!Exit
    BY <1>17 DEF Wd!Exit, BytesCounted, Wd!WholeTransfer
  <1> QED BY <1>1, <1>2, <1>3, <1>4, <1>5, <1>6, <1>7, <1>8, <1>9, <1>10, <1>11, <1>12, <1>13,
             <1>14, <1>15, <1>16, <1>17 DEF Wd!Next

\* What OS_transfer reports follows from it.
LEMMA BytesReported ==
    ASSUME BytesCounted
    PROVE  Wd!TransferExact
  <1>1. reported <= Len(moved)
    <2> DEFINE m == Len(moved)
    <2>1. m \in Nat /\ reported \in Nat /\ actual \in Nat
      BY DEF BytesCounted
    <2>2. m = reported \/ m = reported + actual \/ reported <= m
      <3>1. xfer = "none" => reported = 0 /\ Len(<<>>) = 0
        BY DEF BytesCounted
      <3> QED BY <3>1 DEF BytesCounted
    <2> HIDE DEF m
    <2>3. reported <= m
      BY <2>1, <2>2
    <2> QED BY <2>3 DEF m
  <1> QED BY <1>1 DEF BytesCounted, Wd!TransferExact

-----------------------------------------------------------------------------
(* The USB cable: the descriptors in their buffer *)

\* A piece of something is something.
LEMMA PiecePositive ==
    ASSUME NEW l \in Nat \ {0}, NEW a \in Nat \ {0}
    PROVE  Wd!PieceOf(Wd!Min2(l, a)) > 0
  <1> DEFINE m == Wd!Min2(l, a)
             q == m \div PacketSize
  <1>0. PacketSize \in Nat \ {0}
    BY CableAssumption
  <1>1. m \in Nat \ {0}
    BY DEF Wd!Min2
  <1> HIDE DEF m
  <1>2. Wd!PieceOf(m) = IF req.type = "iso" /\ m > PacketSize THEN q * PacketSize ELSE m
    BY DEF Wd!PieceOf
  <1>3. m > PacketSize => q \in Nat \ {0}
    BY <1>0, <1>1
  <1> HIDE DEF q
  <1>4. q \in Nat \ {0} => q * PacketSize \in Nat \ {0}
    BY <1>0
  <1> QED BY <1>1, <1>2, <1>3, <1>4 DEF m

LEMMA PiecesKeptInductive ==
    BytesCounted /\ PiecesKept /\ (Wd!Next \/ UNCHANGED wdPart) => PiecesKept'
  <1> SUFFICES ASSUME BytesCounted, PiecesKept, Wd!Next \/ UNCHANGED wdPart
               PROVE  PiecesKept'
    OBVIOUS
  <1> USE DEF Wd!transferVars
  <1>0. /\ req.bytes \in Nat /\ req.allocated \in Nat /\ left \in Nat /\ single_len \in Nat
        /\ actual \in Nat
    BY DEF BytesCounted
  <1>1. ASSUME UNCHANGED <<req, left, single_len>>, xfer' # "submit" \/ xfer = "submit",
               xfer' = "wait" => xfer = "wait", xfer' = "after" => xfer \in {"wait", "after"}
        PROVE  PiecesKept'
    BY <1>1 DEF PiecesKept, Wd!PieceNotEmpty
  <1>2. CASE UNCHANGED wdPart
    BY <1>1, <1>2 DEF wdPart
  <1>3. CASE \/ Wd!OS_register_devices \/ Wd!OS_unregister_devices \/ Wd!usb_generic_probe
             \/ Wd!DisconnectBegins \/ Wd!CoreEndsUrb \/ Wd!DisconnectEnds
             \/ Wd!usb_common_completion
    BY <1>1, <1>3 DEF Wd!OS_register_devices, Wd!OS_unregister_devices, Wd!usb_generic_probe,
          Wd!DisconnectBegins, Wd!CoreEndsUrb, Wd!DisconnectEnds, Wd!usb_common_completion
  <1>4. CASE Wd!StopAtRemainder \/ Wd!Woken \/ Wd!Exit
    BY <1>1, <1>4 DEF Wd!StopAtRemainder, Wd!Woken, Wd!Exit
  <1>5. ASSUME NEW n \in 0 .. single_len, NEW st \in Wd!Statuses, Wd!Complete(n, st)
        PROVE  PiecesKept'
    BY <1>1, <1>5 DEF Wd!Complete
  <1>6. CASE Wd!OS_halt_transfer \/ Wd!TimedOut
    BY <1>1, <1>6 DEF Wd!OS_halt_transfer, Wd!TimedOut
  <1>7. ASSUME NEW r \in Wd!Requests, Wd!Begin(r)
        PROVE  PiecesKept'
    <2>1. r.bytes \in Nat
      BY CableAssumption DEF Wd!Requests
    <2>2. left' = r.bytes /\ xfer' \in {"submit", "exit"} /\ req'.bytes = r.bytes
      BY <1>7 DEF Wd!Begin, Wd!Requests
    <2>3. xfer' = "submit" /\ r.bytes # 0 => req'.allocated \in Nat \ {0}
      <3>1. r.bytes # 0 => Wd!try_allocate(r.type, r.bytes) \subseteq Nat \ {0}
        BY <2>1, AllocatePositive
      <3> QED BY <1>7, <3>1 DEF Wd!Begin, Wd!Requests
    <2> QED BY <2>1, <2>2, <2>3 DEF PiecesKept, Wd!PieceNotEmpty
  <1>8. CASE Wd!usb_transfer_single
    <2>1. /\ xfer = "submit" /\ single_len' = Wd!PieceOf(Wd!Min2(left, req.allocated))
          /\ xfer' \in {"wait", "exit"} /\ UNCHANGED <<req, left>>
      BY <1>8 DEF Wd!usb_transfer_single
    <2>2. req.bytes > 0 => left \in Nat \ {0} /\ req.allocated \in Nat \ {0}
      BY <1>0, <2>1 DEF PiecesKept
    <2>3. req.bytes > 0 => single_len' > 0
      BY <2>1, <2>2, PiecePositive
    <2> QED BY <2>1, <2>3 DEF PiecesKept, Wd!PieceNotEmpty
  <1>9. CASE Wd!AfterPiece
    <2>1. /\ xfer = "after" /\ UNCHANGED <<req, single_len>> /\ xfer' \in {"exit", "submit"}
          /\ xfer' = "submit" => left' # 0
      BY <1>9 DEF Wd!AfterPiece
    <2>2. xfer' = "submit" => left' \in Nat
      <3>1. single_len <= left
        BY <2>1 DEF BytesCounted
      <3>2. xfer' = "submit" => left' = left - Wd!Min2(actual, single_len)
        BY <1>9 DEF Wd!AfterPiece
      <3> QED BY <1>0, <3>1, <3>2 DEF Wd!Min2
    <2> QED BY <1>0, <2>1, <2>2 DEF PiecesKept, Wd!PieceNotEmpty
  <1> QED BY <1>2, <1>3, <1>4, <1>5, <1>6, <1>7, <1>8, <1>9 DEF Wd!Next

-----------------------------------------------------------------------------
(* The USB cable: the buffer for the descriptors *)

LEMMA DescriptorsKeptInductive ==
    DescriptorsKept /\ (Usb!Next \/ UNCHANGED usbPart) => DescriptorsKept'
  <1> USE CableAssumption DEF DescriptorsKept, Usb!Nowhere, Usb!Unfilled
  <1> SUFFICES ASSUME DescriptorsKept, Usb!Next \/ UNCHANGED usbPart
               PROVE  DescriptorsKept'
    OBVIOUS
  <1>1. CASE UNCHANGED <<usbdevice, announced, filled>>
    BY <1>1
  <1>2. CASE UNCHANGED usbPart
    BY <1>1, <1>2 DEF usbPart
  <1>3. ASSUME NEW f \in Fds, Usb!open(f) \/ Usb!close(f)
        PROVE  DescriptorsKept'
    BY <1>1, <1>3 DEF Usb!open, Usb!close
  <1>4. ASSUME NEW t \in Tables, Usb!EVENT_REGISTER(t)
        PROVE  DescriptorsKept'
    <2>1. usbdevice' = Usb!Found(t, usbdevice) /\ UNCHANGED <<announced, filled>>
      BY <1>4 DEF Usb!EVENT_REGISTER
    <2>2. usbdevice' \in DOMAIN BusDevices \cup {usbdevice}
      BY <2>1, FoundOnBus
    <2> QED BY <2>1, <2>2
  <1>5. CASE Usb!EVENT_PULL \/ Usb!USB_TRANSFER
    BY <1>1, <1>5 DEF Usb!EVENT_PULL, Usb!USB_TRANSFER
  <1>6. CASE Usb!GetSize
    BY <1>6 DEF Usb!GetSize
  <1>7. CASE Usb!GetData
    <2>1. announced # Usb!Nowhere
      BY <1>7 DEF Usb!GetData
    <2> QED BY <1>7, <2>1 DEF Usb!GetData
  <1>8. ASSUME NEW i \in 1 .. 2, Usb!USB_SET_INTERFACE(i)
        PROVE  DescriptorsKept'
    BY <1>1, <1>8 DEF Usb!USB_SET_INTERFACE
  <1> QED BY <1>2, <1>3, <1>4, <1>5, <1>6, <1>7, <1>8 DEF Usb!Next

\* The data fill the buffer of the size that was announced for the device, and the arrays
\* of a simple one can be read from it.
LEMMA DescriptorsInBuffer ==
    ASSUME DescriptorsKept
    PROVE  Usb!DescriptorsFit
  <1> SUFFICES ASSUME filled # Usb!Unfilled
               PROVE  /\ announced.dev = filled.dev /\ announced.bytes = filled.size
                            => Usb!Bytes(filled.pieces) = filled.size
                      /\ Usb!Simple(BusDevices[filled.dev]) =>
                            Usb!ArraysReadable(BusDevices[filled.dev], filled.pieces)
    BY DEF Usb!DescriptorsFit
  <1> DEFINE d == BusDevices[filled.dev]
  <1>1. /\ announced # Usb!Nowhere /\ filled.dev \in DOMAIN BusDevices
        /\ filled.pieces = Usb!usb_deviceinfo(d)
        /\ announced.dev = filled.dev => announced.bytes = Usb!usb_deviceinfo_Bytes(d)
    BY DEF DescriptorsKept
  <1>2. d.configs \in UsbConfigurations
    <2>1. d \in UsbDevices
      BY <1>1, CableAssumption
    <2> QED BY <2>1 DEF UsbDevices, UsbConfigurations, UsbSettings
  <1> HIDE DEF d
  <1>3. Usb!Bytes(Usb!usb_deviceinfo(d)) = Usb!usb_deviceinfo_Bytes(d)
    BY <1>2, DevicePlaced
  <1>4. Usb!Simple(d) => Usb!ArraysReadable(d, Usb!usb_deviceinfo(d))
    BY <1>2, DeviceReadable
  <1> QED BY <1>1, <1>3, <1>4 DEF d

-----------------------------------------------------------------------------
(* The firmware loader: the buffer for a segment *)

\* A record is added to the segment only if it fits.
LEMMA SegmentKeptInductive ==
    LoaderKept /\ SegmentKept /\ (Hex!Next \/ UNCHANGED hexPart) => SegmentKept'
  <1> SUFFICES ASSUME LoaderKept, SegmentKept, Hex!Next \/ UNCHANGED hexPart
               PROVE  SegmentKept'
    OBVIOUS
  <1> USE DEF Hex!Load, Hex!Device
  <1>0. Len(<<>>) <= HexBufSize
    BY CableAssumption
  <1>1. CASE UNCHANGED seg
    BY <1>1 DEF SegmentKept
  <1>2. CASE seg'.data = <<>>
    BY <1>0, <1>2 DEF SegmentKept
  <1>3. CASE UNCHANGED hexPart
    BY <1>1, <1>3 DEF hexPart
  <1>4. CASE Hex!BeginRam \/ Hex!BeginEeprom
    BY <1>2, <1>4 DEF Hex!BeginRam, Hex!BeginEeprom, Hex!BeginFile, Hex!Empty
  <1>5. CASE Hex!ParseRecord
    <2> DEFINE rec == Hex!File[line]
    <2>1. pc = "parse" /\ line \in DOMAIN Hex!File
      BY <1>5 DEF Hex!ParseRecord, Hex!EndOfFile
    <2>2. rec.len \in Nat /\ rec.len <= HexBufSize
      <3>1. phases # <<>>
        BY <2>1 DEF LoaderKept
      <3>2. rec \in HexRecords
        BY <2>1, <3>1, FilesAreRecords
      <3>3. Hex!File \in Firmwares \cup {Loader} \cup {<<>>}
        BY DEF LoaderKept, Hex!Options, Hex!File
      <3>4. \A f \in Firmwares \cup {Loader} : \A i \in DOMAIN f : f[i].len <= HexBufSize
        BY CableAssumption
      <3> QED BY <2>1, <3>2, <3>3, <3>4 DEF HexRecords
    <2>3. CASE UNCHANGED seg
      BY <1>1, <2>3
    <2>4. CASE Hex!Flush(rec.off)
      <3>1. seg' = [seg EXCEPT !.addr = rec.off, !.data = <<>>]
        BY <2>4 DEF Hex!Flush
      <3>2. seg \in Segments
        BY DEF LoaderKept
      <3> QED BY <1>2, <3>1, <3>2 DEF Segments
    <2>5. CASE ~Hex!MustFlush(rec) /\ Hex!Append1(rec)
      <3> DEFINE new == [j \in 1 .. rec.len |-> Hex!Byte(line, j)]
                 n == Len(seg.data)
      <3>1. seg'.data = seg.data \o new
        BY <2>5 DEF Hex!Append1
      <3>2. seg.data \in Seq(FileBytes) /\ phases \in PhasesLeft /\ phases # <<>> /\ line \in Nat
        BY <2>1 DEF LoaderKept, Segments
      <3>3. \A j \in 1 .. rec.len : Hex!Byte(line, j) \in FileBytes
        BY <2>2, <3>2, PhasesFollow DEF Hex!Byte, FileBytes
      <3>4. new \in Seq(FileBytes) /\ Len(new) = rec.len
        BY <2>2, <3>3
      <3>5. Len(seg.data \o new) = n + Len(new) /\ n \in Nat
        BY ONLY <3>2, <3>4, Halves, ZenonT(30)
      <3>6. n = 0 \/ n + rec.len <= HexBufSize
        <4>1. seg.data = <<>> => n = 0
          BY <3>2
        <4>2. seg.data # <<>> => ~(n + rec.len > HexBufSize)
          BY <2>5 DEF Hex!MustFlush
        <4> HIDE DEF n
        <4> QED BY <2>2, <3>5, <4>1, <4>2, CableAssumption
      <3> HIDE DEF n, new
      <3> QED BY <2>2, <3>1, <3>4, <3>5, <3>6, CableAssumption DEF SegmentKept
    <2> QED BY <1>5, <2>3, <2>4, <2>5 DEF Hex!ParseRecord
  <1>6. CASE Hex!ParseEnd
    <2>1. UNCHANGED seg \/ seg' = [seg EXCEPT !.addr = seg.addr, !.data = <<>>]
      BY <1>6 DEF Hex!ParseEnd, Hex!Flush
    <2>2. seg \in Segments
      BY DEF LoaderKept
    <2> QED BY <1>1, <1>2, <2>1, <2>2 DEF Segments
  <1>7. CASE \/ Hex!main \/ Hex!Finish \/ Hex!Run \/ Hex!ram_poke \/ Hex!eeprom_poke
             \/ Hex!EepromLast \/ Hex!EepromConfig \/ Hex!EepromType
    BY <1>1, <1>7 DEF Hex!main, Hex!Finish, Hex!Run, Hex!ram_poke, Hex!eeprom_poke,
                      Hex!EepromLast, Hex!EepromConfig, Hex!EepromType
  <1> QED BY <1>3, <1>4, <1>5, <1>6, <1>7 DEF Hex!Next

-----------------------------------------------------------------------------
(* The kernel module: the buffer for descriptors *)

\* What the calls hand out and write fits into the buffer they allocate.
LEMMA InfoFitsInductive ==
    SelectedKept /\ Info!InfoFits /\ (Info!Next \/ UNCHANGED infoPart) => Info!InfoFits'
  <1> SUFFICES ASSUME SelectedKept, Info!InfoFits, Info!Next \/ UNCHANGED infoPart
               PROVE  Info!InfoFits'
    OBVIOUS
  <1>1. CASE UNCHANGED <<size, used, written>>
    BY <1>1 DEF Info!InfoFits
  <1>2. CASE UNCHANGED infoPart
    BY <1>1, <1>2 DEF infoPart
  <1>3. ASSUME NEW c \in Numbers, NEW n \in Numbers, NEW a \in Numbers,
               Info!OS_get_device_info(c, n, a)
        PROVE  Info!InfoFits'
    <2>1. size' = Info!calc_device_info_size(udev) /\ used' = Info!Taken(udev)
          /\ written' = Info!Taken(udev)
      BY <1>3 DEF Info!OS_get_device_info
    <2>2. udev \in InfoDevices
      BY DEF SelectedKept
    <2> QED BY <2>1, <2>2, SizeIsTaken DEF Info!InfoFits
  <1>4. ASSUME NEW n \in Numbers, NEW a \in Numbers, Info!OS_set_interface(n, a)
        PROVE  Info!InfoFits'
    <2> DEFINE ifs == udev[1].ifs
               j == IF \E i \in DOMAIN ifs : ifs[i].num = n
                    THEN CHOOSE i \in DOMAIN ifs : ifs[i].num = n ELSE 0
               k == IF j = 0 THEN 0 ELSE Info!find_alt_set_index(ifs[j], a)
               s == ifs[j].alts[k]
    <2>1. \/ UNCHANGED <<size, used, written>>
          \/ /\ k # 0 /\ size' = Info!SettingBuffer(s) /\ written' = Info!SettingBytes(s)
             /\ used' = DescriptorSizes.setting
                        + (DescriptorSizes.endpoint + DescriptorSizes.pointer) * s.eps
      BY <1>4 DEF Info!OS_set_interface
    <2>2. ASSUME k # 0
          PROVE  s \in InfoSettings
      <3>1. j \in DOMAIN ifs
        BY <2>2
      <3>2. k \in DOMAIN ifs[j].alts
        <4>1. k = Info!find_alt_set_index(ifs[j], a) /\ k # 0
          BY <2>2
        <4> HIDE DEF k, j, ifs
        <4> QED BY <4>1 DEF Info!find_alt_set_index
      <3>3. udev \in Seq(Configurations) /\ udev # <<>>
        BY CableAssumption DEF SelectedKept
      <3>4. udev[1] \in Configurations
        BY <3>3
      <3>5. ifs \in Seq(InfoInterfaces)
        BY <3>4 DEF Configurations, InfoInterfaces, InfoSettings
      <3> HIDE DEF ifs, j, k
      <3>6. ifs[j] \in InfoInterfaces
        BY <3>1, <3>5
      <3>7. ifs[j].alts \in Seq(InfoSettings)
        BY <3>6 DEF InfoInterfaces
      <3> QED BY <3>2, <3>7
    <2> HIDE DEF s, k
    <2>3. CASE UNCHANGED <<size, used, written>>
      BY <1>1, <2>3
    <2>4. CASE ~UNCHANGED <<size, used, written>>
      <3>1. s \in InfoSettings
        BY <2>1, <2>2, <2>4
      <3>2. /\ size' = Info!SettingBytes(s) /\ written' = Info!SettingBytes(s)
            /\ used' = DescriptorSizes.setting
                        + (DescriptorSizes.endpoint + DescriptorSizes.pointer) * s.eps
        BY <2>1, <2>4 DEF Info!SettingBuffer
      <3>3. Info!SettingBytes(s) \in Nat /\ used' <= Info!SettingBytes(s)
        BY <3>1, <3>2, SettingSize
      <3> QED BY <3>2, <3>3 DEF Info!InfoFits
    <2> QED BY <2>3, <2>4
  <1> QED BY <1>2, <1>3, <1>4 DEF Info!Next

-----------------------------------------------------------------------------
(* The kernel module: scatter lists *)

\* A list is made for the transfer, is filled, and goes with the pages that it pinned.
LEMMA ListKeptInductive ==
    ListKept /\ (Kernel!IrqNext \/ Kernel!DmaNext \/ Kernel!MapNext \/ UNCHANGED kernelPart)
        => ListKept'
  <1> SUFFICES ASSUME ListKept,
                      Kernel!IrqNext \/ Kernel!DmaNext \/ Kernel!MapNext \/ UNCHANGED kernelPart
               PROVE  ListKept'
    OBVIOUS
  <1> USE DEF Kernel!moduleVars, Kernel!irqVars, Kernel!dmaVars, Kernel!mapVars
  <1>1. CASE UNCHANGED <<pinCount, dma>>
    BY <1>1 DEF ListKept, PinnedFor
  <1>2. CASE UNCHANGED kernelPart
    BY <1>1, <1>2 DEF kernelPart
  <1>3. CASE Kernel!init_module \/ Kernel!cleanup_module
    BY <1>1, <1>3 DEF Kernel!init_module, Kernel!cleanup_module
  <1>4. ASSUME NEW i \in Irqs, NEW c \in Ctxs,
               Kernel!LINUX_request_irq(i, c) \/ Kernel!LINUX_free_irq(i, c)
        PROVE  ListKept'
    BY <1>1, <1>4 DEF Kernel!LINUX_request_irq, Kernel!LINUX_free_irq
  <1>5. CASE Kernel!InsertWrapper \/ Kernel!FreeWrapper
    BY <1>1, <1>5 DEF Kernel!InsertWrapper, Kernel!FreeWrapper
  <1>6. CASE Kernel!MapNext
    BY <1>1, <1>3, <1>6 DEF Kernel!MapNext, Kernel!DoMmapLock, Kernel!DoMmapSet,
                            Kernel!wd_mmap, Kernel!LINUX_do_munmap
  <1>7. ASSUME NEW b \in DmaAddresses, NEW s \in DmaSizes, Kernel!LINUX_build_sg_dma(b, s)
        PROVE  ListKept'
    <2>1. PICK r \in 0 .. Kernel!PAGE_COUNT(b, s) :
              /\ pinCount' = Kernel!Pinned(Kernel!PagesIn(b, r), 1)
              /\ dma' = <<[buf |-> b, size |-> s, res |-> r, sgl |-> <<>>]>>
      BY <1>7 DEF Kernel!LINUX_build_sg_dma
    <2> DEFINE d == [buf |-> b, size |-> s, res |-> r, sgl |-> <<>>]
    <2>2. \A p \in Kernel!Pages : pinCount[p] = 0
      BY <1>7 DEF Kernel!LINUX_build_sg_dma, ListKept
    <2>3. d \in DmaRecords /\ d.res <= Kernel!PAGE_COUNT(d.buf, d.size)
      BY DEF DmaRecords
    <2>4. /\ DOMAIN pinCount' = Kernel!Pages
          /\ \A p \in Kernel!Pages : pinCount'[p] = IF p \in PinnedFor(d) THEN 1 ELSE 0
      BY <2>1, <2>2 DEF Kernel!Pinned, PinnedFor
    <2> QED BY <2>1, <2>3, <2>4 DEF ListKept
  <1>8. ASSUME dma # <<>>, Kernel!build_dma_list_26 \/ Kernel!LINUX_free_sg_dma
        PROVE  ListKept'
    <2>1. PICK d \in DmaRecords :
             /\ dma = <<d>> /\ d.res <= Kernel!PAGE_COUNT(d.buf, d.size)
             /\ \A p \in Kernel!Pages : pinCount[p] = IF p \in PinnedFor(d) THEN 1 ELSE 0
             /\ d.sgl # <<>> => /\ d.res = Kernel!PAGE_COUNT(d.buf, d.size)
                                /\ d.sgl = Kernel!Pieces(d.buf, d.size)
      BY <1>8 DEF ListKept
    <2>2. dma[1] = d /\ DOMAIN pinCount = Kernel!Pages
      BY <2>1 DEF ListKept
    <2>3. ASSUME pinCount' = Kernel!Pinned(PinnedFor(d), 0 - 1), dma' = <<>>
          PROVE  ListKept'
      BY <2>1, <2>2, <2>3 DEF ListKept, Kernel!Pinned
    <2>4. CASE Kernel!build_dma_list_26
      <3>1. CASE Kernel!ReleasePinned(d.buf, d.res) /\ dma' = <<>>
        BY <2>3, <3>1 DEF Kernel!ReleasePinned, PinnedFor
      <3>2. CASE /\ d.res = Kernel!PAGE_COUNT(d.buf, d.size)
                 /\ dma' = <<[d EXCEPT !.sgl = Kernel!Pieces(d.buf, d.size)]>>
                 /\ UNCHANGED pinCount
        <4> DEFINE e == [d EXCEPT !.sgl = Kernel!Pieces(d.buf, d.size)]
        <4>1. /\ e.buf = d.buf /\ e.size = d.size /\ e.res = d.res
              /\ e.sgl = Kernel!Pieces(d.buf, d.size) /\ e \in DmaRecords
          BY DEF DmaRecords
        <4>2. PinnedFor(e) = PinnedFor(d)
          BY <4>1 DEF PinnedFor
        <4>3. dma' = <<e>> /\ UNCHANGED pinCount
          BY <3>2
        <4> HIDE DEF e
        <4> QED BY <2>1, <2>2, <3>2, <4>1, <4>2, <4>3 DEF ListKept
      <3> QED BY <2>2, <2>4, <3>1, <3>2 DEF Kernel!build_dma_list_26
    <2>5. CASE Kernel!LINUX_free_sg_dma
      <3> DEFINE n == Kernel!PAGE_COUNT(d.buf, d.size)
                 q == Kernel!PageOf(d.buf)
      <3>1. /\ d.sgl # <<>> /\ dma' = <<>>
            /\ pinCount' = Kernel!Pinned({d.sgl[i].page : i \in 1 .. n}, 0 - 1)
        BY <2>2, <2>5 DEF Kernel!LINUX_free_sg_dma
      <3>2. d.res = n /\ d.sgl = Kernel!Pieces(d.buf, d.size)
        BY <2>1, <3>1
      <3>3. \A i \in 1 .. n : d.sgl[i].page = q + i - 1
        BY <3>2 DEF Kernel!Pieces
      <3>4. n \in Int /\ q \in Int
        <4>1. d.buf \in DmaAddresses /\ d.size \in DmaSizes
          BY DEF DmaRecords
        <4>2. d.buf \in Nat /\ d.size \in Nat \ {0}
          BY <4>1, CableAssumption
        <4>3. Kernel!PageOf(d.buf) \in Nat /\ Kernel!PAGE_COUNT(d.buf, d.size) \in Nat
          BY ONLY <4>2, PageNumbers
        <4> QED BY <4>3
      <3>5. PinnedFor(d) = q .. q + n - 1
        BY <3>2 DEF PinnedFor, Kernel!PagesIn
      <3> HIDE DEF n, q
      <3>6. {d.sgl[i].page : i \in 1 .. n} = {q + i - 1 : i \in 1 .. n}
        BY <3>3
      <3>7. {q + i - 1 : i \in 1 .. n} = q .. q + n - 1
        <4>1. ASSUME NEW x \in q .. q + n - 1
              PROVE  x \in {q + i - 1 : i \in 1 .. n}
          <5>1. x - q + 1 \in 1 .. n /\ x = q + (x - q + 1) - 1
            BY <3>4
          <5> QED BY <5>1
        <4>2. \A i \in 1 .. n : q + i - 1 \in q .. q + n - 1
          BY <3>4
        <4> QED BY <4>1, <4>2
      <3> QED BY <2>3, <3>1, <3>5, <3>6, <3>7
    <2> QED BY <1>8, <2>4, <2>5
  <1>9. CASE Kernel!build_dma_list_26 \/ Kernel!LINUX_free_sg_dma
    BY <1>8, <1>9 DEF Kernel!build_dma_list_26, Kernel!LINUX_free_sg_dma
  <1> QED BY <1>2, <1>3, <1>4, <1>5, <1>6, <1>7, <1>9 DEF Kernel!IrqNext, Kernel!DmaNext

LEMMA ListInBuffer ==
    ASSUME ListKept
    PROVE  Kernel!ListCovers
  <1>1. CASE dma = <<>>
    BY <1>1 DEF ListKept, Kernel!ListCovers
  <1>2. CASE dma # <<>>
    <2>1. PICK d \in DmaRecords :
             /\ dma = <<d>> /\ d.res <= Kernel!PAGE_COUNT(d.buf, d.size)
             /\ \A p \in Kernel!Pages : pinCount[p] = IF p \in PinnedFor(d) THEN 1 ELSE 0
             /\ d.sgl # <<>> => /\ d.res = Kernel!PAGE_COUNT(d.buf, d.size)
                                /\ d.sgl = Kernel!Pieces(d.buf, d.size)
      BY <1>2 DEF ListKept
    <2>2. dma[1] = d /\ DOMAIN dma = {1} /\ dma # <<>>
      BY <2>1
    <2>3. d.buf \in DmaAddresses /\ d.size \in DmaSizes
      BY DEF DmaRecords
    <2>4. d.buf \in Nat /\ d.size \in Nat \ {0}
      BY <2>3, CableAssumption
    <2> DEFINE s == d.sgl
               b == d.buf
               n == Kernel!PAGE_COUNT(b, d.size)
               q == Kernel!PageOf(b)
               bytes(j) == {s[j].page * KernelPage + s[j].offset + k : k \in 0 .. s[j].length - 1}
    <2>5. ASSUME s # <<>>
          PROVE  /\ UNION {bytes(j) : j \in DOMAIN s} = b .. b + d.size - 1
                 /\ \A j \in DOMAIN s : s[j].offset + s[j].length <= KernelPage
                                        /\ pinCount[s[j].page] > 0
      <3>1. s = Kernel!Pieces(b, d.size) /\ d.res = n
        BY <2>1, <2>5
      <3>2. DOMAIN s = 1 .. n /\ \A j \in 1 .. n : s[j].page = q + j - 1
        BY <3>1 DEF Kernel!Pieces
      <3>3. UNION {bytes(j) : j \in DOMAIN s} = b .. b + d.size - 1
        <4>1. \A j : bytes(j) = {FirstOf(b, d.size, j) + k : k \in 0 .. LengthOf(b, d.size, j) - 1}
          BY <3>1 DEF FirstOf, LengthOf
        <4> HIDE DEF bytes, s, n
        <4>2. {bytes(j) : j \in 1 .. n} = {{FirstOf(b, d.size, j) + k :
                  k \in 0 .. LengthOf(b, d.size, j) - 1} : j \in 1 .. n}
          BY <4>1
        <4> QED BY <2>4, <3>2, <4>2, PiecesCover DEF n
      <3>4. ASSUME NEW j \in 1 .. n
            PROVE  s[j].offset + s[j].length <= KernelPage
        BY <2>4, <3>1, PieceSpan DEF LengthOf
      <3>5. ASSUME NEW j \in 1 .. n
            PROVE  pinCount[s[j].page] > 0
        <4> DEFINE P == KernelPage
                   N == (n - 1) * KernelPage
                   Q == q * KernelPage
                   r == b % KernelPage
                   z == b + d.size
                   w == z \div P
        <4>0. P \in Nat \ {0}
          BY CableAssumption
        <4>1. /\ q \in Nat /\ n \in Nat \ {0} /\ Q \in Nat /\ N \in Nat /\ r \in Nat
              /\ b = Q + r /\ N < r + d.size
          BY <2>4, PageNumbers
        <4>2. z \in Nat /\ w \in Nat /\ z < w * P + P
          <5>1. z \in Nat
            BY <2>4
          <5> HIDE DEF z
          <5> QED BY <4>0, <5>1, DivBounds
        <4>3. (q + (n - 1)) * P = Q + N
          <5> DEFINE m == n - 1
          <5>1. m \in Nat
            BY <4>1
          <5> HIDE DEF m, q
          <5>2. (q + m) * P = q * P + m * P
            BY <4>0, <4>1, <5>1
          <5> QED BY <5>2 DEF m
        <4>4. q + (n - 1) <= w
          <5> HIDE DEF N, Q, r, q, n, w
          <5>1. w * P \in Nat
            BY <4>0, <4>2
          <5>2. (q + (n - 1)) * P < w * P + P
            BY <2>4, <4>0, <4>1, <4>2, <4>3, <5>1
          <5> QED BY <4>0, <4>1, <4>2, <5>2, TimesCancels
        <4>5. q + j - 1 \in q .. w /\ q + j - 1 \in q .. q + n - 1
          <5> HIDE DEF N, Q, r, q, n, w
          <5> QED BY <4>1, <4>2, <4>4
        <4>6. q .. w \subseteq Kernel!Pages
          <5>1. w = Kernel!PageOf(b + d.size)
            BY DEF Kernel!PageOf
          <5> HIDE DEF w, q
          <5>2. Kernel!PageOf(b) .. Kernel!PageOf(b + d.size) \subseteq Kernel!Pages
            <6>1. ASSUME NEW a \in DmaAddresses, NEW t \in DmaSizes
                  PROVE  Kernel!PageOf(a) .. Kernel!PageOf(a + t) \subseteq Kernel!Pages
              <7> DEFINE Z == {Kernel!PageOf(c) .. Kernel!PageOf(c + u) :
                                  c \in DmaAddresses, u \in DmaSizes}
              <7>1. Kernel!PageOf(a) .. Kernel!PageOf(a + t) \in Z
                OBVIOUS
              <7>2. Kernel!Pages = UNION Z
                BY DEF Kernel!Pages
              <7> HIDE DEF Z
              <7> QED BY <7>1, <7>2
            <6> QED BY <2>3, <6>1
          <5> QED BY <5>1, <5>2 DEF q
        <4>7. q + j - 1 \in PinnedFor(d)
          BY <3>1, <4>5 DEF PinnedFor, Kernel!PagesIn
        <4>8. pinCount[q + j - 1] = 1
          BY <2>1, <4>5, <4>6, <4>7
        <4> QED BY <3>2, <4>8
      <3> QED BY <3>2, <3>3, <3>4, <3>5
    <2> QED BY <2>2, <2>5 DEF Kernel!ListCovers
  <1> QED BY <1>1, <1>2

-----------------------------------------------------------------------------
(* The services: mappings of device memory *)

\* An address is handed out directly only if it reaches no further than the memory.
LEMMA RemapKeptInductive ==
    RemapKept /\ (Serv!RemapNext \/ UNCHANGED remapPart) => RemapKept'
  <1> SUFFICES ASSUME RemapKept, Serv!RemapNext \/ UNCHANGED remapPart
               PROVE  RemapKept'
    OBVIOUS
  <1>1. CASE UNCHANGED remapPart
    BY <1>1 DEF remapPart, RemapKept, Serv!RemapReaches
  <1>2. ASSUME NEW c \in Threads, Serv!Remap(c)
        PROVE  RemapKept'
    <2>1. PICK phys \in 0 .. Top, n \in ServSizes :
              LET addr == Serv!LINUX_ioremap(phys, n)
              IN  /\ handles' = [handles EXCEPT ![c] =
                                    IF addr = "null" THEN Serv!NoHandle
                                    ELSE [phys |-> phys, size |-> n, addr |-> addr]]
                  /\ vmaps' = IF addr = "mapped" THEN vmaps \cup {c} ELSE vmaps
      BY <1>2 DEF Serv!Remap
    <2>2. phys \in Int /\ n \in Int /\ High \in Int
      BY CableAssumption
    <2> DEFINE addr == Serv!LINUX_ioremap(phys, n)
    <2>3. /\ addr \in {"mapped", "direct", "null"}
          /\ addr = "direct" => phys + n <= High
      BY <2>2 DEF Serv!LINUX_ioremap, Serv!is_high_memory_phys
    <2>4. /\ handles' = [handles EXCEPT ![c] = IF addr = "null" THEN Serv!NoHandle
                                ELSE [phys |-> phys, size |-> n, addr |-> addr]]
          /\ vmaps' = IF addr = "mapped" THEN vmaps \cup {c} ELSE vmaps
          /\ handles[c] = Serv!NoHandle
      BY <1>2, <2>1 DEF Serv!Remap
    <2> HIDE DEF addr
    <2>5. handles[c].addr \notin {"mapped", "direct"} /\ DOMAIN handles = Threads
      BY <2>4 DEF Serv!NoHandle, RemapKept
    <2>6. handles'[c].addr = (IF addr = "null" THEN Serv!NoHandle.addr ELSE addr)
          /\ (handles'[c].addr = "direct" => handles'[c].phys + handles'[c].size <= High)
      BY <2>3, <2>4, <2>5 DEF Serv!NoHandle
    <2>7. /\ DOMAIN handles' = Threads
          /\ \A d \in Threads \ {c} : handles'[d] = handles[d]
      BY <2>4, <2>5
    <2>8. vmaps' = {d \in Threads : handles'[d].addr = "mapped"}
      BY <2>3, <2>4, <2>5, <2>6, <2>7 DEF Serv!NoHandle, RemapKept, Serv!RemapReaches
    <2>9. \A d \in Threads : handles'[d].addr = "direct" =>
              handles'[d].phys + handles'[d].size <= High
      BY <2>6, <2>7 DEF RemapKept, Serv!RemapReaches
    <2> QED BY <2>7, <2>8, <2>9 DEF RemapKept, Serv!RemapReaches
  <1>3. ASSUME NEW c \in Threads, Serv!LINUX_iounmap(c)
        PROVE  RemapKept'
    BY <1>3 DEF Serv!LINUX_iounmap, Serv!NoHandle, RemapKept, Serv!RemapReaches
  <1> QED BY <1>1, <1>2, <1>3 DEF Serv!RemapNext

-----------------------------------------------------------------------------
(* The composition *)

LEMMA Initially == CableInit => CableInv
  <1> SUFFICES ASSUME CableInit
               PROVE  CableInv
    OBVIOUS
  <1>1. Cable!Init /\ Usb!Init /\ MonitorInit /\ Hex!Init /\ Wd!Init /\ Kernel!Init /\ Port!Init
        /\ Serv!Init
    BY DEF CableInit
  <1>2. CardKept
    BY <1>1 DEF Cable!Init, CardKept
  <1>3. WaitsKept
    BY <1>1 DEF Cable!Init, WaitsKept, Cable!WaitsUntilDisabled
  <1>4. FilesKept
    BY <1>1 DEF Cable!Init, FilesKept, Cable!FakesOnlyItsFiles, Cable!Closed
  <1>5. HandleKept
    BY <1>1 DEF Usb!Init, HandleKept, Usb!HandleIsOfDevice
  <1>6. ResetNears
    BY <1>1 DEF MonitorInit, ResetNears, MonitorTypeOK, tap_states, ToReset
  <1>7. LoaderKept
    <2>1. Hex!Empty \in Segments
      BY DEF Hex!Empty, Segments
    <2> QED BY <1>1, <2>1 DEF Hex!Init, LoaderKept, PhasesLeft
  <1>8. TransferKept
    BY <1>1 DEF Wd!Init, TransferKept, Wd!ContextsAlive, Wd!HeapOwned
  <1>9. WrappersKept
    <2>1. <<>> \in Seq(Wrapped) /\ Len(<<>>) = 0
      OBVIOUS
    <2>2. live = {} /\ hw = {} /\ c_list = <<>> /\ calls = {} /\ resources = {}
      BY <1>1 DEF Kernel!Init
    <2> QED BY <2>1, <2>2 DEF WrappersKept, Kernel!ModuleOut
  <1>10. PortKept
    BY <1>1 DEF Port!Init, PortKept, PortTyped, TimerKept, Port!RegionsOwned
  <1>11. CounterKept
    <2>1. counter = 0 /\ count = [c \in Threads |-> "out"] /\ noticed = TRUE
      BY <1>1 DEF Serv!Init
    <2>2. Counted = {}
      BY <2>1 DEF Counted
    <2>3. Cardinality(Counted) = 0
      BY <2>2, FS_EmptySet
    <2> QED BY <2>1, <2>3 DEF CounterKept
  <1>12. SemaphoreKept
    BY <1>1 DEF Serv!Init, SemaphoreKept, Serv!Created
  <1>13. PagesKept
    <2>1. buffers = [c \in Threads |-> Serv!NoBuffer] /\ taken = {} /\ reserved = {}
      BY <1>1 DEF Serv!Init
    <2>2. Serv!NoBuffer \in BufferRecords /\ FramesOf(Serv!NoBuffer) = {}
          /\ MarkedOf(Serv!NoBuffer) = {}
      BY DEF Serv!NoBuffer, BufferRecords, FramesOf, MarkedOf
    <2>3. \A c \in Threads : buffers[c] = Serv!NoBuffer
      BY <2>1
    <2> QED BY <2>1, <2>2, <2>3 DEF PagesKept
  <1>14. WorkKept
    BY <1>1 DEF Serv!Init, WorkKept
  <1>15. FileKept /\ MemoryKept
    <2>1. pc = "main" /\ phases = <<>>
      BY <1>1 DEF Hex!Init
    <2>2. ~InFile /\ ~AtEnd
      BY <2>1 DEF InFile, AtEnd
    <2>3. ASSUME NEW f, NEW k
          PROVE  ~Due(f, k)
      BY <2>1, <2>2 DEF Due, Handled
    <2>4. \A i \in 1 .. Len(phases) : phases[i].mode # "eeprom"
      BY <2>1
    <2> QED BY <2>1, <2>2, <2>3, <2>4 DEF FileKept, MemoryKept
  <1>16. EepromKept
    <2>1. pc = "main" /\ chain = Hex!Old
      BY <1>1 DEF Hex!Init
    <2>2. <<"old">> \in Parts
      BY DEF Parts
    <2>3. chain \in Seq(Parts)
      BY <2>1, <2>2 DEF Hex!Old
    <2> QED BY <2>1, <2>3 DEF EepromKept, Storing
  <1>17. BatchKept
    <2>1. Init
      BY DEF CableInit
    <2> QED BY <2>1, BatchBegins
  <1>18. BytesCounted
    <2>1. <<>> \in Seq(Nat) /\ Len(<<>>) = 0
      OBVIOUS
    <2>2. /\ xfer = "none" /\ req = Wd!NoRequest /\ left = 0 /\ single_len = 0 /\ reported = 0
          /\ actual = 0 /\ rc = "0" /\ moved = <<>> /\ cur = 0 /\ urb = "idle"
      BY <1>1 DEF Wd!Init
    <2>3. req.bytes = 0 /\ req.allocated = 0
      BY <2>2 DEF Wd!NoRequest
    <2> QED BY <2>1, <2>2, <2>3 DEF BytesCounted, Wd!WholeTransfer
  <1>19. MapKept
    BY <1>1 DEF Kernel!Init, MapKept, Kernel!MappingsOwn
  <1>20. SelectedKept
    <2>1. Info!Init
      BY DEF CableInit
    <2> QED BY <2>1 DEF Info!Init, SelectedKept, Info!ActiveExists, Info!SelectedExists
  <1>21. DescriptorsKept
    BY <1>1 DEF Usb!Init, DescriptorsKept, Usb!Nowhere, Usb!Unfilled
  <1>22. SegmentKept
    <2>1. seg.data = <<>> /\ Len(<<>>) = 0 /\ HexBufSize \in Nat
      BY <1>1, CableAssumption DEF Hex!Init, Hex!Empty
    <2> QED BY <2>1 DEF SegmentKept
  <1>23. PiecesKept
    BY <1>1 DEF Wd!Init, PiecesKept, Wd!PieceNotEmpty
  <1>24. Info!InfoFits
    <2>1. Info!Init
      BY DEF CableInit
    <2> QED BY <2>1 DEF Info!Init, Info!InfoFits
  <1>25. ListKept
    BY <1>1 DEF Kernel!Init, ListKept
  <1>26. RemapKept
    BY <1>1 DEF Serv!Init, RemapKept, Serv!RemapReaches, Serv!NoHandle
  <1> QED BY <1>2, <1>3, <1>4, <1>5, <1>6, <1>7, <1>8, <1>9, <1>10, <1>11, <1>12, <1>13, <1>14,
             <1>15, <1>16, <1>17, <1>18, <1>19, <1>20, <1>21, <1>22, <1>23, <1>24, <1>25, <1>26
          DEF CableInv

\* A step is a step of one part, or of none.
LEMMA StepsOfParts ==
    ASSUME [CableNext]_mcVars
    PROVE  /\ Next \/ UNCHANGED vars
           /\ Cable!Next \/ UNCHANGED cablePart
           /\ Usb!Next \/ UNCHANGED usbPart
           /\ MonitorNext \/ UNCHANGED monVars
           /\ Hex!Next \/ UNCHANGED hexPart
           /\ Wd!Next \/ UNCHANGED wdPart
           /\ Info!Next \/ UNCHANGED infoPart
           /\ Kernel!IrqNext \/ Kernel!DmaNext \/ Kernel!MapNext \/ UNCHANGED kernelPart
           /\ Port!Next \/ UNCHANGED xpcPart
           /\ Serv!CountNext \/ UNCHANGED countPart
           /\ Serv!SemNext \/ UNCHANGED semPart
           /\ Serv!PageNext \/ UNCHANGED pagePart
           /\ Serv!RemapNext \/ UNCHANGED remapPart
           /\ Serv!WorkNext \/ UNCHANGED workPart
  <1>1. CASE UNCHANGED mcVars
    BY <1>1 DEF mcVars, library, modules, servPart
  <1>2. CASE LibraryNext /\ UNCHANGED modules
    BY <1>2 DEF LibraryNext, modules, servPart
  <1>3. CASE ModuleNext /\ UNCHANGED <<library, servPart>>
    BY <1>3 DEF ModuleNext, library, servPart
  <1>4. CASE ServiceNext /\ UNCHANGED <<library, wdPart, infoPart, kernelPart, xpcPart>>
    BY <1>4 DEF ServiceNext, library
  <1> QED BY <1>1, <1>2, <1>3, <1>4 DEF CableNext

\* The invariants of the parts hold together: every thread, timer, URB, handler and
\* buffer of the drivers keeps the relation to what it uses that the proofs need.
THEOREM CableInvariant == CableSpec => []CableInv
  <1>1. CableInv /\ [CableNext]_mcVars => CableInv'
    <2> SUFFICES ASSUME CableInv, [CableNext]_mcVars
                 PROVE  CableInv'
      OBVIOUS
    <2>1. CardKept' /\ WaitsKept' /\ FilesKept'
      BY StepsOfParts, CardKeptInductive, WaitsKeptInductive, FilesKeptInductive DEF CableInv
    <2>2. HandleKept' /\ LoaderKept'
      BY StepsOfParts, HandleKeptInductive, LoaderKeptInductive DEF CableInv
    <2>3. ResetNears'
      BY StepsOfParts, ResetNearsInductive DEF CableInv
    <2>4. TransferKept' /\ WrappersKept' /\ PortKept'
      BY StepsOfParts, TransferKeptInductive, WrappersKeptInductive, PortKeptInductive
         DEF CableInv
    <2>5. CounterKept' /\ SemaphoreKept' /\ PagesKept' /\ WorkKept'
      BY StepsOfParts, CounterKeptInductive, SemaphoreKeptInductive, PagesKeptInductive,
         WorkKeptInductive DEF CableInv
    <2>6. FileKept' /\ MemoryKept' /\ EepromKept'
      BY StepsOfParts, FileKeptInductive, MemoryKeptInductive, EepromKeptInductive DEF CableInv
    <2>7. BatchKept' /\ BytesCounted'
      BY StepsOfParts, BatchKeptInductive, BytesCountedInductive DEF CableInv
    <2>8. MapKept' /\ SelectedKept'
      BY StepsOfParts, MapKeptInductive, SelectedKeptInductive DEF CableInv, kernelPart
    <2>9. DescriptorsKept' /\ SegmentKept'
      BY StepsOfParts, DescriptorsKeptInductive, SegmentKeptInductive DEF CableInv
    <2>10. PiecesKept' /\ Info!InfoFits'
      BY StepsOfParts, PiecesKeptInductive, InfoFitsInductive DEF CableInv
    <2>11. ListKept' /\ RemapKept'
      BY StepsOfParts, ListKeptInductive, RemapKeptInductive DEF CableInv
    <2> QED BY <2>1, <2>2, <2>3, <2>4, <2>5, <2>6, <2>7, <2>8, <2>9, <2>10, <2>11 DEF CableInv
  <1> QED BY Initially, <1>1, PTL DEF CableSpec

\* INT_WAIT returns only when interrupts have been disabled, and xpc4_is_timeout reports
\* a timeout only when the time that was set has passed.
THEOREM WaitsCorrect == CableSpec => []WaitsUntilDisabled
  <1>1. ASSUME CableInv
        PROVE  WaitsUntilDisabled
    <2>1. WaitsKept /\ PortKept
      BY <1>1 DEF CableInv
    <2>2. Cable!WaitsUntilDisabled
      <3>1. CASE upset
        BY <3>1 DEF Cable!WaitsUntilDisabled
      <3>2. CASE ~upset
        BY <2>1, <3>2 DEF WaitsKept
      <3> QED BY <3>1, <3>2
    <2>3. Port!TimeoutInTime
      BY <2>1 DEF PortKept, TimerKept, Port!TimeoutInTime
    <2> QED BY <2>2, <2>3 DEF WaitsUntilDisabled
  <1> QED BY <1>1, CableInvariant, PTL

\* The operator of the instance is that of FiniteSets.
LEMMA SameCardinality == \A S : Serv!Cardinality(S) = Cardinality(S)
  BY DEF Serv!Cardinality, Cardinality

LEMMA AtMostOne ==
    ASSUME NEW S, S = {} \/ \E c : S = {c}
    PROVE  Serv!Cardinality(S) <= 1
  <1>1. Cardinality(S) \in {0, 1}
    <2>1. CASE S = {}
      BY <2>1, FS_EmptySet
    <2>2. CASE \E c : S = {c}
      <3>1. PICK c : S = {c}
        BY <2>2
      <3>2. Cardinality({c}) = 1
        BY FS_Singleton
      <3> QED BY <3>1, <3>2
    <2> QED BY <2>1, <2>2
  <1> QED BY <1>1, SameCardinality

\* The marks of the pages are those of the bytes in the reserved buffers.
LEMMA MarksAreOfBytes ==
    ASSUME PagesKept
    PROVE  Serv!PagesReservedExactly
  <1>1. /\ buffers \in [Threads -> BufferRecords]
        /\ \A d \in Threads : buffers[d].size = 0 => buffers[d] = Serv!NoBuffer
        /\ \A n : n \in taken <=> \E d \in Threads : n \in FramesOf(buffers[d])
        /\ \A n : n \in reserved <=> \E d \in Threads : n \in MarkedOf(buffers[d])
    BY DEF PagesKept
  <1> DEFINE BytesOf(c) == {buffers[c].first + i \div ServPage : i \in 0 .. buffers[c].size - 1}
  <1>2. ASSUME NEW c \in Threads, buffers[c].reserved
        PROVE  MarkedOf(buffers[c]) = BytesOf(c)
    <2>1. buffers[c].size # 0
      BY <1>1, <1>2 DEF Serv!NoBuffer
    <2>2. buffers[c].size \in Nat \ {0} /\ buffers[c].first \in Nat
      BY <1>1, <2>1, OrderCovers DEF BufferRecords
    <2>3. MarkedOf(buffers[c]) = buffers[c].first
                                 .. buffers[c].first + (buffers[c].size - 1) \div ServPage
      BY <1>2 DEF MarkedOf, Serv!PagesOf
    <2> QED BY <2>2, <2>3, CableAssumption, PagesOfBytes
  <1>3. \A c \in Threads : ~buffers[c].reserved => MarkedOf(buffers[c]) = {}
    BY DEF MarkedOf
  <1> HIDE DEF BytesOf
  <1>4. reserved = UNION {BytesOf(c) : c \in {d \in Threads : buffers[d].reserved}}
    BY <1>1, <1>2, <1>3
  <1>5. reserved \subseteq taken
    BY <1>1, MarkedInFrames
  <1>6. (\A c \in Threads : buffers[c] = Serv!NoBuffer) => taken = {}
    <2>1. FramesOf(Serv!NoBuffer) = {}
      BY DEF FramesOf, Serv!NoBuffer
    <2> QED BY <1>1, <2>1
  <1> QED BY <1>4, <1>5, <1>6 DEF Serv!PagesReservedExactly, BytesOf

\* What a thread, timer, URB, handler, card, stream or buffer uses lives while it is
\* used and is given back at its end; the last caller of a counter is told, a semaphore
\* lets through as many as were let in, and pages are marked exactly while mapped.
THEOREM OwnersCorrect == CableSpec => []ReleasedWithOwner
  <1>1. ASSUME CableInv
        PROVE  ReleasedWithOwner
    <2>1. Cable!CardOwnsItsPort
      <3>1. CardKept
        BY <1>1 DEF CableInv
      <3> QED BY <3>1 DEF CardKept, Cable!CardOwnsItsPort
    <2>2. Usb!HandleIsOfDevice /\ Cable!FakesOnlyItsFiles
      BY <1>1 DEF CableInv, HandleKept, FilesKept
    <2>3. Wd!ContextsAlive /\ Wd!HeapOwned
      BY <1>1 DEF CableInv, TransferKept
    <2>4. Kernel!HandlersAlive /\ Kernel!ModuleOut
      BY <1>1 DEF CableInv, WrappersKept, Kernel!HandlersAlive
    <2>5. Port!TimerEndsWithIoctl /\ Port!RegionsOwned
      BY <1>1 DEF CableInv, PortKept, TimerKept, Port!TimerEndsWithIoctl
    <2>6. Serv!LastIsNoticed
      BY <1>1 DEF CableInv, CounterKept, Serv!LastIsNoticed
    <2>7. Serv!SemaphoresHold
      <3>1. SemaphoreKept
        BY <1>1 DEF CableInv
      <3>2. kind = "mutex" => inside = {} \/ \E c : inside = {c}
        BY <3>1 DEF SemaphoreKept
      <3> QED BY <3>1, <3>2, AtMostOne DEF SemaphoreKept, Serv!SemaphoresHold
    <2>8. Serv!PagesReservedExactly
      BY <1>1, MarksAreOfBytes DEF CableInv
    <2>9. Serv!WorkAlive
      BY <1>1 DEF CableInv, WorkKept, Serv!WorkAlive
    <2> QED BY <2>1, <2>2, <2>3, <2>4, <2>5, <2>6, <2>7, <2>8, <2>9 DEF ReleasedWithOwner
  <1> QED BY <1>1, CableInvariant, PTL

\* ezusb_load_ram changes the memory of a running CPU only through the loader that it
\* runs, and only outside the chip.
THEOREM RunningCodeCorrect == CableSpec => RunningCodeIntact
  <1>1. CableInv /\ [CableNext]_mcVars => [Hex!RunningCodeStep]_hexPart
    BY StepsOfParts, RunningCodeKept DEF CableInv
  <1> QED BY <1>1, CableInvariant, PTL DEF CableSpec, RunningCodeIntact

\* When fxload reports success the memory holds every byte of the firmware where the
\* file says, and the device boots only the earlier image or the whole new one.
THEOREM LoadedCorrect == CableSpec => []LoadedWhenDone
  <1>1. CableInv => LoadedWhenDone
    BY MemoryHoldsFile, ImageIsWhole DEF CableInv, LoadedWhenDone
  <1> QED BY <1>1, CableInvariant, PTL

\* The reads of a batch get the samples that belong to them, OS_transfer reports the bytes
\* that moved and what cut it short, what a device is told to have exists, and a thread
\* gets the mapping that it asked for.
THEOREM ReadsCorrect == CableSpec => []ReadsMatch
  <1>1. CableInv => ReadsMatch
    <2>1. CableInv => ReadsAligned /\ Wd!TransferExact /\ Wd!WholeTransfer
      BY BytesReported DEF CableInv, BatchKept, BytesCounted
    <2>2. CableInv => Info!ActiveExists /\ Info!SelectedExists /\ Kernel!MappingsOwn
      BY DEF CableInv, SelectedKept, MapKept
    <2> QED BY <2>1, <2>2 DEF ReadsMatch
  <1> QED BY <1>1, CableInvariant, PTL

\* Neither the bytes kept for the chip of the FTDI cable nor a segment of the firmware
\* overrun their buffers; the descriptors of a device fill the buffer of the announced
\* size, and a simple device can be read from there; what is handed out of a buffer fits
\* into it; the pieces of a transfer are not empty; a scatter list covers its buffer
\* exactly, in pinned pages; and an address of device memory reaches all of it.
THEOREM BuffersCorrect == CableSpec => []BuffersBounded
  <1>1. CableInv => BuffersBounded
    <2>1. CableInv => BufferBounded /\ Len(seg.data) <= HexBufSize
      BY DEF CableInv, BatchKept, SegmentKept
    <2>2. CableInv => Usb!DescriptorsFit /\ Kernel!ListCovers
      BY DescriptorsInBuffer, ListInBuffer DEF CableInv
    <2>3. CableInv => Info!InfoFits /\ Wd!PieceNotEmpty /\ Serv!RemapReaches
      BY DEF CableInv, PiecesKept, RemapKept
    <2> QED BY <2>1, <2>2, <2>3 DEF BuffersBounded
  <1> QED BY <1>1, CableInvariant, PTL

\* The monitor among the other drivers: five clocks with TMS set reset it.
THEOREM CableResets == CableSpec => []ResetInFive
  <1>1. CableInv => ResetInFive
    BY DistanceBounded DEF CableInv, ResetNears, MonitorTypeOK, ResetInFive
  <1> QED BY <1>1, CableInvariant, PTL

===============================================================================
