# TLA+ specifications of LEAP platforms

This directory specifies the LEAP platform layer: the links between FPGAs, the
tool that shares FPGAs among users, the Linux drivers and host libraries through
which programs reach a board, and the software of the programming cables. The
specifications are model-checked with TLC. The two Aurora links, `leap-fpga-ctrl`
with its configuration, the kernel drivers, the host side and most of what concerns
the programming cables are also proved with TLAPS; section 4 says what is not.

Paths below are relative to the repository. `physical-devices/` stands for
`src/modules/bluespec/common/fpgaenv/physical-platform/physical-devices/`,
`cable/` for `src/drivers/linux/Xilinx_Platform_Cable/`.

## 1. The system

LEAP platforms is the layer between FPGA boards and LEAP applications. On the
FPGA it is Bluespec: devices for serial links, memories, PCIe and user I/O, each
with a `driver` interface for the layers above. On the host it is C and C++:
Linux drivers, the other ends of the channels, `leap-fpga-ctrl`, through which the
users of a machine reserve and program its boards, and what the vendor's
programming tool needs to reach a cable.

| Component | State | Operations | Hard behaviours | What makes it correct |
|---|---|---|---|---|
| Reliable Aurora link, `physical-devices/aurora/aurora-reliable` | rewind buffers for data and for sequence numbers, timers, queues of acks, position in the frame and CRC chain of the receiver | the rules `sequenceStuffer`, `txHeader`, `txSend`, `timeoutTest`, `timeout`, `handleAck`, `dropAck`, `rxDemarsh`, `txFC`, `rxDone` | loss, damage, late and repeated acks, sequence numbers that wrap, timeouts that race with acks | every word once and in order; nothing released before it is delivered; everything arrives in the end |
| Aurora link with credits, `aurora/aurora-flowcontrol` | heartbeat counters, two handshake flags, credits to use and to return, receive buffer | `tickCC`, `txHeartbeat`, `txFC`, `txData`, `txSend`, `rxIntake`, `updateCredit`, `rxDemarsh`, `rxDone` | two sides that decide separately when to start, messages told apart by counting, unguarded receive buffers | nothing is sent to a side that does not listen; buffers never overflow; credits come back |
| Simulated transceiver, `aurora-driver-simulation` | clock compensation counter, FIFO | `send`, `receive`, `countAdjust` | phase of its counter against that of the link | what is sent arrives |
| `leap-fpga-ctrl`, `src/tools/platforms/leap-fpga-ctrl` | reservation files, programming lock, owners of device files | `--reserve`, `--program`, `--activate`, `--deactivate`, `--drop`, `--reset`, `--setsignature` | several copies at once, failing helper scripts, kills, two files that must agree | no reservation given twice, no access without a reservation, one device programmed at a time |
| `iniparser`, `dictionary`, same directory | arrays of keys, values and hashes, position in the file | load, set, unset, sections by number | growth, reuse of slots, continued and bad lines | the dictionary is a map; the file is read as written |
| BlueNoC kernel driver, `src/drivers/linux/platforms/bluenoc-pcie` | board list, activation level, free DMA slots, completions, mutexes, wait queue | probe, remove, open, read, write, poll, ioctl, interrupt handler | interrupted transfers, resets under transfers, activation that fails half way, wake-ups | no slot over-committed, no page released while the board owns it, nothing kept that the state does not say |
| HTG driver, `htg-pcie-virtex5`; XUPV5 driver, `xupv5-pcie` | flag of the DMA interrupt; table of device slots | probe, remove, DMA ioctls, open, close | one flag for all callers, failures on the way up | data copied is what the transfer brought; resources follow the state |
| BlueNoC host device and tests, `pci-express/pcie-bluenoc` | file descriptors, position in a transfer | `Init`, `Read`, `Write`, `Cleanup`, tests, `bluenoc-ioctl` | resets and reactivation through the same file, odd message lengths | tests write and expect exact lengths; the board is usable once initialised |
| PIO link of the XUPV5, `pcie-xupv5` | packet counts, queues | `server`, `Read`, `Write`, `PioFifo` | stores that the FPGA drops, counts that wrap | each byte once |
| HTG debugger and CSR device, `pcie-csr`, `debuggers/htg-virtex5` | instruction register, numbers of instructions | instructions, run, reset | register seen in every cycle, numbers that wrap | each instruction executed once |
| Unix pipe, `unix-pipe` | two named pipes, threads, buffers | open, read, write, exit | either side first, left-over pipes, pieces of any size, ends in any order | bytes once and in order; both sides end |
| JTAG devices, `jtag` | child process, socket, threads | `Init`, `Read`, `Write`, `Cleanup` | threads against closing, blanks in the stream | data once and in order |
| UMF messages, `virtual-platform/umf` | cursors, lengths, free list | append, extract, encode, decode | recycled objects, lengths that are no multiple of a chunk | a message comes out as it went in |
| Cable library, `cable/usb-driver` | ports, emulated interrupts, USB handles, made-up `/proc` files, FTDI batches, TAP monitor | the ioctls of WinDriver that the vendor's tool calls | answers matched to reads by walking a batch twice, threads that wait for interrupts, buffers laid out by hand | answers belong to their reads, handles end with their owner |
| `fxload`, `cable/fxload` | segment buffer, memory of the chip | RAM load in one or two stages, EEPROM load | gaps and reserved areas in the file, a load that stops half way | success means loaded; no half image boots |
| WinDriver kernel module, `cable/windriver/.../windrvr`; `xpc4drvr` | URBs, interrupt wrappers, pinned pages, mappings; timer, regions | transfers, device information, interrupts, DMA lists, mmap; port ioctls | time limits against completions and detaching, lists of pages at odd offsets | nothing freed in use, buffers covered exactly, waits end |
| Variants of the reliable link, DDR SDRAM, block RAM, clocks, LEDs, vendor cores | - | - | - | see section 5 |

Interaction: applications call the `driver` of a device; the device calls its
transceiver, memory core or PCIe core; the two ends of a link exchange flits.
Messages of the virtual platform are UMF messages that a physical channel moves in
chunks, over BlueNoC, the Unix pipe or another device. `leap-fpga-ctrl` reads its
configuration with `iniparser`, runs a helper script that programs the board
through the cable, and gives the user the device file which the kernel driver then
serves.

`PROJECT.json` lists every component with its status, and the hazards of the
code with the properties that watch them. Some of these properties end where a history
variable says that the calls left the order the code can cope with (`disturbed`,
`excused`, `orderly`, `late`); what can go wrong after that is a hazard without a
property, with a note.

## 2. Modules

| Module | Models | Used by |
|---|---|---|
| `ReliableStream` | abstract: a stream of words with a bounded store at the writer | instance in `AuroraReliable` |
| `AuroraReliable`, `AuroraInvariant`, `AuroraReliableProofs`, `MCAuroraReliable` | one direction of the reliable link; the inductive invariant `IInv`; its theorems; TLC instance | each extends the one before, `MCAuroraReliable` the invariant |
| `AuroraFlowControl`, `AuroraFlowControlProofs`, `MCAuroraFlowControl` | both sides of the link with credits; theorems; TLC instance | the other two extend the first |
| `AuroraSimulation` | the counters of the link with credits on the simulated transceiver | - |
| `LeapFpgaCtrl`, `LeapFpgaCtrlProofs`, `MCLeapFpgaCtrl` | processes of `leap-fpga-ctrl`, their files and locks; theorems; TLC instance | the other two extend the first |
| `BlueNocDma`, `BlueNocDmaProofs` | reads and writes of the BlueNoC driver, interrupt handler, DMA engine of the board; theorems | `BlueNocDma` extended by `MCDrivers` |
| `BlueNocBoards`, `BlueNocFiles`, `HtgChannel`, `Xupv5Boards` | the rest of the kernel drivers | instances in `MCDrivers` |
| `DriversProofs` | theorems about these four | extends `MCDrivers` |
| `UmfMessage` | messages and their headers | extended by `MCHost` |
| `UnixPipe`, `JtagDevice`, `PioLink`, `HtgDebugger`, `BlueNocHost` | the host's devices with the other ends of their channels | instances in `MCHost` |
| `ConfigMap` | abstract: a map from names to values | instance in `IniDictionary` |
| `IniDictionary` | `iniparser` and `dictionary` | instance in `MCHost` |
| `HostProofs` | theorems about the messages, the host side, the dictionary and its map | extends `MCHost` |
| `JtagKeyTransfer`, `JtagMonitor` | FTDI cable; monitor of the TAP | extended by `MCCable` |
| `CableDriver`, `UsbCable`, `EzusbLoad`, `WdUsb`, `WdDescriptors`, `WdKernel`, `WdServices`, `Xpc4Port` | the rest of the cable library, `fxload`, the kernel modules | instances in `MCCable` |
| `Sums` | sums of sequences, as recursive functions | extended by `UsbCable` and `WdDescriptors` |
| `CableLemmas` | what their operators compute: descriptors in a buffer, sizes of transfers, pages, segments of firmware, walks over a batch; lemmas | extends `MCCable` |
| `CableProofs` | theorems about the cables' drivers | extends `CableLemmas` |

`MCDrivers`, `MCHost` and `MCCable` hold components that do not interact. Their
variable `part` says which of them a behaviour exercises; the variables of the
others keep their initial values. A property of such a module is the conjunction of
one property of each component that is exposed to the same kind of error.

Operators whose comment begins with "Defective variant:" are wrong versions of the
definition that follows them; they are used nowhere. Replacing a definition by its
variant makes TLC report the property it is listed with in `PROJECT.json`. A
property that joins several components has a variant for each conjunct; one of
them is listed and the others can be tried in the same way.

### AuroraReliable

A Bluespec rule is atomic, so each is one action; its guard holds the rule's
condition and the implicit conditions of the FIFOs it uses. `rxDemarsh` is split
along its branches: header, new word, repeated word, bad word, ack.

* The two rewind buffers are three pointers each: committed, next to read
  (`First`), end (`Last`). A word is its index in the stream.
* Sequence numbers are kept as unbounded frame numbers. The hardware stores
  `SeqNo(frame)`, and all comparisons in guards are made on `SeqNo` alone.
* The CRC chain is `Hash(salt, chunk)`, free of collisions: the chain is the
  sequence of chunks. The width of a CRC is not modelled, so a damaged flit that
  passes for another one is not either.
* `link` and `ackLink` are the serial lines with the `serdesInfifo` at their
  ends. Both lose; the forward line also damages, marks with `soft_err`, and
  inserts noise. `LinkLose` is also what the rule `drop` does when the receive
  FIFO is full; in simulation builds `fullDeath` ends the run there instead.
* The timer is abstracted: `TimeoutTest` may fire whenever a frame waits. This
  includes every early and late expiry. A timer that never expires again is
  excluded by fairness and would not be noticed.
* The other direction shows only as delay: acks and payload share `rxDemarsh` and
  `txFC`, so they may wait for one another as long as they like.

### AuroraFlowControl

Every variable is a function of the side. Each rule is an action, `rxIntake` is
split by message class: credit, heartbeat, data.

* A data flit is its position in the sender's stream of flits. That later flits
  of a word may look like credits or heartbeats is in `RxData`: within a word any
  flit is taken as data, so a heartbeat inside a word would be swallowed.
* `TxData` joins `driver.write` and the rule `txData`; the FIFO `serdes_txfifo`
  between them only delays.
* The `heartbeat` counter of 11 bits is abstracted to its zeros. Both sides run at
  the same nominal speed, so their zeros alternate (`turn`), and a heartbeat has
  arrived before its sender's next one (`Beat`). `SkipHeartbeat` is a zero at which
  `txHeartbeat` does not fire: `ccCycles` is not yet zero, a word is being sent,
  or the transceiver is busy with clock compensation. The last happens to a side at
  most every other time, because clock compensation is rarer than that.
* `LoseHeartbeat` is an early soft error. `Troubles` says which of skips by clock
  compensation and a loss may come together in one behaviour. After the handshake this link has no
  protection against loss, and its model has none to show.
* `rxDemarsh` empties `serdes_infifo` at least as fast as `rxIntake` fills it:
  the intake waits for it (`DemarshIdle`).
* A reset of one side alone is not modelled.

### AuroraSimulation

`heartbeat`, `ccCycles` and the transceiver's `ccAdjust` are registers of one
clock and one reset; one action is one clock cycle.

### LeapFpgaCtrl

An action is one system call that other processes can observe, or several between
which they cannot. A process has a program counter, its user, its command, the
state it read and the tasks left. The `fcntl` locks belong to processes and
vanish with them, also after a kill. `GiveUp` is the case where the lock stays
busy for 21 attempts; `oldState` is then read without having been assigned, which
is a choice in the model.

Left out: the text of the signature, `--status` and the other commands that only
print, and the boot script that wipes all files. The tool is installed setuid
root, so `chown`, `chmod`, `open` and `write` are taken to succeed; a missing
device file and a missing helper script count as success, as in the code.

### Kernel drivers: BlueNocDma, BlueNocBoards, BlueNocFiles, HtgChannel, Xupv5Boards

`BlueNocDma`. A call of `bluenoc_read` or `bluenoc_write` is a sequence of actions
between which other calls, the interrupt handler and the board can act: pinning and
mapping (`Enter`), the mutex (`Lock`), one turn of the loop over the pages
(`SendCommand`), a new look at the status register (`Refresh`, `Recount`), the end
of the wait and the release of the pages. The DMA engine of the board is external:
it carries out commands in order, may end a read message early and then throws away
the rest of the list, and drops a command for which its queue has no room. Lengths are in the driver's
unit of alignment. A signal or a soft reset in the middle of a transfer leaves
commands in the board that nobody waits for; `disturbed` records it, and the
properties are claimed of a direction until then. One disturbance is followed.

`BlueNocBoards`. `activate` acquires the resources of a board one per step, each of
which may fail, and `deactivate` gives back those of the level reached. The PCI core
calls probe and remove one at a time. Two control ioctls of one board at the same
time, which nothing in the driver prevents, are not followed.

`BlueNocFiles`. Open and release with their count, `poll` and the kernel's `select`
that calls it (external), the register ioctls, the profile, and what deactivation
and reactivation do to them. `excused` marks a profile that was switched on in the
middle of a call.

`HtgChannel`. Probe and remove of the misc device and the DMA ioctls, which wait on
one flag that the interrupt handler toggles. `orderly` says that the callers took
turns; the property is claimed then, since the driver has no lock. No call asks
whether a device is bound: without one it faults on the pointer to the device, which
ends the process (`CallUnbound`). A removal while a call is in progress is not followed.

`Xupv5Boards`. The table of slots, whose index is the minor number. `getDevice`
returns with its spinlock held when the table is full (`main.c:305`); `locked`
records it and stops later probes.

### Host side: UmfMessage, UnixPipe, JtagDevice, PioLink, HtgDebugger, BlueNocHost, IniDictionary

`UmfMessage`. A message object with its cursors; a header chunk is a number in
mixed radix, encoded and decoded by the arithmetic of the code. Objects come from
the allocator's free list with what the previous message left in them. The channel
between the two ends is outside the repository; it moves one chunk at a time.

`UnixPipe`. Both processes: two threads of the host in blocking opens, the
simulator with opens that do not block and are repeated, writes and reads in pieces
that the pipes allow, and the end of either process at any time. `openReadThread`
gives up after `Retries` attempts.

`JtagDevice` has one instance per vendor. The Xilinx device has three threads that
`Cleanup` stops and joins before it closes the socket; the Altera device is a child
behind two pipes. A byte up to 40 is a blank and is dropped, as in `RemoveBlanks`.

`PioLink`. A store that the FPGA has no room for is dropped; the host learns it from
a count that wraps and repeats the store.

`HtgDebugger`. The FPGA executes the instruction in the register when its number
differs from the last one; `GenIID` wraps.

`BlueNocHost`. The calls in the order in which `Init`, `Cleanup`, the tests and
`bluenoc-ioctl` make them, against a board that is active or not. A read that brings
nothing or a write that is short ends the program, on an active board too.

`IniDictionary`. The three arrays of `dictionary.c` are one sequence of slots with
holes; the hash only speeds up the comparison and is left out. A line of the file is
its kind with name and text. `ImplementsMap` maps the slots to `ConfigMap`.

### Programming cables: JtagKeyTransfer, JtagMonitor, CableDriver, UsbCable, EzusbLoad, WdUsb, WdDescriptors, WdKernel, WdServices, Xpc4Port

`JtagKeyTransfer`. A batch is one step: the thread that reads the answers is joined
before the call returns. The two walks over the batch, by which accesses are turned
into bytes and answers are matched to reads, are separate definitions.

`JtagMonitor`. The TAP controller as `jtagmon` follows it, on rising edges of TCK.
`ones` is a history variable.

`CableDriver` and `UsbCable`. The WinDriver ioctls that the preloaded library
answers. INT_ENABLE, INT_DISABLE and INT_WAIT pass one mutex between threads.
`mistaken` (opening a card failed half way, and it was not closed), `upset`
(interrupts were switched out of turn, or while a thread left its wait) and
`switched` (another device was found under an open handle) record that the calls
left the order the interface is meant for; what is promised ends there.
The descriptors are a buffer of pieces with pointers between them. A transfer does not
ask for an open handle; without one it reaches no device.

`EzusbLoad`. Records of a hex file are merged into segments; a segment is written
to the chip or, with an address, to the EEPROM. Requests time out and are repeated,
and the program may stop at every request. The chip and its boot loader are external.

`WdUsb`. `OS_transfer` with its pieces, time limit, halt and detaching, against the
completion handler of the USB core. `WdDescriptors`: the walk that computes the size
of the device information and the walk that fills it, and switching of settings.
`WdKernel`: list of interrupt wrappers, pinned pages with their scatter list,
mappings. `WdServices`: the other services of `linux_wrappers.c` that keep state for
their callers: counters whose new value is read in a second step, semaphores and
events with waits that a signal ends, contiguous buffers whose pages are marked as
reserved, mappings of device memory, and deferred work that is flushed before it is
freed. `Xpc4Port`: regions of an open file and the timer of an ioctl. The
libraries of the vendors that call these files are external.

## 3. Runs

| Run | Checks | Bounds |
|---|---|---|
| `aurora_safety` | `ExactlyOnceInOrder`, `NoEarlyRelease`, `SenderInStep`, `HeaderTestExact`, `ChainFindsPosition`, `IInv`, `ImplementsStream` | the source's 2 frames in flight and 8 sequence numbers, 9 frames of 2 words: the numbers wrap |
| `aurora_live` | `WordsArrive`, `FramesReleased` | 3 words: one whole frame and one partial frame |
| `flow_handshake` | `NothingIgnored` | the source's thresholds 6 and 8 and 5 bit counters; either skipped heartbeats or one lost heartbeat |
| `flow_credit` | `AlwaysReceives`, `NoCreditUnderflow`, `WordsIntact`, `CreditsComeBack` | 4 credits, 5 words of 2 flits each way: credits run out and return |
| `flow_live` | `WordsArrive` | 4 credits, 5 words |
| `ctrl` | `DecidesOnCurrentState`, `ReservationGivenOnce`, `AccessFollowsOwner`, `ProgrammingExclusive` | 2 processes, 2 users, 2 devices, at three kinds of site: two devices on one reservation file with `--force` and kills; devices of their own with `--force` and failing scripts; each device handled by one process at a time without `--force` |
| `drivers` | `SlotsNeverOvercommitted`, `PagesPinned`, `CompletionIsOwn`, `DirtyExact`, `CallsReturn`, `ResourcesMatchState`, `FilesLeadToTheirDevices`, `TransfersAwaited` | 2 processes, 2 DMA slots, a buffer over three pages; 3 boards for 2 board numbers; 3 XUPV5 slots; 2 users of the other file operations |
| `host` | `MessagesIntact`, `StreamsIntact`, `LoadedAsWritten`, `ImplementsMap`, `BothSidesEnd` | messages of 1 to 6 bytes in chunks of 2, recycled; pipes of 5 bytes for chunks of 3; files of up to 3 lines of 8 kinds and one of 6 lines, a dictionary of 2 slots; 3 instruction numbers; PIO queues of depth 1 |
| `cable` | `ReadsMatch`, `BuffersBounded`, `ReleasedWithOwner`, `WaitsUntilDisabled`, `ResetInFive`, `LoadedWhenDone`, `RunningCodeIntact`, `WaitsAndLoadsEnd` | batches of 3 accesses; 2 threads, 2 ports, 2 streams; 3 USB devices; firmware with gaps, overlaps of both memories and bad records, a segment buffer of 4; transfers of 3 and 5 in pieces of at most 4; buffers over up to 4 pages at every offset |
| `ctrl_program_twice` | `OneDeviceProgrammed`, violated | both processes may handle both devices |
| `flow_early_errors` | `NothingIgnored`, violated | the source's constants, one lost heartbeat and skipped ones |
| `sim_heartbeat` | `HeartbeatSent`, violated | the source's constants |

Why the bounds are enough. A frame of two words has a first and a last word, and
losses between them; two frames in flight are the source's `max_frames`; nine
frames use every sequence number and come back to the first. One flit on each line
is enough for the path of the proofs (section 4) to have all its parts occupied,
and the theorems hold for lines of any length. Four credits are the
fewest for which half and three quarters differ from all and from nothing, and
five words exhaust them. Two tools are enough for every file to change between two
calls of one of them. Three pages are more than the two slots of the board, so a
call runs out of them and must look again, and the buffer starts inside a page and
ends with one. Three boards for two numbers make one fail for want of a number.
A message of six bytes is three whole chunks and one of five is not; three
instruction numbers wrap within the four instructions of a behaviour; a file of
three lines has a section, an entry and a line that replaces or spoils it, and the
long file makes the dictionary grow twice.

The modules that hold several components stop when their component has nothing
more to do (a program exits, a bound is reached), so `CHECK_DEADLOCK FALSE`.

`VIEW LiveRegisters` treats registers as equal that are written before they are
next read (the position and hash of a frame that is not in progress, of a
received frame in error). `VIEW LiveCounters` does the same with the heartbeat
counters and the contents of heartbeats once both sides have completed both
handshakes, after which no guard reads them. `UserSymmetry` permutes the users,
whom no definition tells apart.

### Disagreements between code and comments

With a run:

* `ctrl_program_twice`: "Only allow one device to be programmed at a time"
  (`leap-fpga-ctrl.c:713`) fails when two tools handle the same device. The lock
  names a device and not a process; one tool removes the lock that the other has
  just been let through by. The run `ctrl` shows that it holds with one tool per
  device and no `--force`.
* `flow_early_errors`: the margin of two heartbeats that is to "defend ourselves
  against early soft errors" does not cover one lost and one skipped heartbeat.
  With either alone it suffices (`flow_handshake`).
* `sim_heartbeat`: the simulated transceiver promises "guaranteed transport", but
  with the link with credits no heartbeat is ever sent: its cycle is always one of
  clock compensation.

Met while modelling, in the model as they are in the code, without a run of their own:

* A `--program` that is refused because the device is not reserved leaves the
  programming lock (`leap-fpga-ctrl.c:507`), while the other refusal says "Remove
  the failed programming lock file."
* `bluenoc-ioctl` asserts that the board is active after its ioctl, which returns
  success also when the activation fails.
* `BNOC_REACTIVATE` initialises the wait queue anew under processes that sleep on
  it, and `poll` on an inactive board does not join it: nothing wakes them.
* `getDevice` of the XUPV5 driver keeps its spinlock when the table is full.
* The constructor of the UMF allocator clears each message of its pool after it has
  set the message's allocator (`umf-allocator.cpp:60`).
* `config.c` of the cable library refuses the name LPT1.
* The completion handler of `wdusb_linux.c` may use a context that a transfer with
  an expired time limit has freed (754-762), and a transfer without a time limit
  ends after its first piece (1050-1058). The properties of `WdUsb` name these cases.
* An event of `linux_wrappers.c` is a mutex that starts at 1, so that it is set when
  it is created (1633-1636), and `LINUX_atomic_dec` may tell two callers that the
  counter is zero (1585-1594); that at least one is told is checked.
* The error count of `iniparser_load` is overwritten by the next line that can be
  stored.

### Fairness

The Bluespec scheduler fires every rule in every cycle in which its guard holds
and no more urgent rule conflicts with it. Hence weak fairness for the rules.
The reading users are assumed to dequeue.

* `AuroraReliable`: additionally `EventuallyCalm`: from some time on the line does
  no harm, and a timeout no longer comes before the answer. The second half is
  what the timer's threshold, a thousand times the capacity of the buffers, is
  for. Safety is checked without it.
* `AuroraFlowControl`: strong fairness for `TxFC` and `TxSend`. A heartbeat takes
  the transceiver for one cycle in 2048 and they find it free in between. In the
  run the heartbeat counter has 6 values and the thresholds are 0 and 1. Counters
  of 4 or 5 values do not complete the handshake in every interleaving, since both
  counts must be above the threshold at the same time while they wrap; the
  source's 32 values and threshold 8 leave more room than 6 and 1 do.
* `drivers`: the board works through its queue, a pending interrupt is delivered, and
  a process that can go on does. Nothing is assumed of signals, resets or early ends.
* `host`: the threads of the host and the rules of the simulator that can go on do;
  no process has to start, write or end.
* `cable`: a thread that finds the mutex of the emulated interrupt free again and
  again gets it (strong fairness: the mutex is a `pthread_mutex`, for which the
  threads compete); `fxload` is sequential and its requests return; the USB core
  calls the handler of a URB that is done or was unlinked, and the woken thread runs.

## 4. Proofs

`AuroraReliableProofs` proves for all values of the constants that satisfy
`AuroraAssumption`, that is: frames of at least two words, at least one frame in
flight, an even number of sequence numbers that is at least four times
`MaxFrames` (8 and 2 in the source), and buffers, lines and streams of any size.

| Theorem | Statement |
|---|---|
| `TypeCorrect` | `Spec => []TypeOK` |
| `InvariantHolds` | `Spec => []IInv` |
| `DeliveryCorrect` | `Spec => []ExactlyOnceInOrder` |
| `ReleaseCorrect` | `Spec => []NoEarlyRelease` |
| `SenderCorrect` | `Spec => []SenderInStep` |
| `HeaderTestCorrect` | `Spec => []HeaderTestExact` |
| `AckCorrect` | `Spec => []AckNamesOldestFrame` |
| `ChainCorrect` | `Spec => []ChainFindsPosition` |
| `Refinement` | `Spec => ImplementsStream` |

The argument. None of the properties is inductive: that a stale ack is harmless
depends on how stale it can be. Acks waiting at the transmitter, acks on the line,
acks waiting at the receiver, the frame being received and the flits on the line
form one path, in the order in which they were caused. `PathInv` says that of two
frames on the path the one further back, which is younger, is older in number by
less than `MaxFrames` (`MayFollow`): a transmitter that rewinds goes back by fewer
frames than it may have in flight, and the queues are FIFOs. With `AckInv` (nothing
on the path lies more than `MaxFrames` before the oldest kept frame) and
`LinkInv` (an intact flit is as it was sent) the numbers that meet in a comparison
differ by at most `MaxFrames`, where `SeqNo` is injective (`SameSeqNo`) and the
test of the top bits is exact (`HeaderTest`).

Payload words carry no number. `ReceiverInv` says that the receiver's hash is the
hash of the frame's header and the words before its position; a payload whose
hash continues it is, since hashes do not collide (`ChainInjective`), the next
word of that frame. `SenderInv` ties the transmitter's pointers, timers and ack
queue together through every interleaving of ack and timeout.

One lemma per part says that each step preserves it (`TypeStep`, `SenderStep`,
`ReceiverStep`, `LinkStep`, `PathStep`); `InvStep` collects them. `StreamStep`
shows that every step under the invariant is a step of `ReliableStream` or leaves
its variables unchanged.

`AuroraFlowControlProofs` proves, for every number of credits (a multiple of four),
width of a word, depth of the buffers and number of words, that each run's invariant
holds. Two hypotheses are stated with the theorems. `EarlyEnough`: at most one
heartbeat is missing in a behaviour's handshake, either by a loss or by skips, and
the thresholds leave room for it, `ReadyRX + 1 + Delay <= ReadyTX`; the source's 6
and 8 do, with one to spare only if nothing goes wrong, and the run
`flow_early_errors` shows that both kinds together break it. `NothingDropped` also
needs `CreditDepth > 1`; the source has 4.

| Theorem | Statement |
|---|---|
| `FlowInvariant` | `Spec => []FlowInv` |
| `ReceivesWhatIsSent` | `Spec => []NothingIgnored` |
| `NothingDropped` | `Spec => []AlwaysReceives` |
| `CreditsBounded` | `Spec => []NoCreditUnderflow` |
| `WordsArriveIntact` | `Spec => []WordsIntact` |
| `CreditsReturned` | `Spec => []CreditsComeBack` |

The argument. `Handshake` says, for each direction, how far the sender's count of
heartbeats can be ahead of what the receiver has been told: by the heartbeats seen
since its own last one (`Since`), by its own that is still on its way (`AtSea`), and
by the one that may be missing (`Missed`). When a side first may send, all three are
at their maximum, so a heartbeat that makes the other side ready is on its way and
arrives before any word (`Heralded`). `Ordered` says that the line from one side to
the other holds exactly the flits from the next one that is waited for to the last
one written, in order, and credits and heartbeats only where a word ends; with
`Framed`, both sides count the flits of a word alike, so no heartbeat is taken for
data. `Balanced` is the conservation of credits: those of a side, the words it has
sent that are not delivered, what its partner owes and what is on its way back add up
to `Credits`, and what is on its way back is one message, because it is more than
half of all. None of these is inductive without the others: that a side does not
ignore a credit needs the handshake, that a heartbeat is counted needs the framing,
and the framing needs that no flit was ignored.

`LeapFpgaCtrlProofs` proves the properties of `leap-fpga-ctrl` for every set of
processes, users, devices, files and sites.

| Theorem | Statement |
|---|---|
| `CtrlInvariant` | `Spec => []CtrlIInv` |
| `DecisionCurrent` | `Spec => []DecidesOnCurrentState` |
| `GivenOnceCorrect` | `Spec => ReservationGivenOnce` |
| `AccessCorrect` | `Spec => []AccessFollowsOwner` |
| `ProgrammingCorrect` | `Spec => []ProgrammingExclusive` |

`CtrlInv` ties each `fcntl` lock to the one process that is between the lock and the
end of its work (`LocksHeld`) and says what that process knows of the file: before it
writes, what it read; afterwards, what it wrote (`ContentsKnown`). `AccessInv` adds
that access which no longer fits the reservation is about to be revoked by the
holder of the lock. `ProgInv` follows the programming lock from the process that
creates the file to the device whose id it writes. The last two state their
conditions on the site (no kills, one name per device, and so on) inside the
invariant, as the properties do. The proof showed that `ProgrammingExclusive` needs
one name per device (`NoAlias`): two names for one reservation file can leave the id
of one in the programming lock and the state of the other in the file.

`BlueNocDmaProofs` proves the properties of DMA transfers for every set of processes
and buffers, every page size and every depth of the board's queue.

| Theorem | Statement |
|---|---|
| `DmaInvariant` | `Spec => []DmaInv` |
| `SlotsCorrect` | `Spec => []SlotsNeverOvercommitted` |
| `PinnedCorrect` | `Spec => []PagesPinned` |
| `CompletionCorrect` | `Spec => []CompletionIsOwn` |
| `DirtyCorrect` | `Spec => DirtyExact` |

`Direction` is the core of `DmaInv`: while nobody has the mutex of a direction, the
board has nothing of it; while a call has it, the call's list is being worked off
(`Running`: the queue is the part of the list that was sent and not done, and the
bytes and pages moved are those of the part before it), or was carried out to the
end (`Completed`), or was cut short by the end of a read message and the rest is
dropped (`Flushed`). In each, the call counts on no more slots than are free, because
only it adds commands. `CallsInv` and the lemmas `ListPages` and `LastPage` say that
the list of a buffer covers it page by page, with the arithmetic of `sg` lists that
begin and end inside a page.

`DirtyCorrect` is about `MarkedPages`, a fold over the list of pages that adds up
their lengths and stops at the byte count that the driver has. `SumsExist` and
`SumIsFold` turn the fold into partial sums, by induction through the least
counterexample; `PagesReached` says where they meet the count. That the count is the
sum of the first pages and a part of the next (`CutShort`) is carried through
`DmaInv`: the board moves the pages of a list in order, and a flush ends the last one.

`CableProofs` proves properties of the cables' drivers for every set of threads,
streams, ports, descriptors, interrupts, files and callers, every size of a page and of
the firmware's buffer, every chip memory, every firmware file, every USB device and
every buffer for DMA. `CableAssumption`
(in `MCCable`) says what the code fixes: firmware files are sequences of records that
fit into the buffer, no record of the firmware runs past the end of the chip's memory
(`MemSize`, 2^16 in the code, where an address has 16 bits), sizes and limits are
naturals, the kernel gives out at most the eight pages for which `get_order` is modelled.
A configuration of a USB device has interfaces, with numbers of their own, and these have
settings: the walks of `wdusb_linux.c` read `interface[0]` and `altsetting[0]` unasked.
A packet fits into a page, so that halving the size of an isochronous transfer, down to
whole packets, never leaves nothing; a pointer is not longer than the description of a
pipe (`OS_set_interface` reserves the one and writes the other); and a buffer for DMA is
not empty.

| Theorem | Statement |
|---|---|
| `CableInvariant` | `CableSpec => []CableInv` |
| `OwnersCorrect` | `CableSpec => []ReleasedWithOwner` |
| `WaitsCorrect` | `CableSpec => []WaitsUntilDisabled` |
| `RunningCodeCorrect` | `CableSpec => RunningCodeIntact` |
| `LoadedCorrect` | `CableSpec => []LoadedWhenDone` |
| `ReadsCorrect` | `CableSpec => []ReadsMatch` |
| `BuffersCorrect` | `CableSpec => []BuffersBounded` |
| `MonitorInvariant` | `MonitorSpec => []ResetNears` |
| `MonitorResets`, `CableResets` | `MonitorSpec => []ResetInFive`, `CableSpec => []ResetInFive` |

`CableInv` is a conjunction of one invariant per part; each is inductive by itself,
since a behaviour moves one part (`StepsOfParts`). Those of `fxload` build on each
other.

* `CardKept`, `FilesKept`, `HandleKept`: which of port, FTDI chip and descriptor is open
  for the registered card, for made-up files and for the handle of libusb.
* `WaitsKept`: while the emulated interrupt is switched on and off in turn, the mutex is
  locked whenever interrupts are enabled; this is what a waiting thread relies on.
* `TransferKept`: a URB flies, or is done and not handled, only while `OS_transfer`
  waits for it; hence its context and its buffer are allocated.
* `BatchKept`: between two batches the pins of `last_data` are those of `last_write`, and
  the buffer ends in them. The two walks of `jtagkey_transfer` are taken access by access
  (`Gather`, `Match`): what the first has put into the stream and the place the second has
  counted to differ by nothing as long as a new byte means new pins (`Plain`), and a
  repeated write neither adds a byte nor moves the place. The sample at a read's place is
  therefore the one with as many changes of pins before it as the caller asked for.
  `Changes` counts them in the stream, `ChangesAsked` in the batch, so the sample of the
  wrong side of a change would be told apart.
* `BytesCounted`: the bytes moved are the first of the request, what is reported and what
  is left make up the request, and before each piece as many have moved as are reported.
  Without a time limit nothing is reported before the end, since there is one piece. That
  piece leaves out the remainder of an isochronous transfer, which is how a call that
  succeeds may move less than was asked for with neither error nor limit.
* `DescriptorsKept`: what was announced is the size of a device's descriptors, and what
  was written are the descriptors of one. That they can be read, `DescriptorsInBuffer`,
  is a fact about the two walks of `usb_deviceinfo` for every tree of configurations,
  interfaces and settings. `SettingPlaced`, `InterfacePlaced`, `ConfigPlaced` and
  `DevicePlaced` show one level after the other that the walk that writes takes the bytes
  that the walk that counts has announced. `FollowsFlat` gives the place of each part when
  the parts are put together, `OffsetsOfRun` and `ReadsRun` the places of pieces of one
  kind that follow each other. `ArraysFollow` names these runs: the interfaces behind
  the configuration, the endpoints and pipes of each setting, and the settings of an
  interface, which only follow each other while those before the last have no endpoints.
* `Info!InfoFits`, inductive by itself: `wdusb_linux.c` lays the same descriptors out
  array by array, and counts them setting by setting. `SizeIsTaken` shows that the sums
  agree, `Distributes` and `SumPlus` carry it through the levels.
* `PiecesKept`: something is left of a transfer that goes on, and what could be allocated
  for its next piece is not empty. `AllocateWalks` describes the sizes that
  `try_allocate` tries, `HalvedPositive` why none of them is nothing.
* `SegmentKept`: a record is added to the segment only if it fits.
* `ListKept`: the pinned pages are those of the transfer whose list is built, and the
  list is empty or has all of them. `PiecesCover` shows that the pieces cut at the borders
  of pages add up to the buffer, each in the page of its place (`PieceSpan`).
* `RemapKept`: an address that was handed out reaches all of the device memory asked for.
* `MapKept`, `SelectedKept`: a thread on its way through `mmap` holds `mmap_sem` and has
  set `private_data` for its own kind of mapping; the settings that were selected, and
  those named as active, exist. `LastFound` says
  that what the nested loops find last is the greatest of the places found.
* `WrappersKept`: every allocated wrapper is in `c_list` once or in one call. As long as
  no context is used for two lines (`sameCtx`), the installed handlers are those
  wrappers; that is why unloading leaves none behind.
* `PortKept`: for each file, `TimeRemaining` and the seconds that have passed make up
  the limit at least, and one more while the handler is about to lower the former
  (`TimerKept`). A timeout reported early would need a second counted twice.
* `CounterKept`, `SemaphoreKept`, `WorkKept`: the counter is the number of callers
  between raising and lowering it; a semaphore's value and those let through add up to
  what it was raised; deferred work is queued whenever it is wanted.
* `PagesKept`: the frames taken are those of the buffers, which are apart, and the marked
  ones those of the mapped buffers. `MarksAreOfBytes` leads from whole pages to the bytes
  of a buffer, with the arithmetic of `get_order` (`OrderCovers`, `PagesOfBytes`).
* `LoaderKept`: which passes of `fxload` are left, and what the CPU does in each. The
  proof of `RunningCodeIntact` needs that a segment that straddles a border of the chip's
  memory is excluded on both sides: one that begins below a region and ends in it counts
  as external to `is_external` although a part of it is not.
* `FileKept`: what `parse_ihex` has gathered after so many lines is a function of those
  lines, `SegOf`, no matter how often the pass stopped to write a segment. The second
  pass over a firmware therefore cuts it into the same segments as the first, which is
  what makes it sound that each pass skips what the other writes. `SegOf` is defined by
  recursion; that it exists is proved from the least line at which it would not
  (`SegmentsExist`).
* `MemoryKept`: a segment that has been passed and was not for the other pass to write
  (`Due`) is in memory (`Held`). Writing a later one leaves it there, since two segments
  hold the same byte where they meet (`SegmentsAgree`), which is where `Plain` is needed:
  no record is empty and no two hold the same address. At the end every byte of the file
  is in a segment that was written (`WrittenAtEnd`), at the address that its record gives
  it (`ByteInPlace`).
* `EepromKept`: while the EEPROM is written it does not boot, and the segments passed are
  in it before the commands that end the image; the byte that makes it bootable comes
  after both.
* `ResetNears`: `ResetInFive` alone is not inductive. The number of edges that still lead
  from the monitored state to the reset (`ToReset`) and the edges counted so far add up
  to at most five, unless the state is the reset already. `HighNears` proves the step for
  every state of the TAP controller.

`HostProofs` proves about `UmfMessage`, for every size of a chunk and of a buffer, every width of
the header's four fields and every set of lengths and pieces:

| Theorem | Statement |
|---|---|
| `HeaderRoundTrip` | the header that the code encodes decodes to the same channel, service and method, and to a length that covers the message and exceeds it by less than a chunk |
| `UmfInvariant` | `Spec => []UmfInv` |
| `MessagesCorrect` | `Spec => []MessagesIntact` |

The first rests on lemmas about quotient and remainder of a number in mixed radix.
`MessagesIntact` says nothing of a message that is only half written or half sent.
`UmfInv` follows it: the sender's object holds what was appended (`Filled`); between
`Send` and the last `AppendChunk` there is a number of chunks of which the receiver's
object holds the first ones and the channel the others (`Arriving`); and what was
extracted is a beginning of what the receiver's object holds (`Taken`). That the last
chunk carries bytes of an earlier message after the end of this one does no harm,
because they lie behind the length that was written (`Whole`).

`DriversProofs` proves the three properties that `MCDrivers` states of the other
modules of the kernel drivers, for every set of devices, processes and openers and
every number of board numbers, slots and chunks (`DriversAssumption` says that these
are naturals and that two names for nobody are not the names of somebody).

| Theorem | Statement |
|---|---|
| `DriversInvariant` | `DriversSpec => []DriversInv` |
| `ResourcesCorrect` | `DriversSpec => []ResourcesMatchState` |
| `FilesFound` | `DriversSpec => []FilesLeadToTheirDevices` |
| `TransfersCorrect` | `DriversSpec => []TransfersAwaited` |

`DriversInv` is one invariant for each of the four components.

* `BoardsInv` (BlueNoC, probe to remove): a board has a number if and only if it is
  listed and has left the level `PROBED`, and numbers of listed boards differ
  (`Numbered`); a file has the number of the listed board that it leads to
  (`NodesListed`); and the board of a probe in progress is still the head of the list
  and without a file (`OpListed`), which is why a probe that fails may drop the head.
  `Ladder` says what a level adds to the one below, `OneGone` and `HeadGone` what
  is left of a list without duplicates.
* `HtgInv`: while the calls come one at a time, the one transfer is at work, finished
  with the interrupt pending, or signalled, and only then is the flag set (`Orderly`).
* `XupInv`: a device with a slot is the one in the slot (`SlotsOwned`), a probe has
  what its steps have acquired (`KeptSoFar`), and an open file is of the device that
  it was opened for (`FilesOpened`).
* `FilesInv`: what the board is ready for and the driver does not know of, an
  interrupt tells (`Announced`); a sleeper for something that the driver knows of is
  woken when the handler goes on (`SleepersKnown`); and calls that the profile
  counts know when they began (`CallsTimed`).

`HostProofs` also proves the safety properties and the refinement that `MCHost` states.
The sizes of the links are constants of `MCHost`, and `Host.cfg` gives them values;
`HostAssumption` asks for little more than naturals: chunks of at least one byte,
counters that wrap after at least two, a blank that is no datum, an identifier for
every instruction number. `IniAssumption` says that a dictionary begins with at least
one slot, that `NULL` is no name, and that no line of a file both continues another
and is continued: `TextAt`, by which the file is read in the specification, joins two
lines.

| Theorem | Statement |
|---|---|
| `HostInvariant` | `HostSpec => []HostInv` |
| `StreamsCorrect` | `HostSpec => []StreamsIntact` |
| `HostMessagesCorrect` | `HostSpec => []MessagesIntact` |
| `LoadedCorrect` | `HostSpec => []LoadedAsWritten` |
| `DictionaryImplementsMap` | `HostSpec => ImplementsMap` |

`HostInv` is one invariant for each component.

* `PipeInv`: the bytes of a direction are numbered, and each place that holds some of
  them, from the last reader back to what a writer has pending, continues where the
  one before it ends (`Downstream`, `Upstream`). A read buffer holds at most two whole
  chunks, and what is left over waits in `ib`.
* `JtagInv`: what was told is what arrived, followed by a rest that the socket holds
  with blanks between (`Filtered`). `Places` names the position of each datum; a
  blank moves past `RemoveBlanks` without changing the rest. A closed socket has no
  threads.
* `PioInv`: for each channel and direction the queues between the ends, joined, are
  what was given; the server only stores after it has read a count which the FIFO
  has not changed since (`CountedBefore`), so it can tell by the next count whether
  the FIFO took the byte, modulo any number above one.
* `HtgInv`: the instruction numbers tell how many instructions were issued since the
  last one that was executed, while these are fewer than there are numbers
  (`NumbersTell`).
* `NocInv`: the descriptor of the device is open from `InitOpen` to the first
  `Cleanup`, and in the tests the host's beat and position are the flooder's.
* `IniInv`: `DictInv` says that each name is in one slot and that the slots in use are
  counted. While a file is loaded, `Loaded` says that the dictionary is what the lines
  read so far say: the names are those of `Seen`, each has the value of its last line
  (`Latest`), the slots have no gaps, and names are in the order of their first lines
  (`Ordered`). Without the last two the sections would not be numbered in order: a
  new name goes to the first empty slot, which is the end only if there is no gap. A
  deletion makes one, so the claim ends with the first edit. `SameRank` and
  `RankUnique` turn the order into the count by which `iniparser_getsecname` searches.

The refinement rests on `DictionarySet` and `DictionaryUnset`: read as maps, the slots
before and after differ at one name, whether the name had a slot, was put into the
first empty one, or the arrays were doubled first (`Overwritten`, `Inserted`,
`Removed`, `Doubled`).

Only model-checked are the liveness properties (`WordsArrive`, `FramesReleased`,
`WaitsAndLoadsEnd` and the others that need fairness), which are out of the prover's
reach, and the three disagreements with the documentation, which are counterexamples.
Every safety invariant and every action property of the runs is a theorem. Induction
over naturals is done, where a proof needs it, through the least counterexample
(`LeastExists`); induction over nested data, as in the layout of descriptors, one level
after the other, with the sums of `Sums` as recursive functions.

## 5. Not modelled, and plan

Not modelled:

* `aurora-reliable-aggregate-crc`, `aurora-reliable-handshake`: variants of the
  reliable link. The other Aurora files wire the link to vendor transceivers.
* The reverse direction of the reliable link other than as a delay, and a reset of
  one side of the link with credits; `serdes_txfifo` of the latter.
* `ddr-sdram`, other memories, block RAM and LUT RAM: FIFOs and credits around
  vendor controllers and primitives.
* Hardware side of BlueNoC: wiring of a vendor's network-on-chip library.
* HTG driver: ioctls that read or write one register, `mmap`, and the address
  translation, whose page is never released. PCIe core of the XUPV5, DMA part of
  `pci-express-device.bsv`, `Probe` of the Unix pipe.
* The rest of `linux_wrappers.c` (PCI configuration, port I/O, time, `printk`), which passes single calls to the kernel, the
  headers of WinDriver, and its 64 bit tree, whose C sources are copies. The driver
  `xpc4` for Linux 2.4 is an older copy of the one for 2.6.
* The boot script of `leap-fpga-ctrl`, which removes all files where no tool is
  expected to run.
* Serial devices (stubs), clocks, resets, board files, user I/O, vendor cores;
  commands that only print, log output.

Plan, in the order of importance:

1. The reliable link in both directions with their shared `rxDemarsh`, `txFC` and
   output; the question is whether a full output of one side can stop both.
2. Read credits of the DDR SDRAM controller.
