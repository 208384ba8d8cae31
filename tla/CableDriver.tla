----------------------------- MODULE CableDriver -----------------------------
(* The user-space driver of the Xilinx programming cables                      *)
(* (drivers/linux/Xilinx_Platform_Cable/usb-driver: usb-driver.c, parport.c,    *)
(* config.c and the opening and closing of jtagkey.c): a library preloaded into *)
(* the vendor's tool that answers the ioctls of the WinDriver kernel module.    *)
(* The state modelled here falls into three groups that share nothing: the      *)
(* parallel port, the emulated interrupt, and the emulated /proc files.  Each   *)
(* behaviour exercises one of them.  The USB side is module UsbCable.           *)
EXTENDS Integers, FiniteSets

CONSTANTS
    Threads,    \* threads of the tool that wait for interrupts
    Streams,    \* addresses at which the C library places a FILE
    Ports,      \* port numbers, 0 .. 3 in the code
    None        \* no port, no stream, no descriptor

VARIABLES
    focus,      \* the group of state that the behaviour exercises
    ftdi,       \* ports mapped to an FTDI cable (pp_config[n].real = 0)
    found,      \* a USB cable was found (usbdevice is set)
    pport,      \* the port of the registered card
    parportfd,  \* the port that /dev/parportN was opened for
    ftdiOpen,   \* an FTDI device is open
    hCard,      \* the handle that the tool got: "port", "ftdi" or "zero"
    mistaken,   \* a card was not closed: opening it failed half-way
    pins, last_pp_write, \* the data pins of each port, the last byte for them
    asked,      \* what the tool has written last to the registered card, if anything
    int_wait,   \* the mutex is locked
    enabled,    \* ints_enabled
    waiting,    \* where each thread is in INT_WAIT, and its dwCounter
    upset,      \* interrupts were switched out of turn or while a thread left its wait
    streams,    \* what each open FILE is a stream of
    modulesfp, modules_read, baseaddrfp, baseaddrnum

portVars == <<pport, parportfd, ftdiOpen, hCard, mistaken, pins, last_pp_write, asked>>
intVars == <<int_wait, enabled, waiting, upset>>
fileVars == <<streams, modulesfp, modules_read, baseaddrfp, baseaddrnum>>
vars == <<focus, ftdi, found, pport, parportfd, ftdiOpen, hCard, mistaken,
          pins, last_pp_write, asked, int_wait, enabled, waiting, upset,
          streams, modulesfp, modules_read, baseaddrfp, baseaddrnum>>

Modules == {"windrvr6", "parport_pc"}
Closed == [file |-> "closed", num |-> 0]
Kinds == [file : {"modules", "plain"}, num : {0}] \cup [file : {"base_addr"}, num : Ports]

TypeOK ==
    /\ ftdi \subseteq Ports
    /\ found \in BOOLEAN
    /\ pport \in Ports \cup {None} /\ parportfd \in Ports \cup {None}
    /\ ftdiOpen \in BOOLEAN /\ hCard \in {"port", "ftdi", "zero"} /\ mistaken \in BOOLEAN
    /\ pins \in [Ports -> {0, 1}] /\ last_pp_write \in {0, 1} /\ asked \in {0, 1, None}
    /\ int_wait \in BOOLEAN /\ enabled \in BOOLEAN /\ upset \in BOOLEAN
    /\ waiting \in [Threads -> [pc : {"out", "locking", "holding"}, counter : {0, 1}]]
    /\ streams \in [Streams -> Kinds \cup {Closed}]
    /\ modulesfp \in Streams \cup {None} /\ modules_read \in 0 .. Cardinality(Modules)
    /\ baseaddrfp \in Streams \cup {None} /\ baseaddrnum \in Ports

\* read_config: the lines "LPTn = FTDI:vid:pid".  The checks after the vendor and
\* product number look at the port number again, which is 0 for LPT1.
read_config(lines) == {n - 1 : n \in {m \in lines : m >= 1 /\ m - 1 # 0}}

Init ==
    /\ focus \in {"port", "interrupt", "files"}
    /\ \E lines \in SUBSET {n + 1 : n \in Ports} : ftdi = read_config(lines)
    /\ found \in BOOLEAN /\ (focus # "interrupt" => ~found)
    /\ pport = None /\ parportfd = None /\ ftdiOpen = FALSE /\ hCard = "zero"
    /\ mistaken = FALSE
    /\ pins = [n \in Ports |-> 0] /\ last_pp_write = 0 /\ asked = None
    /\ int_wait = FALSE /\ enabled = FALSE /\ upset = FALSE
    /\ waiting = [t \in Threads |-> [pc |-> "out", counter |-> 0]]
    /\ streams = [f \in Streams |-> Closed]
    /\ modulesfp = None /\ modules_read = 0 /\ baseaddrfp = None /\ baseaddrnum = 0

-----------------------------------------------------------------------------
(* The parallel port.  The tool registers one card at a time. *)

PortStep == focus = "port" /\ UNCHANGED <<focus, ftdi, found, intVars, fileVars>>

\* parport_open: the port is opened unless one is open already, and claimed; a
\* claim or a negotiation that fails leaves it open.
parport_open(n) ==
    \/ /\ parportfd' = IF parportfd = None THEN n ELSE parportfd
       /\ \/ hCard' = "port" /\ UNCHANGED mistaken
          \/ hCard' = "zero" /\ mistaken' = TRUE
    \/ /\ parportfd = None
       /\ hCard' = "zero"
       /\ UNCHANGED <<parportfd, mistaken>>

\* jtagkey_open: a step of the set-up that fails leaves the device open.
jtagkey_open ==
    \/ ftdiOpen' = TRUE /\ hCard' = "ftdi" /\ UNCHANGED mistaken
    \/ ftdiOpen' \in {ftdiOpen, TRUE} /\ hCard' = "zero" /\ mistaken' = TRUE

\* config_get finds the functions of a port, those of parport.c unless it is mapped.
config_get(n) == IF n \in ftdi THEN "jtagkey" ELSE "parport"

CARD_REGISTER(n) ==
    /\ PortStep /\ pport = None
    /\ pport' = n /\ asked' = None
    /\ IF config_get(n) = "jtagkey" THEN jtagkey_open /\ UNCHANGED parportfd
                                    ELSE parport_open(n) /\ UNCHANGED ftdiOpen
    /\ UNCHANGED <<pins, last_pp_write>>

\* One access of parport_transfer: a write of the data port reaches the pins of the
\* port that is open, or fails; it is remembered for the bits that tell the kind of
\* cable when the status port is read.  The other accesses change nothing here.
parport_transfer(v) ==
    IF parportfd = None THEN UNCHANGED <<pins, last_pp_write, asked>>
    ELSE /\ last_pp_write' = v
         /\ \/ pins' = [pins EXCEPT ![parportfd] = v] /\ asked' = v
            \/ asked' = None /\ UNCHANGED pins

\* TRANSFER and MULTI_TRANSFER, for a card on a parallel port.  (An FTDI cable is
\* served by jtagkey_transfer, module JtagKeyTransfer.)
TRANSFER(v) ==
    /\ PortStep /\ pport # None /\ config_get(pport) = "parport"
    /\ parport_transfer(v)
    /\ UNCHANGED <<pport, parportfd, ftdiOpen, hCard, mistaken>>

\* Defective variant: the descriptor is closed but not forgotten.
parport_close_Keeps == UNCHANGED parportfd

parport_close == parportfd' = IF hCard = "port" THEN None ELSE parportfd

\* The handle given back by the tool decides what is closed.
CARD_UNREGISTER ==
    /\ PortStep /\ pport # None
    /\ pport' = None /\ asked' = None
    /\ IF config_get(pport) = "jtagkey"
       THEN ftdiOpen' = (ftdiOpen /\ hCard # "ftdi") /\ UNCHANGED parportfd
       ELSE parport_close /\ UNCHANGED ftdiOpen
    /\ UNCHANGED <<hCard, mistaken, pins, last_pp_write>>

-----------------------------------------------------------------------------
(* The emulated interrupt *)

IntStep == focus = "interrupt" /\ UNCHANGED <<focus, ftdi, found, portVars, fileVars>>
Leaving == \E t \in Threads : waiting[t].pc = "holding"

\* Defective variant: the mutex is left alone.
INT_ENABLE_NoLock ==
    /\ IntStep
    /\ enabled' = TRUE
    /\ upset' = (upset \/ Leaving \/ enabled)
    /\ UNCHANGED <<int_wait, waiting>>

\* The mutex is locked if it can be.
INT_ENABLE ==
    /\ IntStep
    /\ enabled' = TRUE
    /\ int_wait' = TRUE
    /\ upset' = (upset \/ Leaving \/ enabled)
    /\ UNCHANGED waiting

\* Defective variant: the mutex is unlocked only if it was free.
INT_DISABLE_Inverted ==
    /\ IntStep
    /\ enabled' = FALSE
    /\ UNCHANGED int_wait
    /\ waiting' = [t \in Threads |-> [waiting[t] EXCEPT !.counter =
                                        IF waiting[t].pc = "out" THEN 0 ELSE @]]
    /\ upset' = (upset \/ Leaving \/ ~enabled)

\* trylock and unlock: a mutex that was locked is released, one that was free
\* stays locked.
INT_DISABLE ==
    /\ IntStep
    /\ enabled' = FALSE
    /\ int_wait' = ~int_wait
    /\ waiting' = [t \in Threads |-> [waiting[t] EXCEPT !.counter =
                                        IF waiting[t].pc = "out" THEN 0 ELSE @]]
    /\ upset' = (upset \/ Leaving \/ ~enabled)

\* For a USB cable the first wait after a disable returns at once; others pass
\* through the mutex.
INT_WAIT(t) ==
    /\ IntStep /\ waiting[t].pc = "out"
    /\ waiting' = [waiting EXCEPT ![t] = IF found /\ @.counter = 0 THEN [pc |-> "out", counter |-> 1]
                                          ELSE [@ EXCEPT !.pc = "locking"]]
    /\ UNCHANGED <<int_wait, enabled, upset>>
LockIntWait(t) ==
    /\ IntStep /\ waiting[t].pc = "locking" /\ ~int_wait
    /\ int_wait' = TRUE
    /\ waiting' = [waiting EXCEPT ![t].pc = "holding"]
    /\ UNCHANGED <<enabled, upset>>
UnlockIntWait(t) ==
    /\ IntStep /\ waiting[t].pc = "holding"
    /\ int_wait' = FALSE
    /\ waiting' = [waiting EXCEPT ![t].pc = "out"]
    /\ UNCHANGED <<enabled, upset>>

-----------------------------------------------------------------------------
(* The emulated /proc files *)

FileStep == focus = "files" /\ UNCHANGED <<focus, ftdi, found, portVars, intVars>>

fopen(f, kind) ==
    /\ FileStep /\ streams[f] = Closed
    /\ streams' = [streams EXCEPT ![f] = kind]
    /\ \/ /\ kind.file = "base_addr"
          /\ baseaddrfp' = f /\ baseaddrnum' = kind.num
          /\ UNCHANGED <<modulesfp, modules_read>>
       \/ /\ kind.file = "modules"
          /\ modulesfp' = f /\ modules_read' = 0
          /\ UNCHANGED <<baseaddrfp, baseaddrnum>>
       \/ kind.file = "plain" /\ UNCHANGED <<modulesfp, modules_read, baseaddrfp, baseaddrnum>>

\* Reading the stream of modules gives one made-up line after the other.
fgets(f) ==
    /\ FileStep /\ modulesfp = f /\ modules_read < Cardinality(Modules)
    /\ modules_read' = modules_read + 1
    /\ UNCHANGED <<streams, modulesfp, baseaddrfp, baseaddrnum>>

\* Defective variant: the stream of base addresses is not forgotten.
fclose_Remembers(f) ==
    /\ FileStep /\ streams[f] # Closed
    /\ streams' = [streams EXCEPT ![f] = Closed]
    /\ modulesfp' = IF modulesfp = f THEN None ELSE modulesfp
    /\ UNCHANGED <<modules_read, baseaddrfp, baseaddrnum>>

fclose(f) ==
    /\ FileStep /\ streams[f] # Closed
    /\ streams' = [streams EXCEPT ![f] = Closed]
    /\ modulesfp' = IF modulesfp = f THEN None ELSE modulesfp
    /\ baseaddrfp' = IF baseaddrfp = f THEN None ELSE baseaddrfp
    /\ UNCHANGED <<modules_read, baseaddrnum>>

-----------------------------------------------------------------------------
Next ==
    \/ \E n \in Ports : CARD_REGISTER(n)
    \/ CARD_UNREGISTER \/ (\E v \in {0, 1} : TRANSFER(v))
    \/ INT_ENABLE \/ INT_DISABLE
    \/ \E t \in Threads : INT_WAIT(t) \/ LockIntWait(t) \/ UnlockIntWait(t)
    \/ \E f \in Streams : (\E k \in Kinds : fopen(f, k)) \/ fgets(f) \/ fclose(f)

\* A thread that finds the mutex free time and again gets it, and goes on.
Fairness == \A t \in Threads : SF_vars(LockIntWait(t)) /\ WF_vars(UnlockIntWait(t))

Spec == Init /\ [][Next]_vars /\ Fairness

-----------------------------------------------------------------------------
\* The accesses of a registered card go to the port it was registered for, and
\* when no card is registered no port is left open, unless an opening failed
\* half-way.
CardOwnsItsPort ==
    ~mistaken => /\ pport # None /\ hCard = "port" => parportfd = pport
                 /\ pport = None => parportfd = None /\ ~ftdiOpen
                 /\ asked # None => pins[pport] = asked /\ last_pp_write = asked

\* A wait ends only when interrupts have been disabled, as long as they are
\* switched in turn and never while a thread is between its lock and unlock.
WaitsUntilDisabled == \A t \in Threads : waiting[t].pc = "holding" /\ ~upset => ~enabled

\* Once interrupts are disabled, a thread that waits for one returns.
DisableWakesWaiters ==
    \A t \in Threads : waiting[t].pc = "locking" /\ ~enabled /\ ~upset
                          ~> waiting[t].pc # "locking" \/ enabled \/ upset

\* Made-up lines are returned only for a stream of the file they stand for,
\* also when the C library places a new stream at the address of a closed one.
FakesOnlyItsFiles ==
    /\ modulesfp # None => streams[modulesfp].file = "modules"
    /\ baseaddrfp # None => streams[baseaddrfp] = [file |-> "base_addr", num |-> baseaddrnum]

\* Every port that the configuration file maps to a cable uses the cable.
ConfiguredPortsMapped ==
    \A lines \in SUBSET {n + 1 : n \in Ports} : read_config(lines) = {n - 1 : n \in lines}
==============================================================================
