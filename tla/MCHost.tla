-------------------------------- MODULE MCHost --------------------------------
(* Instances of the host's side: the links between the host and the design that *)
(* physical devices and simulations offer, the UMF messages that travel through *)
(* them, and the configuration file of leap-fpga-ctrl.  A behaviour exercises   *)
(* one of them.                                                                 *)
EXTENDS UmfMessage

VARIABLES
    part,       \* the part that the behaviour exercises
    toExists, fromExists, toPipe, fromPipe, host, retries, reader, writer, pending,
    sent, hostGot, sim, h2f, f2h, ib, seenWriter, readBuffer, writeBuffer, simGot, written,
    file, lineno, section, last, errs, status, edited, d,
    pc, retry, killThreads, threads, blank, buf, sock, gone, stale, jtag_to_blank,
    told, jtagGot, asked, jtagWire,
    server, chan, byte, wCount, tries, dataPopped, poppedData, bar2_wpkt_count, respQ, reqQ,
    given, taken, sentUp, received,
    dev, monitor, iid, serial, systemCSR, appState, debuggerState, lastIID, seqCount, runs,
    issuedSince, resets, wrote,
    is_active, pcieHost, initialized, logicalName, used, pcieDev, fds, cleanups, calls, tool,
    test, count, testWritten, beatsToSend, pos, expected, expectPos, errors

CONSTANTS
    PipeChunk, HostWrites, MaxHost, MaxSim, PipeSize, Retries,          \* of UnixPipe
    Files, Names, DICTMINSZ, MaxEntries, NULL,                          \* of IniDictionary
    Blank, XilinxChars, XilinxBytes, AlteraChars, AlteraBytes, MaxRetry,    \* of JtagDevice
    Empty, Depth, PioMod, MaxSent, MaxTries,                            \* of PioLink
    IIDs, CsrMod, Counts, DramSteps, MaxInst, MaxReset,                 \* of HtgDebugger
    NocChunk, TestBytes, ReqBeats, MsgBeats, MaxCalls                   \* of BlueNocHost

ASSUME HostAssumption ==
    /\ PipeChunk \in Nat \ {0} /\ HostWrites \subseteq Nat /\ PipeSize \in Nat
    /\ Blank \notin XilinxChars \cup AlteraChars
    /\ XilinxBytes \in Nat /\ AlteraBytes \in Nat
    /\ Empty \notin Nat \ {0} /\ Depth \in Nat /\ PioMod \in Nat /\ PioMod > 1
    /\ IIDs \in Nat \ {0} /\ CsrMod \in Nat /\ CsrMod > 1 /\ Counts \subseteq 0 .. CsrMod - 1
    /\ DramSteps \in Nat /\ MaxInst \in Nat
    /\ NocChunk \in Nat /\ TestBytes \in Nat /\ ReqBeats \in Nat /\ MsgBeats \in Nat \ {0}

Pipe == INSTANCE UnixPipe WITH ChunkBytes <- PipeChunk

Name(w, u) == [word |-> w, upper |-> u]
MCNames == {Name("a", FALSE), Name("a", TRUE), Name("b", FALSE)}
Line(k, n, t) == [kind |-> k, name |-> n, text |-> t]
Junk(k) == Line(k, Name("a", FALSE), <<>>)
MCLines == {Line("section", Name("a", TRUE), <<>>), Line("section", Name("b", FALSE), <<>>),
            Line("value", Name("a", FALSE), <<1>>), Line("value", Name("a", TRUE), <<2>>),
            Line("value", Name("b", FALSE), <<1>>), Line("continued", Name("b", FALSE), <<3>>),
            Junk("empty"), Junk("error")}
LongFile == <<Line("section", Name("b", FALSE), <<>>), Line("value", Name("a", FALSE), <<1>>),
              Line("section", Name("a", TRUE), <<>>), Line("value", Name("b", FALSE), <<1>>),
              Line("value", Name("a", TRUE), <<2>>), Line("section", Name("b", FALSE), <<>>)>>
MCFiles == {f \in UNION {[1 .. n -> MCLines] : n \in 0 .. 3}
                     \cup {LongFile, <<Junk("comment"), Junk("too long")>>} :
               \A i \in 1 .. Len(f) - 1 : f[i].kind = "continued" => f[i + 1].kind # "continued"}

Ini == INSTANCE IniDictionary

\* At most one line of a file continues another one.
Kinds == {"section", "value", "continued", "empty", "comment", "error", "too long"}
Lines == [kind : Kinds, name : Names, text : Seq(Nat)]
ASSUME IniAssumption ==
    /\ DICTMINSZ \in Nat \ {0} /\ NULL \notin Ini!Keys /\ NULL \notin Lines
    /\ Files \subseteq Seq(Lines)
    /\ \A f \in Files : \A i \in 1 .. Len(f) - 1 :
          f[i].kind = "continued" => f[i + 1].kind # "continued"

Xilinx == INSTANCE JtagDevice WITH
              Vendor <- "xilinx", Chars <- XilinxChars, MaxBytes <- XilinxBytes,
              got <- jtagGot, wire <- jtagWire
Altera == INSTANCE JtagDevice WITH
              Vendor <- "altera", Chars <- AlteraChars, MaxBytes <- AlteraBytes,
              got <- jtagGot, wire <- jtagWire
Pio == INSTANCE PioLink WITH CountMod <- PioMod
Htg == INSTANCE HtgDebugger WITH CountMod <- CsrMod, count <- seqCount
Noc == INSTANCE BlueNocHost WITH Chunk <- NocChunk, host <- pcieHost, written <- testWritten

pipePart == <<toExists, fromExists, toPipe, fromPipe, host, retries, reader, writer, pending,
              sent, hostGot, sim, h2f, f2h, ib, seenWriter, readBuffer, writeBuffer, simGot,
              written>>
iniPart == <<file, lineno, section, last, errs, status, edited, d>>
jtagPart == <<pc, retry, killThreads, threads, blank, buf, sock, gone, stale, jtag_to_blank,
              told, jtagGot, asked, jtagWire>>
pioPart == <<server, chan, byte, wCount, tries, dataPopped, poppedData, bar2_wpkt_count,
             respQ, reqQ, given, taken, sentUp, received>>
htgPart == <<dev, monitor, iid, serial, systemCSR, appState, debuggerState, lastIID, seqCount,
             runs, issuedSince, resets, wrote>>
nocPart == <<is_active, pcieHost, initialized, logicalName, used, pcieDev, fds, cleanups, calls,
             tool, test, count, testWritten, beatsToSend, pos, expected, expectPos, errors>>
mcVars == <<part, umfVars, pipePart, iniPart, jtagPart, pioPart, htgPart, nocPart>>

HostInit ==
    /\ part \in {"umf", "pipe", "ini", "xilinx", "altera", "pio", "htg", "bluenoc"}
    /\ Init /\ (part # "umf" => class = "base")
    /\ Pipe!Init /\ (part # "pipe" => ~toExists /\ ~fromExists)
    /\ Ini!Init /\ (part # "ini" => file = <<>>)
    /\ Xilinx!Init /\ Pio!Init /\ Htg!Init
    /\ Noc!Init /\ (part # "bluenoc" => ~is_active /\ ~used)

HostNext ==
    \/ /\ part = "umf" /\ Next
       /\ UNCHANGED <<part, pipePart, iniPart, jtagPart, pioPart, htgPart, nocPart>>
    \/ /\ part = "pipe" /\ Pipe!Next
       /\ UNCHANGED <<part, umfVars, iniPart, jtagPart, pioPart, htgPart, nocPart>>
    \/ /\ part = "ini" /\ Ini!Next
       /\ UNCHANGED <<part, umfVars, pipePart, jtagPart, pioPart, htgPart, nocPart>>
    \/ /\ \/ part = "xilinx" /\ Xilinx!Next
          \/ part = "altera" /\ Altera!Next
       /\ UNCHANGED <<part, umfVars, pipePart, iniPart, pioPart, htgPart, nocPart>>
    \/ /\ part = "pio" /\ Pio!Next
       /\ UNCHANGED <<part, umfVars, pipePart, iniPart, jtagPart, htgPart, nocPart>>
    \/ /\ part = "htg" /\ Htg!Next
       /\ UNCHANGED <<part, umfVars, pipePart, iniPart, jtagPart, pioPart, nocPart>>
    \/ /\ part = "bluenoc" /\ Noc!Next
       /\ UNCHANGED <<part, umfVars, pipePart, iniPart, jtagPart, pioPart, htgPart>>

\* The fairness of UnixPipe, in the behaviours that exercise it.
HostFairness ==
    /\ WF_pipePart(part = "pipe" /\ Pipe!openReadThread)
    /\ WF_pipePart(part = "pipe" /\ Pipe!openWriteThread)
    /\ WF_pipePart(part = "pipe" /\ Pipe!SomeBytes)
    /\ WF_pipePart(part = "pipe" /\ Pipe!pipe_init)
    /\ WF_pipePart(part = "pipe" /\ Pipe!pipe_open)
    /\ WF_pipePart(part = "pipe" /\ Pipe!OpenAgain)
    /\ WF_pipePart(part = "pipe" /\ Pipe!pipe_read)
    /\ WF_pipePart(part = "pipe" /\ Pipe!DriverRead)

HostSpec == HostInit /\ [][HostNext]_mcVars /\ HostFairness

\* What one side of a link writes reaches the other complete, once and in order, in
\* both directions: the bytes of the pipes, whatever pieces unix-pipe-device-bdpi.c
\* and unix-pipe-device.cpp read and write; the data of the JTAG terminals, without
\* the blanks, through a socket that is closed when no thread uses it any more; the
\* bytes that server.cpp stores until PioFifo.bsv counts them; the instructions of
\* the HTG debugger and the words of their sequences; and what the BlueNoC tests
\* write and expect of a board that is usable while the device is initialized.
StreamsIntact ==
    /\ Pipe!StreamsIntact
    /\ part = "xilinx" => Xilinx!JtagIntact /\ Xilinx!ThreadsEndFirst
    /\ part = "altera" => Altera!JtagIntact /\ Altera!ThreadsEndFirst
    /\ Pio!PioIntact
    /\ Htg!InstructionsOnce /\ Htg!SequencesExact
    /\ Noc!DeviceUsable /\ Noc!TestsExact

\* The threads that open the host's pipes do not wait for ever, and the simulation
\* ends when the host has gone.
BothSidesEnd == Pipe!HostNotStuck /\ Pipe!SimulatorExits

\* dictionary.c implements a map, through growth of its arrays and reuse of slots.
ImplementsMap == Ini!ImplementsMap

\* iniparser_load stores what the file says and numbers its sections in order, in a
\* dictionary whose count and slots agree.
LoadedAsWritten == Ini!SlotsConsistent /\ Ini!LoadedAsWritten /\ Ini!SectionsInOrder
==============================================================================
