------------------------------- MODULE PioLink --------------------------------
(* The PCIe link of the XUPV5 (pcie-xupv5: server.cpp, pcie-device.cpp, and on    *)
(* the FPGA PioFifo.bsv): single bytes are stored to and loaded from registers.   *)
(* A store that the FPGA has no room for is dropped; the host sees it in a count  *)
(* of the stores that were taken, and repeats it.                                 *)
EXTENDS Naturals, Sequences

CONSTANTS
    Empty,          \* 0xdeaddead, no byte; the bytes are numbered in each direction
    Depth,          \* of the FPGA's queues: 2 in the code
    CountMod,       \* 2^32
    MaxSent,        \* bound on the bytes in each direction
    MaxTries        \* bound on the stores of one byte

PioChannels == {"sys", "disp"}

VARIABLES
    server,         \* "closed", "idle", "count", "store", "recount", "receive", "exited"
    chan, byte,     \* the channel and the byte under way
    wCount, tries,  \* the count before the store
    dataPopped, poppedData,     \* a byte that serverTestSys took
    bar2_wpkt_count, respQ, reqQ,   \* the FPGA's count and queues
    given, taken,   \* bytes given to the host's write functions, taken by the design
    sentUp, received    \* bytes sent by the design, returned by the host's read functions

pioVars == <<server, chan, byte, wCount, tries, dataPopped, poppedData, bar2_wpkt_count,
             respQ, reqQ, given, taken, sentUp, received>>
fpgaVars == <<bar2_wpkt_count, respQ, reqQ, taken, sentUp>>
None == [c \in PioChannels |-> <<>>]

Init ==
    /\ server = "closed" /\ chan = "sys" /\ byte = Empty /\ wCount = 0 /\ tries = 0
    /\ dataPopped = FALSE /\ poppedData = Empty
    /\ bar2_wpkt_count = CountMod - 1 /\ respQ = None /\ reqQ = None
    /\ given = None /\ taken = None /\ sentUp = None /\ received = None

\* The device is opened, checked and mapped; every failure ends the program.
serverStart ==
    /\ server = "closed"
    /\ server' \in {"idle", "exited"}
    /\ dataPopped' = FALSE
    /\ UNCHANGED <<chan, byte, wCount, tries, poppedData, given, received, fpgaVars>>
serverFinish ==
    /\ server = "idle"
    /\ server' = "exited"
    /\ UNCHANGED <<chan, byte, wCount, tries, dataPopped, poppedData, given, received, fpgaVars>>

-----------------------------------------------------------------------------
(* serverSendSys and serverSendDisp, by which Write sends each byte *)

Write(c) == LET b == Len(given[c]) + 1 IN
    /\ server = "idle" /\ Len(given[c]) < MaxSent
    /\ server' = "count" /\ chan' = c /\ byte' = b /\ tries' = 0
    /\ given' = [given EXCEPT ![c] = Append(@, b)]
    /\ UNCHANGED <<wCount, dataPopped, poppedData, received, fpgaVars>>
ReadCount ==
    /\ server = "count"
    /\ wCount' = bar2_wpkt_count /\ server' = "store"
    /\ UNCHANGED <<chan, byte, tries, dataPopped, poppedData, given, received, fpgaVars>>

\* Defective variant: a store that is dropped is counted.
CountedAlways(full) == (bar2_wpkt_count + 1) % CountMod

Counted(full) == IF full THEN bar2_wpkt_count ELSE (bar2_wpkt_count + 1) % CountMod

\* initiate_write of PioFifo.bsv: the byte is taken, or dropped when the queue is full.
Store ==
    /\ server = "store"
    /\ LET full == Len(respQ[chan]) >= Depth IN
          /\ respQ' = IF full THEN respQ ELSE [respQ EXCEPT ![chan] = Append(@, byte)]
          /\ bar2_wpkt_count' = Counted(full)
    /\ server' = "recount"
    /\ UNCHANGED <<chan, byte, wCount, tries, dataPopped, poppedData, given, taken, sentUp,
                   reqQ, received>>
\* Defective variant: the byte is stored again when the count has changed.
AgainWhenTaken(newWCount) == newWCount # wCount
Again(newWCount) == newWCount = wCount
ReadCountAgain ==
    /\ server = "recount"
    /\ IF Again(bar2_wpkt_count) THEN server' = "count" /\ tries < MaxTries /\ tries' = tries + 1
       ELSE server' = "idle" /\ UNCHANGED tries
    /\ UNCHANGED <<chan, byte, wCount, dataPopped, poppedData, given, received, fpgaVars>>

-----------------------------------------------------------------------------
(* serverTestSys, serverRecvSys and serverRecvDisp *)

\* initiate_read of PioFifo.bsv: the head of the queue, or the mark of an empty one.
Load(c) == IF reqQ[c] = <<>> THEN Empty ELSE Head(reqQ[c])
Loaded(c) == reqQ' = IF reqQ[c] = <<>> THEN reqQ ELSE [reqQ EXCEPT ![c] = Tail(@)]

\* Defective variant: the register is read though a byte waits.
MustLoadAlways == TRUE
MustLoad == ~dataPopped

\* Probe: a byte that is found is kept for the next read.
serverTestSys ==
    /\ server = "idle" /\ MustLoad
    /\ poppedData' = Load("sys") /\ dataPopped' = (Load("sys") # Empty)
    /\ Loaded("sys")
    /\ UNCHANGED <<server, chan, byte, wCount, tries, given, received, bar2_wpkt_count, respQ,
                   taken, sentUp>>

\* Read: the byte that was kept, or the next that is there.
serverRecvSys ==
    /\ server \in {"idle", "receive"}
    /\ IF dataPopped
       THEN /\ received' = [received EXCEPT !["sys"] = Append(@, poppedData)]
            /\ server' = "idle" /\ UNCHANGED reqQ
       ELSE /\ Loaded("sys")
            /\ IF Load("sys") = Empty THEN server' = "receive" /\ UNCHANGED received
               ELSE server' = "idle" /\ received' = [received EXCEPT !["sys"] = Append(@, Load("sys"))]
    /\ dataPopped' = FALSE
    /\ UNCHANGED <<chan, byte, wCount, tries, poppedData, given, bar2_wpkt_count, respQ, taken,
                   sentUp>>

\* The byte is stored through a pointer without a value: it may end the program.
serverRecvDisp ==
    /\ server = "idle" /\ reqQ["disp"] # <<>>
    /\ Loaded("disp")
    /\ \/ server' = "idle" /\ received' = [received EXCEPT !["disp"] = Append(@, Load("disp"))]
       \/ server' = "exited" /\ UNCHANGED received
    /\ UNCHANGED <<chan, byte, wCount, tries, dataPopped, poppedData, given, bar2_wpkt_count,
                   respQ, taken, sentUp>>

\* The methods of the device.
DeviceInit == serverStart
Cleanup == serverFinish
Probe == serverTestSys
Read == serverRecvSys

-----------------------------------------------------------------------------
(* The design behind PioFifo.bsv *)

DesignTakes(c) ==
    /\ respQ[c] # <<>>
    /\ taken' = [taken EXCEPT ![c] = Append(@, Head(respQ[c]))]
    /\ respQ' = [respQ EXCEPT ![c] = Tail(@)]
    /\ UNCHANGED <<server, chan, byte, wCount, tries, dataPopped, poppedData, bar2_wpkt_count,
                   reqQ, given, sentUp, received>>
DesignSends(c) == LET b == Len(sentUp[c]) + 1 IN
    /\ Len(reqQ[c]) < Depth /\ Len(sentUp[c]) < MaxSent
    /\ reqQ' = [reqQ EXCEPT ![c] = Append(@, b)]
    /\ sentUp' = [sentUp EXCEPT ![c] = Append(@, b)]
    /\ UNCHANGED <<server, chan, byte, wCount, tries, dataPopped, poppedData, bar2_wpkt_count,
                   respQ, given, taken, received>>

Next ==
    \/ DeviceInit \/ Cleanup \/ ReadCount \/ Store \/ ReadCountAgain
    \/ Probe \/ Read \/ serverRecvDisp
    \/ \E c \in PioChannels : Write(c) \/ DesignTakes(c) \/ DesignSends(c)

Spec == Init /\ [][Next]_pioVars

-----------------------------------------------------------------------------
\* The byte of a write that is under way and was not taken yet.
Unsent(c) ==
    IF chan = c /\ (server \in {"count", "store"} \/ (server = "recount" /\ bar2_wpkt_count = wCount))
    THEN <<byte>> ELSE <<>>

\* Every byte is taken once and in the order of the writes, however often it is stored;
\* every byte of the design is returned once, whether a probe or a read finds it.
PioIntact ==
    \A c \in PioChannels :
        /\ taken[c] \o respQ[c] \o Unsent(c) = given[c]
        /\ c = "sys" \/ server # "exited" =>
              received[c] \o (IF c = "sys" /\ dataPopped THEN <<poppedData>> ELSE <<>>)
              \o reqQ[c] = sentUp[c]
==============================================================================
