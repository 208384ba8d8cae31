------------------------------ MODULE BlueNocHost ------------------------------
(* The programs that use the BlueNoC driver: the host's PCIe device               *)
(* (pcie-bluenoc.cpp), its link tests (pcie-bluenoc-tests.cpp, against the         *)
(* flooder of pcie-bluenoc-tests.bsv), and the tool that activates and             *)
(* deactivates a board (bluenoc-ioctl.c).                                          *)
EXTENDS Integers

CONSTANTS
    Chunk,          \* bytes that are written at a time, 65536 in the code
    TestBytes,      \* bytes that the tests write
    ReqBeats,       \* beats that the flooder is asked for
    MsgBeats,       \* beats of a message: 256 / bytes per beat
    MaxCalls        \* bound on reads, writes and runs of the tool

VARIABLES
    is_active,      \* the board, as the driver tells
    host,           \* "new", "deactivated", "reactivated", "reset", "up", "test", "exited"
    initialized, logicalName, used, pcieDev, fds,   \* of the device; open files of the program
    cleanups, calls,
    tool,           \* "none", "deactivate", "activate": before the assertion; "failed"
    test,           \* the test: "none", "sink", "write", "flood", "read", "done"
    count, written, \* bytes left in doWrite, bytes that the board has taken
    beatsToSend, pos,   \* the flooder
    expected, expectPos, errors    \* checkReadValues

deviceVars == <<is_active, host, initialized, logicalName, used, pcieDev, fds, cleanups>>
testVars == <<test, count, written, beatsToSend, pos, expected, expectPos, errors>>
blueVars == <<deviceVars, calls, tool, testVars>>

Init ==
    /\ is_active \in BOOLEAN /\ host = "new" /\ initialized = FALSE /\ logicalName = FALSE
    /\ used \in BOOLEAN /\ pcieDev = 0 - 1 /\ fds = {0} /\ cleanups = 0 /\ calls = 0 /\ tool = "none"
    /\ test = "none" /\ count = 0 /\ written = 0 /\ beatsToSend = 0 /\ pos = 0
    /\ expected = 0 /\ expectPos = 0 /\ errors = 0

-----------------------------------------------------------------------------
(* The device *)

RegisterLogicalDeviceName ==
    /\ host = "new" /\ logicalName' = TRUE
    /\ UNCHANGED <<is_active, host, initialized, used, pcieDev, fds, cleanups, calls, tool, testVars>>

\* Init: a device without a name, or with the default path, is not used.  The board is
\* deactivated, reactivated and reset, which are three ioctls.
InitOpen ==
    /\ host = "new" /\ cleanups = 0 /\ logicalName /\ used
    /\ \/ /\ pcieDev' = 3 /\ fds' = fds \cup {3}
          /\ \/ is_active' = FALSE /\ host' = "deactivated"
             \/ host' = "reset" /\ UNCHANGED is_active     \* without DO_SOFT_RESET
       \/ host' = "exited" /\ UNCHANGED <<pcieDev, fds, is_active>>
    /\ UNCHANGED <<initialized, logicalName, used, cleanups, calls, tool, testVars>>
InitReactivate ==
    /\ host = "deactivated" /\ host' = "reactivated"
    /\ is_active' \in BOOLEAN
    /\ UNCHANGED <<initialized, logicalName, used, pcieDev, fds, cleanups, calls, tool, testVars>>
\* The reset of a board that is not active does nothing and succeeds.
InitReset ==
    /\ host = "reactivated"
    /\ host' = "reset"
    /\ UNCHANGED <<is_active, initialized, logicalName, used, pcieDev, fds, cleanups, calls, tool,
                   testVars>>

\* The board is asked whether it is active, the link tested or the device used.
InitIdentify ==
    /\ host = "reset"
    /\ IF is_active
       THEN \/ host' = "up" /\ initialized' = TRUE /\ UNCHANGED test
            \/ host' = "test" /\ test' = "sink" /\ UNCHANGED initialized
       ELSE host' = "exited" /\ UNCHANGED <<initialized, test>>
    /\ UNCHANGED <<is_active, logicalName, used, pcieDev, fds, cleanups, calls, tool, count, written,
                   beatsToSend, pos, expected, expectPos, errors>>

\* Defective variant: the descriptor is forgotten and stays open.
Closed_Not == fds
\* Uninit and the destructor both clean up: the descriptor becomes 0, which the second
\* one closes.
Closed == fds \ {pcieDev}
Cleanup ==
    /\ host \in {"up", "new"} /\ cleanups < 2
    /\ cleanups' = cleanups + 1
    /\ initialized' = FALSE
    /\ fds' = IF pcieDev >= 0 THEN Closed ELSE fds
    /\ pcieDev' = IF pcieDev >= 0 THEN 0 ELSE pcieDev
    /\ UNCHANGED <<is_active, host, logicalName, used, calls, tool, testVars>>

\* Read and Write: a read that brings nothing or a write that is not complete ends the
\* program, unless it has cleaned up; after that the descriptor 0 is used.  On a board
\* that is not active every transfer fails, on an active one any may.
ReadOrWrite ==
    /\ host = "up" /\ calls < MaxCalls
    /\ calls' = calls + 1
    /\ \/ (initialized => is_active) /\ UNCHANGED host
       \/ initialized /\ host' = "exited"
    /\ UNCHANGED <<is_active, initialized, logicalName, used, pcieDev, fds, cleanups, tool, testVars>>

-----------------------------------------------------------------------------
(* bluenoc-ioctl, which may run at any time *)

ToolIoctl(cmd) ==
    /\ tool = "none" /\ calls < MaxCalls
    /\ calls' = calls + 1
    /\ tool' = cmd
    /\ is_active' \in (IF cmd = "activate" THEN BOOLEAN ELSE {FALSE})
    /\ UNCHANGED <<host, initialized, logicalName, used, pcieDev, fds, cleanups, testVars>>
ToolIdentify ==
    /\ tool \in {"activate", "deactivate"}
    /\ tool' = IF is_active = (tool = "activate") THEN "none" ELSE "failed"
    /\ UNCHANGED <<deviceVars, calls, testVars>>

-----------------------------------------------------------------------------
(* The link tests *)

Sink ==
    /\ test = "sink" /\ test' = "write" /\ count' = TestBytes
    /\ UNCHANGED <<deviceVars, calls, tool, written, beatsToSend, pos, expected, expectPos, errors>>

\* Defective variant: the last chunk is as long as the others.
ChunkOf_Full(n) == Chunk
ChunkOf(n) == IF n > Chunk THEN Chunk ELSE n

\* doWrite: chunk after chunk; one that is not written whole ends the program.
doWrite ==
    /\ test = "write"
    /\ \/ /\ is_active
          /\ written' = written + ChunkOf(count) /\ count' = count - ChunkOf(count)
          /\ test' = IF count' = 0 THEN "flood" ELSE "write"
          /\ UNCHANGED host
       \/ host' = "exited" /\ test' = "none" /\ UNCHANGED <<written, count>>
    /\ UNCHANGED <<is_active, initialized, logicalName, used, pcieDev, fds, cleanups, calls, tool,
                   beatsToSend, pos, expected, expectPos, errors>>

RequestFlood ==
    /\ test = "flood" /\ test' = "read"
    /\ beatsToSend' = ReqBeats /\ pos' = 0
    /\ expected' = ReqBeats /\ expectPos' = 0
    /\ UNCHANGED <<deviceVars, calls, tool, count, written, errors>>

\* Defective variant: the header of a message is not counted as a beat.
AfterHeader_NotCounted(n, p) == IF p = 0 THEN n ELSE n - 1
AfterHeader(n, p) == n - 1

\* A beat of the flooder (sendOutbound) is compared with what checkReadValues expects:
\* a header or the number of beats that are left.
checkReadValues ==
    /\ test = "read" /\ is_active
    /\ LET sent == IF pos = 0 THEN "header" ELSE "data"
           expect == IF expectPos = 0 THEN "header" ELSE "data"
       IN  errors' = IF sent = expect /\ (sent = "header" \/ beatsToSend = expected)
                     THEN errors ELSE 1
    /\ beatsToSend' = beatsToSend - 1
    /\ pos' = IF pos = MsgBeats - 1 THEN 0 ELSE pos + 1
    /\ expected' = AfterHeader(expected, expectPos)
    /\ expectPos' = (expectPos + 1) % MsgBeats
    /\ IF beatsToSend' = 0 THEN test' = "done" /\ host' = "exited"
       ELSE UNCHANGED <<test, host>>
    /\ UNCHANGED <<is_active, initialized, logicalName, used, pcieDev, fds, cleanups, calls, tool,
                   count, written>>

Next ==
    \/ RegisterLogicalDeviceName \/ InitOpen \/ InitReactivate \/ InitReset \/ InitIdentify
    \/ Cleanup \/ ReadOrWrite
    \/ \E c \in {"activate", "deactivate"} : ToolIoctl(c)
    \/ ToolIdentify
    \/ Sink \/ doWrite \/ RequestFlood \/ checkReadValues

Spec == Init /\ [][Next]_blueVars

-----------------------------------------------------------------------------
\* The device that is in use is open, and the program's other files stay open unless it
\* cleans up twice.
DeviceUsable ==
    /\ initialized => pcieDev = 3 /\ 3 \in fds
    /\ cleanups > 0 => 3 \notin fds
    /\ 0 \notin fds => cleanups = 2

\* The tests write every byte once, and find no error in what the flooder sends.
TestsExact ==
    /\ count >= 0 /\ (test \notin {"none", "sink"} => written + count = TestBytes)
    /\ errors = 0
==============================================================================
