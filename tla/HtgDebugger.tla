------------------------------ MODULE HtgDebugger ------------------------------
(* The debugger of the HTG board (debuggers/htg-virtex5: htg-debugger.cpp and     *)
(* htg-debugger.bsv) over the PCIe CSR device (pcie-csr:                          *)
(* pci-express-c-import-mmap.cpp).  The host writes an instruction with a number   *)
(* into one register; the FPGA looks at the register in every cycle and executes  *)
(* what carries another number than the last instruction it executed.             *)
EXTENDS Naturals

CONSTANTS
    IIDs,           \* instruction numbers, 256 in the code
    CountMod,       \* 2^8: words that a sequence of writes counts modulo this
    Counts,         \* immediates of such sequences
    DramSteps,      \* steps of a DRAM instruction
    MaxInst, MaxReset

VARIABLES
    dev,            \* the device: "none", "open", "bad" (mmap failed), "closed"
    monitor,        \* "start", "prompt", "running" (the monitor has returned), "exited"
    iid, serial,    \* the number and the serial number of the last instruction
    systemCSR,      \* what the register holds: number, opcode, immediate, serial number
    appState, debuggerState, lastIID, count,
    runs,           \* how often each instruction was executed
    issuedSince,    \* instructions that were written since the last one that was executed
    resets, wrote   \* resets of the FPGA; words written by the sequence

debugVars == <<dev, monitor, iid, serial, systemCSR, appState, debuggerState, lastIID, count, runs,
               issuedSince, resets, wrote>>
fpgaState == <<appState, debuggerState, lastIID, count, runs, wrote>>

Idle == [iid |-> 0, op |-> "none", imm |-> 0, no |-> 0]

Init ==
    /\ dev = "none" /\ monitor = "start" /\ iid = 0 /\ serial = 0 /\ systemCSR = Idle
    /\ appState = "stopped" /\ debuggerState = "ready" /\ lastIID = 0 /\ count = 0
    /\ runs = [s \in 0 .. MaxInst |-> 0] /\ issuedSince = 0 /\ resets = 0 /\ wrote = 0

-----------------------------------------------------------------------------
(* The device *)

\* A reset clears the FPGA; whether the register keeps its value is up to the bridge.
FpgaReset ==
    /\ appState' = "stopped" /\ debuggerState' = "ready" /\ lastIID' = 0 /\ count' = 0
    /\ systemCSR' \in {systemCSR, Idle}
    /\ wrote' = 0 /\ UNCHANGED runs

\* Init opens the driver and maps the registers once.  mmap's failure is not noticed:
\* a pointer is never less than 0.
DeviceInit ==
    /\ monitor = "start" /\ dev = "none"
    /\ \/ dev' \in {"open", "bad"} /\ UNCHANGED monitor
       \/ monitor' = "exited" /\ UNCHANGED dev
    /\ FpgaReset
    /\ UNCHANGED <<iid, serial, issuedSince, resets>>
\* Cleanup unmaps address 0, which is not where the registers are, and closes the driver.
Cleanup ==
    /\ dev = "open" /\ monitor = "running"
    /\ dev' = "closed" /\ monitor' = "exited"
    /\ UNCHANGED <<iid, serial, systemCSR, issuedSince, resets, fpgaState>>

-----------------------------------------------------------------------------
(* Monitor *)

Construct ==
    /\ monitor = "start" /\ dev \in {"open", "bad"}
    /\ monitor' = "prompt"
    /\ UNCHANGED <<dev, iid, serial, systemCSR, issuedSince, resets, fpgaState>>

\* Defective variant: the numbers start again one too early.
GenIID_Short == IF iid = IIDs - 2 THEN IIDs - 2 ELSE iid + 1

GenIID == IF iid = IIDs - 1 THEN 0 ELSE iid + 1

Issue(op, imm) ==
    /\ dev = "open" /\ serial < MaxInst
    /\ systemCSR' = [iid |-> GenIID, op |-> op, imm |-> imm, no |-> serial + 1]
    /\ iid' = GenIID /\ serial' = serial + 1 /\ issuedSince' = issuedSince + 1
    /\ UNCHANGED <<dev, resets, fpgaState>>

\* "exec" and "write sys": any instruction, while the device is mapped.
WriteSystemCSR(op, imm) == monitor = "prompt" /\ Issue(op, imm) /\ UNCHANGED monitor

\* "run" is an instruction too, after which the monitor returns.
RunCommand == monitor = "prompt" /\ Issue("run", 0) /\ monitor' = "running"

\* "reset": ResetFPGA.
ResetCommand ==
    /\ monitor = "prompt" /\ resets < MaxReset
    /\ FpgaReset
    /\ resets' = resets + 1
    /\ UNCHANGED <<dev, monitor, iid, serial, issuedSince>>

\* "quit"; or a register that is not mapped is used.
Quit ==
    /\ monitor = "prompt"
    /\ monitor' = "exited"
    /\ UNCHANGED <<dev, iid, serial, systemCSR, issuedSince, resets, fpgaState>>

\* The application that runs afterwards uses the register for other things (external).
ApplicationWrites ==
    /\ monitor = "running" /\ dev = "open" /\ systemCSR.op = "run" /\ runs[systemCSR.no] > 0
    /\ systemCSR' = [systemCSR EXCEPT !.op = "none"]
    /\ UNCHANGED <<dev, monitor, iid, serial, issuedSince, resets, fpgaState>>

-----------------------------------------------------------------------------
(* The FPGA *)

debug_inst == systemCSR.op # "none"

\* Defective variant: the number is not remembered.
RememberedNot(n) == lastIID' = lastIID
Remembered(n) == lastIID' = n

\* process_inst: an instruction with another number than the last.
process_inst ==
    /\ debuggerState = "ready" /\ debug_inst /\ systemCSR.iid # lastIID
    /\ Remembered(systemCSR.iid)
    /\ runs' = [runs EXCEPT ![systemCSR.no] = IF @ < 2 THEN @ + 1 ELSE @]
    /\ issuedSince' = 0
    /\ debuggerState' = CASE systemCSR.op = "read" -> "readingCSR"
                          [] systemCSR.op = "seq" -> "seqWrite"
                          [] systemCSR.op = "dram" -> "dram"
                          [] OTHER -> "ready"
    /\ count' = CASE systemCSR.op = "seq" -> systemCSR.imm
                  [] systemCSR.op = "dram" -> DramSteps
                  [] OTHER -> count
    /\ wrote' = IF systemCSR.op = "seq" THEN 0 ELSE wrote
    /\ appState' = CASE systemCSR.op = "run" -> "running"
                     [] systemCSR.op = "stop" -> "stopped"
                     [] OTHER -> appState
    /\ UNCHANGED <<dev, monitor, iid, serial, systemCSR, resets>>

\* The response of a read, and the steps of DRAM instructions.
read_csr_resp ==
    /\ debuggerState = "readingCSR"
    /\ debuggerState' = "ready"
    /\ UNCHANGED <<dev, monitor, iid, serial, systemCSR, issuedSince, resets, appState, lastIID, count,
                   runs, wrote>>
dram_step ==
    /\ debuggerState = "dram"
    /\ count' = count - 1
    /\ debuggerState' = IF count = 1 THEN "ready" ELSE "dram"
    /\ UNCHANGED <<dev, monitor, iid, serial, systemCSR, issuedSince, resets, appState, lastIID, runs,
                   wrote>>

\* Defective variant: the count is tested after it was decremented.
LastWord_Late == count = 0
LastWord == count = 1

\* write_seq_csr: the count is decremented modulo its width, the end is a count of one.
write_seq_csr ==
    /\ debuggerState = "seqWrite"
    /\ count' = (count + CountMod - 1) % CountMod
    /\ wrote' = (wrote + 1) % (CountMod + 2)
    /\ debuggerState' = IF LastWord THEN "ready" ELSE "seqWrite"
    /\ UNCHANGED <<dev, monitor, iid, serial, systemCSR, issuedSince, resets, appState, lastIID, runs>>

\* The application reads a CSR only when it runs and the debugger has nothing to do.
appReadRequest ==
    /\ appState = "running" /\ debuggerState = "ready" /\ ~debug_inst
    /\ debuggerState' = "appReadingCSR"
    /\ UNCHANGED <<dev, monitor, iid, serial, systemCSR, issuedSince, resets, appState, lastIID, count,
                   runs, wrote>>
appReadResponse ==
    /\ debuggerState = "appReadingCSR"
    /\ debuggerState' = "ready"
    /\ UNCHANGED <<dev, monitor, iid, serial, systemCSR, issuedSince, resets, appState, lastIID, count,
                   runs, wrote>>

Next ==
    \/ DeviceInit \/ Cleanup \/ Construct \/ RunCommand \/ ResetCommand \/ Quit
    \/ ApplicationWrites
    \/ \E op \in {"none", "plain", "read", "dram", "stop"} : WriteSystemCSR(op, 0)
    \/ \E n \in Counts : WriteSystemCSR("seq", n)
    \/ process_inst \/ read_csr_resp \/ dram_step \/ write_seq_csr
    \/ appReadRequest \/ appReadResponse

Spec == Init /\ [][Next]_debugVars

-----------------------------------------------------------------------------
\* An instruction is executed once at most, and it is ignored only when the numbers have
\* gone round since the last one that was executed; a reset makes the FPGA forget that.
InstructionsOnce ==
    resets = 0 =>
        /\ \A s \in DOMAIN runs : runs[s] <= 1
        /\ debuggerState = "ready" /\ debug_inst /\ systemCSR.iid = lastIID
           /\ runs[systemCSR.no] = 0 => issuedSince >= IIDs

\* A sequence writes as many words as it was told, and all of them for zero.
SequencesExact ==
    debuggerState # "seqWrite" /\ wrote # 0 =>
        \E n \in Counts : wrote = (IF n = 0 THEN CountMod ELSE n)
==============================================================================
