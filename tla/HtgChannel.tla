------------------------------ MODULE HtgChannel ------------------------------
(* The kernel driver of the HiTech Global Virtex-5 PCIe channel               *)
(* (drivers/linux/platforms/htg-pcie-virtex5/src/pchnl_main.c): probe and      *)
(* remove, and the DMA transfers of its ioctls and of read, which wait for the *)
(* interrupt through one flag shared by every caller.                          *)
EXTENDS Integers

CONSTANTS
    Procs,      \* processes that have the misc device open
    MaxChunks   \* bound on the BUF_SIZE pieces of one read

VARIABLES
    module,     \* "out", "pci" (registered with the PCI core only) or "in"
    granted,    \* what the kernel has granted for the device
    bound,      \* probe succeeded and remove has not been called
    refused,    \* a probe failed because pages for a DMA buffer were refused
    \* hardware
    busy,       \* the transfer the board works on: its caller, or "none"
    irq,        \* the interrupt line is raised
    filled,     \* the transfer in progress, or the last one, has filled the f2h buffer
    \* driver
    flag,
    call,       \* the call in progress of each process
    orderly     \* transfers were started by ioctls, one at a time, and waited for

vars == <<module, granted, bound, refused, busy, irq, filled, flag, call, orderly>>

Idle == [op |-> "idle", left |-> 0, got |-> "nothing"]
Ops  == {"PCHNL_DMA_H2F", "PCHNL_DMA_F2H", "PCHNL_DMA_DUPLEX"}
AllGranted == {"device", "regions", "memory", "bar0", "irq", "h2f", "f2h"}

TypeOK ==
    /\ module \in {"out", "pci", "in"}
    /\ granted \subseteq AllGranted /\ bound \in BOOLEAN /\ refused \in BOOLEAN
    /\ busy \in Procs \cup {"none"} /\ irq \in BOOLEAN /\ filled \in BOOLEAN
    /\ flag \in {0, 1} /\ orderly \in BOOLEAN
    /\ call \in [Procs -> [op : Ops \cup {"idle", "read"}, left : 0 .. MaxChunks,
                           got : {"nothing", "own", "stale"}]]

Init ==
    /\ module = "out"
    /\ granted = {} /\ bound = FALSE /\ refused = FALSE
    /\ busy = "none" /\ irq = FALSE /\ filled = FALSE
    /\ flag = 0 /\ call = [p \in Procs |-> Idle] /\ orderly = TRUE

-----------------------------------------------------------------------------
\* What a probe that fails leaves behind: everything is given back if it fails
\* before the interrupt is requested, except that the device stays enabled; the
\* label it jumps to later knows of neither the interrupt nor the pages.
ProbeLeaves(step) ==
    CASE step = "device" -> {}
      [] step \in {"regions", "memory", "bar0", "irq"} -> {"device"}
      [] step = "h2f" -> {"device", "irq"}
      [] step = "f2h" -> {"device", "irq", "h2f"}

pchnl_probe ==
    /\ module # "out" /\ ~bound
    /\ \/ granted' = AllGranted /\ bound' = TRUE /\ UNCHANGED refused
       \/ \E step \in AllGranted :
             /\ granted' = granted \cup ProbeLeaves(step)
             /\ refused' = (refused \/ step \in {"h2f", "f2h"})
             /\ UNCHANGED bound
    /\ UNCHANGED <<module, busy, irq, filled, flag, call, orderly>>

\* Defective variant: the interrupt handler stays installed.
pchnl_remove_KeepsIrq ==
    /\ bound' = FALSE
    /\ granted' = IF bound THEN granted \cap {"device", "irq"} ELSE granted

\* What remove leaves; the device is not disabled.
pchnl_remove ==
    /\ bound' = FALSE
    /\ granted' = IF bound THEN granted \cap {"device"} ELSE granted

\* The device is unplugged, once no call is in progress.
Unplug ==
    /\ bound /\ \A p \in Procs : call[p].op = "idle"
    /\ pchnl_remove
    /\ UNCHANGED <<module, refused, busy, irq, filled, flag, call, orderly>>

\* The driver is registered with the PCI core, which probes, and then as a misc
\* device; if that is refused the PCI core removes what it has probed.
pchnl_init_module ==
    /\ \/ module = "out" /\ module' = "pci" /\ UNCHANGED <<granted, bound>>
       \/ module = "pci" /\ module' = "in" /\ UNCHANGED <<granted, bound>>
       \/ module = "pci" /\ module' = "out" /\ pchnl_remove
    /\ UNCHANGED <<refused, busy, irq, filled, flag, call, orderly>>

\* The kernel unloads the module when no process has its file open.
pchnl_exit_module ==
    /\ module = "in" /\ \A p \in Procs : call[p].op = "idle"
    /\ module' = "out"
    /\ pchnl_remove
    /\ UNCHANGED <<refused, busy, irq, filled, flag, call, orderly>>

-----------------------------------------------------------------------------
\* No call asks whether a device is bound.  Without one the global pointer is NULL or
\* freed and the registers are not mapped: whichever ioctl or read it is, its access
\* faults, which ends the process before the board or the flag changes.
CallUnbound(p) ==
    /\ module = "in" /\ ~bound /\ call[p].op = "idle"
    /\ call' = [call EXCEPT ![p] = Idle]
    /\ UNCHANGED <<module, granted, bound, refused, busy, irq, filled, flag, orderly>>

\* A transfer is programmed and started; starting one under another is not orderly.
Start(p) ==
    /\ busy' = p /\ filled' = FALSE
    /\ orderly' = (orderly /\ busy = "none" /\ ~irq
                   /\ \A q \in Procs \ {p} : call[q].op = "idle")

\* PCHNL_DMA_H2F, PCHNL_DMA_F2H and PCHNL_DMA_DUPLEX of a device up to their wait.
DmaIoctl(p) ==
    /\ module = "in" /\ bound /\ call[p].op = "idle"
    /\ \E o \in Ops : call' = [call EXCEPT ![p] = [op |-> o, left |-> 0, got |-> "nothing"]]
    /\ Start(p)
    /\ UNCHANGED <<module, granted, bound, refused, irq, flag>>

\* What a caller finds in the f2h buffer after its wait.
Found(p) == IF busy # p /\ filled THEN "own" ELSE "stale"

\* Defective variant: the flag is left set, as pchnl_read leaves it.
DmaIoctlReturnsFlagSet(p) ==
    /\ call[p].op \in Ops /\ flag # 0
    /\ call' = [call EXCEPT ![p] = [Idle EXCEPT !.got =
                   IF call[p].op = "PCHNL_DMA_F2H" THEN Found(p) ELSE "nothing"]]
    /\ UNCHANGED <<module, granted, bound, refused, busy, irq, filled, flag, orderly>>

\* The wait ends and the flag is cleared for the next transfer; PCHNL_DMA_F2H
\* copies the buffer to the user.
DmaIoctlReturns(p) ==
    /\ call[p].op \in Ops /\ flag # 0
    /\ flag' = 0
    /\ call' = [call EXCEPT ![p] = [Idle EXCEPT !.got =
                   IF call[p].op = "PCHNL_DMA_F2H" THEN Found(p) ELSE "nothing"]]
    /\ UNCHANGED <<module, granted, bound, refused, busy, irq, filled, orderly>>

\* A signal ends the wait, and nothing looks at its result.
DmaIoctlInterrupted(p) ==
    /\ call[p].op \in Ops /\ flag = 0
    /\ call' = [call EXCEPT ![p] = [Idle EXCEPT !.got =
                   IF call[p].op = "PCHNL_DMA_F2H" THEN Found(p) ELSE "nothing"]]
    /\ orderly' = FALSE
    /\ UNCHANGED <<module, granted, bound, refused, busy, irq, filled, flag>>

\* With a device, pchnl_read starts one transfer per piece of the buffer; it never
\* clears the flag.
pchnl_read(p) ==
    /\ module = "in" /\ bound /\ call[p].op = "idle"
    /\ \E n \in 1 .. MaxChunks :
          call' = [call EXCEPT ![p] = [op |-> "read", left |-> n, got |-> "nothing"]]
    /\ busy' = p /\ filled' = FALSE /\ orderly' = FALSE
    /\ UNCHANGED <<module, granted, bound, refused, irq, flag>>
\* The wait ends by the flag or by a signal; the call ends with its last piece, or
\* when a piece cannot be copied to the user.
ReadChunk(p) ==
    /\ call[p].op = "read"
    /\ \E ends \in {TRUE} \cup {call[p].left = 1} :
          /\ call' = [call EXCEPT ![p] =
                 IF ends THEN [Idle EXCEPT !.got = Found(p)]
                 ELSE [op |-> "read", left |-> @.left - 1, got |-> Found(p)]]
          /\ IF ends THEN UNCHANGED <<busy, filled>> ELSE busy' = p /\ filled' = FALSE
    /\ UNCHANGED <<module, granted, bound, refused, irq, flag, orderly>>

\* PCHNL_INTR_TESTER makes a board raise an interrupt that ends no transfer.
IntrTester ==
    /\ module = "in" /\ bound /\ irq' = TRUE /\ orderly' = FALSE
    /\ UNCHANGED <<module, granted, bound, refused, busy, filled, flag, call>>
Reset ==
    /\ module = "in" /\ bound /\ busy' = "none" /\ orderly' = FALSE
    /\ UNCHANGED <<module, granted, bound, refused, irq, filled, flag, call>>

\* The board ends the transfer it works on.
BoardFinishes ==
    /\ busy # "none"
    /\ busy' = "none" /\ filled' = TRUE /\ irq' = TRUE
    /\ UNCHANGED <<module, granted, bound, refused, flag, call, orderly>>

\* The interrupt is acknowledged; a flag that is already set is cleared.
pchnl_intr ==
    /\ irq /\ "irq" \in granted
    /\ irq' = FALSE
    /\ flag' = 1 - flag
    /\ UNCHANGED <<module, granted, bound, refused, busy, filled, call, orderly>>

Next ==
    \/ pchnl_init_module \/ pchnl_exit_module \/ pchnl_probe \/ Unplug
    \/ IntrTester \/ Reset \/ BoardFinishes \/ pchnl_intr
    \/ \E p \in Procs : \/ CallUnbound(p) \/ DmaIoctl(p) \/ DmaIoctlReturns(p) \/ DmaIoctlInterrupted(p)
                        \/ pchnl_read(p) \/ ReadChunk(p)

Spec == Init /\ [][Next]_vars

-----------------------------------------------------------------------------
\* While transfers are started by ioctls one at a time and none is interrupted,
\* the data copied to the user is what its own transfer brought, never the
\* buffer before the board has filled it.
TransfersAwaited == \A p \in Procs : orderly => call[p].got # "stale"

\* A device the driver is not bound to keeps nothing but its enabling, unless
\* pages for a DMA buffer were refused during a probe.
UnboundKeepsNothing == ~bound /\ ~refused => granted \subseteq {"device"}
===============================================================================
