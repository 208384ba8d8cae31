------------------------------- MODULE MCDrivers -------------------------------
(* Instances of the kernel drivers: the DMA engine of BlueNoC and its other file  *)
(* operations, and what the drivers of BlueNoC, of the HTG channel and of XUPV5   *)
(* do when boards come and go.  A behaviour exercises one of the five.            *)
EXTENDS BlueNocDma

VARIABLES
    part,       \* what the behaviour exercises
    board_list, level, number, msix, held, nodes, class, op,
    module, granted, bound, refused, busy, htgIrq, filled, flag, htgCall, orderly,
    pdev, last, locked, slot, step, kept, opened, meant, told,
    plugged, active, open_count, ready, raised, ok, handler, intr_wq, user, triggered,
    profile, totals, excused

CONSTANTS
    Devices, NumBoards, Free,
    MaxChunks,  \* of a read of the HTG channel
    NumSlots,   \* of the XUPV5 driver
    Openers     \* processes that open XUPV5 device files

ASSUME DriversAssumption ==
    /\ NumBoards \in Nat /\ MaxChunks \in Nat /\ NumSlots \in Nat
    /\ Free \notin Devices /\ "none" \notin Procs

\* A buffer over three pages, more than the queue holds, that ends with a page.
MCBuffers == {<<1, 5>>}

Boards == INSTANCE BlueNocBoards
Htg == INSTANCE HtgChannel WITH irq <- htgIrq, call <- htgCall
Xup == INSTANCE Xupv5Boards WITH Procs <- Openers
Files == INSTANCE BlueNocFiles WITH Users <- Procs

boardPart == <<board_list, level, number, msix, held, nodes, class, op>>
htgPart == <<module, granted, bound, refused, busy, htgIrq, filled, flag, htgCall, orderly>>
xupPart == <<pdev, last, locked, slot, step, kept, opened, meant, told>>
filesPart == <<plugged, active, open_count, ready, raised, ok, handler, intr_wq, user, triggered,
               profile, totals, excused>>
mcVars == <<part, vars, boardPart, htgPart, xupPart, filesPart>>

DriversInit ==
    /\ part \in {"dma", "bluenoc", "htg", "xupv5", "files"}
    /\ Init /\ Boards!Init /\ Htg!Init /\ Xup!Init /\ Files!Init

DriversNext ==
    \/ part = "dma" /\ Next /\ UNCHANGED <<part, boardPart, htgPart, xupPart, filesPart>>
    \/ part = "bluenoc" /\ Boards!Next /\ UNCHANGED <<part, vars, htgPart, xupPart, filesPart>>
    \/ part = "htg" /\ Htg!Next /\ UNCHANGED <<part, vars, boardPart, xupPart, filesPart>>
    \/ part = "xupv5" /\ Xup!Next /\ UNCHANGED <<part, vars, boardPart, htgPart, filesPart>>
    \/ part = "files" /\ Files!Next /\ UNCHANGED <<part, vars, boardPart, htgPart, xupPart>>

DmaFairness ==
    /\ \A d \in Dirs : WF_vars(part = "dma" /\ BoardCompletes(d))
    /\ WF_vars(part = "dma" /\ intr_handler)
    /\ \A p \in Procs : WF_vars(part = "dma" /\ (bluenoc_read(p) \/ bluenoc_write(p) \/ Release(p)))

DriversSpec == DriversInit /\ [][DriversNext]_mcVars /\ DmaFairness

\* The variables of the drivers keep their types.
DriversTypeOK == TypeOK /\ Boards!TypeOK /\ Htg!TypeOK /\ Xup!TypeOK /\ Files!TypeOK

\* Whatever fails on the way up, the drivers of BlueNoC, of the HTG channel and of
\* XUPV5 hold for a device exactly what its state says, and nothing once they have
\* let go of it.
ResourcesMatchState ==
    Boards!ResourcesMatchLevel /\ Htg!UnboundKeepsNothing /\ Xup!AllOrNothing

\* The number of a device file leads bluenoc_open, and the slot behind a minor
\* number leads bsemu_open, to the device that the file was made for.
FilesLeadToTheirDevices == Boards!OpenFindsItsBoard /\ Xup!MinorsDistinct

\* Nobody goes on too early or is forgotten: the data that an ioctl of the HTG
\* channel copies to the user is what its own transfer brought; a process that
\* polls a BlueNoC board sleeps only while the board has nothing for it or a
\* wake-up is under way; and the profile adds up times that were measured.
TransfersAwaited == Htg!TransfersAwaited /\ Files!PollersWoken /\ Files!TimesMeasured
==============================================================================
