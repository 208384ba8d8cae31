---------------------------- MODULE BlueNocBoards ----------------------------
(* The boards of the BlueNoC kernel driver                                    *)
(* (drivers/linux/platforms/bluenoc-pcie/driver/bluenoc.c): probe and remove,  *)
(* the activation ladder that acquires the resources of a board one by one,    *)
(* the ioctls that climb down and up again while the device file is open, and  *)
(* the bluenoc-ioctl tool.  The PCI core calls probe and remove one at a time  *)
(* and a board is removed when its file is closed; nothing in the driver       *)
(* excludes two control ioctls of one board at the same time, and one at a     *)
(* time is what is modelled.                                                   *)
EXTENDS Integers, Sequences, SequencesExt

CONSTANTS
    Devices,    \* PCI devices with the identity of a BlueNoC board
    NumBoards   \* NUM_BOARDS

VARIABLES
    board_list, \* the boards, most recently probed first
    level,      \* activation_level
    number,     \* board_number, 0 for UNASSIGNED
    msix,       \* uses_msix
    held,       \* what the kernel has granted the driver for the device
    nodes,      \* minor number -> device whose cdev answers to it
    class,      \* bluenoc_class exists
    op          \* the activation in progress and what asked for it

vars == <<board_list, level, number, msix, held, nodes, class, op>>

\* Activation levels.
PROBED == 0
BOARD_NUM_ASSIGNED == 1
PCI_DEV_ENABLED == 2
BLUENOC_ACTIVE == 11

\* The resource acquired by the step that ends at each level; MAGIC_MATCH (5)
\* and DMA_MASK_SET (6) acquire none.
Acquired == [l \in {2, 3, 4, 7, 8, 9, 10, 11} |->
    CASE l = 2 -> "device" [] l = 3 -> "regions" [] l = 4 -> "bar0" [] l = 7 -> "msi"
      [] l = 8 -> "irq" [] l = 9 -> "vector" [] l = 10 -> "master" [] l = 11 -> "network"]

\* What a board at level l has, with message-signalled interrupts of kind x: the
\* vector of the board's own table is unmasked for MSI-X only.
ResourcesAt(l, x) ==
    {Acquired[k] : k \in {j \in DOMAIN Acquired : j <= l /\ (j = 9 => x)}}

None == [kind |-> "none"]
Operations == {None} \cup [kind : {"probe", "ioctl"}, dev : Devices]

TypeOK ==
    /\ board_list \in Seq(Devices) /\ IsInjective(board_list)
    /\ level \in [Devices -> PROBED .. BLUENOC_ACTIVE]
    /\ number \in [Devices -> 0 .. NumBoards]
    /\ msix \in [Devices -> BOOLEAN]
    /\ held \in [Devices -> SUBSET {Acquired[k] : k \in DOMAIN Acquired}]
    /\ DOMAIN nodes \subseteq 1 .. NumBoards
    /\ \A n \in DOMAIN nodes : nodes[n] \in Devices
    /\ class \in BOOLEAN /\ op \in Operations

\* bluenoc_init: the driver is registered and knows no board.
Init ==
    /\ board_list = <<>>
    /\ level = [d \in Devices |-> PROBED]
    /\ number = [d \in Devices |-> 0]
    /\ msix = [d \in Devices |-> FALSE]
    /\ held = [d \in Devices |-> {}]
    /\ nodes = <<>>
    /\ class = FALSE
    /\ op = None

Listed == Range(board_list)

-----------------------------------------------------------------------------
\* Defective variant: the message interrupt is disabled on the way down from the
\* levels above its own only.
AfterDeactivateKeepsMsi(h, l, x) ==
    IF l < PCI_DEV_ENABLED THEN h ELSE h \ (ResourcesAt(l, x) \ (IF l = 7 THEN {"msi"} ELSE {}))

\* What deactivate leaves of the resources h of a board at level l: the cases of
\* the switch fall through from l to PCI_DEV_ENABLED.
AfterDeactivate(h, l, x) ==
    IF l < PCI_DEV_ENABLED THEN h ELSE h \ ResourcesAt(l, x)

deactivate(d) ==
    /\ held' = [held EXCEPT ![d] = AfterDeactivate(@, level[d], msix[d])]
    /\ level' = [level EXCEPT ![d] = IF @ >= PCI_DEV_ENABLED THEN BOARD_NUM_ASSIGNED ELSE @]

\* A probe that fails takes its board, the head, off the list and frees it.
Unlist(d) ==
    /\ board_list' = Tail(board_list)
    /\ number' = [number EXCEPT ![d] = 0]

\* Defective variant: only the most recently probed board is compared.
FreeNumbersShortScan ==
    {n \in 1 .. NumBoards : \A i \in DOMAIN board_list : i <= 2 => number[board_list[i]] # n}

FreeNumbers == {n \in 1 .. NumBoards : \A b \in Listed : number[b] # n}

\* bluenoc_probe up to its call of activate.
bluenoc_probe(d) ==
    /\ op = None /\ d \notin Listed
    /\ class' = TRUE
    /\ board_list' = <<d>> \o board_list
    /\ level' = [level EXCEPT ![d] = PROBED]
    /\ op' = [kind |-> "probe", dev |-> d]
    /\ UNCHANGED <<number, msix, held, nodes>>

AssignNumber ==
    /\ op # None /\ level[op.dev] = PROBED
    /\ FreeNumbers # {}
    /\ number' = [number EXCEPT ![op.dev] = CHOOSE n \in FreeNumbers : \A m \in FreeNumbers : n <= m]
    /\ level' = [level EXCEPT ![op.dev] = BOARD_NUM_ASSIGNED]
    /\ UNCHANGED <<board_list, msix, held, nodes, class, op>>

\* One case of the switch in activate succeeds and falls through to the next.
\* The kind of interrupt is decided by the step to MSI_ENABLED.
ActivateStep ==
    /\ op # None
    /\ LET d == op.dev
           l == level[d] + 1
       IN  /\ level[d] \in BOARD_NUM_ASSIGNED .. BLUENOC_ACTIVE - 1
           /\ level' = [level EXCEPT ![d] = l]
           /\ msix' \in IF l = 7 THEN {[msix EXCEPT ![d] = x] : x \in BOOLEAN} ELSE {msix}
           /\ held' = [held EXCEPT ![d] = @ \cup
                          (IF l \in DOMAIN Acquired /\ (l = 9 => msix[d]) THEN {Acquired[l]} ELSE {})]
    /\ UNCHANGED <<board_list, number, nodes, class, op>>

\* A step fails: numbers are used up, the kernel refuses a resource, or the
\* magic number is wrong.  The steps from IRQ_ASSIGNED on cannot fail.  A probe
\* drops the board; the ioctl returns success all the same.
ActivateFails ==
    /\ op # None
    /\ \/ level[op.dev] = PROBED /\ FreeNumbers = {}
       \/ level[op.dev] \in BOARD_NUM_ASSIGNED .. 7
    /\ deactivate(op.dev)
    /\ IF op.kind = "probe" THEN Unlist(op.dev) ELSE UNCHANGED <<board_list, number>>
    /\ op' = None
    /\ UNCHANGED <<msix, nodes, class>>

\* Fully activated: a probe publishes the device file, or gives up if the
\* kernel refuses the cdev.
Activated ==
    /\ op # None /\ level[op.dev] = BLUENOC_ACTIVE
    /\ op' = None
    /\ \/ /\ op.kind = "probe"
          /\ nodes' = [n \in DOMAIN nodes \cup {number[op.dev]} |->
                          IF n = number[op.dev] THEN op.dev ELSE nodes[n]]
          /\ UNCHANGED <<board_list, level, number, held>>
       \/ /\ op.kind = "probe"
          /\ deactivate(op.dev) /\ Unlist(op.dev)
          /\ UNCHANGED nodes
       \/ /\ op.kind = "ioctl"
          /\ UNCHANGED <<board_list, level, number, held, nodes>>
    /\ UNCHANGED <<msix, class>>

bluenoc_remove(d) ==
    /\ op = None /\ d \in Listed
    /\ held' = [held EXCEPT ![d] = AfterDeactivate(@, level[d], msix[d])]
    /\ nodes' = [n \in DOMAIN nodes \ {number[d]} |-> nodes[n]]
    /\ board_list' = RemoveFirst(board_list, d)
    /\ class' = (board_list' # <<>>)
    /\ level' = [level EXCEPT ![d] = PROBED]
    /\ number' = [number EXCEPT ![d] = 0]
    /\ UNCHANGED <<msix, op>>

\* BNOC_DEACTIVATE and BNOC_REACTIVATE, from a process that has the file open.
IoctlDeactivate(d) ==
    /\ op = None /\ d \in Range(nodes)
    /\ deactivate(d)
    /\ UNCHANGED <<board_list, number, msix, nodes, class, op>>
IoctlReactivate(d) ==
    /\ op = None /\ d \in Range(nodes)
    /\ op' = [kind |-> "ioctl", dev |-> d]
    /\ UNCHANGED <<board_list, level, number, msix, held, nodes, class>>

Next ==
    \/ \E d \in Devices : \/ bluenoc_probe(d) \/ bluenoc_remove(d)
                          \/ IoctlDeactivate(d) \/ IoctlReactivate(d)
    \/ AssignNumber \/ ActivateStep \/ ActivateFails \/ Activated

Spec == Init /\ [][Next]_vars

-----------------------------------------------------------------------------
\* A device holds exactly the resources of its activation level, wherever a step
\* up failed and however often the ioctls went down and up; a device that the
\* driver does not list holds nothing.
ResourcesMatchLevel ==
    /\ \A d \in Listed : held[d] = ResourcesAt(level[d], msix[d])
    /\ \A d \in Devices \ Listed : held[d] = {}

\* A device file leads bluenoc_open to the board it was made for: the first
\* board of the list with the minor number of the file.
OpenFindsItsBoard ==
    \A n \in DOMAIN nodes :
        \E i \in DOMAIN board_list :
            /\ board_list[i] = nodes[n] /\ number[board_list[i]] = n
            /\ \A j \in 1 .. i - 1 : number[board_list[j]] # n

\* bluenoc-ioctl asserts that a board is active after the reactivate ioctl.
ToolFindsBoardActive ==
    [][op.kind = "ioctl" /\ op' = None => level'[op.dev] = BLUENOC_ACTIVE]_vars
==============================================================================
