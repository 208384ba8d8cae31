----------------------------- MODULE DriversProofs -----------------------------
(* What the kernel drivers hold for a board, where their files lead, and who     *)
(* waits for what, for all numbers of boards, slots and processes.               *)
EXTENDS MCDrivers, SequenceTheorems, WellFoundedInduction, TLAPS

-----------------------------------------------------------------------------
(* The HTG channel: probe, remove and the transfers of its ioctls.             *)

\* How far the one transfer is that an orderly caller waits for.
Working(p)  == busy = p /\ ~filled /\ ~htgIrq /\ flag = 0
Finished(p) == busy = "none" /\ filled /\ htgIrq /\ flag = 0
Signalled(p) == busy = "none" /\ filled /\ ~htgIrq /\ flag = 1

\* While the transfers are orderly at most one is in progress; the flag is set
\* only when the board has filled the buffer for it, and clear when none is.
Orderly == orderly =>
    /\ \A p \in Procs : htgCall[p].op \in Htg!Ops \cup {"idle"} /\ htgCall[p].got # "stale"
    /\ \A p \in Procs : htgCall[p].op # "idle" =>
          /\ Working(p) \/ Finished(p) \/ Signalled(p)
          /\ \A q \in Procs \ {p} : htgCall[q].op = "idle"
    /\ (\A p \in Procs : htgCall[p].op = "idle") => busy = "none" /\ ~htgIrq /\ flag = 0

\* A read in progress has a piece left to bring.
PiecesLeft == \A p \in Procs : htgCall[p].op = "read" => htgCall[p].left # 0

HtgInv == Htg!TypeOK /\ Htg!UnboundKeepsNothing /\ PiecesLeft /\ Orderly

-----------------------------------------------------------------------------
(* XUPV5: slots, what a device holds, and open files.                          *)

\* A device that has a slot is what the slot says; only slots in use are given.
SlotsOwned == \A d \in Devices : step[d] # 0 => slot[d] \in 1 .. last /\ pdev[slot[d]] = d

\* A probe holds what its steps so far have acquired.
KeptSoFar == \A d \in Devices :
    kept[d] = {Xup!Ladder[i] : i \in {j \in DOMAIN Xup!Ladder : j < step[d]}}

\* An open file leads to the slot of the device that it was opened for.
FilesOpened == \A p \in Openers :
    /\ opened[p] = 0 => meant[p] = Free
    /\ opened[p] # 0 => meant[p] \in Devices /\ Xup!Bound(meant[p]) /\ opened[p] = slot[meant[p]]
    /\ told[p] \in {Free, meant[p]}

XupInv == Xup!TypeOK /\ SlotsOwned /\ KeptSoFar /\ FilesOpened

-----------------------------------------------------------------------------
(* BlueNoC: the files of a board.                                              *)

FilesTyped == user \in [Procs -> Files!Activities] /\ ready \subseteq Files!Dirs
              /\ raised \in BOOLEAN /\ handler \in BOOLEAN /\ active \in BOOLEAN
              /\ plugged \in BOOLEAN /\ profile \in BOOLEAN /\ excused \in BOOLEAN

\* What the board is ready for and the driver does not know of, an interrupt tells.
Announced == active /\ ~(ready \subseteq ok) => raised

\* A sleeper that the driver knows of is woken as soon as the handler goes on.
SleepersKnown == \A p \in Procs :
    active /\ p \in intr_wq /\ user[p].pc = "asleep" /\ user[p].want \in ok /\ p \notin triggered
        => handler

\* Nobody has the file of a board that is not there.
NobodyInside == ~plugged => \A p \in Procs : user[p] = Files!Closed

\* Calls in progress know when they began if the profile counts them.
CallsTimed == profile =>
    excused \/ \A p \in Procs : user[p].pc \in {"call", "sent"} => user[p].timed

FilesInv == /\ FilesTyped /\ Announced /\ SleepersKnown /\ NobodyInside /\ CallsTimed
            /\ Files!TimesMeasured

-----------------------------------------------------------------------------
(* BlueNoC: the boards.                                                        *)

\* A listed board has a number as soon as it has left the level PROBED, and no two
\* have the same.
Numbered ==
    /\ \A d \in Devices : number[d] = 0 <=> ~(d \in Boards!Listed /\ level[d] # 0)
    /\ \A d, e \in Boards!Listed : d # e /\ number[d] # 0 => number[d] # number[e]

\* A device file has the number of the listed board that it leads to.
NodesListed == \A n \in DOMAIN nodes :
    nodes[n] \in Boards!Listed /\ n \in 1 .. NumBoards /\ number[nodes[n]] = n

\* A probe is of the head of the list, which has no file yet; an ioctl of a board
\* that has one.
OpListed == op # Boards!None =>
    /\ op.dev \in Boards!Listed
    /\ op.kind = "probe" => board_list # <<>> /\ Head(board_list) = op.dev
                           /\ \A n \in DOMAIN nodes : nodes[n] # op.dev
    /\ op.kind = "ioctl" => level[op.dev] # 0

\* Only the board of an activation in progress has no number.
Settled == \A d \in Boards!Listed : (op = Boards!None \/ op.dev # d) => level[d] # 0

BoardsInv == /\ Boards!TypeOK /\ Boards!ResourcesMatchLevel
             /\ Numbered /\ NodesListed /\ OpListed /\ Settled

DriversInv == HtgInv /\ XupInv /\ FilesInv /\ BoardsInv

-----------------------------------------------------------------------------
(* The HTG channel keeps its invariant.                                        *)

LEMMA HtgInit == Htg!Init => HtgInv
  <1> SUFFICES ASSUME Htg!Init
               PROVE  HtgInv
    OBVIOUS
  <1>1. Htg!TypeOK
    <2>1. Htg!Idle \in [op : Htg!Ops \cup {"idle", "read"}, left : 0 .. MaxChunks,
                        got : {"nothing", "own", "stale"}]
      BY DriversAssumption DEF Htg!Idle
    <2> HIDE DEF Htg!Idle
    <2>2. htgCall \in [Procs -> [op : Htg!Ops \cup {"idle", "read"}, left : 0 .. MaxChunks,
                                 got : {"nothing", "own", "stale"}]]
      BY <2>1 DEF Htg!Init
    <2> QED BY <2>2 DEF Htg!Init, Htg!TypeOK
  <1>2. Htg!UnboundKeepsNothing
    BY DEF Htg!Init, Htg!UnboundKeepsNothing
  <1>3. PiecesLeft /\ Orderly
    BY DEF Htg!Init, Htg!Idle, PiecesLeft, Orderly, Htg!Ops
  <1> QED BY <1>1, <1>2, <1>3 DEF HtgInv

\* Steps that neither begin nor end a call, nor a transfer.
LEMMA HtgModuleSteps ==
    ASSUME HtgInv,
           Htg!pchnl_init_module \/ Htg!pchnl_exit_module \/ Htg!pchnl_probe \/ Htg!Unplug
    PROVE  HtgInv'
  <1>1. /\ busy' = busy /\ htgIrq' = htgIrq /\ filled' = filled /\ flag' = flag
        /\ htgCall' = htgCall /\ orderly' = orderly
    BY DEF Htg!pchnl_init_module, Htg!pchnl_exit_module, Htg!pchnl_probe, Htg!Unplug
  <1>2. PiecesLeft' /\ Orderly'
    BY <1>1 DEF HtgInv, PiecesLeft, Orderly, Working, Finished, Signalled
  <1>3. /\ module \in {"out", "pci", "in"} /\ granted \subseteq Htg!AllGranted
        /\ bound \in BOOLEAN /\ refused \in BOOLEAN
        /\ ~bound /\ ~refused => granted \subseteq {"device"}
    BY DEF HtgInv, Htg!TypeOK, Htg!UnboundKeepsNothing
  <1>4. /\ module' \in {"out", "pci", "in"} /\ granted' \subseteq Htg!AllGranted
        /\ bound' \in BOOLEAN /\ refused' \in BOOLEAN
        /\ ~bound' /\ ~refused' => granted' \subseteq {"device"}
    <2>1. CASE Htg!pchnl_init_module \/ Htg!pchnl_exit_module \/ Htg!Unplug
      <3>1. /\ module' \in {"out", "pci", "in"} /\ refused' = refused
            /\ \/ bound' = bound /\ granted' = granted
               \/ bound' = FALSE /\ granted' = IF bound THEN granted \cap {"device"} ELSE granted
        BY <1>3, <2>1 DEF Htg!pchnl_init_module, Htg!pchnl_exit_module, Htg!Unplug,
                         Htg!pchnl_remove
      <3>2. granted \cap {"device"} \subseteq {"device"}
            /\ granted \cap {"device"} \subseteq Htg!AllGranted
        BY <1>3
      <3>3. CASE bound' = bound /\ granted' = granted
        BY <1>3, <3>1, <3>3
      <3>4. CASE bound' = FALSE /\ bound /\ granted' = granted \cap {"device"}
        BY <1>3, <3>1, <3>2, <3>4
      <3>5. CASE bound' = FALSE /\ ~bound /\ granted' = granted
        BY <1>3, <3>1, <3>5
      <3> QED BY <3>1, <3>3, <3>4, <3>5
    <2>2. CASE Htg!pchnl_probe
      <3>1. CASE granted' = Htg!AllGranted /\ bound' = TRUE /\ refused' = refused
        BY <1>3, <2>2, <3>1 DEF Htg!pchnl_probe
      <3>2. ASSUME NEW s \in Htg!AllGranted,
                   granted' = granted \cup Htg!ProbeLeaves(s),
                   refused' = (refused \/ s \in {"h2f", "f2h"}), bound' = bound
            PROVE  /\ granted' \subseteq Htg!AllGranted /\ refused' \in BOOLEAN
                   /\ ~bound' /\ ~refused' => granted' \subseteq {"device"}
        <4>1. /\ Htg!ProbeLeaves(s) \subseteq {"device", "irq", "h2f"}
              /\ s \notin {"h2f", "f2h"} => Htg!ProbeLeaves(s) \subseteq {"device"}
          BY DEF Htg!ProbeLeaves, Htg!AllGranted
        <4> HIDE DEF Htg!ProbeLeaves
        <4>2. {"device", "irq", "h2f"} \subseteq Htg!AllGranted
          BY DEF Htg!AllGranted
        <4> QED BY <1>3, <3>2, <4>1, <4>2
      <3>3. module' = module /\ bound' \in BOOLEAN
        BY <1>3, <2>2 DEF Htg!pchnl_probe
      <3> QED BY <1>3, <2>2, <3>1, <3>2, <3>3 DEF Htg!pchnl_probe
    <2> QED BY <2>1, <2>2
  <1>5. Htg!TypeOK'
    BY <1>1, <1>4 DEF HtgInv, Htg!TypeOK
  <1>6. Htg!UnboundKeepsNothing'
    BY <1>4 DEF Htg!UnboundKeepsNothing
  <1> QED BY <1>2, <1>5, <1>6 DEF HtgInv

\* What the calls and transfers leave alone.
SameDevice == module' = module /\ granted' = granted /\ bound' = bound /\ refused' = refused

\* An orderly state, seen from the one process whose call is in progress or begins.
LEMMA OneCaller ==
    ASSUME HtgInv, orderly, NEW p \in Procs, htgCall[p].op # "idle"
    PROVE  /\ htgCall[p].op \in Htg!Ops
           /\ \A q \in Procs \ {p} : htgCall[q].op = "idle" /\ htgCall[q].got # "stale"
           /\ Working(p) \/ Finished(p) \/ Signalled(p)
  BY DEF HtgInv, Orderly

\* A call that finds no device.
LEMMA CallUnboundKeeps ==
    ASSUME HtgInv, NEW p \in Procs, Htg!CallUnbound(p)
    PROVE  HtgInv'
  <1>1. /\ SameDevice /\ htgIrq' = htgIrq /\ busy' = busy /\ filled' = filled
        /\ flag' = flag /\ orderly' = orderly /\ htgCall[p].op = "idle"
        /\ htgCall' = [htgCall EXCEPT ![p] = Htg!Idle]
    BY DEF Htg!CallUnbound, SameDevice
  <1>2. Htg!Idle = [op |-> "idle", left |-> 0, got |-> "nothing"]
    BY DEF Htg!Idle
  <1>3. Htg!TypeOK'
    <2>1. Htg!Idle \in [op : Htg!Ops \cup {"idle", "read"}, left : 0 .. MaxChunks,
                        got : {"nothing", "own", "stale"}]
      BY <1>2, DriversAssumption
    <2> QED BY <1>1, <2>1 DEF HtgInv, Htg!TypeOK, SameDevice
  <1>4. /\ \A q \in Procs \ {p} : htgCall'[q] = htgCall[q]
        /\ htgCall'[p].op = "idle" /\ htgCall'[p].got = "nothing"
    BY <1>1, <1>2 DEF HtgInv, Htg!TypeOK
  <1>5. \A q \in Procs : /\ htgCall'[q].op = htgCall[q].op
                         /\ htgCall[q].got # "stale" => htgCall'[q].got # "stale"
    BY <1>1, <1>4
  <1>6. PiecesLeft'
    BY <1>4 DEF HtgInv, PiecesLeft
  <1>7. Orderly'
    <2>1. \A q \in Procs : /\ Working(q)' <=> Working(q)
                           /\ Finished(q)' <=> Finished(q)
                           /\ Signalled(q)' <=> Signalled(q)
      BY <1>1 DEF Working, Finished, Signalled
    <2> QED BY <1>1, <1>5, <2>1 DEF HtgInv, Orderly
  <1>8. Htg!UnboundKeepsNothing'
    BY <1>1 DEF HtgInv, Htg!UnboundKeepsNothing, SameDevice
  <1> QED BY <1>3, <1>6, <1>7, <1>8 DEF HtgInv

LEMMA DmaIoctlKeeps ==
    ASSUME HtgInv, NEW p \in Procs, Htg!DmaIoctl(p)
    PROVE  HtgInv'
  <1>1. PICK o \in Htg!Ops :
           htgCall' = [htgCall EXCEPT ![p] = [op |-> o, left |-> 0, got |-> "nothing"]]
    BY DEF Htg!DmaIoctl
  <1>2. /\ SameDevice /\ htgIrq' = htgIrq /\ flag' = flag /\ busy' = p /\ filled' = FALSE
        /\ htgCall[p].op = "idle"
        /\ orderly' = (orderly /\ busy = "none" /\ ~htgIrq
                       /\ \A q \in Procs \ {p} : htgCall[q].op = "idle")
    BY DEF Htg!DmaIoctl, Htg!Start, SameDevice
  <1>3. /\ Htg!TypeOK
        /\ [op |-> o, left |-> 0, got |-> "nothing"] \in
              [op : Htg!Ops \cup {"idle", "read"}, left : 0 .. MaxChunks,
               got : {"nothing", "own", "stale"}]
    BY DriversAssumption DEF HtgInv
  <1>4. Htg!TypeOK'
    BY <1>1, <1>2, <1>3 DEF Htg!TypeOK, SameDevice
  <1>5. /\ \A q \in Procs \ {p} : htgCall'[q] = htgCall[q]
        /\ htgCall'[p].op = o /\ htgCall'[p].got = "nothing"
    BY <1>1, <1>3 DEF Htg!TypeOK
  <1>6. o # "read" /\ o # "idle"
    BY DEF Htg!Ops
  <1>7. PiecesLeft'
    BY <1>5, <1>6 DEF HtgInv, PiecesLeft
  <1>8. Orderly'
    <2> SUFFICES ASSUME orderly'
                 PROVE  /\ \A q \in Procs : htgCall'[q].op \in Htg!Ops \cup {"idle"}
                                             /\ htgCall'[q].got # "stale"
                        /\ \A q \in Procs : htgCall'[q].op # "idle" =>
                              /\ (Working(q) \/ Finished(q) \/ Signalled(q))'
                              /\ \A r \in Procs \ {q} : htgCall'[r].op = "idle"
                        /\ \E q \in Procs : htgCall'[q].op # "idle"
      BY DEF Orderly
    <2>1. /\ orderly /\ ~htgIrq /\ \A q \in Procs : htgCall[q].op = "idle"
      BY <1>2
    <2>2. flag = 0 /\ \A q \in Procs : htgCall[q].got # "stale"
      BY <2>1 DEF HtgInv, Orderly
    <2>3. /\ busy' = p /\ ~filled' /\ ~htgIrq' /\ flag' = 0
      BY <1>2, <2>1, <2>2
    <2>4. \A q \in Procs : htgCall'[q].op # "idle" => q = p
      BY <1>5, <2>1
    <2> QED BY <1>5, <1>6, <2>1, <2>2, <2>3, <2>4 DEF Working
  <1>9. Htg!UnboundKeepsNothing'
    BY <1>2 DEF HtgInv, Htg!UnboundKeepsNothing, SameDevice
  <1> QED BY <1>4, <1>7, <1>8, <1>9 DEF HtgInv

\* A wait that ends, by the flag or by a signal.
LEMMA DmaIoctlEnds ==
    ASSUME HtgInv, NEW p \in Procs, Htg!DmaIoctlReturns(p) \/ Htg!DmaIoctlInterrupted(p)
    PROVE  HtgInv'
  <1> DEFINE g == IF htgCall[p].op = "PCHNL_DMA_F2H" THEN Htg!Found(p) ELSE "nothing"
  <1>1. /\ SameDevice /\ htgIrq' = htgIrq /\ busy' = busy /\ filled' = filled
        /\ htgCall[p].op \in Htg!Ops
        /\ htgCall' = [htgCall EXCEPT ![p] = [Htg!Idle EXCEPT !.got = g]]
        /\ \/ flag # 0 /\ flag' = 0 /\ orderly' = orderly
           \/ flag' = flag /\ orderly' = FALSE
    BY DEF Htg!DmaIoctlReturns, Htg!DmaIoctlInterrupted, SameDevice
  <1>2. g \in {"nothing", "own", "stale"}
    BY DEF Htg!Found
  <1> HIDE DEF g
  <1>3. [Htg!Idle EXCEPT !.got = g] = [op |-> "idle", left |-> 0, got |-> g]
    BY DEF Htg!Idle
  <1>4. Htg!TypeOK'
    <2>1. [op |-> "idle", left |-> 0, got |-> g] \in
              [op : Htg!Ops \cup {"idle", "read"}, left : 0 .. MaxChunks,
               got : {"nothing", "own", "stale"}]
      BY <1>2, DriversAssumption
    <2> QED BY <1>1, <1>3, <2>1 DEF HtgInv, Htg!TypeOK, SameDevice
  <1>5. /\ \A q \in Procs \ {p} : htgCall'[q] = htgCall[q]
        /\ htgCall'[p] = [op |-> "idle", left |-> 0, got |-> g]
    BY <1>1, <1>3 DEF HtgInv, Htg!TypeOK
  <1>6. PiecesLeft'
    BY <1>5 DEF HtgInv, PiecesLeft
  <1>7. Orderly'
    <2> SUFFICES ASSUME orderly'
                 PROVE  /\ \A q \in Procs : htgCall'[q].op = "idle" /\ htgCall'[q].got # "stale"
                        /\ busy' = "none" /\ ~htgIrq' /\ flag' = 0
      BY DEF Orderly
    <2>1. orderly /\ flag # 0 /\ flag' = 0
      BY <1>1
    <2>2. /\ \A q \in Procs \ {p} : htgCall[q].op = "idle" /\ htgCall[q].got # "stale"
          /\ Signalled(p)
      <3>1. htgCall[p].op # "idle"
        BY <1>1 DEF Htg!Ops
      <3> QED BY <2>1, <3>1, OneCaller DEF Working, Finished
    <2>3. g # "stale"
      BY <2>2, DriversAssumption DEF g, Htg!Found, Signalled
    <2> QED BY <1>1, <1>5, <2>1, <2>2, <2>3 DEF Signalled
  <1>8. Htg!UnboundKeepsNothing'
    BY <1>1 DEF HtgInv, Htg!UnboundKeepsNothing, SameDevice
  <1> QED BY <1>4, <1>6, <1>7, <1>8 DEF HtgInv

\* A state that is not orderly has types only.
LEMMA Disorderly ==
    ASSUME HtgInv, Htg!TypeOK', PiecesLeft', SameDevice, ~orderly'
    PROVE  HtgInv'
  BY DEF HtgInv, Htg!UnboundKeepsNothing, SameDevice, Orderly

LEMMA ReadKeeps ==
    ASSUME HtgInv, NEW p \in Procs, Htg!pchnl_read(p)
    PROVE  HtgInv'
  <1>1. PICK n \in 1 .. MaxChunks :
           htgCall' = [htgCall EXCEPT ![p] = [op |-> "read", left |-> n, got |-> "nothing"]]
    BY DEF Htg!pchnl_read
  <1>2. /\ SameDevice /\ htgIrq' = htgIrq /\ flag' = flag /\ busy' = p /\ filled' = FALSE
        /\ orderly' = FALSE
    BY DEF Htg!pchnl_read, SameDevice
  <1>3. /\ n # 0
        /\ [op |-> "read", left |-> n, got |-> "nothing"] \in
              [op : Htg!Ops \cup {"idle", "read"}, left : 0 .. MaxChunks,
               got : {"nothing", "own", "stale"}]
    BY DriversAssumption
  <1>4. Htg!TypeOK'
    BY <1>1, <1>2, <1>3 DEF HtgInv, Htg!TypeOK, SameDevice
  <1>5. PiecesLeft'
    <2>1. /\ \A q \in Procs \ {p} : htgCall'[q] = htgCall[q]
          /\ htgCall'[p].left = n
      BY <1>1 DEF HtgInv, Htg!TypeOK
    <2> QED BY <1>3, <2>1 DEF HtgInv, PiecesLeft
  <1> QED BY <1>2, <1>4, <1>5, Disorderly

\* The calls of the HTG channel.
HtgCalls == [op : Htg!Ops \cup {"idle", "read"}, left : 0 .. MaxChunks,
             got : {"nothing", "own", "stale"}]

LEMMA ReadChunkKeeps ==
    ASSUME HtgInv, NEW p \in Procs, Htg!ReadChunk(p)
    PROVE  HtgInv'
  <1> DEFINE g == Htg!Found(p)
  <1>1. PICK ends \in {TRUE} \cup {htgCall[p].left = 1} :
           /\ htgCall' = [htgCall EXCEPT ![p] =
                 IF ends THEN [Htg!Idle EXCEPT !.got = g]
                 ELSE [op |-> "read", left |-> @.left - 1, got |-> g]]
           /\ IF ends THEN UNCHANGED <<busy, filled>> ELSE busy' = p /\ filled' = FALSE
    BY DEF Htg!ReadChunk
  <1>2. /\ SameDevice /\ htgIrq' = htgIrq /\ flag' = flag /\ orderly' = orderly
        /\ htgCall[p].op = "read" /\ htgCall[p] \in HtgCalls
    BY DEF Htg!ReadChunk, SameDevice, HtgInv, Htg!TypeOK, HtgCalls
  <1>3. g \in {"nothing", "own", "stale"}
    BY DEF Htg!Found
  <1> HIDE DEF g
  <1>4. ~orderly
    BY <1>2 DEF HtgInv, Orderly, Htg!Ops
  <1>5. htgCall \in [Procs -> HtgCalls]
    BY DEF HtgInv, Htg!TypeOK, HtgCalls
  <1>6. busy' \in Procs \cup {"none"} /\ filled' \in BOOLEAN
    <2>1. CASE ends
      BY <1>1, <2>1 DEF HtgInv, Htg!TypeOK
    <2>2. CASE ~ends
      BY <1>1, <2>2
    <2> QED BY <2>1, <2>2
  <1>7. /\ htgCall' \in [Procs -> HtgCalls] /\ \A q \in Procs \ {p} : htgCall'[q] = htgCall[q]
        /\ htgCall'[p].op = "read" => htgCall'[p].left # 0
    <2>1. CASE ends
      <3> DEFINE c == [Htg!Idle EXCEPT !.got = g]
      <3>1. c \in HtgCalls /\ c.op = "idle"
        BY <1>3, DriversAssumption DEF Htg!Idle, HtgCalls
      <3>2. htgCall' = [htgCall EXCEPT ![p] = c]
        BY <1>1, <2>1
      <3> HIDE DEF c
      <3> QED BY <1>5, <3>1, <3>2
    <2>2. CASE ~ends
      <3>1. htgCall[p].left \in 0 .. MaxChunks /\ htgCall[p].left # 1 /\ htgCall[p].left # 0
        <4>1. htgCall[p].left # 1
          BY <1>1, <2>2
        <4> QED BY <1>2, <4>1 DEF HtgInv, PiecesLeft, HtgCalls
      <3> DEFINE m == htgCall[p].left - 1
                 c == [op |-> "read", left |-> m, got |-> g]
      <3>2. m \in 0 .. MaxChunks /\ m # 0
        BY <3>1, DriversAssumption
      <3>3. htgCall' = [htgCall EXCEPT ![p] = c]
        BY <1>1, <2>2
      <3> HIDE DEF m
      <3>4. c \in HtgCalls /\ c.left # 0
        BY <1>3, <3>2 DEF HtgCalls
      <3> HIDE DEF c
      <3> QED BY <1>5, <3>3, <3>4
    <2> QED BY <2>1, <2>2
  <1>8. Htg!TypeOK'
    BY <1>2, <1>6, <1>7 DEF HtgInv, Htg!TypeOK, SameDevice, HtgCalls
  <1>9. PiecesLeft'
    <2> QED BY <1>7 DEF HtgInv, PiecesLeft
  <1> QED BY <1>2, <1>4, <1>8, <1>9, Disorderly

LEMMA HtgBoardSteps ==
    ASSUME HtgInv,
           Htg!IntrTester \/ Htg!Reset \/ Htg!BoardFinishes \/ Htg!pchnl_intr
    PROVE  HtgInv'
  <1>1. SameDevice /\ htgCall' = htgCall
    BY DEF Htg!IntrTester, Htg!Reset, Htg!BoardFinishes, Htg!pchnl_intr, SameDevice
  <1>2. PiecesLeft'
    BY <1>1 DEF HtgInv, PiecesLeft
  <1>3. Htg!TypeOK'
    <2>1. /\ busy' \in Procs \cup {"none"} /\ htgIrq' \in BOOLEAN /\ filled' \in BOOLEAN
          /\ flag' \in {0, 1} /\ orderly' \in BOOLEAN
      <3>1. /\ busy \in Procs \cup {"none"} /\ htgIrq \in BOOLEAN /\ filled \in BOOLEAN
            /\ flag \in {0, 1} /\ orderly \in BOOLEAN
        BY DEF HtgInv, Htg!TypeOK
      <3>2. /\ flag' = flag \/ flag' = 1 - flag
            /\ busy' = busy \/ busy' = "none"
            /\ htgIrq' = htgIrq \/ htgIrq' = TRUE \/ htgIrq' = FALSE
            /\ filled' = filled \/ filled' = TRUE
            /\ orderly' = orderly \/ orderly' = FALSE
        BY DEF Htg!IntrTester, Htg!Reset, Htg!BoardFinishes, Htg!pchnl_intr
      <3>3. flag' \in {0, 1}
        BY <3>1, <3>2
      <3>4. busy' \in Procs \cup {"none"}
        BY <3>1, <3>2
      <3>5. htgIrq' \in BOOLEAN /\ filled' \in BOOLEAN /\ orderly' \in BOOLEAN
        BY <3>1, <3>2, Zenon
      <3> QED BY <3>3, <3>4, <3>5
    <2> QED BY <1>1, <2>1 DEF HtgInv, Htg!TypeOK, SameDevice
  <1>4. CASE Htg!IntrTester \/ Htg!Reset
    <2>1. ~orderly'
      BY <1>4 DEF Htg!IntrTester, Htg!Reset
    <2> QED BY <1>1, <1>2, <1>3, <2>1, Disorderly
  <1>5. ASSUME orderly' = orderly, orderly,
               NEW p \in Procs, htgCall[p].op # "idle",
               (Working(p) \/ Finished(p) \/ Signalled(p))'
        PROVE  HtgInv'
    <2>1. /\ htgCall[p].op \in Htg!Ops /\ \A q \in Procs \ {p} : htgCall[q].op = "idle"
      BY <1>5, OneCaller
    <2>2. \A q \in Procs : htgCall[q].op \in Htg!Ops \cup {"idle"} /\ htgCall[q].got # "stale"
      BY <1>5 DEF HtgInv, Orderly
    <2>3. Orderly'
      <3>1. \A q \in Procs : htgCall'[q].op # "idle" => q = p
        BY <1>1, <2>1
      <3>2. ~\A q \in Procs : htgCall'[q].op = "idle"
        BY <1>1, <1>5
      <3> QED BY <1>1, <1>5, <2>1, <2>2, <3>1, <3>2 DEF Orderly
    <2> QED BY <1>1, <1>2, <1>3, <2>3 DEF HtgInv, Htg!UnboundKeepsNothing, SameDevice
  <1>6. CASE Htg!BoardFinishes /\ orderly
    <2>1. /\ busy # "none" /\ busy' = "none" /\ filled' = TRUE /\ htgIrq' = TRUE
          /\ flag' = flag /\ orderly' = orderly
      BY <1>6 DEF Htg!BoardFinishes
    <2>2. PICK p \in Procs : htgCall[p].op # "idle"
      BY <1>6, <2>1 DEF HtgInv, Orderly
    <2>3. Working(p)
      BY <1>6, <2>1, <2>2, OneCaller DEF Finished, Signalled
    <2>4. Finished(p)'
      BY <2>1, <2>3 DEF Working, Finished
    <2> QED BY <1>5, <1>6, <2>1, <2>2, <2>4
  <1>7. CASE Htg!pchnl_intr /\ orderly
    <2>1. /\ htgIrq /\ htgIrq' = FALSE /\ flag' = 1 - flag /\ busy' = busy /\ filled' = filled
          /\ orderly' = orderly
      BY <1>7 DEF Htg!pchnl_intr
    <2>2. PICK p \in Procs : htgCall[p].op # "idle"
      BY <1>7, <2>1 DEF HtgInv, Orderly
    <2>3. Finished(p)
      BY <1>7, <2>1, <2>2, OneCaller DEF Working, Signalled
    <2>4. Signalled(p)'
      BY <2>1, <2>3 DEF Finished, Signalled
    <2> QED BY <1>5, <1>7, <2>1, <2>2, <2>4
  <1>8. CASE (Htg!BoardFinishes \/ Htg!pchnl_intr) /\ ~orderly
    <2>1. orderly' = orderly
      BY <1>8 DEF Htg!BoardFinishes, Htg!pchnl_intr
    <2> QED BY <1>1, <1>2, <1>3, <1>8, <2>1, Disorderly
  <1> QED BY <1>4, <1>6, <1>7, <1>8

LEMMA HtgStep == HtgInv /\ [Htg!Next]_htgPart => HtgInv'
  <1> SUFFICES ASSUME HtgInv, [Htg!Next]_htgPart
               PROVE  HtgInv'
    OBVIOUS
  <1>1. CASE UNCHANGED htgPart
    BY <1>1 DEF htgPart, HtgInv, Htg!TypeOK, Htg!UnboundKeepsNothing, PiecesLeft, Orderly,
                Working, Finished, Signalled
  <1>2. CASE Htg!pchnl_init_module \/ Htg!pchnl_exit_module \/ Htg!pchnl_probe \/ Htg!Unplug
    BY <1>2, HtgModuleSteps
  <1>3. CASE Htg!IntrTester \/ Htg!Reset \/ Htg!BoardFinishes \/ Htg!pchnl_intr
    BY <1>3, HtgBoardSteps
  <1>4. ASSUME NEW p \in Procs,
               \/ Htg!CallUnbound(p)
               \/ Htg!DmaIoctl(p) \/ Htg!DmaIoctlReturns(p) \/ Htg!DmaIoctlInterrupted(p)
               \/ Htg!pchnl_read(p) \/ Htg!ReadChunk(p)
        PROVE  HtgInv'
    BY <1>4, CallUnboundKeeps, DmaIoctlKeeps, DmaIoctlEnds, ReadKeeps, ReadChunkKeeps
  <1> QED BY <1>1, <1>2, <1>3, <1>4 DEF Htg!Next

\* The data that an ioctl copies is what its own transfer brought.
LEMMA HtgTransfersAwaited == HtgInv => Htg!TransfersAwaited
  BY DEF HtgInv, Orderly, Htg!TransfersAwaited

-----------------------------------------------------------------------------
(* The slots of the XUPV5 driver keep their invariant.                         *)

LEMMA XupLadder ==
    /\ DOMAIN Xup!Ladder = 1 .. 4
    /\ \A i \in 1 .. 4 : Xup!Ladder[i] \in Xup!AllKept
    /\ Xup!AllKept = {Xup!Ladder[i] : i \in 1 .. 4}
  BY DEF Xup!Ladder, Xup!AllKept

LEMMA XupInit == Xup!Init => XupInv
  <1> SUFFICES ASSUME Xup!Init
               PROVE  XupInv
    OBVIOUS
  <1>1. Xup!TypeOK
    <2>1. 0 \in 0 .. NumSlots /\ 0 \in 0 .. 5
      BY DriversAssumption
    <2> QED BY <2>1 DEF Xup!Init, Xup!TypeOK
  <1>2. SlotsOwned /\ FilesOpened
    BY DEF Xup!Init, SlotsOwned, FilesOpened
  <1>3. KeptSoFar
    BY XupLadder DEF Xup!Init, KeptSoFar
  <1> QED BY <1>1, <1>2, <1>3 DEF XupInv

\* Numbers have a least one.
LEMMA LeastExists ==
    ASSUME NEW S \in SUBSET Nat, S # {}
    PROVE  \E j \in S : \A k \in S : j <= k
  <1> DEFINE R == OpToRel(<, Nat)
  <1>1. IsWellFoundedOn(R, Nat)
    BY NatLessThanWellFounded
  <1>2. \A j, k \in Nat : k < j => <<k, j>> \in R
    BY DEF OpToRel
  <1> HIDE DEF R
  <1>3. PICK j \in S : \A k \in S : ~(<<k, j>> \in R)
    BY <1>1, WFMin
  <1>4. ASSUME NEW k \in S
        PROVE  j <= k
    <2>1. j \in Nat /\ k \in Nat
      OBVIOUS
    <2>2. ~(k < j)
      BY <1>2, <1>3, <2>1
    <2> QED BY <2>1, <2>2
  <1> QED BY <1>4

\* getDevice gives a slot that no device owns.
LEMMA FreshSlot ==
    ASSUME XupInv, NEW i \in Xup!NextSlot
    PROVE  /\ i \in 1 .. NumSlots /\ i <= last + 1
           /\ \A e \in Devices : step[e] # 0 => slot[e] # i
  <1>1. /\ last \in 0 .. NumSlots /\ NumSlots \in Nat
        /\ \A e \in Devices : step[e] # 0 => slot[e] \in 1 .. last /\ pdev[slot[e]] = e
    BY DriversAssumption DEF XupInv, Xup!TypeOK, SlotsOwned
  <1> DEFINE holes == {j \in 1 .. last : pdev[j] = Free}
  <1>2. CASE holes # {}
    <2>1. Xup!NextSlot = {CHOOSE j \in holes : \A k \in holes : j <= k}
      BY <1>2 DEF Xup!NextSlot
    <2>2. \E j \in holes : \A k \in holes : j <= k
      <3>1. holes \subseteq Nat
        BY <1>1
      <3> HIDE DEF holes
      <3> QED BY <1>2, <3>1, LeastExists
    <2>3. i \in holes
      <3> HIDE DEF holes
      <3> QED BY <2>1, <2>2
    <2> QED BY <1>1, <2>3, DriversAssumption
  <1>3. CASE holes = {}
    <2>1. i = last + 1 /\ last < NumSlots
      BY <1>3 DEF Xup!NextSlot
    <2> QED BY <1>1, <2>1
  <1> QED BY <1>2, <1>3

LEMMA XupGetDevice ==
    ASSUME XupInv, NEW d \in Devices, Xup!GetDevice(d)
    PROVE  XupInv'
  <1>1. PICK i \in Xup!NextSlot :
           /\ pdev' = [pdev EXCEPT ![i] = d] /\ last' = IF i > last THEN i ELSE last
           /\ slot' = [slot EXCEPT ![d] = i]
    BY DEF Xup!GetDevice
  <1>2. /\ step[d] = 0 /\ step' = [step EXCEPT ![d] = 1] /\ locked' = locked /\ kept' = kept
        /\ opened' = opened /\ meant' = meant /\ told' = told
    BY DEF Xup!GetDevice, Xup!fileVars
  <1>3. /\ i \in 1 .. NumSlots /\ i <= last + 1
        /\ \A e \in Devices : step[e] # 0 => slot[e] # i
    BY FreshSlot
  <1>4. /\ pdev \in [1 .. NumSlots -> Devices \cup {Free}] /\ last \in 0 .. NumSlots
        /\ slot \in [Devices -> 0 .. NumSlots] /\ step \in [Devices -> 0 .. 5]
        /\ NumSlots \in Nat
    BY DriversAssumption DEF XupInv, Xup!TypeOK
  <1>5. /\ last' \in 0 .. NumSlots /\ last <= last' /\ i <= last'
        /\ i \in 0 .. NumSlots
    BY <1>1, <1>3, <1>4
  <1>6. /\ pdev' \in [1 .. NumSlots -> Devices \cup {Free}]
        /\ slot' \in [Devices -> 0 .. NumSlots] /\ step' \in [Devices -> 0 .. 5]
    BY <1>1, <1>2, <1>3, <1>4, <1>5
  <1>7. Xup!TypeOK'
    BY <1>2, <1>5, <1>6 DEF XupInv, Xup!TypeOK
  <1>8. /\ pdev'[i] = d /\ slot'[d] = i /\ step'[d] = 1
        /\ \A j \in 1 .. NumSlots : j # i => pdev'[j] = pdev[j]
        /\ \A e \in Devices : e # d => slot'[e] = slot[e] /\ step'[e] = step[e]
    BY <1>1, <1>2, <1>3, <1>4
  <1>9. SlotsOwned'
    <2>1. ASSUME NEW e \in Devices, step'[e] # 0
          PROVE  slot'[e] \in 1 .. last' /\ pdev'[slot'[e]] = e
      <3>1. CASE e = d
        BY <1>3, <1>4, <1>5, <1>8, <3>1
      <3>2. CASE e # d
        <4>1. slot[e] \in 1 .. last /\ pdev[slot[e]] = e /\ slot[e] # i
          BY <1>3, <1>8, <2>1, <3>2 DEF XupInv, SlotsOwned
        <4>2. slot[e] \in 1 .. NumSlots /\ slot[e] \in 1 .. last'
          BY <1>4, <1>5, <4>1
        <4> QED BY <1>8, <3>2, <4>1, <4>2
      <3> QED BY <3>1, <3>2
    <2> QED BY <2>1 DEF SlotsOwned
  <1>10. KeptSoFar'
    <2>1. ASSUME NEW e \in Devices
          PROVE  kept'[e] = {Xup!Ladder[k] : k \in {j \in DOMAIN Xup!Ladder : j < step'[e]}}
      <3>1. {j \in DOMAIN Xup!Ladder : j < step'[e]} = {j \in DOMAIN Xup!Ladder : j < step[e]}
        BY <1>2, <1>8, XupLadder
      <3> QED BY <1>2, <3>1 DEF XupInv, KeptSoFar
    <2> QED BY <2>1 DEF KeptSoFar
  <1>11. FilesOpened'
    <2>1. ASSUME NEW p \in Openers, opened[p] # 0
          PROVE  meant[p] \in Devices /\ step'[meant[p]] = 5 /\ opened[p] = slot'[meant[p]]
      BY <1>2, <1>8, <2>1 DEF XupInv, FilesOpened, Xup!Bound
    <2> QED BY <1>2, <2>1 DEF XupInv, FilesOpened, Xup!Bound
  <1> QED BY <1>7, <1>9, <1>10, <1>11 DEF XupInv

\* What a step of a probe, or its failure, does to the ladder.
LEMMA XupProbeSteps ==
    ASSUME XupInv, NEW d \in Devices, Xup!ProbeStep(d) \/ Xup!ProbeFails(d)
    PROVE  XupInv'
  <1>1. /\ step[d] \in 1 .. 4 /\ pdev' = pdev /\ last' = last /\ locked' = locked /\ slot' = slot
        /\ opened' = opened /\ meant' = meant /\ told' = told
        /\ \/ /\ kept' = [kept EXCEPT ![d] = @ \cup {Xup!Ladder[step[d]]}]
              /\ step' = [step EXCEPT ![d] = @ + 1]
           \/ kept' = [kept EXCEPT ![d] = {}] /\ step' = [step EXCEPT ![d] = 0]
    BY XupLadder DEF Xup!ProbeStep, Xup!ProbeFails, Xup!fileVars
  <1>2. /\ step \in [Devices -> 0 .. 5] /\ kept \in [Devices -> SUBSET Xup!AllKept]
        /\ Xup!Ladder[step[d]] \in Xup!AllKept
        /\ kept[d] = {Xup!Ladder[i] : i \in {j \in DOMAIN Xup!Ladder : j < step[d]}}
    BY <1>1, XupLadder DEF XupInv, Xup!TypeOK, KeptSoFar
  <1>3. /\ \A e \in Devices : e # d => step'[e] = step[e] /\ kept'[e] = kept[e]
        /\ step'[d] # 5 \/ step[d] = 4
        /\ step[d] # 5 /\ step[d] # 0
        /\ step' \in [Devices -> 0 .. 5] /\ kept' \in [Devices -> SUBSET Xup!AllKept]
    <2>1. step[d] + 1 \in 0 .. 5 /\ step[d] # 5 /\ step[d] # 0 /\ 0 \in 0 .. 5
      BY <1>1
    <2>2. CASE /\ kept' = [kept EXCEPT ![d] = @ \cup {Xup!Ladder[step[d]]}]
               /\ step' = [step EXCEPT ![d] = @ + 1]
      <3>1. kept[d] \cup {Xup!Ladder[step[d]]} \in SUBSET Xup!AllKept
        BY <1>2
      <3>2. kept' \in [Devices -> SUBSET Xup!AllKept]
        BY <1>2, <2>2, <3>1
      <3>3. step' \in [Devices -> 0 .. 5]
        BY <1>2, <2>1, <2>2
      <3>4. step'[d] = step[d] + 1
        BY <1>2, <2>2
      <3>5. \A e \in Devices : e # d => step'[e] = step[e] /\ kept'[e] = kept[e]
        BY <1>2, <2>2
      <3> QED BY <1>1, <2>1, <3>2, <3>3, <3>4, <3>5
    <2>3. CASE kept' = [kept EXCEPT ![d] = {}] /\ step' = [step EXCEPT ![d] = 0]
      BY <1>2, <2>1, <2>3
    <2> QED BY <1>1, <2>2, <2>3
  <1>4. Xup!TypeOK'
    BY <1>1, <1>3 DEF XupInv, Xup!TypeOK
  <1>5. SlotsOwned'
    BY <1>1, <1>3 DEF XupInv, SlotsOwned
  <1>6. kept'[d] = {Xup!Ladder[i] : i \in {j \in DOMAIN Xup!Ladder : j < step'[d]}}
    <2>1. CASE /\ kept' = [kept EXCEPT ![d] = @ \cup {Xup!Ladder[step[d]]}]
               /\ step' = [step EXCEPT ![d] = @ + 1]
      <3>1. step'[d] = step[d] + 1 /\ kept'[d] = kept[d] \cup {Xup!Ladder[step[d]]}
        BY <1>2, <2>1
      <3>2. \A j \in DOMAIN Xup!Ladder : j < step[d] + 1 <=> j < step[d] \/ j = step[d]
        BY <1>1, XupLadder
      <3>3. step[d] \in DOMAIN Xup!Ladder
        BY <1>1, XupLadder
      <3>4. {j \in DOMAIN Xup!Ladder : j < step'[d]} = {j \in DOMAIN Xup!Ladder : j < step[d]} \cup {step[d]}
        BY <3>1, <3>2, <3>3
      <3> QED BY <1>2, <3>1, <3>4
    <2>2. CASE kept' = [kept EXCEPT ![d] = {}] /\ step' = [step EXCEPT ![d] = 0]
      <3>1. step'[d] = 0 /\ kept'[d] = {}
        BY <1>2, <2>2
      <3>2. {j \in DOMAIN Xup!Ladder : j < step'[d]} = {}
        BY <3>1, XupLadder
      <3> QED BY <3>1, <3>2
    <2> QED BY <1>1, <2>1, <2>2
  <1>7. KeptSoFar'
    <2>1. ASSUME NEW e \in Devices
          PROVE  kept'[e] = {Xup!Ladder[i] : i \in {j \in DOMAIN Xup!Ladder : j < step'[e]}}
      <3>1. CASE e = d
        BY <1>6, <3>1
      <3>2. CASE e # d
        <4>1. step'[e] = step[e] /\ kept'[e] = kept[e]
          BY <1>3, <3>2
        <4>2. kept[e] = {Xup!Ladder[i] : i \in {j \in DOMAIN Xup!Ladder : j < step[e]}}
          BY DEF XupInv, KeptSoFar
        <4> QED BY <4>1, <4>2
      <3> QED BY <3>1, <3>2
    <2> QED BY <2>1 DEF KeptSoFar
  <1>8. FilesOpened'
    <2>1. \A p \in Openers : opened[p] # 0 =>
             meant[p] \in Devices /\ step[meant[p]] = 5 /\ opened[p] = slot[meant[p]]
      BY DEF XupInv, FilesOpened, Xup!Bound
    <2>2. \A p \in Openers : opened[p] # 0 => step'[meant[p]] = 5
      BY <1>3, <2>1
    <2> QED BY <1>1, <2>1, <2>2 DEF XupInv, FilesOpened, Xup!Bound
  <1> QED BY <1>4, <1>5, <1>7, <1>8 DEF XupInv

LEMMA XupRemove ==
    ASSUME XupInv, NEW d \in Devices, Xup!bsemu_remove(d)
    PROVE  XupInv'
  <1>1. /\ step[d] = 5 /\ \A p \in Openers : opened[p] # slot[d]
        /\ kept' = [kept EXCEPT ![d] = {}] /\ pdev' = [pdev EXCEPT ![slot[d]] = Free]
        /\ step' = [step EXCEPT ![d] = 0]
        /\ last' = last /\ locked' = locked /\ slot' = slot
        /\ opened' = opened /\ meant' = meant /\ told' = told
    BY DEF Xup!bsemu_remove, Xup!fileVars, Xup!Bound
  <1>2. /\ step \in [Devices -> 0 .. 5] /\ kept \in [Devices -> SUBSET Xup!AllKept]
        /\ pdev \in [1 .. NumSlots -> Devices \cup {Free}]
        /\ last \in 0 .. NumSlots /\ NumSlots \in Nat
        /\ \A e \in Devices : step[e] # 0 => slot[e] \in 1 .. last /\ pdev[slot[e]] = e
    BY DriversAssumption DEF XupInv, Xup!TypeOK, SlotsOwned
  <1>3. /\ step' \in [Devices -> 0 .. 5] /\ kept' \in [Devices -> SUBSET Xup!AllKept]
        /\ pdev' \in [1 .. NumSlots -> Devices \cup {Free}]
        /\ step'[d] = 0 /\ kept'[d] = {}
        /\ \A e \in Devices : e # d => step'[e] = step[e] /\ kept'[e] = kept[e]
        /\ \A j \in 1 .. NumSlots : j # slot[d] => pdev'[j] = pdev[j]
    BY <1>1, <1>2
  <1>4. Xup!TypeOK'
    BY <1>1, <1>3 DEF XupInv, Xup!TypeOK
  <1>5. SlotsOwned'
    <2>1. ASSUME NEW e \in Devices, step'[e] # 0
          PROVE  slot[e] \in 1 .. last /\ pdev'[slot[e]] = e
      <3>1. e # d /\ step[e] # 0
        BY <1>3, <2>1
      <3>2. slot[e] \in 1 .. last /\ pdev[slot[e]] = e /\ pdev[slot[d]] = d
        BY <1>1, <1>2, <3>1
      <3>3. slot[e] # slot[d] /\ slot[e] \in 1 .. NumSlots
        BY <1>2, <3>1, <3>2
      <3> QED BY <1>3, <3>2, <3>3
    <2> QED BY <1>1, <2>1 DEF SlotsOwned
  <1>6. KeptSoFar'
    <2>1. ASSUME NEW e \in Devices
          PROVE  kept'[e] = {Xup!Ladder[i] : i \in {j \in DOMAIN Xup!Ladder : j < step'[e]}}
      <3>1. CASE e = d
        <4>1. {j \in DOMAIN Xup!Ladder : j < step'[d]} = {}
          BY <1>3, XupLadder
        <4> QED BY <1>3, <3>1, <4>1
      <3>2. CASE e # d
        <4>1. step'[e] = step[e] /\ kept'[e] = kept[e]
          BY <1>3, <3>2
        <4>2. kept[e] = {Xup!Ladder[i] : i \in {j \in DOMAIN Xup!Ladder : j < step[e]}}
          BY DEF XupInv, KeptSoFar
        <4> QED BY <4>1, <4>2
      <3> QED BY <3>1, <3>2
    <2> QED BY <2>1 DEF KeptSoFar
  <1>7. FilesOpened'
    <2>1. ASSUME NEW p \in Openers, opened[p] # 0
          PROVE  /\ meant[p] \in Devices /\ opened[p] = slot[meant[p]]
                 /\ step'[meant[p]] = 5
      <3>1. meant[p] \in Devices /\ step[meant[p]] = 5 /\ opened[p] = slot[meant[p]]
        BY <2>1 DEF XupInv, FilesOpened, Xup!Bound
      <3>2. meant[p] # d
        BY <1>1, <3>1
      <3> QED BY <1>3, <3>1, <3>2
    <2> QED BY <1>1, <2>1 DEF XupInv, FilesOpened, Xup!Bound
  <1> QED BY <1>4, <1>5, <1>6, <1>7 DEF XupInv

LEMMA XupFileSteps ==
    ASSUME XupInv, NEW p \in Openers,
           (\E d \in Devices : Xup!bsemu_open(p, d)) \/ Xup!bsemu_ioctl(p) \/ Xup!bsemu_close(p)
    PROVE  XupInv'
  <1>1. /\ pdev' = pdev /\ last' = last /\ locked' = locked /\ slot' = slot /\ step' = step
        /\ kept' = kept
    BY DEF Xup!bsemu_open, Xup!bsemu_ioctl, Xup!bsemu_close
  <1>2. /\ opened \in [Openers -> 0 .. NumSlots]
        /\ meant \in [Openers -> Devices \cup {Free}] /\ told \in [Openers -> Devices \cup {Free}]
        /\ slot \in [Devices -> 0 .. NumSlots] /\ 0 \in 0 .. NumSlots
    BY DriversAssumption DEF XupInv, Xup!TypeOK
  <1>3. SlotsOwned' /\ KeptSoFar'
    BY <1>1 DEF XupInv, SlotsOwned, KeptSoFar
  <1>4. ASSUME NEW o \in 0 .. NumSlots, NEW m \in Devices \cup {Free},
               NEW t \in Devices \cup {Free}, t \in {Free, m},
               o = 0 => m = Free, o # 0 => m \in Devices /\ Xup!Bound(m) /\ o = slot[m],
               opened' = [opened EXCEPT ![p] = o], meant' = [meant EXCEPT ![p] = m],
               told' = [told EXCEPT ![p] = t]
        PROVE  XupInv'
    <2>1. /\ opened' \in [Openers -> 0 .. NumSlots]
          /\ meant' \in [Openers -> Devices \cup {Free}]
          /\ told' \in [Openers -> Devices \cup {Free}]
      BY <1>2, <1>4
    <2>2. Xup!TypeOK'
      BY <1>1, <2>1 DEF XupInv, Xup!TypeOK
    <2>3. /\ opened'[p] = o /\ meant'[p] = m /\ told'[p] = t
          /\ \A q \in Openers : q # p => /\ opened'[q] = opened[q] /\ meant'[q] = meant[q]
                                         /\ told'[q] = told[q]
      BY <1>2, <1>4
    <2>4. FilesOpened'
      <3>1. ASSUME NEW q \in Openers
            PROVE  /\ opened'[q] = 0 => meant'[q] = Free
                   /\ opened'[q] # 0 => /\ meant'[q] \in Devices /\ step[meant'[q]] = 5
                                        /\ opened'[q] = slot[meant'[q]]
                   /\ told'[q] \in {Free, meant'[q]}
        BY <1>4, <2>3 DEF XupInv, FilesOpened, Xup!Bound
      <3> QED BY <1>1, <3>1 DEF FilesOpened, Xup!Bound
    <2> QED BY <1>3, <2>2, <2>4 DEF XupInv
  <1>5. /\ opened[p] = 0 => meant[p] = Free
        /\ opened[p] # 0 => /\ meant[p] \in Devices /\ Xup!Bound(meant[p])
                            /\ opened[p] = slot[meant[p]]
        /\ told[p] \in {Free, meant[p]}
    BY DEF XupInv, FilesOpened
  <1>6. /\ opened = [opened EXCEPT ![p] = opened[p]] /\ meant = [meant EXCEPT ![p] = meant[p]]
        /\ told = [told EXCEPT ![p] = told[p]]
    BY <1>2
  <1>7. ASSUME NEW d \in Devices, Xup!bsemu_open(p, d)
        PROVE  XupInv'
    <2>1. /\ Xup!Bound(d) /\ opened[p] = 0 /\ opened' = [opened EXCEPT ![p] = slot[d]]
          /\ meant' = [meant EXCEPT ![p] = d] /\ told' = told
      BY <1>7 DEF Xup!bsemu_open
    <2>2. slot[d] \in 0 .. NumSlots /\ slot[d] # 0
      <3>1. slot[d] \in 1 .. last /\ last \in 0 .. NumSlots
        BY <2>1 DEF XupInv, SlotsOwned, Xup!Bound, Xup!TypeOK
      <3> QED BY <1>2, <3>1
    <2>3. told[p] \in {Free, d} /\ told[p] \in Devices \cup {Free}
      BY <1>5, <2>1
    <2> QED BY <1>4, <1>6, <2>1, <2>2, <2>3
  <1>8. CASE Xup!bsemu_ioctl(p)
    <2>1. /\ opened[p] # 0 /\ told' = [told EXCEPT ![p] = pdev[opened[p]]]
          /\ opened' = opened /\ meant' = meant
      BY <1>8 DEF Xup!bsemu_ioctl
    <2>2. pdev[opened[p]] = meant[p]
      <3>1. meant[p] \in Devices /\ step[meant[p]] = 5 /\ opened[p] = slot[meant[p]]
        BY <1>5, <2>1 DEF Xup!Bound
      <3>2. pdev[slot[meant[p]]] = meant[p]
        BY <3>1 DEF XupInv, SlotsOwned
      <3> QED BY <3>1, <3>2
    <2>3. /\ opened[p] \in 0 .. NumSlots /\ meant[p] \in Devices \cup {Free}
      BY <1>2
    <2>4. /\ opened' = [opened EXCEPT ![p] = opened[p]] /\ meant' = [meant EXCEPT ![p] = meant[p]]
          /\ told' = [told EXCEPT ![p] = meant[p]]
      BY <1>6, <2>1, <2>2
    <2> QED BY <1>4, <1>5, <2>3, <2>4
  <1>9. CASE Xup!bsemu_close(p)
    <2>1. /\ opened' = [opened EXCEPT ![p] = 0] /\ meant' = [meant EXCEPT ![p] = Free]
          /\ told' = [told EXCEPT ![p] = Free]
      BY <1>9 DEF Xup!bsemu_close
    <2> QED BY <1>2, <1>4, <2>1
  <1> QED BY <1>7, <1>8, <1>9

LEMMA XupStep == XupInv /\ [Xup!Next]_xupPart => XupInv'
  <1> SUFFICES ASSUME XupInv, [Xup!Next]_xupPart
               PROVE  XupInv'
    OBVIOUS
  <1>1. CASE UNCHANGED xupPart
    BY <1>1 DEF xupPart, XupInv, Xup!TypeOK, SlotsOwned, KeptSoFar, FilesOpened, Xup!Bound
  <1>2. ASSUME NEW d \in Devices, Xup!GetDevice(d)
        PROVE  XupInv'
    BY <1>2, XupGetDevice
  <1>3. ASSUME NEW d \in Devices, Xup!GetDeviceFull(d)
        PROVE  XupInv'
    <2>1. /\ locked' = TRUE /\ pdev' = pdev /\ last' = last /\ slot' = slot /\ step' = step
          /\ kept' = kept /\ opened' = opened /\ meant' = meant /\ told' = told
      BY <1>3 DEF Xup!GetDeviceFull, Xup!fileVars
    <2> QED BY <2>1 DEF XupInv, Xup!TypeOK, SlotsOwned, KeptSoFar, FilesOpened, Xup!Bound
  <1>4. ASSUME NEW d \in Devices, Xup!ProbeStep(d) \/ Xup!ProbeFails(d)
        PROVE  XupInv'
    BY <1>4, XupProbeSteps
  <1>5. ASSUME NEW d \in Devices, Xup!bsemu_remove(d)
        PROVE  XupInv'
    BY <1>5, XupRemove
  <1>6. ASSUME NEW p \in Openers,
               \/ \E d \in Devices : Xup!bsemu_open(p, d)
               \/ Xup!bsemu_ioctl(p) \/ Xup!bsemu_close(p)
        PROVE  XupInv'
    BY <1>6, XupFileSteps
  <1> QED BY <1>1, <1>2, <1>3, <1>4, <1>5, <1>6 DEF Xup!Next

\* Between probes a device is held completely or not at all, and a minor number
\* leads to its device.
LEMMA XupCorrect == XupInv => Xup!AllOrNothing /\ Xup!MinorsDistinct
  <1> SUFFICES ASSUME XupInv
               PROVE  Xup!AllOrNothing /\ Xup!MinorsDistinct
    OBVIOUS
  <1>1. ASSUME NEW d \in Devices, step[d] \in {0, 5}
        PROVE  kept[d] = IF Xup!Bound(d) THEN Xup!AllKept ELSE {}
    <2>1. kept[d] = {Xup!Ladder[i] : i \in {j \in DOMAIN Xup!Ladder : j < step[d]}}
      BY DEF XupInv, KeptSoFar
    <2>2. CASE step[d] = 5
      <3>1. {j \in DOMAIN Xup!Ladder : j < step[d]} = 1 .. 4
        BY <2>2, XupLadder
      <3> QED BY <2>1, <2>2, <3>1, XupLadder DEF Xup!Bound
    <2>3. CASE step[d] = 0
      <3>1. {j \in DOMAIN Xup!Ladder : j < step[d]} = {}
        BY <2>3, XupLadder
      <3> QED BY <2>1, <2>3, <3>1 DEF Xup!Bound
    <2> QED BY <1>1, <2>2, <2>3
  <1>2. Xup!MinorsDistinct
    BY DEF XupInv, SlotsOwned, FilesOpened, Xup!MinorsDistinct, Xup!Bound
  <1> QED BY <1>1, <1>2 DEF Xup!AllOrNothing

-----------------------------------------------------------------------------
(* The files of a BlueNoC board keep their invariant.                          *)

\* What a process does, by where it is.
LEMMA ActivityShapes ==
    ASSUME NEW a \in Files!Activities
    PROVE  /\ a.pc \in {"closed", "open", "queue", "flags", "asleep", "call", "sent"}
           /\ a.pc = "closed" => a = Files!Closed
           /\ a.pc \in {"queue", "flags", "asleep"} =>
                 /\ a.want \in Files!Dirs
                 /\ \A s \in {"flags", "asleep"} :
                       /\ [a EXCEPT !.pc = s] \in Files!Activities
                       /\ [a EXCEPT !.pc = s].pc = s /\ [a EXCEPT !.pc = s].want = a.want
           /\ a.pc \in {"call", "sent"} =>
                 /\ a.want \in Files!Dirs /\ a.timed \in BOOLEAN
                 /\ [a EXCEPT !.pc = "sent"] \in Files!Activities
                 /\ [a EXCEPT !.pc = "sent"].pc = "sent" /\ [a EXCEPT !.pc = "sent"].timed = a.timed
  <1>1. CASE a \in {Files!Closed, Files!Opened}
    BY <1>1 DEF Files!Closed, Files!Opened
  <1>2. ASSUME NEW s \in {"queue", "flags", "asleep"}, NEW d \in Files!Dirs, a = Files!Polls(s, d)
        PROVE  /\ a.pc = s /\ a.want = d
               /\ \A t \in {"flags", "asleep"} : [a EXCEPT !.pc = t] = Files!Polls(t, d)
    BY <1>2 DEF Files!Polls
  <1>3. ASSUME NEW s \in {"call", "sent"}, NEW d \in Files!Dirs, NEW t \in BOOLEAN,
               a = Files!InCall(s, d, t)
        PROVE  /\ a.pc = s /\ a.want = d /\ a.timed = t
               /\ [a EXCEPT !.pc = "sent"] = Files!InCall("sent", d, t)
    BY <1>3 DEF Files!InCall
  <1>4. ASSUME NEW s \in {"queue", "flags", "asleep"}, NEW d \in Files!Dirs, a = Files!Polls(s, d)
        PROVE  /\ a.pc = s /\ a.want = d
               /\ \A t \in {"flags", "asleep"} : /\ [a EXCEPT !.pc = t] \in Files!Activities
                                               /\ [a EXCEPT !.pc = t].pc = t
                                               /\ [a EXCEPT !.pc = t].want = a.want
    <2>1. \A t \in {"flags", "asleep"} : Files!Polls(t, d) \in Files!Activities
      BY DEF Files!Activities
    <2>2. \A t : Files!Polls(t, d).pc = t /\ Files!Polls(t, d).want = d
      BY DEF Files!Polls
    <2> QED BY <1>2, <1>4, <2>1, <2>2
  <1>5. ASSUME NEW s \in {"call", "sent"}, NEW d \in Files!Dirs, NEW t \in BOOLEAN,
               a = Files!InCall(s, d, t)
        PROVE  /\ a.pc = s /\ a.want = d /\ a.timed = t
               /\ [a EXCEPT !.pc = "sent"] \in Files!Activities
               /\ [a EXCEPT !.pc = "sent"].pc = "sent" /\ [a EXCEPT !.pc = "sent"].timed = a.timed
    <2>1. Files!InCall("sent", d, t) \in Files!Activities
      BY DEF Files!Activities
    <2>2. Files!InCall("sent", d, t).pc = "sent" /\ Files!InCall("sent", d, t).timed = t
      BY DEF Files!InCall
    <2> QED BY <1>3, <1>5, <2>1, <2>2
  <1>6. \/ a \in {Files!Closed, Files!Opened}
        \/ \E s \in {"queue", "flags", "asleep"}, d \in Files!Dirs : a = Files!Polls(s, d)
        \/ \E s \in {"call", "sent"}, d \in Files!Dirs, t \in BOOLEAN : a = Files!InCall(s, d, t)
    BY DEF Files!Activities
  <1>7. CASE \E s \in {"queue", "flags", "asleep"}, d \in Files!Dirs : a = Files!Polls(s, d)
    BY <1>4, <1>7
  <1>8. CASE \E s \in {"call", "sent"}, d \in Files!Dirs, t \in BOOLEAN : a = Files!InCall(s, d, t)
    BY <1>5, <1>8
  <1> QED BY <1>1, <1>6, <1>7, <1>8

LEMMA FilesInit == Files!Init => FilesInv
  <1> SUFFICES ASSUME Files!Init
               PROVE  FilesInv
    OBVIOUS
  <1>1. Files!Closed \in Files!Activities /\ Files!Closed.pc = "closed"
    BY DEF Files!Activities, Files!Closed
  <1>2. FilesTyped
    BY <1>1 DEF Files!Init, FilesTyped
  <1>3. Announced /\ NobodyInside /\ CallsTimed /\ Files!TimesMeasured
    BY DEF Files!Init, Announced, NobodyInside, CallsTimed, Files!TimesMeasured
  <1>4. SleepersKnown
    BY DEF Files!Init, SleepersKnown
  <1> QED BY <1>2, <1>3, <1>4 DEF FilesInv

\* Processes that come and go, wait and wake up: the board, the flags and the
\* profile stay as they are.
LEMMA FilesPolling ==
    ASSUME FilesInv, NEW p \in Procs,
           active' = active, plugged' = plugged, ready' = ready, ok' = ok, raised' = raised,
           handler' = handler, profile' = profile, totals' = totals, excused' = excused,
           NEW a \in Files!Activities, user' = [user EXCEPT ![p] = a],
           ~plugged => a = Files!Closed,
           a.pc \in {"call", "sent"} => a.timed = profile,
           intr_wq' \subseteq intr_wq \cup {p},
           \A q \in Procs \ {p} : q \in triggered => q \in triggered',
           a.pc = "asleep" /\ active /\ p \in intr_wq' /\ a.want \in ok => p \in triggered'
    PROVE  FilesInv'
  <1>1. /\ user' \in [Procs -> Files!Activities] /\ user'[p] = a
        /\ \A q \in Procs : q # p => user'[q] = user[q]
    BY DEF FilesInv, FilesTyped
  <1>2. FilesTyped'
    BY <1>1 DEF FilesInv, FilesTyped
  <1>3. Announced' /\ Files!TimesMeasured'
    BY DEF FilesInv, Announced, Files!TimesMeasured
  <1>4. SleepersKnown'
    <2> SUFFICES ASSUME NEW q \in Procs, active, q \in intr_wq', user'[q].pc = "asleep",
                        user'[q].want \in ok, q \notin triggered'
                 PROVE  handler
      BY DEF SleepersKnown
    <2>1. q # p
      BY <1>1
    <2>2. q \in intr_wq /\ user[q].pc = "asleep" /\ user[q].want \in ok /\ q \notin triggered
      BY <1>1, <2>1
    <2> QED BY <2>2 DEF FilesInv, SleepersKnown
  <1>5. NobodyInside'
    BY <1>1 DEF FilesInv, NobodyInside
  <1>6. CallsTimed'
    <2> SUFFICES ASSUME profile, ~excused, NEW q \in Procs, user'[q].pc \in {"call", "sent"}
                 PROVE  user'[q].timed
      BY DEF CallsTimed
    <2>1. CASE q = p
      BY <1>1, <2>1
    <2>2. CASE q # p
      BY <1>1, <2>2 DEF FilesInv, CallsTimed
    <2> QED BY <2>1, <2>2
  <1> QED BY <1>2, <1>3, <1>4, <1>5, <1>6 DEF FilesInv

LEMMA FilesUserSteps ==
    ASSUME FilesInv, NEW p \in Procs,
           \/ Files!bluenoc_open(p) \/ Files!bluenoc_release(p) \/ Files!bluenoc_poll(p)
           \/ Files!Awake(p) \/ Files!GiveUp(p) \/ Files!RegisterIoctl(p)
           \/ \E d \in Files!Dirs : Files!Select(p, d) \/ Files!CallBegins(p, d)
    PROVE  FilesInv'
  <1> DEFINE Same == /\ active' = active /\ plugged' = plugged /\ ready' = ready /\ ok' = ok
                     /\ raised' = raised /\ handler' = handler /\ profile' = profile
                     /\ totals' = totals /\ excused' = excused
  <1>1. Same
    BY DEF Files!bluenoc_open, Files!bluenoc_release, Files!bluenoc_poll, Files!Awake,
           Files!GiveUp, Files!RegisterIoctl, Files!Select, Files!CallBegins,
           Files!boardSide, Files!profiling
  <1> HIDE DEF Same
  <1>2. /\ user[p] \in Files!Activities /\ profile \in BOOLEAN
        /\ ~plugged => user[p] = Files!Closed
    BY DEF FilesInv, FilesTyped, NobodyInside
  <1>3. /\ Files!Closed \in Files!Activities /\ Files!Opened \in Files!Activities
        /\ Files!Closed.pc = "closed" /\ Files!Opened.pc = "open"
    BY DEF Files!Activities, Files!Closed, Files!Opened
  <1>4. plugged \/ user[p].pc = "closed"
    BY <1>2, <1>3
  <1>5. ASSUME NEW a \in Files!Activities, a.pc \notin {"call", "sent", "asleep"},
               user' = [user EXCEPT ![p] = a], ~plugged => a = Files!Closed,
               intr_wq' \subseteq intr_wq \cup {p},
               \A q \in Procs \ {p} : q \in triggered => q \in triggered'
        PROVE  FilesInv'
    BY <1>1, <1>5, FilesPolling DEF Same
  <1>6. CASE Files!bluenoc_open(p)
    <2>1. /\ plugged /\ user' = [user EXCEPT ![p] = Files!Opened]
          /\ intr_wq' = intr_wq /\ triggered' = triggered
      BY <1>6 DEF Files!bluenoc_open, Files!Become, Files!pollSide
    <2> QED BY <1>3, <1>5, <2>1
  <1>7. CASE Files!bluenoc_release(p) \/ Files!RegisterIoctl(p)
    <2>1. /\ user' = [user EXCEPT ![p] = Files!Closed]
          /\ intr_wq' = intr_wq /\ triggered' = triggered
      BY <1>7 DEF Files!bluenoc_release, Files!RegisterIoctl, Files!Become, Files!pollSide
    <2> QED BY <1>3, <1>5, <2>1
  <1>8. ASSUME Files!Leave(p), user[p].pc # "closed"
        PROVE  FilesInv'
    <2>1. /\ user' = [user EXCEPT ![p] = Files!Opened]
          /\ intr_wq' = intr_wq \ {p} /\ triggered' = triggered \ {p}
      BY <1>8 DEF Files!Leave, Files!Become
    <2> QED BY <1>3, <1>4, <1>5, <1>8, <2>1
  <1>9. CASE Files!GiveUp(p)
    BY <1>8, <1>9 DEF Files!GiveUp
  <1>10. CASE Files!Awake(p)
    <2>1. /\ user[p].pc = "asleep" /\ user' = [user EXCEPT ![p] = [user[p] EXCEPT !.pc = "flags"]]
          /\ intr_wq' = intr_wq /\ triggered' = triggered \ {p}
      BY <1>10 DEF Files!Awake, Files!Become
    <2>2. /\ [user[p] EXCEPT !.pc = "flags"] \in Files!Activities
          /\ [user[p] EXCEPT !.pc = "flags"].pc = "flags"
      BY <1>2, <2>1, ActivityShapes
    <2> QED BY <1>4, <1>5, <2>1, <2>2
  <1>11. CASE Files!bluenoc_poll(p)
    <2>1. CASE /\ user[p].pc = "queue" /\ intr_wq' = intr_wq \cup {p} /\ triggered' = triggered
               /\ user' = [user EXCEPT ![p] = [user[p] EXCEPT !.pc = "flags"]]
      <3>1. /\ [user[p] EXCEPT !.pc = "flags"] \in Files!Activities
            /\ [user[p] EXCEPT !.pc = "flags"].pc = "flags"
        BY <1>2, <2>1, ActivityShapes
      <3> QED BY <1>4, <1>5, <2>1, <3>1
    <2>2. CASE user[p].pc = "flags" /\ Files!Leave(p)
      BY <1>8, <2>2
    <2>3. CASE /\ user[p].pc = "flags" /\ ~(active /\ user[p].want \in ok)
               /\ intr_wq' = intr_wq /\ triggered' = triggered
               /\ user' = [user EXCEPT ![p] = [user[p] EXCEPT !.pc = "asleep"]]
      <3> DEFINE a == [user[p] EXCEPT !.pc = "asleep"]
      <3>1. a \in Files!Activities /\ a.pc = "asleep" /\ a.want = user[p].want
        BY <1>2, <2>3, ActivityShapes
      <3>2. user' = [user EXCEPT ![p] = a]
        BY <2>3
      <3> HIDE DEF a
      <3> QED BY <1>1, <1>4, <2>3, <3>1, <3>2, FilesPolling DEF Same
    <2> QED BY <1>11, <2>1, <2>2, <2>3 DEF Files!bluenoc_poll, Files!Become, Files!pollSide
  <1>12. ASSUME NEW d \in Files!Dirs, Files!Select(p, d)
         PROVE  FilesInv'
    <2>1. /\ user[p] = Files!Opened /\ intr_wq' = intr_wq /\ triggered' = triggered
          /\ user' = [user EXCEPT ![p] = Files!Polls(IF active THEN "queue" ELSE "asleep", d)]
      BY <1>12 DEF Files!Select, Files!Become, Files!pollSide
    <2>2. \A s \in {"queue", "asleep"} :
             Files!Polls(s, d) \in Files!Activities /\ Files!Polls(s, d).pc = s
      BY DEF Files!Activities, Files!Polls
    <2>3. plugged
      BY <1>3, <1>4, <2>1
    <2>4. CASE active
      BY <1>5, <2>1, <2>2, <2>3, <2>4
    <2>5. CASE ~active
      <3> DEFINE a == Files!Polls("asleep", d)
      <3>1. a \in Files!Activities /\ a.pc = "asleep" /\ user' = [user EXCEPT ![p] = a]
        BY <2>1, <2>2, <2>5
      <3> HIDE DEF a
      <3> QED BY <1>1, <2>1, <2>3, <2>5, <3>1, FilesPolling DEF Same
    <2> QED BY <2>4, <2>5
  <1>13. ASSUME NEW d \in Files!Dirs, Files!CallBegins(p, d)
         PROVE  FilesInv'
    <2> DEFINE a == Files!InCall("call", d, profile)
    <2>1. /\ user[p] = Files!Opened /\ intr_wq' = intr_wq /\ triggered' = triggered
          /\ user' = [user EXCEPT ![p] = a]
      BY <1>13 DEF Files!CallBegins, Files!Become, Files!pollSide
    <2>2. a \in Files!Activities /\ a.pc = "call" /\ a.timed = profile
      <3>1. a \in Files!Activities
        BY <1>2 DEF Files!Activities
      <3> QED BY <3>1 DEF Files!InCall
    <2>3. plugged
      BY <1>3, <1>4, <2>1
    <2> HIDE DEF a
    <2> QED BY <1>1, <2>1, <2>2, <2>3, FilesPolling DEF Same
  <1> QED BY <1>6, <1>7, <1>9, <1>10, <1>11, <1>12, <1>13

\* Transfers take flags; their ends add to the profile.
LEMMA FilesTransfers ==
    ASSUME FilesInv, NEW p \in Procs,
           Files!clear_dma_status(p) \/ \E b \in BOOLEAN : Files!CallEnds(p, b)
    PROVE  FilesInv'
  <1>1. user \in [Procs -> Files!Activities] /\ user[p] \in Files!Activities
    BY DEF FilesInv, FilesTyped
  <1>2. CASE Files!clear_dma_status(p)
    <2> DEFINE a == [user[p] EXCEPT !.pc = "sent"]
               w == user[p].want
    <2>1. /\ user[p].pc = "call" /\ user' = [user EXCEPT ![p] = a]
          /\ ready' = ready \ {w} /\ ok' = ok \ {w}
          /\ plugged' = plugged /\ active' = active /\ raised' = raised /\ handler' = handler
          /\ intr_wq' = intr_wq /\ triggered' = triggered
          /\ profile' = profile /\ totals' = totals /\ excused' = excused
      BY <1>2 DEF Files!clear_dma_status, Files!Become, Files!pollSide, Files!profiling
    <2>2. /\ a \in Files!Activities /\ a.pc = "sent" /\ a.timed = user[p].timed
      BY <1>1, <2>1, ActivityShapes
    <2> HIDE DEF a, w
    <2>3. /\ user' \in [Procs -> Files!Activities] /\ user'[p] = a
          /\ \A q \in Procs : q # p => user'[q] = user[q]
      BY <1>1, <2>1, <2>2
    <2>4. FilesTyped'
      BY <2>1, <2>3 DEF FilesInv, FilesTyped
    <2>5. Announced' /\ Files!TimesMeasured'
      BY <2>1 DEF FilesInv, Announced, Files!TimesMeasured
    <2>6. SleepersKnown'
      BY <2>1, <2>2, <2>3 DEF FilesInv, SleepersKnown
    <2>7. NobodyInside'
      <3>1. user[p] # Files!Closed
        BY <2>1 DEF Files!Closed
      <3> QED BY <2>1, <3>1 DEF FilesInv, NobodyInside
    <2>8. CallsTimed'
      <3> SUFFICES ASSUME profile, ~excused, NEW q \in Procs, user'[q].pc \in {"call", "sent"}
                   PROVE  user'[q].timed
        BY <2>1 DEF CallsTimed
      <3>1. CASE q = p
        BY <2>1, <2>2, <2>3, <3>1 DEF FilesInv, CallsTimed
      <3>2. CASE q # p
        BY <2>3, <3>2 DEF FilesInv, CallsTimed
      <3> QED BY <3>1, <3>2
    <2> QED BY <2>4, <2>5, <2>6, <2>7, <2>8 DEF FilesInv
  <1>3. ASSUME NEW b \in BOOLEAN, Files!CallEnds(p, b)
        PROVE  FilesInv'
    <2>1. /\ user[p].pc \in {"call", "sent"} /\ user' = [user EXCEPT ![p] = Files!Opened]
          /\ totals' = IF profile /\ ~(user[p].timed /\ b) THEN "garbage" ELSE totals
          /\ excused' = (excused \/ (profile /\ ~b))
          /\ plugged' = plugged /\ active' = active /\ raised' = raised /\ handler' = handler
          /\ ready' = ready /\ ok' = ok
          /\ intr_wq' = intr_wq /\ triggered' = triggered /\ profile' = profile
      BY <1>3 DEF Files!CallEnds, Files!Become, Files!pollSide, Files!boardSide
    <2>2. Files!Opened \in Files!Activities /\ Files!Opened.pc = "open"
      BY DEF Files!Activities, Files!Opened
    <2>3. /\ user' \in [Procs -> Files!Activities] /\ user'[p] = Files!Opened
          /\ \A q \in Procs : q # p => user'[q] = user[q]
      BY <1>1, <2>1, <2>2
    <2>4. FilesTyped'
      <3>1. excused' \in BOOLEAN
        BY <2>1
      <3> QED BY <2>1, <2>3, <3>1 DEF FilesInv, FilesTyped
    <2>5. Announced'
      BY <2>1 DEF FilesInv, Announced
    <2>6. SleepersKnown'
      BY <2>1, <2>2, <2>3 DEF FilesInv, SleepersKnown
    <2>7. NobodyInside'
      <3>1. user[p] # Files!Closed
        BY <2>1 DEF Files!Closed
      <3> QED BY <2>1, <3>1 DEF FilesInv, NobodyInside
    <2>8. CallsTimed'
      BY <2>1, <2>2, <2>3 DEF FilesInv, CallsTimed
    <2>9. Files!TimesMeasured'
      <3> SUFFICES ASSUME totals' = "garbage", ~excused'
                   PROVE  FALSE
        BY DEF Files!TimesMeasured
      <3>1. ~excused /\ (profile => b) /\ totals # "garbage"
        BY <2>1 DEF FilesInv, Files!TimesMeasured
      <3>2. profile /\ ~(user[p].timed /\ b)
        BY <2>1, <3>1
      <3>3. user[p].timed
        BY <2>1, <3>1, <3>2 DEF FilesInv, CallsTimed
      <3> QED BY <3>1, <3>2, <3>3
    <2> QED BY <2>4, <2>5, <2>6, <2>7, <2>8, <2>9 DEF FilesInv
  <1> QED BY <1>2, <1>3

\* The profile is switched on or off.
LEMMA FilesProfile ==
    ASSUME FilesInv, NEW p \in Procs, NEW on \in BOOLEAN, Files!SetDebugLevel(p, on)
    PROVE  FilesInv'
  <1>1. /\ profile' = on /\ totals' = (IF on THEN "measured" ELSE totals)
        /\ excused' = (IF on THEN \E q \in Procs : user[q].pc \in {"call", "sent"} ELSE excused)
        /\ plugged' = plugged /\ active' = active /\ raised' = raised /\ handler' = handler
        /\ ready' = ready /\ ok' = ok
        /\ intr_wq' = intr_wq /\ triggered' = triggered /\ user' = user
    BY DEF Files!SetDebugLevel, Files!pollSide, Files!boardSide
  <1>2. FilesTyped'
    <2>1. CASE on
      BY <1>1, <2>1 DEF FilesInv, FilesTyped
    <2>2. CASE ~on
      BY <1>1, <2>2 DEF FilesInv, FilesTyped
    <2> QED BY <2>1, <2>2
  <1>3. Announced' /\ SleepersKnown' /\ NobodyInside'
    BY <1>1 DEF FilesInv, Announced, SleepersKnown, NobodyInside
  <1>4. CallsTimed' /\ Files!TimesMeasured'
    <2>1. CASE on
      BY <1>1, <2>1 DEF CallsTimed, Files!TimesMeasured
    <2>2. CASE ~on
      BY <1>1, <2>2 DEF FilesInv, CallsTimed, Files!TimesMeasured
    <2> QED BY <2>1, <2>2
  <1> QED BY <1>2, <1>3, <1>4 DEF FilesInv

\* The board, its interrupts, its activation, and its coming and going.
LEMMA FilesBoardSteps ==
    ASSUME FilesInv,
           \/ \E d \in Files!Dirs : Files!BoardReady(d)
           \/ Files!intr_handler_update \/ Files!intr_handler_wake
           \/ \E p \in Procs : Files!Deactivate(p) \/ Files!Reactivate(p)
           \/ Files!Unplug \/ Files!Plug
    PROVE  FilesInv'
  <1>1. user' = user
    BY DEF Files!BoardReady, Files!intr_handler_update, Files!intr_handler_wake,
           Files!Deactivate, Files!Reactivate, Files!Unplug, Files!Plug
  <1> DEFINE SameProfile == profile' = profile /\ totals' = totals /\ excused' = excused
  <1>2. SameProfile => CallsTimed' /\ Files!TimesMeasured'
    BY <1>1 DEF FilesInv, CallsTimed, Files!TimesMeasured
  <1> DEFINE Booleans == /\ raised \in BOOLEAN /\ handler \in BOOLEAN /\ active \in BOOLEAN
                         /\ plugged \in BOOLEAN /\ profile \in BOOLEAN /\ excused \in BOOLEAN
  <1>3. Booleans /\ ready \subseteq Files!Dirs
    BY DEF FilesInv, FilesTyped
  <1>4. Booleans' /\ ready' \subseteq Files!Dirs => FilesTyped'
    BY <1>1 DEF FilesInv, FilesTyped
  <1> HIDE DEF SameProfile
  <1>5. ASSUME NEW d \in Files!Dirs, Files!BoardReady(d)
        PROVE  FilesInv'
    <2>1. /\ active /\ active' = active /\ ready' = ready \cup {d} /\ raised' = TRUE
          /\ plugged' = plugged /\ ok' = ok /\ handler' = handler
          /\ intr_wq' = intr_wq /\ triggered' = triggered
          /\ SameProfile /\ profile' = profile /\ excused' = excused
      BY <1>5 DEF Files!BoardReady, Files!pollSide, Files!profiling, SameProfile
    <2>2. Booleans' /\ ready' \subseteq Files!Dirs
      BY <1>3, <2>1
    <2>3. Announced' /\ SleepersKnown' /\ NobodyInside'
      BY <1>1, <2>1 DEF FilesInv, Announced, SleepersKnown, NobodyInside
    <2> QED BY <1>2, <1>4, <2>1, <2>2, <2>3 DEF FilesInv
  <1>6. CASE Files!intr_handler_update
    <2>1. /\ raised' = FALSE /\ ok' = ready /\ handler' = TRUE
          /\ plugged' = plugged /\ active' = active /\ ready' = ready
          /\ SameProfile /\ profile' = profile /\ excused' = excused
      BY <1>6 DEF Files!intr_handler_update, Files!pollSide, Files!profiling, SameProfile
    <2>2. Booleans' /\ ready' \subseteq Files!Dirs
      BY <1>3, <2>1
    <2>3. Announced' /\ SleepersKnown' /\ NobodyInside'
      BY <1>1, <2>1 DEF FilesInv, Announced, SleepersKnown, NobodyInside
    <2> QED BY <1>2, <1>4, <2>1, <2>2, <2>3 DEF FilesInv
  <1>7. CASE Files!intr_handler_wake
    <2>1. /\ handler' = FALSE /\ triggered' = triggered \cup intr_wq /\ intr_wq' = intr_wq
          /\ plugged' = plugged /\ active' = active /\ ready' = ready /\ ok' = ok
          /\ raised' = raised
          /\ SameProfile /\ profile' = profile /\ excused' = excused
      BY <1>7 DEF Files!intr_handler_wake, Files!profiling, SameProfile
    <2>2. Booleans' /\ ready' \subseteq Files!Dirs
      BY <1>3, <2>1
    <2>3. Announced' /\ SleepersKnown' /\ NobodyInside'
      BY <1>1, <2>1 DEF FilesInv, Announced, SleepersKnown, NobodyInside
    <2> QED BY <1>2, <1>4, <2>1, <2>2, <2>3 DEF FilesInv
  <1>8. ASSUME NEW p \in Procs, Files!Deactivate(p)
        PROVE  FilesInv'
    <2>1. /\ active' = FALSE /\ raised' = FALSE
          /\ plugged' = plugged /\ ready' = ready /\ ok' = ok /\ handler' = handler
          /\ intr_wq' = intr_wq /\ triggered' = triggered
          /\ SameProfile /\ profile' = profile /\ excused' = excused
      BY <1>8 DEF Files!Deactivate, Files!pollSide, Files!profiling, SameProfile
    <2>2. Booleans' /\ ready' \subseteq Files!Dirs
      BY <1>3, <2>1
    <2>3. Announced' /\ SleepersKnown' /\ NobodyInside'
      BY <1>1, <2>1 DEF FilesInv, Announced, SleepersKnown, NobodyInside
    <2> QED BY <1>2, <1>4, <2>1, <2>2, <2>3 DEF FilesInv
  <1>9. ASSUME NEW p \in Procs, Files!Reactivate(p)
        PROVE  FilesInv'
    <2>1. /\ active' = TRUE /\ intr_wq' = {} /\ ok' = ready
          /\ plugged' = plugged /\ ready' = ready /\ raised' = raised /\ handler' = handler
          /\ SameProfile /\ profile' = profile /\ excused' = excused
      BY <1>9 DEF Files!Reactivate, Files!profiling, SameProfile
    <2>2. Booleans' /\ ready' \subseteq Files!Dirs
      BY <1>3, <2>1
    <2>3. Announced' /\ SleepersKnown' /\ NobodyInside'
      BY <1>1, <2>1 DEF FilesInv, Announced, SleepersKnown, NobodyInside
    <2> QED BY <1>2, <1>4, <2>1, <2>2, <2>3 DEF FilesInv
  <1>10. CASE Files!Unplug
    <2>1. /\ \A p \in Procs : user[p] = Files!Closed
          /\ plugged' = FALSE /\ active' = FALSE /\ raised' = FALSE
          /\ ready' = ready /\ ok' = ok /\ handler' = handler
          /\ SameProfile /\ profile' = profile /\ excused' = excused
      BY <1>10 DEF Files!Unplug, Files!profiling, SameProfile
    <2>2. Booleans' /\ ready' \subseteq Files!Dirs
      BY <1>3, <2>1
    <2>3. Announced' /\ SleepersKnown' /\ NobodyInside'
      BY <1>1, <2>1 DEF Announced, SleepersKnown, NobodyInside
    <2> QED BY <1>2, <1>4, <2>1, <2>2, <2>3 DEF FilesInv
  <1>11. CASE Files!Plug
    <2>1. /\ plugged' = TRUE /\ active' = TRUE /\ ready' = {} /\ ok' = {}
          /\ profile' = FALSE /\ totals' = "measured" /\ excused' = FALSE
          /\ raised' = raised /\ handler' = handler
      BY <1>11 DEF Files!Plug
    <2>2. Booleans' /\ ready' \subseteq Files!Dirs
      BY <1>3, <2>1
    <2>3. Announced' /\ SleepersKnown' /\ NobodyInside'
      BY <2>1 DEF Announced, SleepersKnown, NobodyInside
    <2>4. CallsTimed' /\ Files!TimesMeasured'
      BY <2>1 DEF CallsTimed, Files!TimesMeasured
    <2> QED BY <1>4, <2>2, <2>3, <2>4 DEF FilesInv
  <1> QED BY <1>5, <1>6, <1>7, <1>8, <1>9, <1>10, <1>11

LEMMA FilesStep == FilesInv /\ [Files!Next]_filesPart => FilesInv'
  <1> SUFFICES ASSUME FilesInv, [Files!Next]_filesPart
               PROVE  FilesInv'
    OBVIOUS
  <1>1. CASE UNCHANGED filesPart
    BY <1>1 DEF filesPart, FilesInv, FilesTyped, Announced, SleepersKnown, NobodyInside,
                CallsTimed, Files!TimesMeasured
  <1>2. ASSUME NEW p \in Procs, Files!UserStep(p)
        PROVE  FilesInv'
    BY <1>2, FilesUserSteps, FilesTransfers, FilesProfile, FilesBoardSteps DEF Files!UserStep
  <1>3. CASE \/ \E d \in Files!Dirs : Files!BoardReady(d)
             \/ Files!intr_handler_update \/ Files!intr_handler_wake
             \/ Files!Unplug \/ Files!Plug
    BY <1>3, FilesBoardSteps
  <1> QED BY <1>1, <1>2, <1>3 DEF Files!Next

\* No sleeper is forgotten.
LEMMA FilesPollersWoken == FilesInv => Files!PollersWoken
  BY DEF FilesInv, Announced, SleepersKnown, Files!PollersWoken

-----------------------------------------------------------------------------
(* The boards of BlueNoC keep theirs.                                          *)

LEMMA Probed ==
    ASSUME NEW T, NEW s \in Seq(T), NEW d \in T, Boards!IsInjective(s), d \notin Boards!Range(s)
    PROVE  /\ <<d>> \o s \in Seq(T) /\ <<d>> \o s # <<>> /\ Head(<<d>> \o s) = d
           /\ Boards!IsInjective(<<d>> \o s)
           /\ Boards!Range(<<d>> \o s) = {d} \cup Boards!Range(s)
  <1> DEFINE q == <<d>> \o s
  <1>1. /\ q \in Seq(T) /\ Len(q) = Len(s) + 1 /\ q[1] = d
        /\ \A i \in 1 .. Len(s) : q[i + 1] = s[i]
    OBVIOUS
  <1>2. DOMAIN q = 1 .. Len(s) + 1 /\ DOMAIN s = 1 .. Len(s) /\ Len(s) \in Nat
    BY <1>1
  <1> HIDE DEF q
  <1>3. \A i \in DOMAIN q : i = 1 \/ (i - 1 \in DOMAIN s /\ q[i] = s[i - 1])
    BY <1>1, <1>2
  <1>4. \A i \in DOMAIN s : s[i] # d
    BY DEF Boards!Range
  <1>5. Boards!IsInjective(q)
    BY <1>1, <1>2, <1>3, <1>4 DEF Boards!IsInjective
  <1>6. Boards!Range(q) = {d} \cup Boards!Range(s)
    <2>1. Boards!Range(q) \subseteq {d} \cup Boards!Range(s)
      BY <1>1, <1>3 DEF Boards!Range
    <2>2. \A i \in DOMAIN s : i + 1 \in DOMAIN q /\ q[i + 1] = s[i]
      BY <1>1, <1>2
    <2>3. 1 \in DOMAIN q
      BY <1>2
    <2>4. d \in Boards!Range(q)
      BY <1>1, <2>3 DEF Boards!Range
    <2>5. Boards!Range(s) \subseteq Boards!Range(q)
      BY <2>2 DEF Boards!Range
    <2> QED BY <2>1, <2>4, <2>5
  <1>7. q # <<>> /\ Head(q) = d
    BY <1>1, <1>2
  <1> QED BY <1>1, <1>5, <1>6, <1>7 DEF q

LEMMA HeadGone ==
    ASSUME NEW T, NEW s \in Seq(T), Boards!IsInjective(s), s # <<>>
    PROVE  /\ Tail(s) \in Seq(T) /\ Boards!IsInjective(Tail(s))
           /\ Boards!Range(Tail(s)) = Boards!Range(s) \ {Head(s)}
  <1> DEFINE q == Tail(s)
  <1>1. /\ q \in Seq(T) /\ Len(q) = Len(s) - 1 /\ Len(s) \in Nat /\ Len(s) > 0
        /\ \A i \in 1 .. Len(s) - 1 : q[i] = s[i + 1]
    OBVIOUS
  <1>2. DOMAIN q = 1 .. Len(s) - 1 /\ DOMAIN s = 1 .. Len(s) /\ Head(s) = s[1]
    BY <1>1
  <1> HIDE DEF q
  <1>3. \A i \in DOMAIN q : i + 1 \in DOMAIN s /\ q[i] = s[i + 1] /\ i + 1 # 1
    BY <1>1, <1>2
  <1>4. \A i \in DOMAIN s : i = 1 \/ (i - 1 \in DOMAIN q /\ q[i - 1] = s[i])
    BY <1>1, <1>2
  <1>5. Boards!IsInjective(q)
    BY <1>1, <1>2, <1>3 DEF Boards!IsInjective
  <1>6. 1 \in DOMAIN s
    BY <1>1, <1>2
  <1>7. Boards!Range(q) = Boards!Range(s) \ {Head(s)}
    <2>1. Boards!Range(q) \subseteq Boards!Range(s) \ {Head(s)}
      BY <1>2, <1>3, <1>6 DEF Boards!Range, Boards!IsInjective
    <2>2. Boards!Range(s) \ {Head(s)} \subseteq Boards!Range(q)
      BY <1>2, <1>4 DEF Boards!Range
    <2> QED BY <2>1, <2>2
  <1> QED BY <1>1, <1>5, <1>7 DEF q

LEMMA OneGone ==
    ASSUME NEW T, NEW s \in Seq(T), Boards!IsInjective(s), NEW d \in Boards!Range(s)
    PROVE  /\ Boards!RemoveFirst(s, d) \in Seq(T) /\ Boards!IsInjective(Boards!RemoveFirst(s, d))
           /\ Boards!Range(Boards!RemoveFirst(s, d)) = Boards!Range(s) \ {d}
  <1>1. PICK k \in 1 .. Len(s) : s[k] = d
    BY DEF Boards!Range
  <1>2. \A i \in 1 .. Len(s) : s[i] = d <=> i = k
    BY <1>1 DEF Boards!IsInjective
  <1>3. {i \in 1 .. Len(s) : s[i] = d} = {k}
    BY <1>2
  <1>4. Boards!Min({k}) = k
    BY DEF Boards!Min
  <1>5. Boards!SelectInSeq(s, LAMBDA v : v = d) = k
    BY <1>3, <1>4 DEF Boards!SelectInSeq
  <1> DEFINE a == SubSeq(s, 1, k - 1)
             b == SubSeq(s, k + 1, Len(s))
             q == a \o b
  <1>6. Boards!RemoveFirst(s, d) = q
    BY <1>1, <1>5 DEF Boards!RemoveFirst, Boards!RemoveAt
  <1>7. /\ a \in Seq(T) /\ Len(a) = k - 1 /\ \A i \in 1 .. k - 1 : a[i] = s[i]
        /\ b \in Seq(T) /\ Len(b) = Len(s) - k /\ \A i \in 1 .. Len(s) - k : b[i] = s[k + i]
    <2>1. \A i \in 1 .. Len(s) : s[i] \in T
      OBVIOUS
    <2>2. a \in Seq(T) /\ Len(a) = k - 1 /\ \A i \in 1 .. k - 1 : a[i] = s[i]
      <3>1. \A i \in 1 .. k - 1 : s[i] \in T
        BY <1>1, <2>1
      <3>2. Len(a) = IF 1 <= k - 1 THEN (k - 1) - 1 + 1 ELSE 0
        BY <1>1, <3>1, SubSeqProperties
      <3> QED BY <1>1, <3>1, <3>2, SubSeqProperties
    <2>3. b \in Seq(T) /\ Len(b) = Len(s) - k /\ \A i \in 1 .. Len(s) - k : b[i] = s[k + i]
      <3>1. \A i \in k + 1 .. Len(s) : s[i] \in T
        BY <1>1, <2>1
      <3> QED BY <1>1, <3>1, SubSeqProperties
    <2> QED BY <2>2, <2>3
  <1> HIDE DEF a, b
  <1>8. /\ q \in Seq(T) /\ Len(q) = Len(s) - 1
        /\ \A i \in 1 .. Len(q) : q[i] = IF i < k THEN s[i] ELSE s[i + 1]
    <2>1. q \in Seq(T) /\ Len(q) = Len(s) - 1
      <3>1. q \in Seq(T) /\ Len(q) = Len(a) + Len(b)
        BY <1>7, ConcatProperties
      <3>2. Len(s) \in Nat /\ (k - 1) + (Len(s) - k) = Len(s) - 1
        BY <1>1
      <3> QED BY <1>7, <3>1, <3>2
    <2>2. \A i \in 1 .. Len(q) : q[i] = IF i <= Len(a) THEN a[i] ELSE b[i - Len(a)]
      BY <1>7
    <2>3. ASSUME NEW i \in 1 .. Len(q)
          PROVE  q[i] = IF i < k THEN s[i] ELSE s[i + 1]
      <3>1. CASE i < k
        BY <1>1, <1>7, <2>1, <2>2, <3>1
      <3>2. CASE ~(i < k)
        <4>1. i - (k - 1) \in 1 .. Len(s) - k /\ k + (i - (k - 1)) = i + 1
          BY <1>1, <2>1, <3>2
        <4>2. q[i] = b[i - (k - 1)]
          BY <1>1, <1>7, <2>1, <2>2, <3>2
        <4> QED BY <1>7, <3>2, <4>1, <4>2
      <3> QED BY <3>1, <3>2
    <2> QED BY <2>1, <2>3
  <1> HIDE DEF q
  <1>9. DOMAIN q = 1 .. Len(s) - 1 /\ DOMAIN s = 1 .. Len(s) /\ Len(s) \in Nat
    BY <1>8
  <1>10. Boards!IsInjective(q)
    <2> SUFFICES ASSUME NEW i \in 1 .. Len(s) - 1, NEW j \in 1 .. Len(s) - 1, q[i] = q[j]
                 PROVE  i = j
      BY <1>9 DEF Boards!IsInjective
    <2> DEFINE up(n) == IF n < k THEN n ELSE n + 1
    <2>1. up(i) \in 1 .. Len(s) /\ up(j) \in 1 .. Len(s) /\ (up(i) = up(j) => i = j)
      BY <1>1, <1>9
    <2>2. s[up(i)] = s[up(j)]
      BY <1>8, <1>9
    <2> HIDE DEF up
    <2> QED BY <1>9, <2>1, <2>2 DEF Boards!IsInjective
  <1>11. Boards!Range(q) = Boards!Range(s) \ {d}
    <2>1. ASSUME NEW i \in 1 .. Len(s) - 1
          PROVE  q[i] \in Boards!Range(s) \ {d}
      <3>1. \E j \in 1 .. Len(s) : q[i] = s[j] /\ j # k
        BY <1>1, <1>8, <1>9
      <3> QED BY <1>2, <1>9, <3>1 DEF Boards!Range
    <2>2. ASSUME NEW j \in 1 .. Len(s), s[j] # d
          PROVE  s[j] \in Boards!Range(q)
      <3>1. j # k
        BY <1>1, <2>2
      <3>2. \E i \in 1 .. Len(s) - 1 : q[i] = s[j]
        <4>1. CASE j < k
          BY <1>1, <1>8, <1>9, <4>1
        <4>2. CASE k < j
          <5>1. j - 1 \in 1 .. Len(s) - 1 /\ ~(j - 1 < k) /\ (j - 1) + 1 = j
            BY <1>1, <1>9, <4>2
          <5> QED BY <1>8, <1>9, <5>1
        <4> QED BY <1>1, <3>1, <4>1, <4>2
      <3> QED BY <1>9, <3>2 DEF Boards!Range
    <2> QED BY <1>9, <2>1, <2>2 DEF Boards!Range
  <1> QED BY <1>6, <1>8, <1>10, <1>11

\* The resources of a level: none up to BOARD_NUM_ASSIGNED, then one more at a time.
LEMMA Ladder ==
    /\ \A l \in 0 .. 1, x \in BOOLEAN : Boards!ResourcesAt(l, x) = {}
    /\ \A l \in 1 .. 10, x \in BOOLEAN :
          Boards!ResourcesAt(l + 1, x) = Boards!ResourcesAt(l, x) \cup
              (IF l + 1 \in DOMAIN Boards!Acquired /\ (l + 1 = 9 => x)
               THEN {Boards!Acquired[l + 1]} ELSE {})
    /\ \A l \in 0 .. 7, x, y \in BOOLEAN : Boards!ResourcesAt(l, x) = Boards!ResourcesAt(l, y)
  <1>1. DOMAIN Boards!Acquired = {2, 3, 4, 7, 8, 9, 10, 11}
    BY DEF Boards!Acquired
  <1> DEFINE D == DOMAIN Boards!Acquired
             Lv(l, x) == {j \in D : j <= l /\ (j = 9 => x)}
  <1>2. \A l, x : Boards!ResourcesAt(l, x) = {Boards!Acquired[k] : k \in Lv(l, x)}
    BY DEF Boards!ResourcesAt
  <1>3. \A l \in 0 .. 1, x \in BOOLEAN : Lv(l, x) = {}
    BY <1>1
  <1>4. \A l \in 1 .. 10, x \in BOOLEAN :
           Lv(l + 1, x) = Lv(l, x) \cup (IF l + 1 \in D /\ (l + 1 = 9 => x) THEN {l + 1} ELSE {})
    <2>1. \A j \in D, l \in 1 .. 10 : j <= l + 1 <=> j <= l \/ j = l + 1
      BY <1>1
    <2> QED BY <2>1
  <1>5. \A l \in 0 .. 7, x, y \in BOOLEAN : Lv(l, x) = Lv(l, y)
    BY <1>1
  <1> HIDE DEF D, Lv
  <1>6. ASSUME NEW l \in 1 .. 10, NEW x \in BOOLEAN
        PROVE  Boards!ResourcesAt(l + 1, x) = Boards!ResourcesAt(l, x) \cup
                   (IF l + 1 \in D /\ (l + 1 = 9 => x) THEN {Boards!Acquired[l + 1]} ELSE {})
    <2>1. CASE l + 1 \in D /\ (l + 1 = 9 => x)
      <3>1. Lv(l + 1, x) = Lv(l, x) \cup {l + 1}
        BY <1>4, <2>1
      <3> QED BY <1>2, <2>1, <3>1
    <2>2. CASE ~(l + 1 \in D /\ (l + 1 = 9 => x))
      <3>1. Lv(l + 1, x) = Lv(l, x)
        BY <1>4, <2>2
      <3> QED BY <1>2, <2>2, <3>1
    <2> QED BY <2>1, <2>2
  <1>7. \A l \in 0 .. 1, x \in BOOLEAN : Boards!ResourcesAt(l, x) = {}
    BY <1>2, <1>3
  <1>8. \A l \in 0 .. 7, x, y \in BOOLEAN : Boards!ResourcesAt(l, x) = Boards!ResourcesAt(l, y)
    BY <1>2, <1>5
  <1> QED BY <1>6, <1>7, <1>8 DEF D

\* Everything that a board can hold.
AllResources == {Boards!Acquired[k] : k \in DOMAIN Boards!Acquired}

\* The types of the boards, without the arithmetic of the levels.
LEMMA BoardTypes ==
    ASSUME BoardsInv
    PROVE  /\ board_list \in Seq(Devices) /\ Boards!IsInjective(board_list)
           /\ Boards!Listed = Boards!Range(board_list) /\ Boards!Listed \subseteq Devices
           /\ level \in [Devices -> 0 .. 11] /\ number \in [Devices -> 0 .. NumBoards]
           /\ msix \in [Devices -> BOOLEAN] /\ held \in [Devices -> SUBSET AllResources]
           /\ op \in Boards!Operations
           /\ DOMAIN nodes \subseteq 1 .. NumBoards /\ \A n \in DOMAIN nodes : nodes[n] \in Devices
           /\ class \in BOOLEAN
  <1>1. Boards!Range(board_list) \subseteq Devices
    BY DEF BoardsInv, Boards!TypeOK, Boards!Range
  <1> QED BY <1>1 DEF BoardsInv, Boards!TypeOK, Boards!Listed, AllResources, Boards!PROBED,
                     Boards!BLUENOC_ACTIVE

\* The types after a step, likewise.
LEMMA BoardTypesNext ==
    ASSUME board_list' \in Seq(Devices), Boards!IsInjective(board_list'),
           level' \in [Devices -> 0 .. 11], number' \in [Devices -> 0 .. NumBoards],
           msix' \in [Devices -> BOOLEAN], held' \in [Devices -> SUBSET AllResources],
           op' \in Boards!Operations, DOMAIN nodes' \subseteq 1 .. NumBoards,
           \A n \in DOMAIN nodes' : nodes'[n] \in Devices, class' \in BOOLEAN
    PROVE  Boards!TypeOK'
  BY DEF Boards!TypeOK, AllResources, Boards!PROBED, Boards!BLUENOC_ACTIVE

LEMMA BoardsInit == Boards!Init => BoardsInv
  <1> SUFFICES ASSUME Boards!Init
               PROVE  BoardsInv
    OBVIOUS
  <1>1. /\ board_list = <<>> /\ level = [d \in Devices |-> 0] /\ number = [d \in Devices |-> 0]
        /\ msix = [d \in Devices |-> FALSE] /\ held = [d \in Devices |-> {}]
        /\ nodes = <<>> /\ class = FALSE /\ op = Boards!None
    BY DEF Boards!Init, Boards!PROBED
  <1>2. DOMAIN board_list = {} /\ DOMAIN nodes = {} /\ board_list \in Seq(Devices)
    BY <1>1
  <1>3. Boards!Listed = {} /\ Boards!IsInjective(board_list)
    BY <1>2 DEF Boards!Listed, Boards!Range, Boards!IsInjective
  <1>4. Boards!TypeOK
    <2>1. /\ level \in [Devices -> 0 .. 11] /\ number \in [Devices -> 0 .. NumBoards]
          /\ msix \in [Devices -> BOOLEAN]
      BY <1>1, DriversAssumption
    <2>2. held \in [Devices -> SUBSET AllResources]
      BY <1>1
    <2> QED BY <1>1, <1>2, <1>3, <2>1, <2>2
            DEF Boards!TypeOK, AllResources, Boards!PROBED, Boards!BLUENOC_ACTIVE, Boards!Operations
  <1>5. Boards!ResourcesMatchLevel
    BY <1>1, <1>3 DEF Boards!ResourcesMatchLevel
  <1>6. Numbered /\ NodesListed /\ OpListed /\ Settled
    BY <1>1, <1>2, <1>3 DEF Numbered, NodesListed, OpListed, Settled
  <1> QED BY <1>4, <1>5, <1>6 DEF BoardsInv

\* A new board is at the head of the list, without a number.
LEMMA BoardProbed ==
    ASSUME BoardsInv, NEW d \in Devices, Boards!bluenoc_probe(d)
    PROVE  BoardsInv'
  <1>1. /\ op = Boards!None /\ d \notin Boards!Listed
        /\ class' = TRUE /\ board_list' = <<d>> \o board_list
        /\ level' = [level EXCEPT ![d] = 0]
        /\ op' = [kind |-> "probe", dev |-> d]
        /\ number' = number /\ msix' = msix /\ held' = held /\ nodes' = nodes
    BY DEF Boards!bluenoc_probe, Boards!PROBED
  <1>2. /\ board_list' \in Seq(Devices) /\ Boards!IsInjective(board_list')
        /\ board_list' # <<>> /\ Head(board_list') = d
        /\ Boards!Listed' = Boards!Listed \cup {d}
    <2>1. d \notin Boards!Range(board_list)
      BY <1>1 DEF Boards!Listed
    <2> QED BY <1>1, <2>1, BoardTypes, Probed DEF Boards!Listed
  <1>3. level'[d] = 0 /\ \A b \in Devices : b # d => level'[b] = level[b]
    BY <1>1, BoardTypes
  <1>4. op'.kind = "probe" /\ op'.dev = d /\ op' \in Boards!Operations /\ op' # Boards!None
    BY <1>1 DEF Boards!Operations, Boards!None
  <1>5. Boards!TypeOK'
    <2>1. level' \in [Devices -> 0 .. 11]
      BY <1>1, BoardTypes
    <2> QED BY <1>1, <1>2, <1>4, <2>1, BoardTypes, BoardTypesNext
  <1>6. Boards!ResourcesMatchLevel'
    <2>1. held[d] = {} /\ Boards!ResourcesAt(0, msix[d]) = {}
      BY <1>1, Ladder, BoardTypes DEF BoardsInv, Boards!ResourcesMatchLevel
    <2> QED BY <1>1, <1>2, <1>3, <2>1, BoardTypes DEF BoardsInv, Boards!ResourcesMatchLevel
  <1>7. number[d] = 0
    BY <1>1 DEF BoardsInv, Numbered
  <1>8. Numbered'
    <2>1. ASSUME NEW b \in Devices
          PROVE  number'[b] = 0 <=> ~(b \in Boards!Listed' /\ level'[b] # 0)
      BY <1>1, <1>2, <1>3, <1>7 DEF BoardsInv, Numbered
    <2>2. ASSUME NEW b \in Boards!Listed', NEW c \in Boards!Listed', b # c, number'[b] # 0
          PROVE  number'[b] # number'[c]
      BY <1>1, <1>2, <1>7, <2>2 DEF BoardsInv, Numbered
    <2> QED BY <2>1, <2>2 DEF Numbered
  <1>9. NodesListed' /\ OpListed'
    BY <1>1, <1>2, <1>4 DEF BoardsInv, NodesListed, OpListed
  <1>10. Settled'
    BY <1>1, <1>2, <1>3, <1>4, BoardTypes DEF BoardsInv, Settled
  <1> QED BY <1>5, <1>6, <1>8, <1>9, <1>10 DEF BoardsInv

\* The board of an activation.
LEMMA OperatedBoard ==
    ASSUME BoardsInv, op # Boards!None
    PROVE  /\ op.dev \in Devices /\ op.dev \in Boards!Listed
           /\ op.kind \in {"probe", "ioctl"}
  BY BoardTypes DEF BoardsInv, OpListed, Boards!Operations, Boards!None

\* A number that no listed board has.
LEMMA NumberAssigned ==
    ASSUME BoardsInv, Boards!AssignNumber
    PROVE  BoardsInv'
  <1>1. PICK d \in Devices : d = op.dev /\ d \in Boards!Listed
    BY OperatedBoard DEF Boards!AssignNumber
  <1> DEFINE n == CHOOSE n \in Boards!FreeNumbers : \A m \in Boards!FreeNumbers : n <= m
  <1>2. /\ op # Boards!None /\ level[d] = 0 /\ Boards!FreeNumbers # {}
        /\ number' = [number EXCEPT ![d] = n] /\ level' = [level EXCEPT ![d] = 1]
        /\ board_list' = board_list /\ msix' = msix /\ held' = held /\ nodes' = nodes
        /\ class' = class /\ op' = op
    BY <1>1 DEF Boards!AssignNumber, Boards!PROBED, Boards!BOARD_NUM_ASSIGNED
  <1>3. n \in 1 .. NumBoards /\ \A b \in Boards!Listed : number[b] # n
    <2>1. Boards!FreeNumbers \subseteq Nat
      BY DEF Boards!FreeNumbers
    <2>2. n \in Boards!FreeNumbers
      BY <1>2, <2>1, LeastExists
    <2> HIDE DEF n
    <2> QED BY <2>2 DEF Boards!FreeNumbers
  <1> HIDE DEF n
  <1>4. /\ number'[d] = n /\ level'[d] = 1
        /\ \A b \in Devices : b # d => level'[b] = level[b] /\ number'[b] = number[b]
        /\ Boards!Listed' = Boards!Listed
    BY <1>2, BoardTypes DEF Boards!Listed
  <1>5. Boards!TypeOK'
    <2>1. level' \in [Devices -> 0 .. 11] /\ number' \in [Devices -> 0 .. NumBoards]
      BY <1>2, <1>3, BoardTypes
    <2> QED BY <1>2, <2>1, BoardTypes, BoardTypesNext
  <1>6. Boards!ResourcesMatchLevel'
    <2>1. Boards!ResourcesAt(0, msix[d]) = {} /\ Boards!ResourcesAt(1, msix[d]) = {}
      BY Ladder, BoardTypes
    <2>2. held[d] = Boards!ResourcesAt(0, msix[d])
      BY <1>1, <1>2 DEF BoardsInv, Boards!ResourcesMatchLevel
    <2>3. held'[d] = Boards!ResourcesAt(level'[d], msix'[d])
      BY <1>2, <1>4, <2>1, <2>2
    <2>4. ASSUME NEW b \in Boards!Listed, b # d
          PROVE  held'[b] = Boards!ResourcesAt(level'[b], msix'[b])
      BY <1>2, <1>4, <2>4, BoardTypes DEF BoardsInv, Boards!ResourcesMatchLevel
    <2>5. ASSUME NEW b \in Devices \ Boards!Listed
          PROVE  held'[b] = {}
      BY <1>2 DEF BoardsInv, Boards!ResourcesMatchLevel
    <2> QED BY <1>4, <2>3, <2>4, <2>5 DEF Boards!ResourcesMatchLevel
  <1>7. n # 0 /\ number[d] = 0
    BY <1>2, <1>3 DEF BoardsInv, Numbered
  <1>8. Numbered'
    <2>1. ASSUME NEW b \in Devices
          PROVE  number'[b] = 0 <=> ~(b \in Boards!Listed' /\ level'[b] # 0)
      BY <1>1, <1>4, <1>7 DEF BoardsInv, Numbered
    <2>2. ASSUME NEW b \in Boards!Listed', NEW c \in Boards!Listed', b # c, number'[b] # 0
          PROVE  number'[b] # number'[c]
      <3>1. b \in Boards!Listed /\ c \in Boards!Listed /\ b \in Devices /\ c \in Devices
        BY <1>4, BoardTypes
      <3>2. CASE b = d
        BY <1>3, <1>4, <2>2, <3>1, <3>2
      <3>3. CASE c = d
        BY <1>3, <1>4, <2>2, <3>1, <3>3
      <3>4. CASE b # d /\ c # d
        BY <1>4, <2>2, <3>1, <3>4 DEF BoardsInv, Numbered
      <3> QED BY <3>2, <3>3, <3>4
    <2> QED BY <2>1, <2>2 DEF Numbered
  <1>9. NodesListed'
    <2>1. \A k \in DOMAIN nodes : nodes[k] # d
      <3> SUFFICES ASSUME NEW k \in DOMAIN nodes, nodes[k] = d
                   PROVE  FALSE
        OBVIOUS
      <3>1. k = 0 /\ k \in 1 .. NumBoards
        BY <1>7 DEF BoardsInv, NodesListed
      <3> QED BY <3>1
    <2> QED BY <1>2, <1>4, <2>1, BoardTypes DEF BoardsInv, NodesListed
  <1>10. OpListed'
    BY <1>1, <1>2, <1>4 DEF BoardsInv, OpListed
  <1>11. Settled'
    BY <1>2, <1>4, BoardTypes DEF BoardsInv, Settled
  <1> QED BY <1>5, <1>6, <1>8, <1>9, <1>10, <1>11 DEF BoardsInv

\* A case of activate: the board has what its new level says.
LEMMA LevelReached ==
    ASSUME BoardsInv, Boards!ActivateStep
    PROVE  BoardsInv'
  <1>1. PICK d \in Devices : d = op.dev /\ d \in Boards!Listed
    BY OperatedBoard DEF Boards!ActivateStep
  <1> DEFINE l == level[d]
             more == IF l + 1 \in DOMAIN Boards!Acquired /\ (l + 1 = 9 => msix[d])
                     THEN {Boards!Acquired[l + 1]} ELSE {}
  <1>2. /\ op # Boards!None /\ l \in 1 .. 10 /\ level' = [level EXCEPT ![d] = l + 1]
        /\ msix' \in IF l + 1 = 7 THEN {[msix EXCEPT ![d] = x] : x \in BOOLEAN} ELSE {msix}
        /\ held' = [held EXCEPT ![d] = @ \cup more]
        /\ board_list' = board_list /\ number' = number /\ nodes' = nodes
        /\ class' = class /\ op' = op
    <2>1. 11 - 1 = 10
      OBVIOUS
    <2> QED BY <1>1, <2>1 DEF Boards!ActivateStep, Boards!BOARD_NUM_ASSIGNED, Boards!BLUENOC_ACTIVE
  <1>3. more \subseteq AllResources
    BY DEF AllResources
  <1>4. PICK x \in BOOLEAN :
           /\ msix' = [msix EXCEPT ![d] = x]
           /\ l + 1 # 7 => x = msix[d]
    <2>1. CASE l + 1 = 7
      BY <1>2, <2>1
    <2>2. CASE l + 1 # 7
      <3>1. msix' = [msix EXCEPT ![d] = msix[d]]
        BY <1>2, <2>2, BoardTypes
      <3> QED BY <2>2, <3>1, BoardTypes
    <2> QED BY <2>1, <2>2
  <1>5. Boards!ResourcesAt(l + 1, x) = held[d] \cup more
    <2>1. held[d] = Boards!ResourcesAt(l, msix[d]) /\ msix[d] \in BOOLEAN
      BY <1>1, BoardTypes DEF BoardsInv, Boards!ResourcesMatchLevel
    <2>2. Boards!ResourcesAt(l + 1, msix[d]) = held[d] \cup more
      BY <1>2, <2>1, Ladder
    <2>3. CASE l + 1 = 7
      <3>1. l + 1 \in 0 .. 7
        BY <2>3
      <3> QED BY <2>1, <2>2, <3>1, Ladder
    <2>4. CASE l + 1 # 7
      BY <1>4, <2>2, <2>4
    <2> QED BY <2>3, <2>4
  <1>6. l + 1 \in 0 .. 11 /\ l + 1 # 0 /\ l # 0
    BY <1>2
  <1> DEFINE h == held[d] \cup more
             up == l + 1
  <1>7. /\ level' = [level EXCEPT ![d] = up] /\ held' = [held EXCEPT ![d] = h]
        /\ Boards!ResourcesAt(up, x) = h /\ up \in 0 .. 11 /\ up # 0 /\ level[d] # 0
        /\ h \in SUBSET AllResources
    BY <1>2, <1>3, <1>5, <1>6, BoardTypes
  <1> HIDE DEF h, up, more, l
  <1>8. /\ level'[d] = up /\ held'[d] = h /\ msix'[d] = x
        /\ \A b \in Devices : b # d => /\ level'[b] = level[b] /\ held'[b] = held[b]
                                       /\ msix'[b] = msix[b]
        /\ Boards!Listed' = Boards!Listed
    BY <1>2, <1>4, <1>7, BoardTypes DEF Boards!Listed
  <1>9. Boards!TypeOK'
    <2>1. /\ level' \in [Devices -> 0 .. 11] /\ held' \in [Devices -> SUBSET AllResources]
          /\ msix' \in [Devices -> BOOLEAN]
      BY <1>4, <1>7, BoardTypes
    <2> QED BY <1>2, <2>1, BoardTypes, BoardTypesNext
  <1>10. Boards!ResourcesMatchLevel'
    <2>1. ASSUME NEW b \in Boards!Listed
          PROVE  held'[b] = Boards!ResourcesAt(level'[b], msix'[b])
      <3>1. CASE b = d
        BY <1>7, <1>8, <3>1
      <3>2. CASE b # d
        BY <1>8, <3>2, BoardTypes DEF BoardsInv, Boards!ResourcesMatchLevel
      <3> QED BY <3>1, <3>2
    <2>2. ASSUME NEW b \in Devices \ Boards!Listed
          PROVE  held'[b] = {}
      BY <1>1, <1>8 DEF BoardsInv, Boards!ResourcesMatchLevel
    <2> QED BY <1>8, <2>1, <2>2 DEF Boards!ResourcesMatchLevel
  <1>11. Numbered'
    <2>1. \A b \in Devices : level'[b] # 0 <=> level[b] # 0
      BY <1>7, <1>8
    <2> QED BY <1>2, <1>8, <2>1 DEF BoardsInv, Numbered
  <1>12. NodesListed' /\ OpListed' /\ Settled'
    <2>1. NodesListed'
      BY <1>2, <1>8 DEF BoardsInv, NodesListed
    <2>2. OpListed'
      BY <1>1, <1>2, <1>7, <1>8 DEF BoardsInv, OpListed
    <2>3. Settled'
      BY <1>2, <1>7, <1>8, BoardTypes DEF BoardsInv, Settled
    <2> QED BY <2>1, <2>2, <2>3
  <1> QED BY <1>9, <1>10, <1>11, <1>12 DEF BoardsInv

\* What deactivate does to a board of the list.
LEMMA Lowered ==
    ASSUME BoardsInv, NEW d \in Boards!Listed
    PROVE  /\ Boards!AfterDeactivate(held[d], level[d], msix[d]) = {}
           /\ Boards!deactivate(d) =>
                /\ level' \in [Devices -> 0 .. 11] /\ held' \in [Devices -> SUBSET AllResources]
                /\ held'[d] = {} /\ level'[d] \in 0 .. 1 /\ (level'[d] = 0 <=> level[d] = 0)
                /\ \A b \in Devices : b # d => level'[b] = level[b] /\ held'[b] = held[b]
  <1>1. /\ d \in Devices /\ level[d] \in 0 .. 11 /\ msix[d] \in BOOLEAN
        /\ held[d] = Boards!ResourcesAt(level[d], msix[d])
    BY BoardTypes DEF BoardsInv, Boards!ResourcesMatchLevel
  <1>2. Boards!AfterDeactivate(held[d], level[d], msix[d]) = {}
    <2>1. CASE level[d] < 2
      <3>1. level[d] \in 0 .. 1
        BY <1>1, <2>1
      <3> QED BY <1>1, <2>1, <3>1, Ladder DEF Boards!AfterDeactivate, Boards!PCI_DEV_ENABLED
    <2>2. CASE ~(level[d] < 2)
      BY <1>1, <2>2 DEF Boards!AfterDeactivate, Boards!PCI_DEV_ENABLED
    <2> QED BY <2>1, <2>2
  <1>3. ASSUME Boards!deactivate(d)
        PROVE  /\ level' \in [Devices -> 0 .. 11] /\ held' \in [Devices -> SUBSET AllResources]
               /\ held'[d] = {} /\ level'[d] \in 0 .. 1 /\ (level'[d] = 0 <=> level[d] = 0)
               /\ \A b \in Devices : b # d => level'[b] = level[b] /\ held'[b] = held[b]
    <2> DEFINE low == IF level[d] >= 2 THEN 1 ELSE level[d]
    <2>1. held' = [held EXCEPT ![d] = {}] /\ level' = [level EXCEPT ![d] = low]
      BY <1>2, <1>3 DEF Boards!deactivate, Boards!PCI_DEV_ENABLED, Boards!BOARD_NUM_ASSIGNED
    <2>2. low \in 0 .. 1 /\ low \in 0 .. 11 /\ (low = 0 <=> level[d] = 0)
      BY <1>1
    <2> HIDE DEF low
    <2> QED BY <1>1, <2>1, <2>2, BoardTypes
  <1> QED BY <1>2, <1>3

\* A board leaves the list, and what it had is free.
LEMMA BoardLeaves ==
    ASSUME BoardsInv, NEW d \in Boards!Listed, op = Boards!None \/ op.dev = d,
           board_list' \in Seq(Devices), Boards!IsInjective(board_list'),
           Boards!Range(board_list') = Boards!Range(board_list) \ {d},
           number' = [number EXCEPT ![d] = 0], msix' = msix, op' = Boards!None,
           class' \in BOOLEAN, held'[d] = {},
           level' \in [Devices -> 0 .. 11], held' \in [Devices -> SUBSET AllResources],
           \A b \in Devices : b # d => level'[b] = level[b] /\ held'[b] = held[b],
           DOMAIN nodes' \subseteq DOMAIN nodes,
           \A n \in DOMAIN nodes' : nodes'[n] = nodes[n] /\ nodes[n] # d
    PROVE  BoardsInv'
  <1>1. Boards!Listed' = Boards!Listed \ {d} /\ d \in Devices /\ Boards!Listed \subseteq Devices
    BY BoardTypes DEF Boards!Listed
  <1>2. number'[d] = 0 /\ \A b \in Devices : b # d => number'[b] = number[b]
    BY <1>1, BoardTypes
  <1>3. Boards!TypeOK'
    <2>1. number' \in [Devices -> 0 .. NumBoards]
      BY <1>1, BoardTypes, DriversAssumption
    <2>2. op' \in Boards!Operations
      BY DEF Boards!Operations
    <2>3. /\ DOMAIN nodes' \subseteq 1 .. NumBoards
          /\ \A n \in DOMAIN nodes' : nodes'[n] \in Devices
      BY BoardTypes
    <2>4. msix' \in [Devices -> BOOLEAN]
      BY BoardTypes
    <2> QED BY <2>1, <2>2, <2>3, <2>4, BoardTypesNext
  <1>4. Boards!ResourcesMatchLevel'
    <2>1. ASSUME NEW b \in Boards!Listed'
          PROVE  held'[b] = Boards!ResourcesAt(level'[b], msix'[b])
      BY <1>1 DEF BoardsInv, Boards!ResourcesMatchLevel
    <2>2. ASSUME NEW b \in Devices \ Boards!Listed'
          PROVE  held'[b] = {}
      BY <1>1 DEF BoardsInv, Boards!ResourcesMatchLevel
    <2> QED BY <2>1, <2>2 DEF Boards!ResourcesMatchLevel
  <1>5. Numbered'
    <2>1. ASSUME NEW b \in Devices
          PROVE  number'[b] = 0 <=> ~(b \in Boards!Listed' /\ level'[b] # 0)
      BY <1>1, <1>2 DEF BoardsInv, Numbered
    <2>2. ASSUME NEW b \in Boards!Listed', NEW c \in Boards!Listed', b # c, number'[b] # 0
          PROVE  number'[b] # number'[c]
      BY <1>1, <1>2, <2>2 DEF BoardsInv, Numbered
    <2> QED BY <2>1, <2>2 DEF Numbered
  <1>6. NodesListed'
    <2> SUFFICES ASSUME NEW n \in DOMAIN nodes'
                 PROVE  nodes'[n] \in Boards!Listed' /\ n \in 1 .. NumBoards
                        /\ number'[nodes'[n]] = n
      BY DEF NodesListed
    <2>1. nodes[n] \in Boards!Listed /\ n \in 1 .. NumBoards /\ number[nodes[n]] = n
      BY DEF BoardsInv, NodesListed
    <2> QED BY <1>1, <1>2, <2>1
  <1>7. OpListed'
    BY DEF OpListed
  <1>8. Settled'
    <2>1. ASSUME NEW b \in Boards!Listed, b # d
          PROVE  level'[b] # 0
      BY <1>1, <2>1 DEF BoardsInv, Settled
    <2> QED BY <1>1, <2>1 DEF Settled
  <1> QED BY <1>3, <1>4, <1>5, <1>6, <1>7, <1>8 DEF BoardsInv

\* A board that has its number stays on the list without its resources.
LEMMA BoardStays ==
    ASSUME BoardsInv, NEW d \in Boards!Listed, level[d] # 0, Boards!deactivate(d),
           op = Boards!None \/ op.dev = d, op' = Boards!None,
           UNCHANGED <<board_list, number, msix, nodes, class>>
    PROVE  BoardsInv'
  <1>1. /\ level' \in [Devices -> 0 .. 11] /\ held' \in [Devices -> SUBSET AllResources]
        /\ held'[d] = {} /\ level'[d] \in 0 .. 1 /\ level'[d] # 0
        /\ \A b \in Devices : b # d => level'[b] = level[b] /\ held'[b] = held[b]
    BY Lowered
  <1>2. Boards!Listed' = Boards!Listed /\ d \in Devices /\ Boards!Listed \subseteq Devices
    BY BoardTypes DEF Boards!Listed
  <1>3. Boards!TypeOK'
    <2>1. op' \in Boards!Operations
      BY DEF Boards!Operations
    <2> QED BY <1>1, <2>1, BoardTypes, BoardTypesNext
  <1>4. Boards!ResourcesMatchLevel'
    <2>1. ASSUME NEW b \in Boards!Listed, b # d
          PROVE  held'[b] = Boards!ResourcesAt(level'[b], msix'[b])
      BY <1>1, <1>2, <2>1 DEF BoardsInv, Boards!ResourcesMatchLevel
    <2>2. held'[d] = Boards!ResourcesAt(level'[d], msix'[d])
      <3>1. msix'[d] \in BOOLEAN
        BY <1>2, BoardTypes
      <3> QED BY <1>1, <3>1, Ladder
    <2>3. ASSUME NEW b \in Devices \ Boards!Listed
          PROVE  held'[b] = {}
      BY <1>1 DEF BoardsInv, Boards!ResourcesMatchLevel
    <2> QED BY <1>2, <2>1, <2>2, <2>3 DEF Boards!ResourcesMatchLevel
  <1>5. Numbered'
    <2>1. \A b \in Devices : level'[b] # 0 <=> level[b] # 0
      BY <1>1
    <2> QED BY <1>2, <2>1 DEF BoardsInv, Numbered
  <1>6. NodesListed' /\ OpListed'
    BY <1>2 DEF BoardsInv, NodesListed, OpListed
  <1>7. Settled'
    BY <1>1, <1>2 DEF BoardsInv, Settled
  <1> QED BY <1>3, <1>4, <1>5, <1>6, <1>7 DEF BoardsInv

\* A probe that gives up, before or after the last level, drops the head of the list.
LEMMA ProbeGivesUp ==
    ASSUME BoardsInv, op # Boards!None, op.kind = "probe",
           Boards!deactivate(op.dev), Boards!Unlist(op.dev), op' = Boards!None,
           UNCHANGED <<msix, nodes, class>>
    PROVE  BoardsInv'
  <1>1. PICK d \in Boards!Listed : d = op.dev
    BY OperatedBoard
  <1>2. /\ board_list # <<>> /\ Head(board_list) = d /\ \A n \in DOMAIN nodes : nodes[n] # d
    BY <1>1 DEF BoardsInv, OpListed
  <1>3. /\ board_list' \in Seq(Devices) /\ Boards!IsInjective(board_list')
        /\ Boards!Range(board_list') = Boards!Range(board_list) \ {d}
        /\ number' = [number EXCEPT ![d] = 0]
    BY <1>1, <1>2, HeadGone, BoardTypes DEF Boards!Unlist
  <1>4. /\ level' \in [Devices -> 0 .. 11] /\ held' \in [Devices -> SUBSET AllResources]
        /\ held'[d] = {}
        /\ \A b \in Devices : b # d => level'[b] = level[b] /\ held'[b] = held[b]
    BY <1>1, Lowered
  <1>5. class' \in BOOLEAN
    BY BoardTypes
  <1> QED BY <1>1, <1>2, <1>3, <1>4, <1>5, BoardLeaves

LEMMA LevelFails ==
    ASSUME BoardsInv, Boards!ActivateFails
    PROVE  BoardsInv'
  <1>1. /\ op # Boards!None /\ Boards!deactivate(op.dev) /\ op' = Boards!None
        /\ UNCHANGED <<msix, nodes, class>>
        /\ IF op.kind = "probe" THEN Boards!Unlist(op.dev) ELSE UNCHANGED <<board_list, number>>
    BY DEF Boards!ActivateFails
  <1>2. CASE op.kind = "probe"
    BY <1>1, <1>2, ProbeGivesUp
  <1>3. CASE op.kind # "probe"
    <2>1. op.dev \in Boards!Listed /\ level[op.dev] # 0
      BY <1>1, <1>3, OperatedBoard DEF BoardsInv, OpListed
    <2> QED BY <1>1, <1>3, <2>1, BoardStays
  <1> QED BY <1>2, <1>3

\* The device file of a new board has a number that no other file has.
LEMMA BoardActive ==
    ASSUME BoardsInv, Boards!Activated
    PROVE  BoardsInv'
  <1>1. PICK d \in Boards!Listed : d = op.dev
    BY OperatedBoard DEF Boards!Activated
  <1>2. /\ op # Boards!None /\ level[d] = 11 /\ op' = Boards!None /\ msix' = msix /\ class' = class
    BY <1>1 DEF Boards!Activated, Boards!BLUENOC_ACTIVE
  <1> DEFINE Same == board_list' = board_list /\ level' = level /\ number' = number /\ held' = held
  <1>3. /\ d \in Devices /\ number[d] \in 1 .. NumBoards
    <2>1. d \in Devices /\ number[d] \in 0 .. NumBoards
      BY BoardTypes
    <2>2. number[d] # 0
      BY <1>2, <2>1 DEF BoardsInv, Numbered
    <2> QED BY <2>1, <2>2, DriversAssumption
  <1>4. ASSUME Same, DOMAIN nodes' \subseteq DOMAIN nodes \cup {number[d]},
               \A n \in DOMAIN nodes' : nodes'[n] = IF n = number[d] THEN d ELSE nodes[n]
        PROVE  BoardsInv'
    <2>1. Boards!Listed' = Boards!Listed
      BY <1>4 DEF Boards!Listed
    <2>2. NodesListed'
      <3> SUFFICES ASSUME NEW n \in DOMAIN nodes'
                   PROVE  nodes'[n] \in Boards!Listed /\ n \in 1 .. NumBoards
                          /\ number[nodes'[n]] = n
        BY <1>4, <2>1 DEF NodesListed
      <3>1. CASE n = number[d]
        BY <1>3, <1>4, <3>1
      <3>2. CASE n # number[d]
        BY <1>4, <3>2 DEF BoardsInv, NodesListed
      <3> QED BY <3>1, <3>2
    <2>3. Boards!TypeOK'
      <3>1. DOMAIN nodes' \subseteq 1 .. NumBoards /\ \A n \in DOMAIN nodes' : nodes'[n] \in Devices
        BY <1>4, <2>1, <2>2, BoardTypes DEF NodesListed
      <3>2. op' \in Boards!Operations
        BY <1>2 DEF Boards!Operations
      <3> QED BY <1>2, <1>4, <3>1, <3>2, BoardTypes, BoardTypesNext
    <2>4. Boards!ResourcesMatchLevel' /\ Numbered'
      BY <1>2, <1>4, <2>1 DEF BoardsInv, Boards!ResourcesMatchLevel, Numbered
    <2>5. OpListed'
      BY <1>2 DEF OpListed
    <2>6. Settled'
      BY <1>1, <1>2, <1>4, <2>1 DEF BoardsInv, Settled
    <2> QED BY <2>2, <2>3, <2>4, <2>5, <2>6 DEF BoardsInv
  <1>5. CASE /\ op.kind = "probe" /\ Same
             /\ nodes' = [n \in DOMAIN nodes \cup {number[d]} |->
                             IF n = number[d] THEN d ELSE nodes[n]]
    BY <1>4, <1>5
  <1>6. CASE op.kind = "probe" /\ Boards!deactivate(d) /\ Boards!Unlist(d) /\ nodes' = nodes
    BY <1>1, <1>2, <1>6, ProbeGivesUp
  <1>7. CASE op.kind = "ioctl" /\ Same /\ nodes' = nodes
    <2>1. \A n \in DOMAIN nodes : n = number[d] => nodes[n] = d
      <3> SUFFICES ASSUME NEW n \in DOMAIN nodes, n = number[d], nodes[n] # d
                   PROVE  FALSE
        OBVIOUS
      <3>1. nodes[n] \in Boards!Listed /\ number[nodes[n]] = n /\ number[d] # 0
        BY <1>3 DEF BoardsInv, NodesListed
      <3> QED BY <3>1 DEF BoardsInv, Numbered
    <2> QED BY <1>4, <1>7, <2>1
  <1> QED BY <1>1, <1>5, <1>6, <1>7 DEF Boards!Activated

LEMMA BoardRemoved ==
    ASSUME BoardsInv, NEW d \in Devices, Boards!bluenoc_remove(d)
    PROVE  BoardsInv'
  <1>1. /\ op = Boards!None /\ d \in Boards!Listed /\ op' = op /\ msix' = msix
        /\ held' = [held EXCEPT ![d] = Boards!AfterDeactivate(held[d], level[d], msix[d])]
        /\ nodes' = [n \in DOMAIN nodes \ {number[d]} |-> nodes[n]]
        /\ board_list' = Boards!RemoveFirst(board_list, d)
        /\ class' = (board_list' # <<>>)
        /\ level' = [level EXCEPT ![d] = 0] /\ number' = [number EXCEPT ![d] = 0]
    BY DEF Boards!bluenoc_remove, Boards!PROBED
  <1>2. held' = [held EXCEPT ![d] = {}]
    BY <1>1, Lowered
  <1>3. /\ level' \in [Devices -> 0 .. 11] /\ held' \in [Devices -> SUBSET AllResources]
        /\ held'[d] = {}
        /\ \A b \in Devices : b # d => level'[b] = level[b] /\ held'[b] = held[b]
    BY <1>1, <1>2, BoardTypes
  <1>4. /\ board_list' \in Seq(Devices) /\ Boards!IsInjective(board_list')
        /\ Boards!Range(board_list') = Boards!Range(board_list) \ {d}
    BY <1>1, OneGone, BoardTypes
  <1>5. /\ DOMAIN nodes' \subseteq DOMAIN nodes
        /\ \A n \in DOMAIN nodes' : nodes'[n] = nodes[n] /\ nodes[n] # d
    BY <1>1 DEF BoardsInv, NodesListed
  <1>6. class' \in BOOLEAN
    BY <1>1
  <1> QED BY <1>1, <1>3, <1>4, <1>5, <1>6, BoardLeaves

\* The ioctls are of a board that has a device file.
LEMMA BoardIoctls ==
    ASSUME BoardsInv, NEW d \in Devices, Boards!IoctlDeactivate(d) \/ Boards!IoctlReactivate(d)
    PROVE  BoardsInv'
  <1>1. op = Boards!None /\ d \in Boards!Listed /\ level[d] # 0
    <2>1. op = Boards!None /\ \E n \in DOMAIN nodes : nodes[n] = d
      BY DEF Boards!IoctlDeactivate, Boards!IoctlReactivate, Boards!Range
    <2> QED BY <2>1 DEF BoardsInv, NodesListed, Settled
  <1>2. CASE Boards!IoctlDeactivate(d)
    BY <1>1, <1>2, BoardStays DEF Boards!IoctlDeactivate
  <1>3. CASE Boards!IoctlReactivate(d)
    <2>1. /\ op' = [kind |-> "ioctl", dev |-> d]
          /\ board_list' = board_list /\ level' = level /\ number' = number /\ msix' = msix
          /\ held' = held /\ nodes' = nodes /\ class' = class
      BY <1>3 DEF Boards!IoctlReactivate
    <2>2. op'.kind = "ioctl" /\ op'.dev = d /\ op' \in Boards!Operations
      BY <2>1 DEF Boards!Operations
    <2>3. Boards!Listed' = Boards!Listed
      BY <2>1 DEF Boards!Listed
    <2>4. Boards!TypeOK'
      BY <2>1, <2>2, BoardTypes, BoardTypesNext
    <2>5. /\ Boards!ResourcesMatchLevel' /\ Numbered' /\ NodesListed'
      BY <2>1, <2>3 DEF BoardsInv, Boards!ResourcesMatchLevel, Numbered, NodesListed
    <2>6. OpListed' /\ Settled'
      BY <1>1, <2>1, <2>2, <2>3 DEF BoardsInv, OpListed, Settled
    <2> QED BY <2>4, <2>5, <2>6 DEF BoardsInv
  <1> QED BY <1>2, <1>3

LEMMA BoardsStep == BoardsInv /\ [Boards!Next]_boardPart => BoardsInv'
  <1> SUFFICES ASSUME BoardsInv, [Boards!Next]_boardPart
               PROVE  BoardsInv'
    OBVIOUS
  <1>1. CASE UNCHANGED boardPart
    <2>1. /\ board_list' = board_list /\ level' = level /\ number' = number /\ msix' = msix
          /\ held' = held /\ nodes' = nodes /\ class' = class /\ op' = op
      BY <1>1 DEF boardPart
    <2>2. Boards!Listed' = Boards!Listed
      BY <2>1 DEF Boards!Listed
    <2> QED BY <2>1, <2>2, BoardTypes, BoardTypesNext
            DEF BoardsInv, Boards!ResourcesMatchLevel, Numbered, NodesListed, OpListed, Settled
  <1>2. CASE Boards!Next
    BY <1>2, BoardProbed, NumberAssigned, LevelReached, LevelFails, BoardActive, BoardRemoved,
       BoardIoctls DEF Boards!Next
  <1> QED BY <1>1, <1>2

\* The first board of the list with the number of a file is the one that has it.
LEMMA BoardsFound == BoardsInv => Boards!OpenFindsItsBoard
  <1> SUFFICES ASSUME BoardsInv, NEW n \in DOMAIN nodes
               PROVE  \E i \in DOMAIN board_list :
                          /\ board_list[i] = nodes[n] /\ number[board_list[i]] = n
                          /\ \A j \in 1 .. i - 1 : number[board_list[j]] # n
    BY DEF Boards!OpenFindsItsBoard
  <1>1. nodes[n] \in Boards!Listed /\ n \in 1 .. NumBoards /\ number[nodes[n]] = n
    BY DEF BoardsInv, NodesListed
  <1>2. PICK i \in DOMAIN board_list : board_list[i] = nodes[n]
    BY <1>1 DEF Boards!Listed, Boards!Range
  <1>3. n # 0
    BY <1>1
  <1>4. DOMAIN board_list = 1 .. Len(board_list) /\ Len(board_list) \in Nat
    BY BoardTypes
  <1>5. ASSUME NEW j \in 1 .. i - 1
        PROVE  number[board_list[j]] # n
    <2>1. j \in DOMAIN board_list /\ j # i
      BY <1>4
    <2>2. board_list[j] # board_list[i] /\ board_list[j] \in Boards!Listed
      BY <2>1, BoardTypes DEF Boards!IsInjective, Boards!Range
    <2> QED BY <1>1, <1>2, <1>3, <2>2 DEF BoardsInv, Numbered
  <1> QED BY <1>1, <1>2, <1>5

-----------------------------------------------------------------------------
(* The drivers together.                                                       *)

\* Every behaviour of the drivers, of any number of boards, slots and processes,
\* keeps the invariants of the four: what HtgChannel, Xupv5Boards, BlueNocFiles and
\* BlueNocBoards model never reaches a state outside them.
THEOREM DriversInvariant == DriversSpec => []DriversInv
  <1>1. DriversInit => DriversInv
    BY HtgInit, XupInit, FilesInit, BoardsInit DEF DriversInit, DriversInv
  <1>2. DriversInv /\ [DriversNext]_mcVars => DriversInv'
    <2> SUFFICES ASSUME DriversInv, [DriversNext]_mcVars
                 PROVE  DriversInv'
      OBVIOUS
    <2>1. [Boards!Next]_boardPart
      BY DEF DriversNext, mcVars
    <2>2. [Htg!Next]_htgPart
      BY DEF DriversNext, mcVars
    <2>3. [Xup!Next]_xupPart
      BY DEF DriversNext, mcVars
    <2>4. [Files!Next]_filesPart
      BY DEF DriversNext, mcVars
    <2> QED BY <2>1, <2>2, <2>3, <2>4, HtgStep, XupStep, FilesStep, BoardsStep DEF DriversInv
  <1> QED BY <1>1, <1>2, PTL DEF DriversSpec

\* The activation ladder of bluenoc.c, pchnl_probe with its unwinding and the probe
\* of XUPV5 leave a device with exactly what its state says, wherever they failed,
\* and with nothing once remove has run.
THEOREM ResourcesCorrect == DriversSpec => []ResourcesMatchState
  <1>1. DriversInv => ResourcesMatchState
    BY XupCorrect DEF DriversInv, HtgInv, BoardsInv, ResourcesMatchState
  <1> QED BY <1>1, DriversInvariant, PTL

\* bluenoc_open finds the board of its file in the list although numbers are used
\* again, and bsemu_open the device of its slot.
THEOREM FilesFound == DriversSpec => []FilesLeadToTheirDevices
  <1>1. DriversInv => FilesLeadToTheirDevices
    BY XupCorrect, BoardsFound DEF DriversInv, FilesLeadToTheirDevices
  <1> QED BY <1>1, DriversInvariant, PTL

\* The ioctls of the HTG channel copy what their own transfer brought, as long as
\* the callers keep to one at a time; bluenoc_poll forgets no sleeper although the
\* interrupt handler updates the flags and wakes the queue in two steps; and the
\* profile adds up times that were measured.
THEOREM TransfersCorrect == DriversSpec => []TransfersAwaited
  <1>1. DriversInv => TransfersAwaited
    BY HtgTransfersAwaited, FilesPollersWoken DEF DriversInv, FilesInv, TransfersAwaited
  <1> QED BY <1>1, DriversInvariant, PTL
===============================================================================
