------------------------------ MODULE BlueNocDma ------------------------------
(* The scatter-gather DMA engine of the BlueNoC kernel driver                *)
(* (drivers/linux/platforms/bluenoc-pcie/driver/bluenoc.c): bluenoc_read and  *)
(* bluenoc_write of several processes, the interrupt handler, and the board   *)
(* on the other side of the registers.                                        *)
(*                                                                            *)
(* A transfer is a list of DMA commands, one per page of the user's buffer,   *)
(* that the driver writes into a command queue of the board.  The driver does *)
(* not ask the board before each command: it keeps a count of free slots and  *)
(* refreshes it from the status register when it runs out.  Lengths are in    *)
(* units of the alignment the driver asks for (128 bytes).                    *)
EXTENDS Integers, Sequences, SequencesExt

CONSTANTS
    Procs,      \* processes that hold the device file open
    Slots,      \* command queue of the board in each direction (16 in the code)
    PageSize,   \* length of a page
    Buffers,    \* the buffers of the callers: offset into the first page, length
    Nobody,     \* owner of a free mutex
    MaySignal,  \* may a blocked call be interrupted by a signal?
    MayReset    \* may the soft-reset ioctl be called while transfers run?

ASSUME DmaAssumption ==
    /\ Slots \in Nat \ {0} /\ PageSize \in Nat \ {0} /\ Buffers \subseteq (0 .. PageSize - 1) \X (Nat \ {0})
    /\ Nobody \notin Procs
    /\ MaySignal \in BOOLEAN /\ MayReset \in BOOLEAN

Dirs == {"read", "write"}

-----------------------------------------------------------------------------
(* The pages of a buffer of count units at the given offset into its first page *)

NumPages(offset, count) == (offset + count - 1) \div PageSize + 1

FirstPageLen(offset, count) ==
    IF NumPages(offset, count) = 1 THEN count ELSE PageSize - offset

LastPageLen(offset, count) ==
    IF (offset + count) % PageSize = 0 THEN PageSize ELSE (offset + count) % PageSize

\* The scatter-gather list: its first page, the whole pages, its last page.
SgList(offset, count) ==
    [n \in 1 .. NumPages(offset, count) |->
        CASE n = 1                       -> FirstPageLen(offset, count)
          [] n = NumPages(offset, count) /\ n > 1 -> LastPageLen(offset, count)
          [] OTHER                       -> PageSize]

\* Defective variant: a page that is exactly used up does not end the loop.
MarkedPagesTooMany(sg, byteCount) ==
    {n \in 1 .. Len(sg) :
        /\ byteCount > 0
        /\ \A m \in 1 .. n - 1 : byteCount >= FoldLeft(LAMBDA a, b : a + b, 0, SubSeq(sg, 1, m))}

\* The pages that bluenoc_read marks as modified when the board says that it
\* transferred byteCount units: page n is reached if the pages before it did
\* not use up the count.
MarkedPages(sg, byteCount) ==
    {n \in 1 .. Len(sg) :
        /\ byteCount > 0
        /\ \A m \in 1 .. n - 1 : byteCount > FoldLeft(LAMBDA a, b : a + b, 0, SubSeq(sg, 1, m))}

-----------------------------------------------------------------------------
VARIABLES
    \* board, per direction
    queue,      \* commands accepted and not yet carried out
    flushing,   \* the message ended early: drop commands up to the end of the list
    status,     \* completed and flushed bits of the status register
    moved,      \* units moved by the current list (the count register) and the
                \* pages of the buffer they went to or came from
    fresh,      \* the next command starts a new list
    irq,        \* an interrupt is pending
    \* driver
    seen,       \* the fields of tBoard filled by update_dma_buffer_status
    mutex,      \* read_mutex and write_mutex
    call,       \* the call in progress in each process
    disturbed   \* per direction: a call was interrupted, or the board reset,
                \* in the middle of a transfer

board  == <<queue, flushing, status, moved, fresh, irq>>
driver == <<seen, mutex, call>>
vars   == <<queue, flushing, status, moved, fresh, irq, seen, mutex, call, disturbed>>

Commands == [owner : Procs \cup {Nobody}, page : Nat, len : Nat,
             last : BOOLEAN, intr : BOOLEAN]
Idle  == [pc |-> "idle", dir |-> "read", sg |-> <<>>, count |-> 0, sent |-> 0,
          slots |-> 0, marked |-> {}]
Calls == [pc : {"idle", "mapped", "send", "refresh", "slot", "wait", "release"},
          dir : Dirs, sg : Seq(Nat), count : Nat, sent : Nat,
          slots : Int, marked : SUBSET Nat]

TypeOK ==
    /\ queue \in [Dirs -> Seq(Commands)] /\ \A d \in Dirs : Len(queue[d]) <= Slots
    /\ flushing \in [Dirs -> BOOLEAN]
    /\ status \in [Dirs -> [completed : BOOLEAN, flushed : BOOLEAN]]
    /\ moved \in [Dirs -> [bytes : Nat, pages : SUBSET Nat]]
    /\ fresh \in [Dirs -> BOOLEAN]
    /\ irq \in BOOLEAN
    /\ seen \in [Dirs -> [level : 0 .. Slots, full : BOOLEAN,
                          completed : BOOLEAN, flushed : BOOLEAN]]
    /\ mutex \in [Dirs -> Procs \cup {Nobody}]
    /\ call \in [Procs -> Calls]
    /\ disturbed \in [Dirs -> BOOLEAN]

\* The state activate() leaves: an idle board, whose status has been read once.
Init ==
    /\ queue = [d \in Dirs |-> <<>>]
    /\ flushing = [d \in Dirs |-> FALSE]
    /\ status = [d \in Dirs |-> [completed |-> FALSE, flushed |-> FALSE]]
    /\ moved = [d \in Dirs |-> [bytes |-> 0, pages |-> {}]]
    /\ fresh = [d \in Dirs |-> TRUE]
    /\ irq = FALSE
    /\ seen = [d \in Dirs |-> [level |-> 0, full |-> FALSE,
                               completed |-> FALSE, flushed |-> FALSE]]
    /\ mutex = [d \in Dirs |-> Nobody]
    /\ call = [p \in Procs |-> Idle]
    /\ disturbed = [d \in Dirs |-> FALSE]

-----------------------------------------------------------------------------
(* The board.  It carries the commands of a direction out in order; a read    *)
(* message may end before the list does, and then the rest of the list is     *)
(* thrown away up to the command that ends it, sent already or not.  What it  *)
(* does with the commands of a transfer that was cut off is not followed.     *)

\* A command written to the queue of direction d.
Push(d, c) ==
    /\ queue' = [queue EXCEPT ![d] =
                    IF flushing[d] \/ Len(@) = Slots THEN @ ELSE Append(@, c)]
    /\ flushing' = [flushing EXCEPT ![d] = @ /\ ~c.last]

\* Bytes n of command c were moved; they are counted from the start of the list.
Moved(d, c, n) ==
    LET before == IF fresh[d] THEN [bytes |-> 0, pages |-> {}] ELSE moved[d]
    IN  moved' = [moved EXCEPT ![d] =
            [bytes |-> before.bytes + n,
             pages |-> before.pages \cup (IF n > 0 THEN {c.page} ELSE {})]]

BoardCompletes(d) ==
    /\ queue[d] # <<>> /\ ~disturbed[d]
    /\ LET c == Head(queue[d])
       IN  /\ Moved(d, c, c.len)
           /\ fresh' = [fresh EXCEPT ![d] = c.last]
           /\ status' = [status EXCEPT ![d].completed = @ \/ c.last]
           /\ irq' = (irq \/ c.last \/ c.intr)
    /\ queue' = [queue EXCEPT ![d] = Tail(@)]
    /\ UNCHANGED <<flushing, driver, disturbed>>

BoardFlushes ==
    /\ queue["read"] # <<>> /\ ~disturbed["read"]
    /\ LET q == queue["read"]
           c == Head(q)
           ends == {i \in DOMAIN q : q[i].last}
       IN  /\ \E n \in 0 .. c.len : /\ n < c.len \/ ~c.last
                                    /\ Moved("read", c, n)
           /\ queue' = [queue EXCEPT !["read"] =
                           IF ends = {} THEN <<>>
                           ELSE SubSeq(q, (CHOOSE i \in ends : \A j \in ends : i <= j) + 1, Len(q))]
           /\ flushing' = [flushing EXCEPT !["read"] = ends = {}]
    /\ status' = [status EXCEPT !["read"].flushed = TRUE]
    /\ fresh' = [fresh EXCEPT !["read"] = TRUE]
    /\ irq' = TRUE
    /\ UNCHANGED <<driver, disturbed>>

-----------------------------------------------------------------------------
(* The driver: what its two halves share *)

\* The status register of both directions as the driver reads it.
update_dma_buffer_status ==
    seen' = [d \in Dirs |-> [level     |-> Len(queue[d]),
                             full      |-> Len(queue[d]) = Slots,
                             completed |-> status[d].completed,
                             flushed   |-> status[d].flushed]]

\* Defective variant: the register keeps the completion of the last call.
clear_dma_status_FieldsOnly(d) ==
    /\ status' = [status EXCEPT ![d].flushed = FALSE]
    /\ seen' = [seen EXCEPT ![d].completed = FALSE, ![d].flushed = FALSE]

clear_dma_status(d) ==
    /\ status' = [status EXCEPT ![d] = [completed |-> FALSE, flushed |-> FALSE]]
    /\ seen' = [seen EXCEPT ![d].completed = FALSE, ![d].flushed = FALSE]

intr_handler ==
    /\ irq
    /\ irq' = FALSE
    /\ update_dma_buffer_status
    /\ UNCHANGED <<queue, flushing, status, moved, fresh, mutex, call, disturbed>>

\* A call with a buffer of count units: nothing to do for a count of zero;
\* otherwise the pages are pinned and mapped, or one of the checks and
\* allocations fails and the call returns an error, with nothing changed.
\* Calls in a direction in which a transfer was cut off are not followed.
Enter(p, d) ==
    /\ call[p].pc = "idle" /\ ~disturbed[d]
    /\ \E b \in Buffers :
          call' = [call EXCEPT ![p] = [Idle EXCEPT !.pc = "mapped", !.dir = d,
                                         !.sg = SgList(b[1], b[2]), !.count = b[2]]]
    /\ UNCHANGED <<board, seen, mutex, disturbed>>

\* The mutex is taken or the call is refused; the count of free slots starts
\* from the level that was last read.
Lock(p, d) ==
    /\ call[p].pc = "mapped" /\ call[p].dir = d
    /\ \/ /\ mutex[d] # Nobody
          /\ call' = [call EXCEPT ![p] = Idle]
          /\ UNCHANGED <<status, seen, mutex>>
       \/ /\ mutex[d] = Nobody
          /\ mutex' = [mutex EXCEPT ![d] = p]
          /\ clear_dma_status(d)
          /\ call' = [call EXCEPT ![p].pc = "send", ![p].slots = Slots - seen[d].level]
    /\ UNCHANGED <<queue, flushing, moved, fresh, irq, disturbed>>

\* Defective variant: no command asks for an interrupt.
SendCommandNoInterrupt(p, d) ==
    LET c == call[p]
    IN  /\ c.pc = "send" /\ c.dir = d /\ c.sent < Len(c.sg) /\ c.slots # 0
        /\ Push(d, [owner |-> p, page |-> c.sent + 1, len |-> c.sg[c.sent + 1],
                    last |-> c.sent + 1 = Len(c.sg), intr |-> FALSE])
        /\ call' = [call EXCEPT ![p].sent = @ + 1, ![p].slots = @ - 1,
                       ![p].pc = IF c.sent + 1 = Len(c.sg) THEN "wait" ELSE "send"]
        /\ UNCHANGED <<status, moved, fresh, irq, seen, mutex, disturbed>>

\* One turn of the loop that has a free slot.  The last command ends the list;
\* one that takes the last slot asks for an interrupt.
SendCommand(p, d) ==
    LET c == call[p]
    IN  /\ c.pc = "send" /\ c.dir = d /\ c.sent < Len(c.sg) /\ c.slots # 0
        /\ Push(d, [owner |-> p, page |-> c.sent + 1, len |-> c.sg[c.sent + 1],
                    last |-> c.sent + 1 = Len(c.sg), intr |-> c.slots = 1])
        /\ call' = [call EXCEPT ![p].sent = @ + 1, ![p].slots = @ - 1,
                       ![p].pc = IF c.sent + 1 = Len(c.sg) THEN "wait" ELSE "send"]
        /\ UNCHANGED <<status, moved, fresh, irq, seen, mutex, disturbed>>

\* No slot is left: the status is read again.
Refresh(p, d) ==
    /\ call[p].pc = "send" /\ call[p].dir = d /\ call[p].slots = 0
    /\ update_dma_buffer_status
    /\ call' = [call EXCEPT ![p].pc = "slot"]
    /\ UNCHANGED <<board, mutex, disturbed>>

\* Defective variant: a queue with room is taken for an empty one.
RecountAsEmpty(p, d) ==
    /\ call' = [call EXCEPT ![p].slots = Slots, ![p].pc = "send"]
    /\ UNCHANGED <<board, seen, mutex, disturbed>>

\* The queue was seen to have room: count the slots again.
Recount(p, d) ==
    /\ call' = [call EXCEPT ![p].slots = Slots - seen[d].level, ![p].pc = "send"]
    /\ UNCHANGED <<board, seen, mutex, disturbed>>

Undisturbed == \A d \in Dirs : ~disturbed[d]

\* The call leaves: whatever it left in the queue belongs to nobody now.
Release(p) ==
    /\ call[p].pc = "release"
    /\ call' = [call EXCEPT ![p] = Idle]
    /\ queue' = [d \in Dirs |-> [i \in DOMAIN queue[d] |->
                    IF queue[d][i].owner = p THEN [queue[d][i] EXCEPT !.owner = Nobody]
                    ELSE queue[d][i]]]
    /\ UNCHANGED <<flushing, status, moved, fresh, irq, seen, mutex, disturbed>>

\* A signal ends either wait of a call.  One disturbance is followed.
Signal(p) ==
    /\ MaySignal /\ Undisturbed
    /\ \/ call[p].pc = "slot" /\ seen[call[p].dir].full
       \/ /\ call[p].pc = "wait"
          /\ ~seen[call[p].dir].completed /\ ~seen[call[p].dir].flushed
    /\ mutex' = [mutex EXCEPT ![call[p].dir] = Nobody]
    /\ call' = [call EXCEPT ![p].pc = "release"]
    /\ disturbed' = [disturbed EXCEPT ![call[p].dir] = TRUE]
    /\ UNCHANGED <<board, seen>>

-----------------------------------------------------------------------------
(* bluenoc_read *)

ReadEnter(p) == Enter(p, "read")
ReadLock(p)  == Lock(p, "read")
ReadSend(p)  == SendCommand(p, "read") \/ Refresh(p, "read")

\* A list that the board is throwing away is ended by an empty command.
ReadSlot(p) ==
    /\ call[p].pc = "slot" /\ call[p].dir = "read" /\ ~seen["read"].full
    /\ \/ /\ seen["read"].flushed
          /\ Push("read", [owner |-> p, page |-> 0, len |-> 0, last |-> TRUE, intr |-> FALSE])
          /\ call' = [call EXCEPT ![p].pc = "wait"]
          /\ UNCHANGED <<status, moved, fresh, irq, seen, mutex, disturbed>>
       \/ ~seen["read"].flushed /\ Recount(p, "read")

\* The byte count is read, the mutex is released, and the pages that the count
\* covers are marked as modified.
ReadFinish(p) ==
    /\ call[p].pc = "wait" /\ call[p].dir = "read"
    /\ seen["read"].completed \/ seen["read"].flushed
    /\ mutex' = [mutex EXCEPT !["read"] = Nobody]
    /\ call' = [call EXCEPT ![p].pc = "release",
                   ![p].marked = MarkedPages(call[p].sg, moved["read"].bytes)]
    /\ UNCHANGED <<board, seen, disturbed>>

(* bluenoc_write *)

WriteEnter(p) == Enter(p, "write")
WriteLock(p)  == Lock(p, "write")
WriteSend(p)  == SendCommand(p, "write") \/ Refresh(p, "write")
WriteSlot(p)  ==
    /\ call[p].pc = "slot" /\ call[p].dir = "write" /\ ~seen["write"].full
    /\ Recount(p, "write")
\* Defective variant: the call returns once its list is sent.
WriteFinishEarly(p) ==
    /\ call[p].pc = "wait" /\ call[p].dir = "write"
    /\ mutex' = [mutex EXCEPT !["write"] = Nobody]
    /\ call' = [call EXCEPT ![p].pc = "release"]
    /\ UNCHANGED <<board, seen, disturbed>>
WriteFinish(p) ==
    /\ call[p].pc = "wait" /\ call[p].dir = "write" /\ seen["write"].completed
    /\ mutex' = [mutex EXCEPT !["write"] = Nobody]
    /\ call' = [call EXCEPT ![p].pc = "release"]
    /\ UNCHANGED <<board, seen, disturbed>>

\* The soft-reset ioctl takes no mutex: the board forgets its queue under
\* whatever calls are in progress.
SoftReset ==
    /\ MayReset /\ Undisturbed
    /\ queue' = [d \in Dirs |-> <<>>]
    /\ flushing' = [d \in Dirs |-> FALSE]
    /\ fresh' = [d \in Dirs |-> TRUE]
    /\ disturbed' = [d \in Dirs |-> mutex[d] # Nobody]
    /\ UNCHANGED <<status, moved, irq, driver>>

-----------------------------------------------------------------------------
bluenoc_read(p)  == ReadLock(p) \/ ReadSend(p) \/ ReadSlot(p) \/ ReadFinish(p)
bluenoc_write(p) == WriteLock(p) \/ WriteSend(p) \/ WriteSlot(p) \/ WriteFinish(p)

Next ==
    \/ \E d \in Dirs : BoardCompletes(d)
    \/ BoardFlushes
    \/ intr_handler
    \/ \E p \in Procs : \/ ReadEnter(p) \/ WriteEnter(p)
                        \/ bluenoc_read(p) \/ bluenoc_write(p)
                        \/ Release(p) \/ Signal(p)
    \/ SoftReset

\* Processes that can run are scheduled, the board works through its queue, and
\* interrupts are delivered.
Fairness ==
    /\ \A d \in Dirs : WF_vars(BoardCompletes(d))
    /\ WF_vars(intr_handler)
    /\ \A p \in Procs : WF_vars(bluenoc_read(p) \/ bluenoc_write(p) \/ Release(p))

Spec == Init /\ [][Next]_vars /\ Fairness

-----------------------------------------------------------------------------
(* Properties.  A signal or a soft reset in the middle of a transfer leaves    *)
(* commands in the queue that no call waits for.  What is claimed of a         *)
(* direction is claimed until that happens there, whatever happens in the      *)
(* other one.                                                                  *)

Sending(p) == call[p].pc \in {"send", "slot", "wait"}

\* The slots that a call still counts as free are free: no command is written
\* to a full queue, though the count may be as old as the previous call.
SlotsNeverOvercommitted ==
    \A p \in Procs : ~disturbed[call[p].dir] /\ call[p].pc = "send" =>
        Len(queue[call[p].dir]) + call[p].slots <= Slots

\* The board holds commands only for pages that are still pinned: each belongs
\* to the call that holds the mutex of its direction and has not returned.
PagesPinned ==
    \A d \in Dirs : ~disturbed[d] =>
        \A i \in DOMAIN queue[d] :
            LET p == queue[d][i].owner
            IN  p = mutex[d] /\ p \in Procs /\ call[p].dir = d /\ Sending(p)

\* A completion that a waiting call has seen is the completion of its own list,
\* all of it: never a bit left over from the call before.
CompletionIsOwn ==
    \A p \in Procs : /\ ~disturbed[call[p].dir]
                    /\ call[p].pc = "wait" /\ seen[call[p].dir].completed =>
        moved[call[p].dir] = [bytes |-> call[p].count, pages |-> DOMAIN call[p].sg]

\* A read that returns has marked exactly the pages that the board wrote,
\* also when the message ended early or at the end of a page.
DirtyExact ==
    [][\A p \in Procs : /\ call[p].dir = "read" /\ call[p].pc = "wait"
                        /\ call'[p].pc = "release" /\ ~disturbed'["read"]
          => call'[p].marked = moved["read"].pages]_vars

\* Every call returns: the interrupt a blocked call waits for is on its way.
CallsReturn ==
    \A p \in Procs : call[p].pc # "idle" ~> call[p].pc = "idle" \/ disturbed[call[p].dir]
=============================================================================
