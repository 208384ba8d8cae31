------------------------------ MODULE WdServices ------------------------------
(* The kernel services of the platform cable's driver (windrvr/linux_wrappers.c, *)
(* for a 2.6 kernel on x86) that keep state for their callers: counters,          *)
(* semaphores, contiguous buffers, mappings of device memory, deferred work.      *)
(* The callers are the vendor's library (external); they take and give back in    *)
(* pairs.  The five kinds share nothing, and a behaviour exercises one of them.   *)
EXTENDS Naturals, FiniteSets, FiniteSetsExt

CONSTANTS
    Callers,        \* threads, on any processor
    Kinds,          \* "mutex", "event" and "semaphore": what a semaphore is made for
    MaxSem, MaxSets,    \* bounds: on its value, and on the calls of up
    PAGE_SIZE,
    Frames,         \* page frames 0 .. Frames - 1
    Sizes,          \* bytes of buffers and of mappings
    High,           \* high_memory: the physical memory ends here
    Top             \* bound on physical addresses

VARIABLES
    \* counters
    counter, count,     \* the counter; what each caller does with it
    noticed,            \* somebody was told that the counter is zero, since it last rose
    \* semaphores
    kind, sem, sets, passed,    \* its value; calls of up; waits that took the semaphore
    inside,             \* the callers between their wait and what follows it
    \* contiguous buffers
    buffers,            \* [first, size, reserved] of each caller
    taken, reserved,    \* frames taken from the kernel; frames marked as reserved
    \* mappings
    handles, vmaps,     \* the address that each caller was given; mappings of the kernel
    \* deferred work
    bh, pending, queued, running,   \* the work_struct, its pending bit, and the queue
    wanted              \* it was scheduled and its routine has not started since

countVars == <<counter, count, noticed>>
semVars == <<kind, sem, sets, passed, inside>>
pageVars == <<buffers, taken, reserved>>
remapVars == <<handles, vmaps>>
workVars == <<bh, pending, queued, running, wanted>>
servVars == <<countVars, semVars, pageVars, remapVars, workVars>>

NoBuffer == [first |-> 0, size |-> 0, reserved |-> FALSE]
NoHandle == [phys |-> 0, size |-> 0, addr |-> "none"]

\* LINUX_create_semaphore starts at 0.  LINUX_create_mutex and LINUX_event_create
\* make the same object, with the value 1: an event is set when it is created.
Created(k) == IF k = "semaphore" THEN 0 ELSE 1

Init ==
    /\ counter = 0 /\ count = [c \in Callers |-> "out"] /\ noticed = TRUE
    /\ kind \in Kinds /\ sem = Created(kind) /\ sets = 0 /\ passed = 0 /\ inside = {}
    /\ buffers = [c \in Callers |-> NoBuffer] /\ taken = {} /\ reserved = {}
    /\ handles = [c \in Callers |-> NoHandle] /\ vmaps = {}
    /\ bh = "none" /\ pending = FALSE /\ queued = FALSE /\ running = FALSE /\ wanted = FALSE

-----------------------------------------------------------------------------
(* LINUX_atomic_inc and LINUX_atomic_dec: the counter is changed in one step and  *)
(* read in another, so the result may be that of a later call.                    *)

LINUX_atomic_inc(c) ==
    /\ count[c] = "out"
    /\ counter' = counter + 1 /\ noticed' = FALSE
    /\ count' = [count EXCEPT ![c] = "raised"]

LINUX_atomic_dec(c) ==
    /\ count[c] = "in"
    /\ counter' = counter - 1 /\ UNCHANGED noticed
    /\ count' = [count EXCEPT ![c] = "lowered"]

\* Defective variant: the value before the change is returned.
Result_Before(c) == IF count[c] = "lowered" THEN counter + 1 ELSE counter
Result(c) == counter

Return(c) ==
    /\ \/ count[c] = "raised" /\ count' = [count EXCEPT ![c] = "in"] /\ UNCHANGED noticed
       \/ /\ count[c] = "lowered" /\ count' = [count EXCEPT ![c] = "out"]
          /\ noticed' = (noticed \/ Result(c) = 0)
    /\ UNCHANGED counter

CountNext == \E c \in Callers : LINUX_atomic_inc(c) \/ LINUX_atomic_dec(c) \/ Return(c)

-----------------------------------------------------------------------------
(* Semaphores.                                                                    *)

\* Defective variant: a wait that a signal ended counts as the mutex.
Interrupted_Enters(c) == inside' = inside \cup {c}
\* A signal ends the wait.  The caller of LINUX_down_interruptible is told and stays
\* out; LINUX_event_wait ignores the result and returns.
Interrupted(c) == inside' = IF kind = "event" THEN inside \cup {c} ELSE inside

LINUX_down_interruptible(c) ==
    /\ c \notin inside
    /\ \/ sem > 0 /\ sem' = sem - 1 /\ passed' = passed + 1 /\ inside' = inside \cup {c}
       \/ Interrupted(c) /\ UNCHANGED <<sem, passed>>
    /\ UNCHANGED <<kind, sets>>

\* LINUX_up by the caller that holds the mutex; a semaphore or event is set by anybody.
LINUX_up ==
    /\ sem < MaxSem /\ sets < MaxSets
    /\ IF kind = "mutex" THEN \E c \in inside : inside' = inside \ {c} ELSE UNCHANGED inside
    /\ sem' = sem + 1 /\ sets' = sets + 1
    /\ UNCHANGED <<kind, passed>>

\* A thread that a semaphore or an event has let through comes back to wait again.
Again ==
    /\ kind # "mutex" /\ \E c \in inside : inside' = inside \ {c}
    /\ UNCHANGED <<kind, sem, sets, passed>>

SemNext == LINUX_up \/ Again \/ \E c \in Callers : LINUX_down_interruptible(c)

-----------------------------------------------------------------------------
(* Contiguous buffers for DMA, whose pages are marked as reserved while they are  *)
(* mapped for a process.                                                          *)

\* The frames that get_order(size) stands for: a power of two.
OrderFrames(size) ==
    Min({n \in {1, 2, 4, 8} : n * PAGE_SIZE >= size})

LINUX_dma_contig_alloc(c, size) ==
    /\ buffers[c] = NoBuffer
    /\ \E f \in 0 .. Frames - OrderFrames(size) :
          LET got == f .. f + OrderFrames(size) - 1
          IN  /\ f % OrderFrames(size) = 0 /\ got \cap taken = {}
              /\ taken' = taken \cup got
              /\ buffers' = [buffers EXCEPT ![c] = [first |-> f, size |-> size, reserved |-> FALSE]]
    /\ UNCHANGED reserved

\* Defective variant: the page of the byte after the buffer is marked, too.
PagesOf_Long(b) == b.first .. b.first + b.size \div PAGE_SIZE
\* From the page of the first byte to the page of the last.
PagesOf(b) == b.first .. b.first + (b.size - 1) \div PAGE_SIZE

LINUX_mem_map_reserve(c) ==
    /\ buffers[c].size # 0 /\ ~buffers[c].reserved
    /\ reserved' = reserved \cup PagesOf(buffers[c])
    /\ buffers' = [buffers EXCEPT ![c].reserved = TRUE]
    /\ UNCHANGED taken

LINUX_mem_map_unreserve(c) ==
    /\ buffers[c].reserved
    /\ reserved' = reserved \ PagesOf(buffers[c])
    /\ buffers' = [buffers EXCEPT ![c].reserved = FALSE]
    /\ UNCHANGED taken

LINUX_dma_contig_free(c) ==
    /\ buffers[c].size # 0 /\ ~buffers[c].reserved
    /\ taken' = taken \ (buffers[c].first .. buffers[c].first + OrderFrames(buffers[c].size) - 1)
    /\ buffers' = [buffers EXCEPT ![c] = NoBuffer]
    /\ UNCHANGED reserved

PageNext ==
    \E c \in Callers :
        \/ LINUX_mem_map_reserve(c) \/ LINUX_mem_map_unreserve(c) \/ LINUX_dma_contig_free(c)
        \/ \E s \in Sizes : LINUX_dma_contig_alloc(c, s)

-----------------------------------------------------------------------------
(* Mappings of device memory.  An address below the end of the physical memory    *)
(* is mapped already, and what is above is mapped anew.                           *)

is_high_memory_phys(phys) == phys >= High

\* Defective variant: only the first address is looked at.
LINUX_ioremap_First(phys, size) == IF is_high_memory_phys(phys) THEN "mapped" ELSE "direct"
LINUX_ioremap(phys, size) ==
    IF is_high_memory_phys(phys) THEN "mapped"
    ELSE IF ~is_high_memory_phys(phys + size - 1) THEN "direct" ELSE "null"

Remap(c) ==
    /\ handles[c] = NoHandle
    /\ \E phys \in 0 .. Top, size \in Sizes :
          LET addr == LINUX_ioremap(phys, size)
          IN  /\ handles' = [handles EXCEPT ![c] =
                                IF addr = "null" THEN NoHandle
                                ELSE [phys |-> phys, size |-> size, addr |-> addr]]
              /\ vmaps' = IF addr = "mapped" THEN vmaps \cup {c} ELSE vmaps

\* A direct address lies below high_memory, a mapped one above.
LINUX_iounmap(c) ==
    /\ handles[c] # NoHandle
    /\ vmaps' = IF handles[c].addr = "direct" THEN vmaps ELSE vmaps \ {c}
    /\ handles' = [handles EXCEPT ![c] = NoHandle]

RemapNext == \E c \in Callers : Remap(c) \/ LINUX_iounmap(c)

-----------------------------------------------------------------------------
(* Deferred work.  The caller stops scheduling and flushes the queue before it    *)
(* frees the work.                                                                *)

\* Defective variant: the work is not cleared.
LINUX_bh_alloc_Dirty ==
    /\ bh = "none" /\ bh' = "ready" /\ pending' \in BOOLEAN
    /\ UNCHANGED <<queued, running, wanted>>
LINUX_bh_alloc ==
    /\ bh = "none" /\ bh' = "ready" /\ pending' = FALSE
    /\ UNCHANGED <<queued, running, wanted>>

\* Work that is pending is not queued again.
LINUX_schedule_task ==
    /\ bh = "ready"
    /\ queued' = (queued \/ ~pending) /\ pending' = TRUE /\ wanted' = TRUE
    /\ UNCHANGED <<bh, running>>

\* The kernel's worker: the pending bit is cleared before the routine runs.
Worker ==
    /\ \/ /\ queued /\ ~running
          /\ queued' = FALSE /\ pending' = FALSE /\ running' = TRUE /\ wanted' = FALSE
       \/ running /\ running' = FALSE /\ UNCHANGED <<queued, pending, wanted>>
    /\ UNCHANGED bh

\* Defective variant: the work that runs is not waited for.
Flushed_Queue == ~queued
Flushed == ~queued /\ ~running
LINUX_flush_scheduled_tasks ==
    /\ \/ bh = "ready" /\ bh' = "flushing"
       \/ bh = "flushing" /\ Flushed /\ bh' = "flushed"
    /\ UNCHANGED <<pending, queued, running, wanted>>

LINUX_bh_free ==
    /\ bh = "flushed" /\ bh' = "none"
    /\ UNCHANGED <<pending, queued, running, wanted>>

WorkNext ==
    LINUX_bh_alloc \/ LINUX_schedule_task \/ Worker \/ LINUX_flush_scheduled_tasks \/ LINUX_bh_free

-----------------------------------------------------------------------------
\* The last reference is noticed: when the counter has come down to zero and every
\* call has returned, at least one of them returned zero, though each reads the
\* counter after others may have changed it.  (More than one may be told so.)
LastIsNoticed ==
    counter = 0 /\ (\A c \in Callers : count[c] = "out") => noticed

\* A mutex lets one caller in, whatever signals come; a wait that was
\* not interrupted is paid for by one call of up, or by the creation of an event.
SemaphoresHold ==
    /\ kind = "mutex" => Cardinality(inside) <= 1
    /\ passed + sem = sets + Created(kind)

\* Exactly the pages that hold a byte of a reserved buffer are marked, and a page
\* that the kernel has back is not: no buffer marks or unmarks its neighbour's.
PagesReservedExactly ==
    /\ reserved = UNION {{buffers[c].first + i \div PAGE_SIZE : i \in 0 .. buffers[c].size - 1} :
                           c \in {d \in Callers : buffers[d].reserved}}
    /\ reserved \subseteq taken
    /\ (\A c \in Callers : buffers[c] = NoBuffer) => taken = {}

\* An address that was handed out is good for all its bytes, and the kernel keeps a
\* mapping exactly for the addresses that need one.
RemapReaches ==
    /\ \A c \in Callers : handles[c].addr = "direct" => handles[c].phys + handles[c].size <= High
    /\ vmaps = {c \in Callers : handles[c].addr = "mapped"}

\* Work is freed only when the kernel is through with it, and scheduled work is on
\* its way.
WorkAlive ==
    /\ queued \/ running => bh # "none"
    /\ wanted => queued
===============================================================================
