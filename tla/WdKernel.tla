------------------------------- MODULE WdKernel -------------------------------
(* The kernel services of the platform cable's driver (windrvr/linux_wrappers.c, *)
(* for a 2.6 kernel): loading and unloading, the list of interrupt wrappers,     *)
(* scatter lists for a user's buffer, and mappings of buffers into a process.    *)
EXTENDS Integers, Sequences, FiniteSets, SequencesExt

CONSTANTS
    Irqs, Ctxs,         \* interrupt lines, contexts of their users
    MaxWrappers,        \* bound on the wrappers that are made
    PAGE_SIZE,
    Addresses, Sizes,   \* of users' buffers
    Threads, Buffers    \* that map DMA buffers through one file

VARIABLES
    loaded, resources,  \* "out", "in", "failed"; what is registered with the kernel
    badDestroy,         \* an invalid class was passed to class_simple_destroy
    live, hw,           \* wrappers that are allocated; that request_irq installed
    c_list,             \* int_data.c_list
    calls,              \* request_irq and free_irq calls under way
    sameCtx,            \* a context was used for two lines at a time
    pins,               \* how often each page is pinned
    dma,                \* the scatter list of the transfer: <<>>, or what was built
    private_data, mmap_sem, mapped, mapPc   \* the file, the lock, mappings, threads

moduleVars == <<loaded, resources, badDestroy>>
irqVars == <<live, hw, c_list, calls, sameCtx>>
dmaVars == <<pins, dma>>
mapVars == <<private_data, mmap_sem, mapped, mapPc>>
kernelVars == <<moduleVars, irqVars, dmaVars, mapVars>>

PageOf(a) == a \div PAGE_SIZE
PAGE_COUNT(buf, size) == ((buf % PAGE_SIZE) + size + PAGE_SIZE - 1) \div PAGE_SIZE
Pages == UNION {PageOf(a) .. PageOf(a + s) : a \in Addresses, s \in Sizes}

Init ==
    /\ loaded = "out" /\ resources = {} /\ badDestroy = FALSE
    /\ live = {} /\ hw = {} /\ c_list = <<>> /\ calls = {} /\ sameCtx = FALSE
    /\ pins = [p \in Pages |-> 0] /\ dma = <<>>
    /\ private_data = 0 /\ mmap_sem = 0 /\ mapped = {} /\ mapPc = [t \in Threads |-> "idle"]

-----------------------------------------------------------------------------
(* init_module and cleanup_module *)

\* LINUX_register_chrdev, called by init_module_cpp (external): the device number, the
\* class and the node, or none of them.  The class of a failed creation is an error
\* value, which is not NULL, and is destroyed all the same.
LINUX_register_chrdev ==
    \/ resources' = resources \cup {"chrdev", "class", "node"} /\ UNCHANGED badDestroy
    \/ UNCHANGED <<resources, badDestroy>>
    \/ badDestroy' = TRUE /\ UNCHANGED resources

init_module ==
    /\ loaded = "out"
    /\ LINUX_register_chrdev
    /\ \/ resources' # resources /\ loaded' = "in"
       \/ \* no PCI root device: the character device stays
          loaded' = "failed"
    /\ UNCHANGED <<irqVars, dmaVars, mapVars>>

\* The users have gone: the kernel counts the references to the module.
LINUX_unregister_chrdev == resources' = {}
cleanup_module ==
    /\ loaded = "in" /\ c_list = <<>> /\ calls = {} /\ dma = <<>> /\ mapped = {} /\ mmap_sem = 0
    /\ LINUX_unregister_chrdev
    /\ loaded' = "out"
    /\ UNCHANGED <<badDestroy, irqVars, dmaVars, mapVars>>

-----------------------------------------------------------------------------
(* Interrupts *)

Wrappers == 1 .. MaxWrappers
Made == {w.id : w \in live}

\* A wrapper is allocated and installed, then put at the head of the list.
LINUX_request_irq(irq, ctx) ==
    \E n \in Wrappers \ Made :
        LET w == [id |-> n, irq |-> irq, ctx |-> ctx] IN
        /\ loaded = "in" /\ \A m \in Wrappers \ Made : n <= m
        /\ live' = live \cup {w} /\ hw' = hw \cup {w}
        /\ calls' = calls \cup {[op |-> "insert", w |-> w]}
        /\ sameCtx' = (sameCtx \/ \E v \in live : v.ctx = ctx /\ v.irq # irq)
        /\ UNCHANGED <<c_list, moduleVars, dmaVars, mapVars>>

InsertWrapper ==
    \E c \in calls :
        /\ c.op = "insert"
        /\ c_list' = <<c.w>> \o c_list
        /\ calls' = calls \ {c}
        /\ UNCHANGED <<live, hw, sameCtx, moduleVars, dmaVars, mapVars>>

\* Under the lock the first wrapper of the context is taken out of the list.
LINUX_free_irq(irq, ctx) ==
    /\ \E v \in live : v.irq = irq /\ v.ctx = ctx
    /\ \E i \in 1 .. Len(c_list) :
          /\ c_list[i].ctx = ctx /\ \A j \in 1 .. i - 1 : c_list[j].ctx # ctx
          /\ calls' = calls \cup {[op |-> "free", w |-> c_list[i], irq |-> irq]}
          /\ c_list' = RemoveAt(c_list, i)
    /\ UNCHANGED <<live, hw, sameCtx, moduleVars, dmaVars, mapVars>>

\* Defective variant: the wrapper is released first.
ReleaseWrapperFirst(c) ==
    /\ live' = live \ {c.w}
    /\ UNCHANGED <<hw, calls>>

\* free_irq, which knows a wrapper only on its own line, then kfree.
ReleaseWrapper(c) ==
    /\ live' = live \ {c.w}
    /\ hw' = IF c.irq = c.w.irq THEN hw \ {c.w} ELSE hw
    /\ calls' = calls \ {c}
FreeWrapper ==
    /\ \E c \in calls : c.op = "free" /\ c.w \in live /\ ReleaseWrapper(c)
    /\ UNCHANGED <<c_list, sameCtx, moduleVars, dmaVars, mapVars>>

-----------------------------------------------------------------------------
(* Scatter lists *)

\* Defective variant: the offset of the buffer in its page is forgotten.
Pieces_NoOffset(buf, size) ==
    [i \in 1 .. PAGE_COUNT(buf, size) |->
        [page |-> PageOf(buf) + i - 1, offset |-> IF i = 1 THEN buf % PAGE_SIZE ELSE 0,
         length |-> IF i < PAGE_COUNT(buf, size) THEN PAGE_SIZE
                    ELSE size - (i - 1) * PAGE_SIZE]]

\* The elements: the first starts inside its page, the last may be short.
Pieces(buf, size) ==
    LET n == PAGE_COUNT(buf, size)
        first == PAGE_SIZE - (buf % PAGE_SIZE)
        left(i) == size - first - (i - 2) * PAGE_SIZE
    IN  [i \in 1 .. n |->
            [page |-> PageOf(buf) + i - 1,
             offset |-> IF i = 1 THEN buf % PAGE_SIZE ELSE 0,
             length |-> IF n = 1 THEN size ELSE IF i = 1 THEN first
                        ELSE IF left(i) < PAGE_SIZE THEN left(i) ELSE PAGE_SIZE]]

PagesIn(buf, n) == PageOf(buf) .. PageOf(buf) + n - 1
Pinned(S, d) == [p \in Pages |-> IF p \in S THEN pins[p] + d ELSE pins[p]]

\* get_user_pages pins the pages of the buffer, or only some of them.
LINUX_build_sg_dma(buf, size) ==
    /\ loaded = "in" /\ dma = <<>>
    /\ \E res \in 0 .. PAGE_COUNT(buf, size) :
          /\ pins' = Pinned(PagesIn(buf, res), 1)
          /\ dma' = <<[buf |-> buf, size |-> size, res |-> res, sgl |-> <<>>]>>
    /\ UNCHANGED <<moduleVars, irqVars, mapVars>>

\* Defective variant: the error path leaves the pages pinned.
ReleasePinned_Not(buf, res) == UNCHANGED pins

ReleasePinned(buf, res) == pins' = Pinned(PagesIn(buf, res), 0 - 1)

\* All were pinned and the list is filled and mapped; or those that were are released.
build_dma_list_26 ==
    LET d == dma[1] IN
    /\ dma # <<>> /\ d.sgl = <<>>
    /\ \/ /\ d.res = PAGE_COUNT(d.buf, d.size)
          /\ dma' = <<[d EXCEPT !.sgl = Pieces(d.buf, d.size)]>>
          /\ UNCHANGED pins
       \/ ReleasePinned(d.buf, d.res) /\ dma' = <<>>
    /\ UNCHANGED <<moduleVars, irqVars, mapVars>>

LINUX_free_sg_dma ==
    LET d == dma[1] IN
    /\ dma # <<>> /\ d.sgl # <<>>
    /\ pins' = Pinned({d.sgl[i].page : i \in 1 .. PAGE_COUNT(d.buf, d.size)}, 0 - 1)
    /\ dma' = <<>>
    /\ UNCHANGED <<moduleVars, irqVars, mapVars>>

-----------------------------------------------------------------------------
(* Mappings *)

\* Defective variant: the file's data are set without the lock.
MmLocked_Not(t) == TRUE
MmLocked(t) == mmap_sem = t

\* LINUX_do_mmap tells wd_mmap through the file which buffer to map; 0 is I/O memory.
DoMmapLock(t) ==
    /\ loaded = "in" /\ mapPc[t] = "idle"
    /\ \/ mmap_sem = 0 /\ mmap_sem' = t
       \/ mmap_sem # 0 /\ MmLocked(t) /\ UNCHANGED mmap_sem
    /\ mapPc' = [mapPc EXCEPT ![t] = "locked"]
    /\ UNCHANGED <<private_data, mapped, moduleVars, irqVars, dmaVars>>
DoMmapSet(t, b) ==
    /\ mapPc[t] = "locked"
    /\ private_data' = b
    /\ mapPc' = [mapPc EXCEPT ![t] = IF b = 0 THEN "io" ELSE "buffer"]
    /\ mapped' = {m \in mapped : m.thread # t}
    /\ UNCHANGED <<mmap_sem, moduleVars, irqVars, dmaVars>>
wd_mmap(t) ==
    /\ mapPc[t] \in {"io", "buffer"}
    /\ \/ mapped' = mapped \cup {[thread |-> t, asked |-> mapPc[t],
                                  vm_private_data |-> private_data]}
       \/ private_data = 0 /\ UNCHANGED mapped    \* -EAGAIN
    /\ mapPc' = [mapPc EXCEPT ![t] = "idle"]
    /\ mmap_sem' = IF mmap_sem = t THEN 0 ELSE mmap_sem
    /\ UNCHANGED <<private_data, moduleVars, irqVars, dmaVars>>
LINUX_do_munmap ==
    /\ \E m \in mapped : mapPc[m.thread] = "idle" /\ mapped' = mapped \ {m}
    /\ UNCHANGED <<private_data, mmap_sem, mapPc, moduleVars, irqVars, dmaVars>>

\* The interrupts, the lists and the mappings do not touch each other's state.
IrqNext ==
    \/ init_module \/ cleanup_module
    \/ \E i \in Irqs, c \in Ctxs : LINUX_request_irq(i, c) \/ LINUX_free_irq(i, c)
    \/ InsertWrapper \/ FreeWrapper
DmaNext ==
    \/ init_module
    \/ \E b \in Addresses, s \in Sizes : LINUX_build_sg_dma(b, s)
    \/ build_dma_list_26 \/ LINUX_free_sg_dma
MapNext ==
    \/ init_module
    \/ \E t \in Threads : DoMmapLock(t) \/ wd_mmap(t) \/ \E b \in Buffers : DoMmapSet(t, b)
    \/ LINUX_do_munmap

Next == IrqNext \/ DmaNext \/ MapNext

Spec == Init /\ [][Next]_kernelVars

-----------------------------------------------------------------------------
\* An interrupt finds a wrapper that is allocated, unless one context was used for two
\* lines: LINUX_free_irq does not look at the line when it searches the list.
HandlersAlive == ~sameCtx => hw \subseteq live

\* The elements of a scatter list cover the bytes of the buffer, in order and each once,
\* none crosses a page, and the pages are pinned while the list exists, and only then.
ListCovers ==
    /\ \A i \in DOMAIN dma :
          LET s == dma[i].sgl
              bytes(j) == {s[j].page * PAGE_SIZE + s[j].offset + k : k \in 0 .. s[j].length - 1}
          IN  s # <<>> =>
              /\ UNION {bytes(j) : j \in DOMAIN s} = dma[i].buf .. dma[i].buf + dma[i].size - 1
              /\ \A j \in DOMAIN s : s[j].offset + s[j].length <= PAGE_SIZE /\ pins[s[j].page] > 0
    /\ dma = <<>> => \A p \in Pages : pins[p] = 0

\* A thread gets a mapping of the kind it asked for, though the choice travels through
\* the file that the threads share.
MappingsOwn == \A m \in mapped : (m.asked = "io") <=> (m.vm_private_data = 0)

\* A module that was unloaded has left nothing with the kernel.
ModuleOut == loaded = "out" => resources = {} /\ (~sameCtx => hw = {})
==============================================================================
