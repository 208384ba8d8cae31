--------------------------- MODULE JtagKeyTransfer ---------------------------
(* jtagkey_transfer of the cable driver                                        *)
(* (drivers/linux/Xilinx_Platform_Cable/usb-driver/jtagkey.c): batches of       *)
(* parallel-port accesses turned into the byte stream of an FTDI chip in        *)
(* synchronous bit-bang mode.  Each byte written sets the pins, and for each    *)
(* the chip returns the pins as they were just before.  Writes that do not      *)
(* change the pins are left out of the stream, and the answers are matched to   *)
(* the reads of the batch by walking it a second time.  A batch is handled in   *)
(* one step: the thread that reads the answers is joined before it goes on.     *)
EXTENDS Integers, Sequences, FiniteSets, SequencesExt

CONSTANTS
    Values,     \* bytes the caller writes to a port
    Pins(_),    \* the pins that a byte written to the data port stands for
    MaxBatch,   \* bound on the accesses of one batch
    BufSize     \* USBBUFSIZE

Zero == 0       \* last_write and last_data before the first call
ASSUME TransferAssumption ==
    /\ Zero \in Values /\ MaxBatch \in Nat /\ BufSize \in Nat /\ MaxBatch < BufSize

Accesses == [cmd : {"PP_READ"}, port : {"status"}, val : {Zero}]
            \cup [cmd : {"PP_WRITE"}, port : {"data", "control"}, val : Values]

VARIABLES
    writebuf,   \* pins written but not yet sent (writebuf up to writepos)
    last_data, last_write,
    onPins,     \* the pins of the chip
    aligned,    \* every read of the last batch got the sample that belongs to it
    plain       \* every write of the last batch that was not a repetition changed pins

vars == <<writebuf, last_data, last_write, onPins, aligned, plain>>

TypeOK ==
    /\ writebuf \in Seq({Pins(v) : v \in Values})
    /\ last_data \in {Pins(v) : v \in Values} /\ last_write \in Values
    /\ onPins \in {Pins(v) : v \in Values}
    /\ aligned \in BOOLEAN /\ plain \in BOOLEAN

Init ==
    /\ writebuf = <<>> /\ last_data = Pins(Zero) /\ last_write = Zero
    /\ onPins = Pins(Zero) /\ aligned = TRUE /\ plain = TRUE

IsRead(a)  == a.cmd = "PP_READ"
SetsPins(a) == a.cmd = "PP_WRITE" /\ a.port = "data"
HasRead(tr) == \E i \in DOMAIN tr : IsRead(tr[i])

-----------------------------------------------------------------------------
\* Defective variant: the buffer is sent when it is full, not when the batch may
\* no longer fit.
MustSendWhenFull(buf, tr) == Len(buf) >= BufSize \/ (HasRead(tr) /\ buf # <<>>)

\* Must what is buffered be sent before the batch is added?
MustSend(buf, tr) == Len(buf) > BufSize - Len(tr) \/ (HasRead(tr) /\ buf # <<>>)

\* Defective variant: no byte is put into the stream for a read.
GatherNoPad(t, tr, i) ==
    LET a    == tr[i]
        data == IF SetsPins(a) THEN Pins(a.val) ELSE t[2]
        add  == data # t[2] \/ i = Len(tr)
    IN  <<IF add THEN Append(t[1], data) ELSE t[1], data, IF SetsPins(a) THEN a.val ELSE t[3]>>

\* An access in the first walk: bytes are added to the buffer for reads, changes of
\* the pins and the last access.  t is <<buffer, last_data, last_write>>.
Gather(t, tr, i) ==
    LET a    == tr[i]
        data == IF SetsPins(a) THEN Pins(a.val) ELSE t[2]
        add  == IsRead(a) \/ data # t[2] \/ i = Len(tr)
    IN  <<IF add THEN Append(t[1], data) ELSE t[1], data, IF SetsPins(a) THEN a.val ELSE t[3]>>

\* An access in the second walk: a read is given the next place in the answers, a
\* write that repeats the last one has none.
\* t is <<place, last_write, <<access, place>> ...>>.
Match(t, tr, i) ==
    LET a == tr[i]
    IN  IF ~IsRead(a) /\ a.val = t[2] /\ i # Len(tr) THEN t
        ELSE <<t[1] + 1, IF SetsPins(a) THEN a.val ELSE t[2],
               IF IsRead(a) THEN Append(t[3], <<i, t[1] + 1>>) ELSE t[3]>>

\* The walks, as functions of the accesses walked over.
Collect(s, tr) ==
    LET walk[i \in 0 .. Len(tr)] == IF i = 0 THEN s ELSE Gather(walk[i - 1], tr, i)
    IN  walk
Answers(tr, last) ==
    LET walk[i \in 0 .. Len(tr)] == IF i = 0 THEN <<0, last, <<>>>> ELSE Match(walk[i - 1], tr, i)
    IN  walk

-----------------------------------------------------------------------------
(* What the caller asked for *)

\* The bytes among the first n of a stream that change the pins, which are p before.
Changes(stream, p, n) ==
    Cardinality({k \in 1 .. n : stream[k] # IF k = 1 THEN p ELSE stream[k - 1]})

\* The byte that the last of the accesses in W writes, or last if there is none.
Written(tr, last, W) ==
    IF W = {} THEN last ELSE tr[CHOOSE k \in W : \A l \in W : l <= k].val
Latest(tr, last, W, i) == Written(tr, last, W \cap 1 .. i)
PinWrites(tr) == {k \in DOMAIN tr : SetsPins(tr[k])}
Writes(tr) == {k \in DOMAIN tr : tr[k].cmd = "PP_WRITE"}

\* The writes among the first i accesses that change the pins.
ChangesAsked(tr, last, i) ==
    Cardinality({k \in PinWrites(tr) \cap 1 .. i :
                    Pins(tr[k].val) # Pins(Latest(tr, last, PinWrites(tr), k - 1))})

\* A write that is not a repetition of the last one changes the pins.
Plain(tr, last) ==
    \A k \in Writes(tr) :
        LET before == Latest(tr, last, Writes(tr), k - 1)
        IN  tr[k].val # before => SetsPins(tr[k]) /\ Pins(tr[k].val) # Pins(before)

-----------------------------------------------------------------------------
jtagkey_transfer(tr) ==
    LET sent   == MustSend(writebuf, tr)
        before == IF sent THEN <<>> ELSE writebuf
        first  == Collect(<<before, last_data, last_write>>, tr)[Len(tr)]
        stream == Append(first[1], first[2])
        second == Answers(tr, last_write)[Len(tr)]
    IN  /\ last_data' = first[2]
        /\ plain' = Plain(tr, last_write)
        /\ IF HasRead(tr)
           THEN /\ writebuf' = <<>>
                /\ last_write' = second[2]
                /\ onPins' = first[2]
                /\ aligned' = \A k \in DOMAIN second[3] :
                                 LET i == second[3][k][1]
                                     n == second[3][k][2]
                                 IN  /\ n < Len(stream)
                                     /\ Changes(stream, last_data, n)
                                           = ChangesAsked(tr, last_write, i)
           ELSE /\ writebuf' = first[1]
                /\ last_write' = first[3]
                /\ onPins' = IF sent /\ writebuf # <<>> THEN Last(writebuf) ELSE onPins
                /\ aligned' = TRUE

Next == \E n \in 1 .. MaxBatch : \E tr \in [1 .. n -> Accesses] : jtagkey_transfer(tr)

Spec == Init /\ [][Next]_vars

-----------------------------------------------------------------------------
\* Every status read of a batch is answered with the pins as they are after the
\* writes before it and before the writes after it, provided that every write
\* that is not a repetition changes the pins: the first walk compares pins, the
\* second one bytes.
ReadsAligned == plain => aligned

\* The buffer is never overrun, and what it holds together with the pins of the
\* chip always ends in the pins that the caller set last.
BufferBounded ==
    /\ Len(writebuf) <= BufSize
    /\ last_data = IF writebuf = <<>> THEN onPins ELSE Last(writebuf)
=============================================================================
