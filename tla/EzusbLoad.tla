------------------------------ MODULE EzusbLoad ------------------------------
(* fxload (drivers/linux/Xilinx_Platform_Cable/fxload: main.c, ezusb.c): the    *)
(* program that downloads firmware into the microcontroller of a programming    *)
(* cable, into its RAM in one or two stages or into its boot EEPROM.  The file   *)
(* is read record by record; records that follow each other are merged into a    *)
(* segment, which one or more USB requests write to the device.                  *)
EXTENDS Integers, Sequences

CONSTANTS
    Firmwares,      \* hex files: sequences of [kind, off, len]
    Loader,         \* the hex file of the second stage loader
    Regions,        \* the on-chip memory of the chip: pairs <<first, behind the last>>
    BufSize,        \* sizeof data, 1023 in the code
    MemSize,        \* bytes of memory, 2^16 in the chip
    RETRY_LIMIT,    \* 5 in the code
    None            \* a cell that was never written

Data(rec) == rec.kind = "data"

VARIABLES
    opts,       \* the options of the command line
    pc,         \* what the program does next
    phases,     \* passes over a file that are left, the first one under way
    line,       \* the next record of the file
    seg,        \* data_addr, data, and first_line
    out,        \* the segment that is being written
    retry,      \* requests that timed out
    ram,        \* the memory of the device
    cpu,        \* "stopped", or what it runs: "old", "loader", "firmware"
    boot,       \* the EEPROM says that the device boots from it
    chain,      \* the segments in the EEPROM, Old for what an earlier load left
    link        \* the symbolic link and the permissions are set

vars == <<opts, pc, phases, line, seg, out, retry, ram, cpu, boot, chain, link>>

Options == [ihex : {<<>>} \cup Firmwares, stage1 : BOOLEAN, config : BOOLEAN,
            type : BOOLEAN, link : BOOLEAN, device : BOOLEAN]

File == IF phases[1].loader THEN Loader ELSE opts.ihex
Mode == phases[1].mode

\* A byte of a file: the record and the position in it.
Byte(i, j) == [loader |-> phases[1].loader, rec |-> i, pos |-> j]
Bytes == {[loader |-> b, rec |-> i, pos |-> j] :
              b \in BOOLEAN, i \in 1 .. 8, j \in 0 .. BufSize}
Addresses == 0 .. MemSize - 1
Empty == [addr |-> 0, data |-> <<>>, first |-> TRUE]
Old == << <<"old">> >>

TypeOK ==
    /\ opts \in Options /\ link \in BOOLEAN /\ boot \in BOOLEAN
    /\ pc \in {"main", "begin", "parse", "poke", "last", "config", "type", "run",
               "link", "done", "failed", "usage"}
    /\ line \in 1 .. 9 /\ retry \in 0 .. RETRY_LIMIT
    /\ Len(seg.data) <= BufSize
    /\ seg.addr \in Addresses /\ \A i \in DOMAIN seg.data : seg.data[i] \in Bytes
    /\ ram \in [Addresses -> Bytes \cup {None}]
    /\ cpu \in {"stopped", "old", "loader", "firmware"}

Init ==
    /\ opts \in Options
    /\ pc = "main" /\ phases = <<>> /\ line = 1 /\ seg = Empty /\ out = Empty /\ retry = 0
    /\ ram = [a \in Addresses |-> None] /\ cpu = "old"
    /\ boot \in BOOLEAN /\ chain = Old /\ link = FALSE

Goto(where) == pc' = where
Fail == pc' = "failed"
Load == <<line, seg, out, retry>>
Device == <<ram, cpu, boot, chain>>

-----------------------------------------------------------------------------
(* main.c *)

\* Writing the EEPROM needs the type of the chip, a loader and a firmware, and
\* excludes the link.
Usage == \/ opts.config /\ (~opts.type \/ ~opts.stage1 \/ opts.ihex = <<>> \/ opts.link)
         \/ ~opts.device

Pass(loader, mode) == [loader |-> loader, mode |-> mode]
Passes ==
    IF opts.stage1
    THEN <<Pass(TRUE, "internal_only")>>
         \o (IF opts.config THEN <<Pass(FALSE, "eeprom")>>
             ELSE <<Pass(FALSE, "skip_internal"), Pass(FALSE, "skip_external")>>)
    ELSE <<Pass(FALSE, "internal_only")>>

main ==
    /\ pc = "main"
    /\ \/ Usage /\ Goto("usage") /\ UNCHANGED phases
       \/ ~Usage /\ opts.ihex # <<>> /\ Goto("begin") /\ phases' = Passes
       \/ ~Usage /\ opts.ihex = <<>> /\ Goto("link") /\ UNCHANGED phases
    /\ UNCHANGED <<opts, Load, Device, link>>

\* A link that cannot be made, or no request at all, is an error.
Finish ==
    /\ pc = "link"
    /\ \/ opts.link /\ link' = TRUE /\ Goto("done")
       \/ opts.link /\ Fail /\ UNCHANGED link
       \/ /\ ~opts.link /\ UNCHANGED link
          /\ IF opts.ihex = <<>> THEN Fail ELSE Goto("done")
    /\ UNCHANGED <<opts, phases, Load, Device>>

-----------------------------------------------------------------------------
(* Beginning and end of a pass *)

ezusb_cpucs(run) == cpu' = run
BeginFile == line' = 1 /\ seg' = Empty /\ out' = Empty /\ retry' = 0

\* Defective variant: the CPU keeps running.
BeginRamRunning ==
    /\ pc = "begin" /\ Mode # "eeprom"
    /\ BeginFile
    /\ Goto("parse")
    /\ UNCHANGED <<opts, phases, Device, link>>

\* ezusb_load_ram: the CPU is stopped before its code is overwritten, and keeps
\* running the loader while that writes external memory.
BeginRam ==
    /\ pc = "begin" /\ Mode # "eeprom"
    /\ BeginFile
    /\ \/ /\ Goto("parse")
          /\ IF Mode = "skip_internal" THEN UNCHANGED cpu ELSE ezusb_cpucs("stopped")
       \/ Fail /\ UNCHANGED cpu
    /\ UNCHANGED <<opts, phases, ram, boot, chain, link>>

\* Defective variant: the old image stays bootable while it is overwritten.
BeginEepromBootable ==
    /\ pc = "begin" /\ Mode = "eeprom"
    /\ BeginFile
    /\ Goto("parse")
    /\ UNCHANGED <<opts, phases, Device, link>>

\* ezusb_load_eeprom: the EEPROM is large enough, and is marked as unbootable.
BeginEeprom ==
    /\ pc = "begin" /\ Mode = "eeprom"
    /\ BeginFile
    /\ \/ pc' \in {"parse", "failed"} /\ boot' = FALSE
       \/ Fail /\ UNCHANGED boot
    /\ UNCHANGED <<opts, phases, ram, cpu, chain, link>>

\* The CPU is reset, unless the firmware is only half written.
Run ==
    /\ pc = "run"
    /\ \/ /\ phases' = Tail(phases)
          /\ IF Mode = "skip_internal" THEN UNCHANGED cpu
             ELSE ezusb_cpucs(IF phases[1].loader THEN "loader" ELSE "firmware")
          /\ Goto(IF Len(phases) = 1 THEN "link" ELSE "begin")
       \/ Mode # "skip_internal" /\ Fail /\ UNCHANGED <<phases, cpu>>
    /\ UNCHANGED <<opts, Load, ram, boot, chain, link>>

-----------------------------------------------------------------------------
(* parse_ihex *)

\* Defective variants: records are merged wherever they belong, or without end.
MustFlushWhenFull(rec) == seg.data # <<>> /\ Len(seg.data) + rec.len > BufSize
MustFlushWhenApart(rec) == seg.data # <<>> /\ rec.off # seg.addr + Len(seg.data)

\* The segment is written when the next record does not follow it or does not
\* fit into the buffer.
MustFlush(rec) ==
    /\ seg.data # <<>>
    /\ \/ rec.off # seg.addr + Len(seg.data)
       \/ Len(seg.data) + rec.len > BufSize

Flush(next) ==
    /\ out' = [addr |-> seg.addr, data |-> seg.data, first |-> FALSE]
    /\ seg' = [seg EXCEPT !.addr = next, !.data = <<>>]
    /\ Goto("poke")
    /\ UNCHANGED line

Append1(rec) ==
    LET start == IF seg.first THEN rec.off ELSE seg.addr
    IN  /\ seg' = [addr  |-> start, first |-> FALSE,
                   data  |-> seg.data \o [j \in 1 .. rec.len |-> Byte(line, j)]]
        /\ line' = line + 1
        /\ UNCHANGED <<out, pc>>

EndOfFile == line \in DOMAIN File => File[line].kind = "eof"

ParseRecord ==
    /\ pc = "parse" /\ ~EndOfFile
    /\ LET rec == File[line]
       IN  \/ rec.kind = "comment" /\ line' = line + 1 /\ UNCHANGED <<seg, out, pc>>
           \/ rec.kind = "bad" /\ Fail /\ UNCHANGED <<line, seg, out>>
           \/ Data(rec) /\ MustFlush(rec) /\ Flush(rec.off)
           \/ Data(rec) /\ ~MustFlush(rec) /\ Append1(rec)
    /\ UNCHANGED <<opts, phases, retry, Device, link>>

\* A file that ends without its last record is taken as complete.
ParseEnd ==
    /\ pc = "parse" /\ EndOfFile
    /\ \/ seg.data # <<>> /\ Flush(seg.addr)
       \/ /\ seg.data = <<>>
          /\ Goto(IF Mode = "eeprom" THEN "last" ELSE "run")
          /\ UNCHANGED <<line, seg, out>>
    /\ UNCHANGED <<opts, phases, retry, Device, link>>

-----------------------------------------------------------------------------
(* Writing a segment *)

\* Some of the segment lies outside the on-chip memory.
is_external(addr, len) ==
    ~\E r \in Regions : r[1] <= addr /\ addr < r[2] /\ addr + len <= r[2]
External == is_external(out.addr, Len(out.data))

Written == [a \in Addresses |-> IF a \in out.addr .. out.addr + Len(out.data) - 1
                                THEN out.data[a - out.addr + 1] ELSE ram[a]]

Skipped == Mode = IF External THEN "skip_external" ELSE "skip_internal"
Refused == Mode \in {"internal_only", "eeprom"} /\ External

\* Defective variant: requests that time out are not counted.
ram_poke_Forever ==
    /\ pc = "poke" /\ Mode # "eeprom"
    /\ \/ Refused /\ Fail /\ UNCHANGED <<ram, retry>>
       \/ ~Refused /\ Goto("parse") /\ ram' = (IF Skipped THEN ram ELSE Written) /\ retry' = 0
       \/ ~Refused /\ ~Skipped /\ retry' = 1 - retry /\ UNCHANGED <<ram, pc>>
    /\ UNCHANGED <<opts, phases, line, seg, out, cpu, boot, chain, link>>

\* ram_poke: a request that times out may or may not have been carried out, and
\* is repeated; any other error ends the load.
ram_poke ==
    /\ pc = "poke" /\ Mode # "eeprom"
    /\ \/ Refused /\ Fail /\ UNCHANGED <<ram, retry>>
       \/ Skipped /\ Goto("parse") /\ UNCHANGED <<ram, retry>>
       \/ ~Refused /\ ~Skipped /\ Goto("parse") /\ ram' = Written /\ retry' = 0
       \/ /\ ~Refused /\ ~Skipped
          /\ ram' \in {ram, Written}
          /\ IF retry < RETRY_LIMIT THEN retry' = retry + 1 /\ UNCHANGED pc
                                    ELSE Fail /\ UNCHANGED retry
       \/ ~Refused /\ ~Skipped /\ Fail /\ UNCHANGED <<ram, retry>>
    /\ UNCHANGED <<opts, phases, line, seg, out, cpu, boot, chain, link>>

\* eeprom_poke: a header and the data, behind the segments written before.
Put(s) == chain' = Append(IF chain = Old THEN <<>> ELSE chain, s)

eeprom_poke ==
    /\ pc = "poke" /\ Mode = "eeprom"
    /\ \/ Refused /\ Fail /\ UNCHANGED chain
       \/ ~Refused /\ Goto("parse") /\ Put(<<out.addr, out.data>>)
       \/ ~Refused /\ Fail /\ UNCHANGED chain
       \/ ~Refused /\ Fail /\ \E d \in {<<>>, out.data} : Put(<<out.addr, d>>)
    /\ UNCHANGED <<opts, phases, line, seg, out, retry, ram, cpu, boot, link>>

\* The reset command, the configuration byte (where the chip has one), and last
\* the byte that makes the EEPROM bootable.
EepromLast ==
    /\ pc = "last"
    /\ \/ pc' \in {"config", "failed"} /\ Put(<<"reset">>)
       \/ Fail /\ UNCHANGED chain
    /\ UNCHANGED <<opts, phases, Load, ram, cpu, boot, link>>
EepromConfig ==
    /\ pc = "config"
    /\ \/ pc' \in {"type", "failed"} /\ Put(<<"config">>)
       \/ Fail /\ UNCHANGED chain
    /\ UNCHANGED <<opts, phases, Load, ram, cpu, boot, link>>
EepromType ==
    /\ pc = "type"
    /\ \/ Goto("link") /\ boot' = TRUE /\ phases' = Tail(phases)
       \/ Fail /\ boot' \in BOOLEAN /\ UNCHANGED phases
    /\ UNCHANGED <<opts, Load, ram, cpu, chain, link>>

Next ==
    \/ main \/ Finish \/ BeginRam \/ BeginEeprom \/ Run
    \/ ParseRecord \/ ParseEnd \/ ram_poke \/ eeprom_poke
    \/ EepromLast \/ EepromConfig \/ EepromType

Spec == Init /\ [][Next]_vars /\ WF_vars(Next)

-----------------------------------------------------------------------------
(* Properties *)

\* No record is empty and no two records hold the same address.
Plain(f) ==
    \A i \in DOMAIN f : Data(f[i]) =>
        /\ f[i].len > 0
        /\ \A k \in DOMAIN f : k # i /\ Data(f[k]) =>
              f[k].off + f[k].len <= f[i].off \/ f[i].off + f[i].len <= f[k].off

\* What follows the last record of a hex file does not belong to it.
BeforeEof(f, i) == \A k \in 1 .. i : f[k].kind # "eof"

FileByte(i, j) == [loader |-> FALSE, rec |-> i, pos |-> j]

\* fxload: when it reports success, the memory holds every byte of the file at
\* the address the file gives it, however the records were merged, skipped in
\* one pass and written in the other, timed out and written again.
LoadedWhenDone ==
    pc = "done" /\ opts.ihex # <<>> /\ ~opts.config /\ Plain(opts.ihex) =>
        \A i \in DOMAIN opts.ihex : Data(opts.ihex[i]) /\ BeforeEof(opts.ihex, i) =>
            \A j \in 1 .. opts.ihex[i].len : ram[opts.ihex[i].off + j - 1] = FileByte(i, j)

\* ezusb_load_eeprom: whenever the load stops, the device boots from the EEPROM
\* only if it holds the earlier image untouched or the whole new one.
BootsWholeImage ==
    boot => \/ chain = Old
            \/ /\ Len(chain) >= 2
               /\ chain[Len(chain) - 1] = <<"reset">> /\ chain[Len(chain)] = <<"config">>
               /\ \A i \in DOMAIN opts.ihex : Data(opts.ihex[i]) /\ BeforeEof(opts.ihex, i) =>
                     \A j \in 1 .. opts.ihex[i].len :
                        \E n \in 1 .. Len(chain) - 2 : \E k \in DOMAIN chain[n][2] :
                            chain[n][2][k] = FileByte(i, j)

\* ezusb_load_ram: the memory of a running CPU changes only where the loader
\* that it runs writes, outside the chip; segments that lie on both sides of
\* the border are excluded.
Straddles == \E r \in Regions : /\ out.addr < r[2] /\ r[1] < out.addr + Len(out.data)
                                /\ out.addr < r[1] \/ out.addr + Len(out.data) > r[2]
RunningCodeStep ==
    ram' # ram /\ cpu # "stopped" /\ ~Straddles =>
        /\ cpu = "loader"
        /\ \A a \in Addresses : ram'[a] # ram[a] => ~\E r \in Regions : a \in r[1] .. r[2] - 1
RunningCodeIntact == [][RunningCodeStep]_vars

\* Every load ends, whatever requests time out.
LoadEnds == <>(pc \in {"done", "failed", "usage"})
==============================================================================
