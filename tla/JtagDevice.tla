----------------------------- MODULE JtagDevice -----------------------------
(* The host's JTAG devices (physical-devices/jtag: xilinx/jtag-device.cpp,      *)
(* altera/jtag-device.cpp).  A vendor's terminal is started as a child process. *)
(* The Altera device talks to it through two pipes.  The Xilinx device connects  *)
(* to a socket of the terminal, keeps it busy with empty lines from two threads, *)
(* and has a third thread pass on what comes back without the blanks.            *)
EXTENDS Naturals, Sequences

CONSTANTS
    Vendor,     \* "xilinx" or "altera"
    Chars,      \* bytes above 40, which are data
    Blank,      \* a byte up to 40, and the end of line that the device adds
    MaxRetry,   \* connection attempts, 10 in the code
    MaxBytes    \* bound on the bytes sent in each direction

VARIABLES
    pc,         \* the thread of the model: "new", "connecting", "ready", "eol",
                \* "join", "closed", "exited"
    retry,      \* failed attempts to connect
    killThreads,
    threads,    \* those that run, of "poll", "xmd" and "blank"
    blank,      \* RemoveBlanks: "read", "test", or "loop" before the next turn
    buf,        \* its buffer
    sock,       \* bytes from the terminal that were not read yet
    gone,       \* the terminal has ended
    stale,      \* RemoveBlanks has read from a terminal that has ended
    jtag_to_blank,          \* the pipe behind RemoveBlanks
    told, got,              \* data sent by the terminal, returned by Read
    asked, wire             \* data given to Write, bytes written to the terminal

jtagVars == <<pc, retry, killThreads, threads, blank, buf, sock, gone, stale, jtag_to_blank,
              told, got, asked, wire>>

IsData(c) == c \in Chars

Init ==
    /\ pc = "new" /\ retry = 0 /\ killThreads = FALSE /\ threads = {} /\ blank = "loop"
    /\ buf = Blank /\ sock = <<>> /\ gone = FALSE /\ stale = FALSE /\ jtag_to_blank = <<>>
    /\ told = <<>> /\ got = <<>> /\ asked = <<>> /\ wire = <<>>

Streams == <<sock, gone, stale, jtag_to_blank, told, got, asked, wire>>

-----------------------------------------------------------------------------
(* Init and Cleanup *)

\* Xilinx: the terminal is forked and a thread started that types into it.
InitFork ==
    /\ pc = "new" /\ Vendor = "xilinx"
    /\ \/ pc' = "connecting" /\ threads' = {"xmd"}
       \/ pc' = "exited" /\ UNCHANGED threads
    /\ UNCHANGED <<retry, killThreads, blank, buf, Streams>>

\* Altera: the terminal is forked behind two pipes that carry the data.
Fork ==
    /\ pc = "new" /\ Vendor = "altera"
    /\ pc' \in {"ready", "exited"}
    /\ UNCHANGED <<retry, killThreads, threads, blank, buf, Streams>>

\* Either the connection stands and two threads use it, or another attempt is made.
Connect ==
    /\ pc = "connecting"
    /\ \/ pc' = "ready" /\ threads' = threads \cup {"poll", "blank"} /\ UNCHANGED retry
       \/ retry > MaxRetry /\ pc' = "exited" /\ UNCHANGED <<threads, retry>>
       \/ retry <= MaxRetry /\ retry' = retry + 1 /\ UNCHANGED <<pc, threads>>
    /\ UNCHANGED <<killThreads, blank, buf, Streams>>

Cleanup ==
    /\ pc = "ready"
    /\ IF Vendor = "xilinx" THEN killThreads' = TRUE /\ pc' = "join" /\ UNCHANGED gone
       ELSE gone' = TRUE /\ pc' = "closed" /\ UNCHANGED killThreads
    /\ UNCHANGED <<retry, threads, blank, buf, sock, stale, jtag_to_blank, told, got, asked, wire>>

\* Defective variant: the socket is closed before the threads are joined.
JoinedNot ==
    /\ pc = "join"
    /\ pc' = "closed" /\ gone' = TRUE
    /\ UNCHANGED <<retry, killThreads, threads, blank, buf, sock, stale, jtag_to_blank,
                   told, got, asked, wire>>

\* The threads are joined before the socket is closed and the terminal killed.
Joined ==
    /\ pc = "join" /\ threads = {}
    /\ pc' = "closed" /\ gone' = TRUE
    /\ UNCHANGED <<retry, killThreads, threads, blank, buf, sock, stale, jtag_to_blank,
                   told, got, asked, wire>>

-----------------------------------------------------------------------------
(* The threads *)

EndThread(t) ==
    /\ t \in threads /\ killThreads /\ (t = "blank" => blank = "loop")
    /\ threads' = threads \ {t}
    /\ UNCHANGED <<pc, retry, killThreads, blank, buf, Streams>>

\* ProbeHW writes an end of line to the socket.  (XMDWriter writes to the standard
\* input of the terminal, which carries no data.)
ProbeHW ==
    /\ "poll" \in threads /\ ~killThreads /\ Len(wire) < 2 * MaxBytes
    /\ wire' = Append(wire, Blank)
    /\ UNCHANGED <<pc, retry, killThreads, threads, blank, buf, sock, gone, stale,
                   jtag_to_blank, told, got, asked>>

\* RemoveBlanks: a byte is read, and what read says is not looked at: when the
\* terminal has ended the last byte stays in the buffer.
BlankRead ==
    /\ "blank" \in threads
    /\ blank = "read" \/ (blank = "loop" /\ ~killThreads)
    /\ blank' = "test"
    /\ \/ /\ sock # <<>>
          /\ buf' = Head(sock) /\ sock' = Tail(sock)
          /\ UNCHANGED stale
       \/ /\ sock = <<>> /\ gone
          /\ stale' = TRUE
          /\ UNCHANGED <<buf, sock>>
    /\ UNCHANGED <<pc, retry, killThreads, threads, gone, jtag_to_blank, told, got, asked, wire>>

\* The thread has passed the test of killThreads and blocks in read.
BlankBlocks ==
    /\ "blank" \in threads /\ blank = "loop" /\ ~killThreads /\ sock = <<>> /\ ~gone
    /\ blank' = "read"
    /\ UNCHANGED <<pc, retry, killThreads, threads, buf, Streams>>

\* Defective variant: the test is the wrong way round.
PassedOnJunk(c) == ~IsData(c)

PassedOn(c) == IsData(c)

BlankTest ==
    /\ "blank" \in threads /\ blank = "test"
    /\ blank' = "loop"
    /\ jtag_to_blank' = IF PassedOn(buf) /\ Len(jtag_to_blank) < 2 * MaxBytes
                        THEN Append(jtag_to_blank, buf) ELSE jtag_to_blank
    /\ UNCHANGED <<pc, retry, killThreads, threads, buf, sock, gone, stale, told, got, asked, wire>>

-----------------------------------------------------------------------------
(* Read and Write *)

Input == IF Vendor = "xilinx" THEN jtag_to_blank ELSE sock

\* Read returns some of what there is.
Read ==
    /\ pc = "ready" /\ Len(got) < 2 * MaxBytes
    /\ \E n \in 1 .. Len(Input) :
          /\ got' = got \o SubSeq(Input, 1, n)
          /\ IF Vendor = "xilinx"
             THEN jtag_to_blank' = SubSeq(Input, n + 1, Len(Input)) /\ UNCHANGED sock
             ELSE sock' = SubSeq(Input, n + 1, Len(Input)) /\ UNCHANGED jtag_to_blank
    /\ UNCHANGED <<pc, retry, killThreads, threads, blank, buf, gone, stale, told, asked, wire>>

\* Xilinx: the data and the end of line behind them are two writes.
Write(c) ==
    /\ pc = "ready" /\ Len(asked) < MaxBytes
    /\ asked' = Append(asked, c)
    /\ wire' = Append(wire, c)
    /\ pc' = IF Vendor = "xilinx" THEN "eol" ELSE "ready"
    /\ UNCHANGED <<retry, killThreads, threads, blank, buf, sock, gone, stale, jtag_to_blank,
                   told, got>>
WriteEol ==
    /\ pc = "eol"
    /\ wire' = Append(wire, Blank)
    /\ pc' = "ready"
    /\ UNCHANGED <<retry, killThreads, threads, blank, buf, sock, gone, stale, jtag_to_blank,
                   told, got, asked>>

\* The terminal sends what the FPGA writes, and blanks of its own; it may end.
TerminalSends(c) ==
    /\ pc \in {"ready", "eol"} /\ ~gone /\ Len(told) < MaxBytes /\ Len(sock) < MaxBytes
    /\ sock' = Append(sock, c)
    /\ told' = IF IsData(c) THEN Append(told, c) ELSE told
    /\ UNCHANGED <<pc, retry, killThreads, threads, blank, buf, gone, stale, jtag_to_blank, got,
                   asked, wire>>
TerminalEnds ==
    /\ pc \in {"ready", "eol"} /\ ~gone
    /\ gone' = TRUE
    /\ UNCHANGED <<pc, retry, killThreads, threads, blank, buf, sock, stale, jtag_to_blank,
                   told, got, asked, wire>>

Next ==
    \/ InitFork \/ Fork \/ Connect \/ Cleanup \/ Joined
    \/ \E t \in {"poll", "xmd", "blank"} : EndThread(t)
    \/ ProbeHW \/ BlankRead \/ BlankBlocks \/ BlankTest
    \/ Read \/ WriteEol \/ TerminalEnds
    \/ \E c \in Chars : Write(c)
    \/ \E c \in (IF Vendor = "xilinx" THEN Chars \cup {Blank} ELSE Chars) : TerminalSends(c)

Spec == Init /\ [][Next]_jtagVars

-----------------------------------------------------------------------------
\* The sequence t holds the data of s in their order, without the blanks.
WithoutBlanks(s, t) ==
    \E at \in [1 .. Len(t) -> 1 .. Len(s)] :
        /\ \A k, m \in 1 .. Len(t) : k < m => at[k] < at[m]
        /\ \A k \in 1 .. Len(t) : t[k] = s[at[k]]
        /\ \A i \in 1 .. Len(s) : IsData(s[i]) <=> \E k \in 1 .. Len(t) : at[k] = i

\* The data that were read from the socket: what Read returned, what waits behind
\* RemoveBlanks, and the byte that RemoveBlanks looks at.
Arrived == got \o jtag_to_blank \o (IF blank = "test" /\ IsData(buf) THEN <<buf>> ELSE <<>>)

\* The data of the FPGA reach the reader complete and in order, without the blanks,
\* as long as the terminal lives; and the data given to Write reach the terminal in
\* order, with nothing but ends of lines between them.
JtagIntact ==
    /\ ~stale => \E n \in 0 .. Len(told) :
                    /\ Arrived = SubSeq(told, 1, n)
                    /\ WithoutBlanks(sock, SubSeq(told, n + 1, Len(told)))
    /\ WithoutBlanks(wire, asked)

\* The socket is closed only when no thread uses it any more.
ThreadsEndFirst == pc = "closed" => threads = {}
==============================================================================
