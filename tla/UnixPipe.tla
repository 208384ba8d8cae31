------------------------------- MODULE UnixPipe -------------------------------
(* The channel between a host program and a simulated FPGA                      *)
(* (physical-devices/unix-pipe): two named pipes, which the host opens in two    *)
(* threads with blocking calls (unix-pipe-device.cpp) and the simulator with     *)
(* calls that do not block and are repeated (unix-pipe-device-bdpi.c), driven    *)
(* by the rules of unix-pipe-device.bsv.  Either process may start first, and    *)
(* the pipes may be left from an earlier run.                                    *)
(* Bytes are numbered in the order in which they are written.                    *)
EXTENDS Naturals, Sequences

CONSTANTS
    ChunkBytes,     \* UMF_CHUNK_BYTES
    HostWrites,     \* lengths of the host's writes, in chunks
    MaxHost,        \* bound: bytes that the host writes
    MaxSim,         \* bound: chunks that the hardware writes
    PipeSize,       \* bytes that a pipe holds
    Retries         \* attempts of openReadThread, 120 in the code

VARIABLES
    toExists, fromExists,   \* the named pipes _TO and _FROM are in the directory
    toPipe, fromPipe,       \* the bytes in them
    host,       \* "off", "up", "cleaned" (after Cleanup) or "gone"
    retries,    \* of openReadThread
    reader, writer, \* the host's ends: "none", "opening" (blocked in open), "open", "closed"
    pending,    \* bytes of the host's write that are not in the pipe yet
    sent,       \* bytes that the host has begun to write
    hostGot,    \* what the host's Reads returned
    sim,        \* "init0", "init1", "ready" or "gone"
    h2f, f2h,   \* the simulator's descriptors are open
    ib,         \* the channel's inputBuffer between ibHead and ibTail
    seenWriter, \* a writer has had the pipe open since the simulator opened it
    readBuffer, writeBuffer,
    simGot,     \* chunks that the hardware has read
    written     \* chunks that the hardware has written

hostVars == <<host, retries, reader, writer, pending, sent, hostGot>>
simVars == <<sim, h2f, f2h, ib, seenWriter, readBuffer, writeBuffer, simGot, written>>
pipeVars == <<toExists, fromExists, toPipe, fromPipe>>
vars == <<hostVars, simVars, pipeVars>>

Ends == {"none", "opening", "open", "closed"}
Bytes(from, n) == [i \in 1 .. n |-> from + i]
Chunk(k) == Bytes((k - 1) * ChunkBytes, ChunkBytes)

TypeOK ==
    /\ toExists \in BOOLEAN /\ fromExists \in BOOLEAN
    /\ Len(toPipe) <= PipeSize /\ Len(fromPipe) <= PipeSize
    /\ host \in {"off", "up", "cleaned", "gone"} /\ retries \in 0 .. Retries
    /\ reader \in Ends /\ writer \in Ends
    /\ pending \in 0 .. sent
    /\ sim \in {"init0", "init1", "ready", "gone"}
    /\ h2f \in BOOLEAN /\ f2h \in BOOLEAN /\ seenWriter \in BOOLEAN
    /\ Len(ib) < ChunkBytes
    /\ Len(readBuffer) <= 2 /\ Len(writeBuffer) <= 2

Init ==
    /\ toExists \in BOOLEAN /\ fromExists \in BOOLEAN
    /\ toPipe = <<>> /\ fromPipe = <<>>
    /\ host = "off" /\ retries = 0 /\ reader = "none" /\ writer = "none"
    /\ pending = 0 /\ sent = 0 /\ hostGot = <<>>
    /\ sim = "init0" /\ h2f = FALSE /\ f2h = FALSE /\ ib = <<>> /\ seenWriter = FALSE
    /\ readBuffer = <<>> /\ writeBuffer = <<>> /\ simGot = <<>> /\ written = 0

-----------------------------------------------------------------------------
(* The host *)

HostReads == reader \in {"opening", "open"}
HostHolds == writer \in {"opening", "open"} \/ pending > 0

\* UNIX_PIPE_DEVICE_CLASS::Init starts the two threads.
HostInit ==
    /\ host = "off"
    /\ host' = "up"
    /\ UNCHANGED <<retries, reader, writer, pending, sent, hostGot, simVars, pipeVars>>

HostGone ==
    /\ host' = "gone" /\ reader' = "closed" /\ writer' = "closed" /\ pending' = 0
    /\ UNCHANGED <<retries, sent, hostGot>>

\* openReadThread: open blocks until the simulator opens the pipe for writing;
\* while the pipe does not exist it is tried again.
openReadThread ==
    /\ host \in {"up", "cleaned"} /\ reader = "none"
    /\ \/ /\ fromExists
          /\ reader' = "opening"
          /\ UNCHANGED <<host, retries, writer, pending, sent, hostGot>>
       \/ /\ ~fromExists /\ retries + 1 < Retries
          /\ retries' = retries + 1
          /\ UNCHANGED <<host, reader, writer, pending, sent, hostGot>>
       \/ ~fromExists /\ retries + 1 = Retries /\ HostGone
    /\ UNCHANGED <<simVars, pipeVars>>

\* openWriteThread: the pipe is made, and open blocks until the simulator has it open.
openWriteThread ==
    /\ host \in {"up", "cleaned"} /\ writer = "none"
    /\ toExists' = TRUE
    /\ writer' = IF h2f /\ sim # "gone" THEN "open" ELSE "opening"
    /\ seenWriter' = (seenWriter \/ h2f)
    /\ UNCHANGED <<host, retries, reader, pending, sent, hostGot, fromExists, toPipe, fromPipe,
                   sim, h2f, f2h, ib, readBuffer, writeBuffer, simGot, written>>

\* Write waits for the open, then writes in one call; the pipe takes as much as
\* it has room for.
Write(n) ==
    /\ host = "up" /\ writer = "open" /\ pending = 0
    /\ sent + n * ChunkBytes <= MaxHost
    /\ pending' = n * ChunkBytes /\ sent' = sent + n * ChunkBytes
    /\ UNCHANGED <<host, retries, reader, writer, hostGot, simVars, pipeVars>>

WriteBytes(n) ==
    /\ pending >= n /\ sim # "gone" /\ Len(toPipe) + n <= PipeSize
    /\ toPipe' = toPipe \o Bytes(sent - pending, n)
    /\ pending' = pending - n
    /\ UNCHANGED <<host, retries, reader, writer, sent, hostGot, simVars,
                   toExists, fromExists, fromPipe>>

\* A write to a pipe that nobody reads falls short, and so does a read when the
\* simulator is gone: the host exits.
WriteShort ==
    /\ pending > 0 /\ sim = "gone"
    /\ HostGone
    /\ UNCHANGED <<simVars, pipeVars>>

\* Read of one chunk: a short count is fatal.
Read ==
    /\ host = "up" /\ reader = "open"
    /\ \/ /\ Len(fromPipe) >= ChunkBytes
          /\ hostGot' = hostGot \o SubSeq(fromPipe, 1, ChunkBytes)
          /\ fromPipe' = SubSeq(fromPipe, ChunkBytes + 1, Len(fromPipe))
          /\ UNCHANGED <<host, retries, reader, writer, pending, sent>>
       \/ /\ Len(fromPipe) \in 1 .. ChunkBytes - 1 \/ (fromPipe = <<>> /\ sim = "gone")
          /\ HostGone
          /\ UNCHANGED fromPipe
    /\ UNCHANGED <<simVars, toExists, fromExists, toPipe>>

\* Cleanup closes the ends that are open.  A thread that is inside a write keeps the
\* pipe until the call returns, and one that has not opened its end yet goes on.
\* Then the process exits.
Closed(end) == IF end = "open" THEN "closed" ELSE end
Cleanup ==
    /\ host = "up"
    /\ host' = "cleaned" /\ reader' = Closed(reader) /\ writer' = Closed(writer)
    /\ UNCHANGED <<retries, pending, sent, hostGot, simVars, pipeVars>>

HostExit ==
    /\ host = "cleaned"
    /\ HostGone
    /\ UNCHANGED <<simVars, pipeVars>>

-----------------------------------------------------------------------------
(* The simulator *)

SimGone == sim' = "gone" /\ UNCHANGED <<h2f, f2h, ib, seenWriter, readBuffer, writeBuffer,
                                        simGot, written>>

\* The simulation ends by itself, or is stopped.
SimFinish ==
    /\ sim # "gone" /\ SimGone
    /\ UNCHANGED <<hostVars, pipeVars>>

\* open_channel: opening for reading succeeds when the pipe exists and lets the
\* host's open return; opening for writing succeeds when the host has the other end.
OpenTo(exists) ==
    /\ h2f' = (h2f \/ exists)
    /\ writer' = IF exists /\ writer = "opening" THEN "open" ELSE writer
    /\ seenWriter' = (seenWriter \/ (exists /\ HostHolds))
OpenFrom ==
    /\ f2h' = (f2h \/ HostReads)
    /\ reader' = IF reader = "opening" THEN "open" ELSE reader

pipe_init ==
    /\ sim = "init0"
    /\ sim' = "init1" /\ fromExists' = TRUE
    /\ OpenFrom /\ OpenTo(toExists)
    /\ UNCHANGED <<host, retries, pending, sent, hostGot, toExists, toPipe, fromPipe,
                   ib, readBuffer, writeBuffer, simGot, written>>

pipe_open ==
    /\ sim = "init1"
    /\ sim' = "ready"
    /\ UNCHANGED <<hostVars, pipeVars, h2f, f2h, ib, seenWriter, readBuffer, writeBuffer,
                   simGot, written>>

\* Defective variants: the pipe is not opened again; a part of a chunk is not kept;
\* the end of the stream is taken for a pipe without data.
RetryOpenNever == FALSE
RetryOpen == toExists

KeptDropped(bytes) == <<>>
Kept(bytes) == bytes

EndOfFileNever == FALSE
\* select reports an empty pipe as readable once its writers are gone.
EndOfFile == h2f /\ seenWriter /\ ~HostHolds /\ toPipe = <<>>

\* rule read_bdpi with pipe_read: as many bytes are read as complete the chunk.
OpenAgain ==
    /\ sim = "ready" /\ ~h2f /\ RetryOpen /\ Len(readBuffer) < 2
    /\ OpenTo(TRUE)
    /\ UNCHANGED <<host, retries, reader, pending, sent, hostGot, pipeVars,
                   sim, f2h, ib, readBuffer, writeBuffer, simGot, written>>

pipe_read ==
    /\ sim = "ready" /\ h2f /\ Len(readBuffer) < 2
    /\ \/ /\ toPipe # <<>>
          /\ LET want == ChunkBytes - Len(ib)
                 n    == IF Len(toPipe) < want THEN Len(toPipe) ELSE want
                 buf  == ib \o SubSeq(toPipe, 1, n)
             IN  /\ toPipe' = SubSeq(toPipe, n + 1, Len(toPipe))
                 /\ IF Len(buf) = ChunkBytes
                    THEN ib' = <<>> /\ readBuffer' = Append(readBuffer, buf)
                    ELSE ib' = Kept(buf) /\ UNCHANGED readBuffer
          /\ UNCHANGED <<sim, h2f, f2h, seenWriter, writeBuffer, simGot, written>>
       \/ EndOfFile /\ SimGone /\ UNCHANGED toPipe
    /\ UNCHANGED <<hostVars, toExists, fromExists, fromPipe>>

\* rule write_bdpi: pipe_can_write opens the pipe and asks for room, pipe_write
\* writes one chunk.  A pipe that the host has closed ends the simulator.
pipe_write ==
    /\ sim = "ready" /\ writeBuffer # <<>>
    /\ \/ /\ ~f2h /\ HostReads
          /\ OpenFrom
          /\ UNCHANGED <<host, retries, writer, pending, sent, hostGot, pipeVars, sim, h2f, ib,
                         seenWriter, readBuffer, writeBuffer, simGot, written>>
       \/ /\ f2h /\ HostReads /\ Len(fromPipe) + ChunkBytes <= PipeSize
          /\ fromPipe' = fromPipe \o Head(writeBuffer)
          /\ writeBuffer' = Tail(writeBuffer)
          /\ UNCHANGED <<hostVars, toExists, fromExists, toPipe, sim, h2f, f2h, ib, seenWriter,
                         readBuffer, simGot, written>>
       \/ f2h /\ ~HostReads /\ SimGone /\ UNCHANGED <<hostVars, pipeVars>>

\* The methods of the driver.
DriverRead ==
    /\ sim # "gone" /\ readBuffer # <<>>
    /\ simGot' = simGot \o Head(readBuffer) /\ readBuffer' = Tail(readBuffer)
    /\ UNCHANGED <<hostVars, pipeVars, sim, h2f, f2h, ib, seenWriter, writeBuffer, written>>

DriverWrite ==
    /\ sim # "gone" /\ Len(writeBuffer) < 2 /\ written < MaxSim
    /\ written' = written + 1 /\ writeBuffer' = Append(writeBuffer, Chunk(written + 1))
    /\ UNCHANGED <<hostVars, pipeVars, sim, h2f, f2h, ib, seenWriter, readBuffer, simGot>>

-----------------------------------------------------------------------------
SomeBytes == \E n \in 1 .. PipeSize : WriteBytes(n)
HostThreads == openReadThread \/ openWriteThread \/ SomeBytes \/ WriteShort \/ HostExit
Simulator == pipe_init \/ pipe_open \/ OpenAgain \/ pipe_read \/ pipe_write

Next ==
    \/ HostInit \/ HostThreads \/ Read \/ Cleanup \/ \E n \in HostWrites : Write(n)
    \/ Simulator \/ SimFinish \/ DriverRead \/ DriverWrite

\* The threads of the host run, the simulator keeps cycling, and the hardware takes
\* the chunks that it is given.  Nothing says that the host reads.
Fairness ==
    /\ WF_vars(openReadThread) /\ WF_vars(openWriteThread) /\ WF_vars(SomeBytes)
    /\ WF_vars(pipe_init) /\ WF_vars(pipe_open) /\ WF_vars(OpenAgain) /\ WF_vars(pipe_read)
    /\ WF_vars(DriverRead)

Spec == Init /\ [][Next]_vars /\ Fairness

-----------------------------------------------------------------------------
\* Both directions deliver the bytes that were written, in order, once, and to the
\* hardware in whole chunks, however the pipe splits the host's writes.
StreamsIntact ==
    /\ simGot = Bytes(0, Len(simGot)) /\ Len(simGot) % ChunkBytes = 0
    /\ hostGot = Bytes(0, Len(hostGot))
    /\ Len(simGot) <= sent /\ Len(hostGot) <= written * ChunkBytes

\* Whichever process starts first, the host's open for writing returns as long as
\* the simulator is there, and every byte written is read.
HostNotStuck ==
    (writer = "opening" \/ pending > 0) ~> ((writer # "opening" /\ pending = 0) \/ sim = "gone")

\* "cleanup: close the pipe.  The other side will exit": a simulator that has been
\* connected does not outlive the host.
SimulatorExits == (host = "gone" /\ h2f /\ seenWriter) ~> (sim = "gone")
===============================================================================
