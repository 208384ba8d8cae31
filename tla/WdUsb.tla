-------------------------------- MODULE WdUsb --------------------------------
(* The USB layer of the platform cable's driver (windrvr/wdusb_linux.c): a USB   *)
(* driver that is registered for a match table, devices that come and go, and    *)
(* OS_transfer, which splits a request into pieces of the buffer it could get,   *)
(* submits each as a URB and waits for its completion, a time limit or a halt.   *)
(* The library above it (create_transfer, Usb_device_detach) is external.        *)
EXTENDS Naturals, Sequences, FiniteSetsExt

CONSTANTS
    Types,          \* of "bulk", "interrupt", "control", "iso"
    Sizes,          \* requested lengths
    MAX_ALLOC_SIZE, \* 0x10000 in the code
    PAGE_SIZE,
    PacketSize,     \* max_packet_size of the pipe
    MAX_PACKETS     \* 900 in the code

VARIABLES
    driver,         \* "none" or "registered"
    connected,      \* device_connected, while the device is attached
    heap,           \* the allocations that live
    xfer,           \* the transfer: "none", "submit", "wait", "after", "exit", "done"
    req,            \* its type, length (in either direction), whether a time limit was given,
                    \* USB_ISOCH_FULL_PACKETS_ONLY, and the allocated size
    len, single_len, reported,  \* bytes left, of this piece, *bytes_transferred
    timeLeft,       \* timeout > 0
    urb,            \* "idle", "flying", or "set": its status is set, the handler to come
    urbStatus, actual, is_finished, is_halted,
    rc,
    moved, cur,     \* the bytes that the device took or gave; the place in the buffer
    late, touched,  \* the time limit met a URB in state "set"; a handler used a freed tc
    missed,         \* the halt came when no URB was flying
    badPacket,      \* a packet of an isochronous transfer failed
    leaked          \* create_transfer failed

transferVars == <<xfer, req, len, single_len, reported, timeLeft, urb, urbStatus, actual,
                  is_finished, is_halted, rc, moved, cur, late, touched, missed, badPacket, leaked>>
wdVars == <<driver, connected, heap, transferVars>>

NoRequest == [type |-> "bulk", bytes |-> 0, limit |-> FALSE, full |-> FALSE,
         allocated |-> 0]

Init ==
    /\ driver = "none" /\ connected = FALSE /\ heap = {}
    /\ xfer = "none" /\ req = NoRequest /\ len = 0 /\ single_len = 0 /\ reported = 0
    /\ timeLeft = TRUE /\ urb = "idle" /\ urbStatus = "0" /\ actual = 0 /\ is_finished = FALSE
    /\ is_halted = FALSE /\ rc = "0" /\ moved = <<>> /\ cur = 0
    /\ late = FALSE /\ touched = FALSE /\ missed = FALSE /\ badPacket = FALSE /\ leaked = FALSE

Min2(a, b) == IF a < b THEN a ELSE b
Attached == "dev" \in heap

-----------------------------------------------------------------------------
(* Registration and devices *)

\* Each allocation may fail; what was allocated before is released.
OS_register_devices ==
    /\ driver = "none"
    /\ \/ driver' = "registered" /\ heap' = heap \cup {"id", "driver", "name"}
       \/ UNCHANGED <<driver, heap>>
    /\ UNCHANGED <<connected, transferVars>>

\* usb_deregister disconnects the device first.
OS_unregister_devices ==
    /\ driver = "registered" /\ ~Attached
    /\ driver' = "none" /\ heap' = heap \ {"id", "driver", "name"}
    /\ UNCHANGED <<connected, transferVars>>

\* Usb_device_attach may refuse the device.
usb_generic_probe ==
    /\ driver = "registered" /\ ~Attached
    /\ \/ connected' = TRUE /\ heap' = heap \cup {"dev"}
       \/ UNCHANGED <<connected, heap>>
    /\ UNCHANGED <<driver, transferVars>>

\* The device is marked, then the library told; the USB core ends a flying URB.
DisconnectBegins ==
    /\ Attached /\ connected
    /\ connected' = FALSE
    /\ UNCHANGED <<driver, heap, transferVars>>
CoreEndsUrb ==
    /\ Attached /\ ~connected /\ urb = "flying"
    /\ urb' = "set" /\ urbStatus' = "-ENODEV" /\ actual' = 0
    /\ UNCHANGED <<driver, connected, heap, xfer, req, len, single_len, reported, timeLeft,
                   is_finished, is_halted, rc, moved, cur, late, touched, missed, badPacket, leaked>>

\* Defective variant: the device's data are released before the library is told.
DetachEarly == Attached /\ ~connected

\* Usb_device_detach (external) returns when no transfer uses the device.
Detach == Attached /\ ~connected /\ xfer \in {"none", "done"}

DisconnectEnds ==
    /\ Detach
    /\ heap' = heap \ {"dev"}
    /\ UNCHANGED <<driver, connected, transferVars>>

-----------------------------------------------------------------------------
(* OS_transfer *)

\* try_allocate: the size that is asked for first; it is halved while the allocation
\* fails and the size is more than a page.
Rounded(type, n) ==
    CASE type = "interrupt" -> Min2(n, PacketSize)
      [] type = "iso" /\ n \div PacketSize > MAX_PACKETS -> MAX_PACKETS * PacketSize
      [] type = "iso" /\ n \div PacketSize <= MAX_PACKETS /\ n > PacketSize ->
             ((n - 1) \div PacketSize + 1) * PacketSize
      [] OTHER -> n
Halved(type, n) == IF type = "iso" THEN ((n \div 2) \div PacketSize) * PacketSize ELSE n \div 2
try_allocate(type, n) ==
    LET first == Rounded(type, IF type = "interrupt" THEN n ELSE Min2(n, MAX_ALLOC_SIZE))
        sizes[k \in 0 .. first] == IF k = 0 THEN first ELSE Halved(type, sizes[k - 1])
    IN  {sizes[k] : k \in {m \in 0 .. first : \A l \in 0 .. m - 1 : sizes[l] > PAGE_SIZE}}

Requests == [type : Types, bytes : Sizes, limit : BOOLEAN, full : BOOLEAN,
             allocated : {0}]

\* The buffer, the context and the library's transfer are allocated, or some are not.
Begin(r) ==
    /\ Attached /\ connected /\ xfer = "none"
    /\ r.full => r.type = "iso"
    /\ \/ \E n \in (IF r.bytes = 0 THEN {0} ELSE try_allocate(r.type, r.bytes)) :
             /\ req' = [r EXCEPT !.allocated = n]
             /\ heap' = heap \cup (IF r.bytes = 0 THEN {"tc"} ELSE {"tc", "trans_buf"})
          /\ xfer' = "submit" /\ UNCHANGED <<rc, leaked>>
       \/ \* try_allocate fails, or tc_alloc
          /\ req' = r /\ xfer' = "exit" /\ UNCHANGED leaked
          /\ \/ r.bytes > 0 /\ rc' = "WD_INSUFFICIENT_RESOURCES" /\ UNCHANGED heap
             \/ /\ rc' = "-ENOMEM"
                /\ heap' = heap \cup (IF r.bytes = 0 THEN {} ELSE {"trans_buf"})
       \/ \* create_transfer fails: nobody releases the context
          /\ req' = r /\ xfer' = "exit" /\ rc' = "-ENOMEM" /\ leaked' = TRUE
          /\ heap' = heap \cup (IF r.bytes = 0 THEN {"tc"} ELSE {"tc", "trans_buf"})
    /\ len' = r.bytes /\ timeLeft' = TRUE
    /\ UNCHANGED <<driver, connected, single_len, reported, urb, urbStatus, actual, is_finished,
                   is_halted, moved, cur, late, touched, missed, badPacket>>

\* The size of the next piece.
PieceOf(n) == IF req.type = "iso" /\ n > PacketSize THEN (n \div PacketSize) * PacketSize ELSE n

\* An isochronous transfer of full packets only stops at a remainder.
StopAtRemainder ==
    /\ xfer = "submit" /\ req.bytes > 0 /\ req.type = "iso" /\ req.full
    /\ Min2(len, req.allocated) <= PacketSize /\ len < PacketSize
    /\ xfer' = "exit" /\ rc' = "0"
    /\ UNCHANGED <<driver, connected, heap, req, len, single_len, reported, timeLeft, urb,
                   urbStatus, actual, is_finished, is_halted, moved, cur, late, touched, missed,
                   badPacket, leaked>>

\* usb_transfer_single fills the URB, usb_submit_sync hands it over.
usb_transfer_single ==
    /\ xfer = "submit"
    /\ ~(req.bytes > 0 /\ req.type = "iso" /\ req.full
         /\ Min2(len, req.allocated) <= PacketSize /\ len < PacketSize)
    /\ single_len' = PieceOf(Min2(len, req.allocated))
    /\ is_finished' = FALSE
    /\ \/ connected /\ xfer' = "wait" /\ urb' = "flying" /\ urbStatus' = "-EINPROGRESS"
          /\ UNCHANGED rc
       \/ xfer' = "exit" /\ rc' \in {"-ENODEV", "-ENOMEM"} /\ UNCHANGED <<urb, urbStatus>>
    /\ UNCHANGED <<driver, connected, heap, req, len, reported, timeLeft, actual, is_halted,
                   moved, cur, late, touched, missed, badPacket, leaked>>

\* The host controller is done with the URB.  A packet of an isochronous transfer may
\* fail alone: usb_common_completion moves the good ones together and counts them.
Complete(n, st) ==
    /\ urb = "flying" /\ n <= single_len
    /\ req.type = "iso" /\ st = "0" => n = single_len \/ n % PacketSize = 0
    /\ urb' = "set" /\ urbStatus' = st /\ actual' = n
    /\ badPacket' = (badPacket \/ (req.type = "iso" /\ st = "0" /\ n < single_len))
    /\ moved' = moved \o [i \in 1 .. n |-> cur + i]
    /\ UNCHANGED <<driver, connected, heap, xfer, req, len, single_len, reported, timeLeft,
                   is_finished, is_halted, rc, cur, late, touched, missed, leaked>>

\* The handler tells the waiting thread through the transfer's context.
usb_common_completion ==
    /\ urb = "set"
    /\ urb' = "idle"
    /\ IF "tc" \in heap /\ xfer # "done" THEN is_finished' = TRUE /\ UNCHANGED touched
       ELSE touched' = TRUE /\ UNCHANGED is_finished
    /\ UNCHANGED <<driver, connected, heap, xfer, req, len, single_len, reported, timeLeft,
                   urbStatus, actual, is_halted, rc, moved, cur, late, missed, badPacket, leaked>>

Woken ==
    /\ xfer = "wait" /\ is_finished
    /\ xfer' = "after" /\ rc' = urbStatus
    /\ UNCHANGED <<driver, connected, heap, req, len, single_len, reported, timeLeft, urb,
                   urbStatus, actual, is_finished, is_halted, moved, cur, late, touched, missed,
                   badPacket, leaked>>

\* The URB is killed, which waits for its handler.
Killed(code) ==
    /\ urb' = "idle" /\ urbStatus' = code /\ is_finished' = TRUE
    /\ actual' = 0

\* Defective variant: the URB stays with the host controller.
TimedOutNoKill ==
    /\ xfer = "wait" /\ req.limit /\ ~is_finished /\ urb \in {"flying", "set"}
    /\ timeLeft' = FALSE
    /\ rc' = "-ETIMEDOUT" /\ xfer' = "exit"
    /\ UNCHANGED <<driver, connected, heap, req, len, single_len, reported, urb, urbStatus,
                   actual, is_finished, is_halted, moved, cur, late, touched, missed, badPacket,
                   leaked>>

\* The time limit: a URB whose status is set is left to its handler.
TimedOut ==
    /\ xfer = "wait" /\ req.limit /\ ~is_finished /\ urb \in {"flying", "set"}
    /\ timeLeft' = FALSE
    /\ IF urb = "set"
       THEN xfer' = "after" /\ rc' = urbStatus /\ late' = TRUE
            /\ UNCHANGED <<urb, urbStatus, is_finished, actual>>
       ELSE Killed("-ENOENT") /\ rc' = "-ETIMEDOUT" /\ xfer' = "exit" /\ UNCHANGED late
    /\ UNCHANGED <<driver, connected, heap, req, len, single_len, reported, is_halted, moved, cur,
                   touched, missed, badPacket, leaked>>

\* The bytes of a piece are counted, and the loop goes on or ends.  Without a time
\* limit expire is 0, which has always passed: the loop ends after the first piece.
Passed == IF req.limit THEN (IF timeLeft THEN {TRUE, FALSE} ELSE {FALSE}) ELSE {FALSE}
AfterPiece ==
    /\ xfer = "after"
    /\ IF rc \notin {"0", "-EOVERFLOW"}
       THEN xfer' = "exit" /\ UNCHANGED <<rc, len, reported, cur, timeLeft>>
       ELSE LET n == Min2(actual, single_len) IN
            /\ rc' = IF req.bytes = 0 THEN rc ELSE "0"
            /\ cur' = cur + n /\ len' = len - n /\ reported' = reported + n
            /\ timeLeft' \in Passed
            /\ xfer' = IF \/ req.bytes = 0
                          \/ req.type # "iso" /\ n < single_len
                          \/ len' = 0 \/ ~timeLeft' \/ ~connected \/ is_halted
                       THEN "exit" ELSE "submit"
    /\ UNCHANGED <<driver, connected, heap, req, single_len, urb, urbStatus, actual, is_finished,
                   is_halted, moved, late, touched, missed, badPacket, leaked>>

\* OS_halt_transfer, for a transfer that the library marks as halted.
OS_halt_transfer ==
    /\ xfer \in {"submit", "wait", "after"} /\ ~is_halted
    /\ is_halted' = TRUE
    /\ IF urb = "flying" THEN Killed("-ENOENT") /\ UNCHANGED missed
       ELSE missed' = (xfer = "submit") /\ UNCHANGED <<urb, urbStatus, is_finished, actual>>
    /\ UNCHANGED <<driver, connected, heap, xfer, req, len, single_len, reported, timeLeft, rc,
                   moved, cur, late, touched, badPacket, leaked>>

\* release_transfer (external) calls tc_destroy.
Exit ==
    /\ xfer = "exit"
    /\ xfer' = "done"
    /\ heap' = heap \ (IF leaked THEN {"trans_buf"} ELSE {"tc", "trans_buf"})
    /\ UNCHANGED <<driver, connected, req, len, single_len, reported, timeLeft, urb, urbStatus,
                   actual, is_finished, is_halted, rc, moved, cur, late, touched, missed,
                   badPacket, leaked>>

Statuses == {"0", "-EPIPE", "-EOVERFLOW"}
Next ==
    \/ OS_register_devices \/ OS_unregister_devices \/ usb_generic_probe
    \/ DisconnectBegins \/ CoreEndsUrb \/ DisconnectEnds
    \/ \E r \in Requests : Begin(r)
    \/ StopAtRemainder \/ usb_transfer_single
    \/ \E n \in 0 .. single_len, st \in Statuses : Complete(n, st)
    \/ usb_common_completion \/ Woken \/ TimedOut \/ AfterPiece \/ OS_halt_transfer \/ Exit

Spec == Init /\ [][Next]_wdVars

-----------------------------------------------------------------------------
\* OS_transfer reports the bytes that were moved, each once and in the order of the
\* buffer, when it succeeds.  (When a packet of an isochronous transfer fails, the next
\* piece starts too early in the buffer; when a piece fails, what it moved is not
\* reported.)
TransferExact ==
    /\ ~badPacket => \A i \in 1 .. Len(moved) : moved[i] = i
    /\ xfer \in {"submit", "done"} /\ rc = "0" => Len(moved) = reported
    /\ reported <= Len(moved) /\ reported + len = (IF xfer = "none" THEN 0 ELSE req.bytes)

\* A transfer that succeeds with fewer bytes was cut short by the device, by the time
\* limit, by a halt or a disconnection; or no time limit was given, when there is one piece
\* only, and the buffer was smaller than the request or the last packet not a full one.
WholeTransfer ==
    xfer = "exit" /\ rc = "0" /\ reported < req.bytes =>
        \/ actual < single_len \/ is_halted \/ ~connected \/ req.full
        \/ IF req.limit THEN ~timeLeft
           ELSE req.bytes > req.allocated \/ (req.type = "iso" /\ req.bytes % PacketSize # 0)

\* A URB that the host controller works on has its buffer, context and device; the
\* handler meets a context that lives, unless the time limit came between the end of
\* the URB and its handler.
ContextsAlive ==
    /\ urb = "flying" => "tc" \in heap /\ (req.bytes > 0 => "trans_buf" \in heap)
    /\ touched => late
    /\ xfer \notin {"none", "done"} => "dev" \in heap

\* Nothing is left of a transfer that ended, save the context after create_transfer
\* failed; nothing of a driver that is not registered.
HeapOwned ==
    /\ xfer \in {"none", "done"} => "trans_buf" \notin heap /\ ("tc" \in heap => leaked)
    /\ driver = "none" => heap \cap {"id", "driver", "name", "dev"} = {}

\* A transfer that is halted while a URB flies, or after one, ends.  (A halt between two
\* pieces is seen only after the next one.)
HaltEnds == (is_halted /\ ~missed) ~> (xfer = "done")

\* The piece that is allocated is not empty: the loop makes progress.
PieceNotEmpty == xfer = "wait" /\ req.bytes > 0 => single_len > 0
==============================================================================
