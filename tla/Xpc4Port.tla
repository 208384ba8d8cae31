------------------------------- MODULE Xpc4Port -------------------------------
(* The parallel port driver of the platform cable (xpc4drvr/xpc4.c, for a 2.6    *)
(* kernel): the data of an open file, the regions it holds, and the timer of one *)
(* second by which xpc4_ioctl2 (external, a library of the vendor) limits its    *)
(* waits.  An ioctl starts the timer, asks for the timeout, and stops it before  *)
(* it returns.                                                                   *)
EXTENDS Naturals

CONSTANTS
    Seconds,    \* limits that the library sets
    Files, Regions,
    Stopped     \* (unsigned long) -1, larger than every limit

VARIABLES
    xpcLoaded,
    data,           \* the port data of each file: FALSE or TRUE
    regions,        \* regions of each file
    ioctl,          \* what the ioctl of each file does: "none", "called", "adding",
                    \* "waiting", "stopping", "returning"
    TimeRemaining,  \* the time left, or Stopped
    pending, handler,   \* the timer of each file is armed; its handler runs: "no", or a step
    ticks, limit,       \* expirations since the timer was started, and what it was set to
    expired         \* xpc4_is_timeout has reported a timeout
xpcVars == <<xpcLoaded, data, regions, ioctl, TimeRemaining, pending, handler, ticks, limit, expired>>

Init ==
    /\ xpcLoaded = FALSE
    /\ data = [f \in Files |-> FALSE] /\ regions = [f \in Files |-> {}]
    /\ ioctl = [f \in Files |-> "none"] /\ TimeRemaining = [f \in Files |-> 0]
    /\ pending = [f \in Files |-> FALSE] /\ handler = [f \in Files |-> "no"]
    /\ ticks = [f \in Files |-> 0] /\ limit = [f \in Files |-> 0]
    /\ expired = [f \in Files |-> FALSE]

timerVars == <<TimeRemaining, pending, handler, ticks, limit, expired>>

xpc4drvr_init_module ==
    /\ ~xpcLoaded /\ xpcLoaded' = TRUE
    /\ UNCHANGED <<data, regions, ioctl, timerVars>>
xpc4drvr_cleanup_module ==
    /\ xpcLoaded /\ \A f \in Files : ~data[f]
    /\ xpcLoaded' = FALSE
    /\ UNCHANGED <<data, regions, ioctl, timerVars>>

xpc4_open(f) ==
    /\ xpcLoaded /\ ~data[f]
    /\ data' = [data EXCEPT ![f] = TRUE]
    /\ regions' = [regions EXCEPT ![f] = {}]
    /\ TimeRemaining' = [TimeRemaining EXCEPT ![f] = 0]
    /\ UNCHANGED <<xpcLoaded, ioctl, pending, handler, ticks, limit, expired>>

\* Defective variant: only one of the two regions is given back.
xpc4_release_data_Keeps(f) == \E r \in Regions : regions' = [regions EXCEPT ![f] = @ \ {r}]

\* The regions, the timer and the data are given back.
xpc4_release_data(f) == regions' = [regions EXCEPT ![f] = {}]
xpc4_release(f) ==
    /\ data[f] /\ ioctl[f] = "none"
    /\ data' = [data EXCEPT ![f] = FALSE]
    /\ xpc4_release_data(f)
    /\ UNCHANGED <<xpcLoaded, ioctl, timerVars>>

\* xpc4_ioctl checks the command and the address, and calls the library, which may ask
\* for a region that no other file holds.
xpc4_ioctl(f) ==
    /\ data[f] /\ ioctl[f] = "none"
    /\ ioctl' = [ioctl EXCEPT ![f] = "called"]
    /\ UNCHANGED <<xpcLoaded, data, regions, timerVars>>
XPC4_request_region(f, r) ==
    /\ ioctl[f] = "called" /\ \A g \in Files : r \notin regions[g]
    /\ regions' = [regions EXCEPT ![f] = @ \cup {r}]
    /\ UNCHANGED <<xpcLoaded, data, ioctl, timerVars>>

\* xpc4_start_timer arms the timer, then sets the time.
xpc4_start_timer(f, s) ==
    /\ ioctl[f] = "called"
    /\ pending' = [pending EXCEPT ![f] = TRUE]
    /\ limit' = [limit EXCEPT ![f] = s] /\ ticks' = [ticks EXCEPT ![f] = 0]
    /\ expired' = [expired EXCEPT ![f] = FALSE]
    /\ ioctl' = [ioctl EXCEPT ![f] = "adding"]
    /\ UNCHANGED <<xpcLoaded, data, regions, TimeRemaining, handler>>
SetTime(f) ==
    /\ ioctl[f] = "adding"
    /\ TimeRemaining' = [TimeRemaining EXCEPT ![f] = limit[f]]
    /\ ioctl' = [ioctl EXCEPT ![f] = "waiting"]
    /\ UNCHANGED <<xpcLoaded, data, regions, pending, handler, ticks, limit, expired>>

xpc4_is_timeout(f) ==
    /\ ioctl[f] = "waiting"
    /\ expired' = [expired EXCEPT ![f] = TimeRemaining[f] = 0]
    /\ UNCHANGED <<xpcLoaded, data, regions, ioctl, TimeRemaining, pending, handler, ticks, limit>>

xpc4_stop_timer(f) ==
    /\ ioctl[f] = "waiting"
    /\ TimeRemaining' = [TimeRemaining EXCEPT ![f] = Stopped]
    /\ ioctl' = [ioctl EXCEPT ![f] = "stopping"]
    /\ UNCHANGED <<xpcLoaded, data, regions, pending, handler, ticks, limit, expired>>

\* Defective variant: del_timer does not wait for the handler.
HandlerOut_NotAwaited(f) == TRUE
HandlerOut(f) == handler[f] = "no"

\* del_timer_sync waits for the handler, which may have armed the timer again.
del_timer_sync(f) ==
    /\ ioctl[f] = "stopping" /\ HandlerOut(f)
    /\ pending' = [pending EXCEPT ![f] = FALSE]
    /\ ioctl' = [ioctl EXCEPT ![f] = "none"]
    /\ UNCHANGED <<xpcLoaded, data, regions, TimeRemaining, handler, ticks, limit, expired>>
\* An ioctl that needs no timer.
IoctlReturns(f) ==
    /\ ioctl[f] = "called"
    /\ ioctl' = [ioctl EXCEPT ![f] = "none"]
    /\ UNCHANGED <<xpcLoaded, data, regions, timerVars>>

\* xpc4_timer_timeout: the time is tested, counted down, and the timer armed again.  The
\* first expiration comes a second after the timer was armed, when the time is set.
Expire(f) ==
    /\ pending[f] /\ handler[f] = "no" /\ ioctl[f] # "adding"
    /\ pending' = [pending EXCEPT ![f] = FALSE]
    /\ ticks' = [ticks EXCEPT ![f] = @ + 1]
    /\ handler' = [handler EXCEPT ![f] =
                       IF TimeRemaining[f] \notin {Stopped, 0} THEN "count" ELSE "no"]
    /\ UNCHANGED <<xpcLoaded, data, regions, ioctl, TimeRemaining, limit, expired>>
CountDown(f) ==
    /\ handler[f] = "count"
    /\ TimeRemaining' = [TimeRemaining EXCEPT ![f] = @ - 1]
    /\ handler' = [handler EXCEPT ![f] = "arm"]
    /\ UNCHANGED <<xpcLoaded, data, regions, ioctl, pending, ticks, limit, expired>>
mod_timer(f) ==
    /\ handler[f] = "arm"
    /\ pending' = [pending EXCEPT ![f] = TRUE]
    /\ handler' = [handler EXCEPT ![f] = "no"]
    /\ UNCHANGED <<xpcLoaded, data, regions, ioctl, TimeRemaining, ticks, limit, expired>>

Next ==
    \/ xpc4drvr_init_module \/ xpc4drvr_cleanup_module
    \/ \E f \in Files :
          \/ xpc4_open(f) \/ xpc4_release(f) \/ xpc4_ioctl(f) \/ SetTime(f) \/ xpc4_is_timeout(f)
          \/ xpc4_stop_timer(f) \/ del_timer_sync(f) \/ IoctlReturns(f)
          \/ Expire(f) \/ CountDown(f) \/ mod_timer(f)
          \/ \E s \in Seconds : xpc4_start_timer(f, s)
          \/ \E r \in Regions : XPC4_request_region(f, r)

Spec == Init /\ [][Next]_xpcVars

-----------------------------------------------------------------------------
\* Between ioctls the timer is neither armed nor in its handler, so that the memory that
\* xpc4_release frees is not used any more.
TimerEndsWithIoctl ==
    \A f \in Files : ioctl[f] = "none" => ~pending[f] /\ handler[f] = "no"

\* A timeout is not reported before its time has passed.
TimeoutInTime == \A f \in Files : expired[f] => ticks[f] >= limit[f]

\* A region is held by one file, and by none after the release.
RegionsOwned ==
    \A f \in Files : /\ ~data[f] => regions[f] = {}
                     /\ \A g \in Files \ {f} : regions[f] \cap regions[g] = {}
==============================================================================
