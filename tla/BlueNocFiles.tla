----------------------------- MODULE BlueNocFiles -----------------------------
(* The file operations of the BlueNoC kernel driver                             *)
(* (drivers/linux/platforms/bluenoc-pcie/driver/bluenoc.c) other than the data   *)
(* transfers of BlueNocDma: open and release, poll and the select that calls it, *)
(* the ioctls that touch registers or switch the profile on, and what their      *)
(* interplay with transfers, interrupts, deactivation and reactivation needs.    *)
(* One board; it is unplugged only when its file is closed.                      *)
EXTENDS Integers, FiniteSets

CONSTANT Users      \* processes

VARIABLES
    plugged,    \* the board is on board_list
    active,     \* its activation_level is BLUENOC_ACTIVE
    open_count, \* open_count[board_number]
    ready,      \* board: directions in which a transfer would not block
    raised,     \* board: an interrupt is pending
    ok,         \* read_ok and write_ok
    handler,    \* the interrupt handler has updated ok and not woken the queue
    intr_wq,    \* processes on the wait queue of the board
    user,       \* what each process does
    triggered,  \* processes that were woken since they last looked at the flags
    profile,    \* DEBUG_PROFILE is set
    totals,     \* are the total times sums of measured times?
    excused     \* profile was switched on during a call, or a call failed early

filesVars == <<plugged, active, open_count, ready, raised, ok, handler, intr_wq, user,
               triggered, profile, totals, excused>>

Dirs == {"read", "write"}

\* A process has the file closed or open; in poll it is about to join the wait
\* queue ("queue"), to look at the flags ("flags") or sleeps in select; in a
\* transfer ("call", then "sent") it knows whether it took start_time.
Closed == [pc |-> "closed"]
Opened == [pc |-> "open"]
Polls(s, d) == [pc |-> s, want |-> d]
InCall(s, d, t) == [pc |-> s, want |-> d, timed |-> t]

Activities ==
    {Closed, Opened} \cup {Polls(s, d) : s \in {"queue", "flags", "asleep"}, d \in Dirs}
                     \cup {InCall(s, d, t) : s \in {"call", "sent"}, d \in Dirs, t \in BOOLEAN}

TypeOK ==
    /\ plugged \in BOOLEAN /\ active \in BOOLEAN /\ raised \in BOOLEAN /\ handler \in BOOLEAN
    /\ open_count \in 0 .. Cardinality(Users)
    /\ ready \subseteq Dirs /\ ok \subseteq Dirs
    /\ intr_wq \subseteq Users /\ triggered \subseteq Users
    /\ user \in [Users -> Activities]
    /\ profile \in BOOLEAN /\ totals \in {"measured", "garbage"} /\ excused \in BOOLEAN

Init ==
    /\ plugged = TRUE /\ active = TRUE /\ open_count = 0
    /\ ready = {} /\ raised = FALSE /\ ok = {} /\ handler = FALSE
    /\ intr_wq = {} /\ triggered = {}
    /\ user = [p \in Users |-> Closed]
    /\ profile = FALSE /\ totals = "measured" /\ excused = FALSE

boardSide == <<plugged, active, ready, raised, ok, handler>>
pollSide == <<intr_wq, triggered>>
profiling == <<profile, totals, excused>>

Become(p, a) == user' = [user EXCEPT ![p] = a]

-----------------------------------------------------------------------------
\* bluenoc_open fails with -ENXIO when no board has the number of the file.
bluenoc_open(p) ==
    /\ user[p] = Closed /\ plugged
    /\ Become(p, Opened)
    /\ open_count' = open_count + 1
    /\ UNCHANGED <<boardSide, pollSide, profiling>>

bluenoc_release(p) ==
    /\ user[p] = Opened
    /\ Become(p, Closed)
    /\ open_count' = open_count - 1
    /\ UNCHANGED <<boardSide, pollSide, profiling>>

\* select or poll on the file.  The driver's poll function returns at once, with
\* no flag and without joining the queue, when the board is not active: the
\* process then sleeps where nothing wakes it.
Select(p, d) ==
    /\ user[p] = Opened
    /\ Become(p, Polls(IF active THEN "queue" ELSE "asleep", d))
    /\ UNCHANGED <<boardSide, pollSide, profiling, open_count>>

\* A process that select is done with leaves the queue.
Leave(p) ==
    /\ Become(p, Opened)
    /\ intr_wq' = intr_wq \ {p} /\ triggered' = triggered \ {p}

\* Defective variant: the queue is joined after a look at the flags.
bluenoc_poll_FlagsFirst(p) ==
    /\ \/ /\ user[p].pc = "queue"
          /\ Become(p, IF user[p].want \in ok THEN Opened ELSE [user[p] EXCEPT !.pc = "flags"])
          /\ UNCHANGED pollSide
       \/ /\ user[p].pc = "flags"
          /\ intr_wq' = intr_wq \cup {p}
          /\ Become(p, [user[p] EXCEPT !.pc = "asleep"])
          /\ UNCHANGED triggered
    /\ UNCHANGED <<boardSide, profiling, open_count>>

\* poll_wait, then the flags, in two steps; without the flag it wants the process
\* goes to sleep.
bluenoc_poll(p) ==
    /\ \/ /\ user[p].pc = "queue"
          /\ intr_wq' = intr_wq \cup {p}
          /\ Become(p, [user[p] EXCEPT !.pc = "flags"])
          /\ UNCHANGED triggered
       \/ /\ user[p].pc = "flags" /\ active /\ user[p].want \in ok
          /\ Leave(p)
       \/ /\ user[p].pc = "flags" /\ ~(active /\ user[p].want \in ok)
          /\ Become(p, [user[p] EXCEPT !.pc = "asleep"])
          /\ UNCHANGED pollSide
    /\ UNCHANGED <<boardSide, profiling, open_count>>

\* select looks again after a wake-up, also one that came before it slept.
Awake(p) ==
    /\ user[p].pc = "asleep" /\ p \in triggered
    /\ triggered' = triggered \ {p}
    /\ Become(p, [user[p] EXCEPT !.pc = "flags"])
    /\ UNCHANGED <<boardSide, profiling, open_count, intr_wq>>

\* A timeout or a signal ends select.
GiveUp(p) ==
    /\ user[p].pc = "asleep"
    /\ Leave(p)
    /\ UNCHANGED <<boardSide, profiling, open_count>>

-----------------------------------------------------------------------------
\* The board has data, or room for data, in direction d.
BoardReady(d) ==
    /\ active /\ d \notin ready
    /\ ready' = ready \cup {d} /\ raised' = TRUE
    /\ UNCHANGED <<plugged, active, open_count, ok, handler, pollSide, user, profiling>>

\* intr_handler: update_dma_buffer_status, then wake_up_interruptible.
intr_handler_update ==
    /\ raised /\ ~handler /\ active
    /\ raised' = FALSE /\ ok' = ready /\ handler' = TRUE
    /\ UNCHANGED <<plugged, active, open_count, ready, pollSide, user, profiling>>
intr_handler_wake ==
    /\ handler
    /\ handler' = FALSE /\ triggered' = triggered \cup intr_wq
    /\ UNCHANGED <<plugged, active, open_count, ready, raised, ok, intr_wq, user, profiling>>

\* A read or write begins; where it gets as far as its list of commands,
\* clear_dma_status takes the flags of its direction.
CallBegins(p, d) ==
    /\ user[p] = Opened /\ active
    /\ Become(p, InCall("call", d, profile))
    /\ UNCHANGED <<boardSide, pollSide, open_count, profiling>>
clear_dma_status(p) ==
    /\ user[p].pc = "call" /\ active
    /\ Become(p, [user[p] EXCEPT !.pc = "sent"])
    /\ ready' = ready \ {user[p].want} /\ ok' = ok \ {user[p].want}
    /\ UNCHANGED <<plugged, active, open_count, raised, handler, pollSide, profiling>>

\* It ends, having waited for its transfer or not.  When the profile is on by
\* then, the call's time and the time it waited are added: what was not taken,
\* the start because the profile was off or the wait because the call failed
\* before it, is whatever the stack holds.
CallEnds(p, waited) ==
    /\ user[p].pc \in IF waited THEN {"sent"} ELSE {"call", "sent"}
    /\ Become(p, Opened)
    /\ totals' = IF profile /\ ~(user[p].timed /\ waited) THEN "garbage" ELSE totals
    /\ excused' = (excused \/ (profile /\ ~waited))
    /\ UNCHANGED <<boardSide, pollSide, open_count, profile>>

-----------------------------------------------------------------------------
\* Defective variant: the totals are kept when the profile is switched on again.
SetDebugLevel_Keeps(p, on) ==
    /\ user[p] = Opened /\ on # profile
    /\ profile' = on
    /\ excused' = IF on THEN \E q \in Users : user[q].pc \in {"call", "sent"} ELSE excused
    /\ UNCHANGED <<boardSide, pollSide, user, open_count, totals>>

\* BNOC_SET_DEBUG_LEVEL: switching the profile on clears the totals.
SetDebugLevel(p, on) ==
    /\ user[p] = Opened /\ on # profile
    /\ profile' = on
    /\ totals' = IF on THEN "measured" ELSE totals
    /\ excused' = IF on THEN \E q \in Users : user[q].pc \in {"call", "sent"} ELSE excused
    /\ UNCHANGED <<boardSide, pollSide, user, open_count>>

\* The ioctls that read or write a register through bar0io (BNOC_GET_STATUS, the
\* clock words, BNOC_CAPABILITIES) do not ask whether it is mapped.  On an
\* inactive board the process faults, and its exit closes the file.
RegisterIoctl(p) ==
    /\ user[p] = Opened /\ ~active
    /\ Become(p, Closed)
    /\ open_count' = open_count - 1
    /\ UNCHANGED <<boardSide, pollSide, profiling>>

\* BNOC_DEACTIVATE frees the interrupt, waiting for a running handler to end.
Deactivate(p) ==
    /\ user[p] = Opened /\ active /\ ~handler
    /\ active' = FALSE /\ raised' = FALSE
    /\ UNCHANGED <<plugged, open_count, ready, ok, handler, pollSide, user, profiling>>

\* BNOC_REACTIVATE initialises the wait queue anew, whoever is on it, and reads
\* the status.
Reactivate(p) ==
    /\ user[p] = Opened /\ ~active
    /\ active' = TRUE /\ intr_wq' = {} /\ ok' = ready
    /\ UNCHANGED <<plugged, open_count, ready, raised, handler, user, triggered, profiling>>

Unplug ==
    /\ plugged /\ ~handler /\ \A p \in Users : user[p] = Closed
    /\ plugged' = FALSE /\ active' = FALSE /\ raised' = FALSE
    /\ UNCHANGED <<open_count, ready, ok, handler, pollSide, user, profiling>>

\* A new board: a new tBoard, with nothing set.
Plug ==
    /\ ~plugged
    /\ plugged' = TRUE /\ active' = TRUE /\ ready' = {} /\ ok' = {}
    /\ profile' = FALSE /\ totals' = "measured" /\ excused' = FALSE
    /\ UNCHANGED <<open_count, raised, handler, pollSide, user>>

UserStep(p) ==
    \/ bluenoc_open(p) \/ bluenoc_release(p)
    \/ bluenoc_poll(p) \/ Awake(p) \/ GiveUp(p) \/ clear_dma_status(p)
    \/ \E d \in Dirs : Select(p, d) \/ CallBegins(p, d)
    \/ \E b \in BOOLEAN : CallEnds(p, b) \/ SetDebugLevel(p, b)
    \/ RegisterIoctl(p) \/ Deactivate(p) \/ Reactivate(p)

Next ==
    \/ \E p \in Users : UserStep(p)
    \/ \E d \in Dirs : BoardReady(d)
    \/ intr_handler_update \/ intr_handler_wake
    \/ Unplug \/ Plug

-----------------------------------------------------------------------------
\* No wake-up is missed: a process that sleeps on the queue of an active board
\* that is ready for it has been woken, or an interrupt that will wake it is on
\* its way, however the poll function, the handler and transfers interleave.
PollersWoken ==
    \A p \in Users :
        (active /\ p \in intr_wq /\ user[p].pc = "asleep" /\ user[p].want \in ready /\ p \notin triggered)
            => raised \/ handler

\* The times of the profile were measured, unless it was switched on while a
\* call was running or a call failed before it waited.
TimesMeasured == totals = "garbage" => excused
==============================================================================
