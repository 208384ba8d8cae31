----------------------------- MODULE LeapFpgaCtrl -----------------------------
(***************************************************************************)
(* leap-fpga-ctrl: the tool with which users reserve, program, activate    *)
(* and drop FPGAs.  Several copies of it run at the same time and meet in  *)
(* three kinds of files: a reservation file per physical device, which     *)
(* they lock with fcntl, the programming lock, which exists while some     *)
(* device is programmed, and the device files whose owner they change.     *)
(* Each action is one system call, or several between which no other       *)
(* process can see a difference.                                           *)
(***************************************************************************)
EXTENDS Naturals, Sequences

CONSTANTS Procs,        \* processes that run leap-fpga-ctrl
          Users,
          Devices,      \* device ids: positions in the configuration file
          Files,        \* reservation files: one for each bus_id
          Sites,        \* how the tool may be set up and used: records of
                        \*   fileOf    cfg_res_file of each device,
                        \*   targets   the devices each process may be asked to
                        \*             handle; with --reserve, those of the class
                        \*   mayForce  whether --force is ever given
                        \*   mayCrash  whether a process may be killed
          Root, NoProc, NoLock

ASSUME CtrlAssumption ==
    /\ Devices \subseteq Nat
    /\ Sites \subseteq [fileOf : [Devices -> Files], targets : [Procs -> SUBSET Devices],
                         mayForce : BOOLEAN, mayCrash : BOOLEAN]
    /\ Root \notin Users /\ NoProc \notin Procs
    /\ NoLock \notin Devices \cup Procs /\ Devices \cap Procs = {}

VARIABLES res,        \* contents of the reservation files
          flock,      \* the process that holds the fcntl lock of a file
          progLock,   \* PROG_LOCK_FILE: missing, a device id, or
                      \* the process that created it and wrote nothing yet
          access,     \* the user that may open the file of a device
          proc,       \* the processes
          site        \* the set-up, which does not change

ctrlVars == <<res, flock, progLock, access, proc, site>>

FileOf == site.fileOf
Targets == site.targets

States == {"free", "reserved", "program", "active", "inactive"}
Commands == {"reserve", "program", "setsignature", "activate", "deactivate",
             "drop", "reset"}

(* The commands that look at --force. *)
Forcible == {"reserve", "program", "drop", "reset"}

(* An empty or unreadable reservation file counts as this one.  The        *)
(* signature that the file may also hold decides nothing and is left out.  *)
FreeFile == [owner |-> Root, state |-> "free"]

Idle == [pc |-> "idle"]

Init == /\ site \in Sites
        /\ res = [f \in Files |-> FreeFile]
        /\ flock = [f \in Files |-> NoProc]
        /\ progLock = NoLock
        /\ access = [d \in Devices |-> Root]
        /\ proc = [p \in Procs |-> Idle]

-----------------------------------------------------------------------------
(* The newState of a command: STATE_RESET becomes STATE_FREE. *)
NewState(cmd) == CASE cmd = "reserve" -> "reserved"
                   [] cmd \in {"program", "setsignature"} -> "program"
                   [] cmd = "activate" -> "active"
                   [] cmd = "deactivate" -> "inactive"
                   [] cmd \in {"drop", "reset"} -> "free"

(* Defective variant: access is not taken away with the reservation. *)
TasksKeepAccess(cmd) ==
    CASE cmd = "reserve" -> <<"revoke">>
      [] cmd = "program" -> <<"revoke", "script">>
      [] cmd = "activate" -> <<"script", "grant">>
      [] cmd = "deactivate" -> <<"script", "revoke">>
      [] cmd \in {"drop", "reset", "setsignature"} -> <<>>

(* What a command does once it has changed the reservation: the helper     *)
(* script is run, and the device file is given to the user or to root.     *)
Tasks(cmd) ==
    CASE cmd \in {"reserve", "drop", "reset"} -> <<"revoke">>
      [] cmd = "program" -> <<"revoke", "script">>
      [] cmd = "activate" -> <<"script", "grant">>
      [] cmd = "deactivate" -> <<"script", "revoke">>
      [] cmd = "setsignature" -> <<>>

(* The state newState <= STATE_RESERVED. *)
ReservationOnly(state) == state \in {"free", "reserved"}

Goto(p, label) == proc' = [proc EXCEPT ![p].pc = label]

(* The process ends; the kernel drops its locks. *)
Exit(p) == /\ proc' = [proc EXCEPT ![p] = Idle]
           /\ flock' = [f \in Files |-> IF flock[f] = p THEN NoProc
                                                        ELSE flock[f]]

(* The first of the devices in the configuration file. *)
First(devices) == CHOOSE d \in devices : \A e \in devices : d <= e

-----------------------------------------------------------------------------
(* main and reserve: a user starts the tool. *)
Start(p) ==
    /\ proc[p].pc = "idle"
    /\ \E user \in Users, cmd \in Commands,
          force \in BOOLEAN, dev \in Targets[p] :
         /\ force => site.mayForce /\ cmd \in Forcible
         /\ cmd = "reserve" => dev = First(Targets[p])
         /\ proc' = [proc EXCEPT ![p] =
                       [pc |-> IF cmd = "program" THEN "proglock" ELSE "lock",
                        user |-> user, cmd |-> cmd, force |-> force,
                        dev |-> dev, old |-> FreeFile, todo |-> Tasks(cmd)]]
    /\ UNCHANGED <<res, flock, progLock, access>>

(* Defective variant: open without O_EXCL. *)
TakeProgLockShared(p) ==
    /\ proc[p].pc = "proglock"
    /\ progLock' = p
    /\ Goto(p, "progwrite")
    /\ UNCHANGED <<res, flock, access>>

(* program_dev: the programming lock is created... *)
TakeProgLock(p) ==
    /\ proc[p].pc = "proglock"
    /\ progLock = NoLock
    /\ progLock' = p
    /\ Goto(p, "progwrite")
    /\ UNCHANGED <<res, flock, access>>

(* ...and the device id is written into it, unless it was removed. *)
WriteProgLock(p) ==
    /\ proc[p].pc = "progwrite"
    /\ progLock' = IF progLock = p THEN proc[p].dev ELSE progLock
    /\ Goto(p, "lock")
    /\ UNCHANGED <<res, flock, access>>

(* program_dev: the lock file exists. *)
MissProgLock(p) ==
    /\ proc[p].pc = "proglock"
    /\ progLock # NoLock
    /\ Goto(p, "progread")
    /\ UNCHANGED <<res, flock, progLock, access>>

(* Go on if it names this device or with --force, else try again. *)
ReadProgLock(p) ==
    /\ proc[p].pc = "progread"
    /\ Goto(p, IF progLock = proc[p].dev \/ proc[p].force THEN "lock"
                                                          ELSE "proglock")
    /\ UNCHANGED <<res, flock, progLock, access>>

-----------------------------------------------------------------------------
(* change_current_reservation *)

File(p) == FileOf[proc[p].dev]

(* Defective variant: the lock of another process is not respected. *)
LockShared(p) ==
    /\ proc[p].pc = "lock"
    /\ flock' = [flock EXCEPT ![File(p)] = p]
    /\ proc' = [proc EXCEPT ![p].pc = "decide", ![p].old = res[File(p)]]
    /\ UNCHANGED <<res, progLock, access>>

(* F_SETLK succeeds and the current state is read. *)
Lock(p) ==
    /\ proc[p].pc = "lock"
    /\ flock[File(p)] = NoProc
    /\ flock' = [flock EXCEPT ![File(p)] = p]
    /\ proc' = [proc EXCEPT ![p].pc = "decide", ![p].old = res[File(p)]]
    /\ UNCHANGED <<res, progLock, access>>

(* F_SETLK has failed 21 times.  oldState was never assigned, so whether   *)
(* it differs from STATE_PROGRAM is open.                                  *)
GiveUp(p) ==
    /\ proc[p].pc = "lock"
    /\ flock[File(p)] # NoProc
    /\ \/ UNCHANGED progLock
       \/ NewState(proc[p].cmd) = "program" /\ progLock' = NoLock
    /\ Exit(p)
    /\ UNCHANGED <<res, access>>

Mine(q) == q.user = q.old.owner
Taken(q) == q.old.state # "free"

(* Defective variant: the owner may reserve a device again. *)
AllowedTwice(q) ==
    /\ q.cmd = "setsignature" => q.old.state = "program"
    /\ Taken(q) => Mine(q) \/ (ReservationOnly(NewState(q.cmd)) /\ q.force)
    /\ ~Taken(q) => ReservationOnly(NewState(q.cmd))

(* The transition from the old state to the new one is legal. *)
Allowed(q) ==
    /\ q.cmd = "setsignature" => q.old.state = "program"
    /\ Taken(q) => IF Mine(q) THEN q.cmd # "reserve"
                   ELSE ReservationOnly(NewState(q.cmd)) /\ q.force
    /\ ~Taken(q) => ReservationOnly(NewState(q.cmd))

(* The reservation file is rewritten; what was read before is not used     *)
(* after the choice of the next step.                                      *)
Update(p) ==
    LET q == proc[p] IN
    /\ q.pc = "decide"
    /\ Allowed(q)
    /\ res' = [res EXCEPT ![File(p)] =
                 [owner |-> q.user, state |-> NewState(q.cmd)]]
    /\ proc' = [proc EXCEPT ![p].old = FreeFile, ![p].pc =
                  IF q.old.state = "program" /\ NewState(q.cmd) # "program"
                  THEN "unlink" ELSE "tasks"]
    /\ UNCHANGED <<flock, progLock, access>>

(* A device that leaves STATE_PROGRAM gives the programming lock back. *)
Unlink(p) ==
    /\ proc[p].pc = "unlink"
    /\ progLock' = NoLock
    /\ Goto(p, "tasks")
    /\ UNCHANGED <<res, flock, access>>

(* reserve: the device is taken; close its file and try the next one. *)
TryNext(p) ==
    LET q == proc[p]
        rest == {d \in Targets[p] : d > q.dev} IN
    /\ q.pc = "decide"
    /\ ~Allowed(q)
    /\ q.cmd = "reserve"
    /\ IF rest = {}
       THEN Exit(p)
       ELSE /\ proc' = [proc EXCEPT ![p].pc = "lock", ![p].dev = First(rest),
                                    ![p].old = FreeFile]
            /\ flock' = [flock EXCEPT ![File(p)] = NoProc]
    /\ UNCHANGED <<res, progLock, access>>

(* The transition is refused.  The programming lock is only removed where  *)
(* the device belongs to another user and is not being programmed.         *)
Refuse(p) ==
    LET q == proc[p] IN
    /\ q.pc = "decide"
    /\ ~Allowed(q)
    /\ q.cmd # "reserve"
    /\ progLock' = IF /\ q.cmd = "program"
                      /\ Taken(q) /\ ~Mine(q) /\ q.old.state # "program"
                   THEN NoLock ELSE progLock
    /\ Exit(p)
    /\ UNCHANGED <<res, access>>

-----------------------------------------------------------------------------
(* set_fpga_device_access and invoke_helper_script, in the order of Tasks. *)

SetAccess(p) ==
    LET q == proc[p] IN
    /\ q.pc = "tasks"
    /\ q.todo # <<>> /\ Head(q.todo) \in {"grant", "revoke"}
    /\ access' = [access EXCEPT ![q.dev] =
                    IF Head(q.todo) = "grant" THEN q.user ELSE Root]
    /\ proc' = [proc EXCEPT ![p].todo = Tail(q.todo)]
    /\ UNCHANGED <<res, flock, progLock>>

(* The helper script succeeds, or it fails and the tool ends. *)
RunScript(p) ==
    LET q == proc[p] IN
    /\ q.pc = "tasks"
    /\ q.todo # <<>> /\ Head(q.todo) = "script"
    /\ \/ /\ proc' = [proc EXCEPT ![p].todo = Tail(q.todo)]
          /\ UNCHANGED flock
       \/ Exit(p)
    /\ UNCHANGED <<res, progLock, access>>

Finish(p) ==
    /\ proc[p].pc = "tasks"
    /\ proc[p].todo = <<>>
    /\ Exit(p)
    /\ UNCHANGED <<res, progLock, access>>

(* The process is killed. *)
Crash(p) ==
    /\ site.mayCrash
    /\ proc[p].pc # "idle"
    /\ Exit(p)
    /\ UNCHANGED <<res, progLock, access>>

Step(p) ==
    \/ Start(p)
    \/ TakeProgLock(p) \/ WriteProgLock(p) \/ MissProgLock(p)
    \/ ReadProgLock(p)
    \/ Lock(p) \/ GiveUp(p) \/ Update(p) \/ Unlink(p)
    \/ TryNext(p) \/ Refuse(p)
    \/ SetAccess(p) \/ RunScript(p) \/ Finish(p) \/ Crash(p)

Next == UNCHANGED site /\ \E p \in Procs : Step(p)

Spec == Init /\ [][Next]_ctrlVars

-----------------------------------------------------------------------------
(* Properties. *)

Labels == {"proglock", "progwrite", "progread", "lock", "decide",
           "unlink", "tasks"}
Reservations == [owner : Users \cup {Root}, state : States]

(* What may be left of the tasks of a command. *)
Left(cmd) == IF cmd = "setsignature" THEN {<<>>}
             ELSE {Tasks(cmd), Tail(Tasks(cmd)), <<>>}

Running == [pc : Labels, user : Users, cmd : Commands, force : BOOLEAN,
            dev : Devices, old : Reservations,
            todo : UNION {Left(c) : c \in Commands}]

(* Every file and process is in a state of its type. *)
TypeOK == /\ res \in [Files -> Reservations]
          /\ flock \in [Files -> Procs \cup {NoProc}]
          /\ progLock \in Devices \cup Procs \cup {NoLock}
          /\ access \in [Devices -> Users \cup {Root}]
          /\ proc \in [Procs -> Running \cup {Idle}]

(* change_current_reservation reads the file, decides and writes it back   *)
(* in several calls; what it decides on is still what the file says when   *)
(* it writes, also after the kill of another process and when two devices  *)
(* share a file.                                                           *)
DecidesOnCurrentState ==
    \A p \in Procs : proc[p].pc = "decide" =>
      flock[File(p)] = p /\ proc[p].old = res[File(p)]

(* A reservation is given to one caller only: without --force a file turns *)
(* to STATE_RESERVED only from STATE_FREE, whoever asks and however many   *)
(* ask at once.                                                            *)
GivenOnce ==
    \A f \in Files : res'[f] # res[f] /\ res'[f].state = "reserved" =>
      \/ res[f].state = "free"
      \/ \E p \in Procs : flock[f] = p /\ proc[p].force
ReservationGivenOnce == [][GivenOnce]_ctrlVars

NoAlias == \A d, e \in Devices : FileOf[d] = FileOf[e] => d = e

(* No user keeps access to a device that another user holds or that is     *)
(* free: when no tool is at work on a device, its file can be opened only  *)
(* by the owner of its reservation, whatever scripts failed in between and *)
(* whoever took the device with --force.  A kill between the two files, or *)
(* a second name for the device, leaves the file with its last owner.      *)
AccessFollowsOwner ==
  ~site.mayCrash /\ NoAlias =>
    \A d \in Devices : flock[FileOf[d]] = NoProc /\ access[d] # Root =>
      /\ res[FileOf[d]].owner = access[d]
      /\ res[FileOf[d]].state # "free"

Programmed == {f \in Files : res[f].state = "program"}

OperatorEach == \A p, q \in Procs : p # q => Targets[p] \cap Targets[q] = {}

(* Only one device is programmed at a time, and its id is in the           *)
(* programming lock until it leaves STATE_PROGRAM, provided that each      *)
(* device has one name and is handled by one tool at a time, and nobody    *)
(* uses --force.                                                           *)
ProgrammingExclusive ==
  ~site.mayCrash /\ ~site.mayForce /\ NoAlias /\ OperatorEach =>
    \A d \in Devices : res[FileOf[d]].state = "program" => progLock = d

(* "Only allow one device to be programmed at a time."                     *)
OneDeviceProgrammed == \A f, g \in Programmed : f = g
=============================================================================
