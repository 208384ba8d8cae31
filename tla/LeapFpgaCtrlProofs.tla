-------------------------- MODULE LeapFpgaCtrlProofs --------------------------
(* Proofs about leap-fpga-ctrl: for any number of processes, users, devices   *)
(* and files, and for every site.  The invariant says which process holds     *)
(* which file and what the holder knows of its contents; from it follow what  *)
(* the tool decides on, who has access, and who may program.                  *)
EXTENDS LeapFpgaCtrl, WellFoundedInduction, TLAPS

\* A process between the lock and the end of its work on a reservation file.
Holding(p) == proc[p].pc \in {"decide", "unlink", "tasks"}
\* It has rewritten the file.
Written(p) == proc[p].pc \in {"unlink", "tasks"}

\* A process handles a device that it may be asked to handle.
TargetsOwn ==
    \A p \in Procs : proc[p] # Idle =>
      /\ proc[p].dev \in Targets[p]
      /\ proc[p].todo \in Left(proc[p].cmd)
      /\ proc[p].pc # "tasks" => proc[p].todo = Tasks(proc[p].cmd)
      /\ proc[p].force => site.mayForce
      /\ proc[p].pc \in {"proglock", "progwrite", "progread"} => proc[p].cmd = "program"

\* A file is locked by the process that works on it, and by no other.
LocksHeld ==
    \A p \in Procs, f \in Files :
      flock[f] = p <=> (Holding(p) /\ File(p) = f)

\* Before it writes, the holder knows the contents; then they are what it wrote.
ContentsKnown ==
    \A p \in Procs :
      /\ proc[p].pc = "decide" => proc[p].old = res[File(p)]
      /\ Written(p) => res[File(p)] = [owner |-> proc[p].user,
                                       state |-> NewState(proc[p].cmd)]
      /\ proc[p].pc = "unlink" => NewState(proc[p].cmd) # "program"

CtrlInv == TypeOK /\ site \in Sites /\ TargetsOwn /\ LocksHeld /\ ContentsKnown

\* The file of a device can be opened by the owner of its reservation only.
Owned(d) == access[d] # Root => /\ res[FileOf[d]].owner = access[d]
                                /\ res[FileOf[d]].state # "free"

\* Access that is out of date is about to be taken away by the holder.
Revoking(p, d) == Written(p) /\ proc[p].dev = d /\ proc[p].todo = <<"revoke">>
AccessInv ==
  ~site.mayCrash /\ NoAlias =>
    \A d \in Devices : Owned(d) \/ \E p \in Procs : Revoking(p, d)

\* The programming lock belongs to the process that is about to program, to one
\* that is about to give it back, or to the device in STATE_PROGRAM.
ProgInv ==
  ~site.mayCrash /\ ~site.mayForce /\ NoAlias /\ OperatorEach =>
    /\ \A d \in Devices : res[FileOf[d]].state = "program" => progLock = d
    /\ \A p \in Procs :
         /\ proc[p].pc = "progwrite" => progLock = p
         /\ proc[p].pc \in {"lock", "decide"} /\ proc[p].cmd = "program"
              => progLock = proc[p].dev
         /\ proc[p].pc = "unlink" => progLock = proc[p].dev

-----------------------------------------------------------------------------
(* Numbers, tasks and types *)

\* A nonempty set of naturals has a least element.
LEMMA LeastExists ==
  ASSUME NEW T \in SUBSET Nat, T # {}
  PROVE  \E x \in T : \A y \in T : x <= y
<1> DEFINE R == OpToRel(<, Nat)
<1>1. IsWellFoundedOn(R, Nat)
  BY NatLessThanWellFounded
<1>2. ASSUME NEW x \in Nat, NEW y \in Nat, y < x PROVE <<y, x>> \in R
  BY <1>2 DEF OpToRel
<1> HIDE DEF R
<1>3. PICK x \in T : \A y \in T : ~ (<<y, x>> \in R)
  BY <1>1, WFMin
<1>4. ASSUME NEW y \in T PROVE x <= y
  <2>1. x \in Nat /\ y \in Nat
    OBVIOUS
  <2>2. ~(y < x)
    BY <1>2, <1>3, <2>1
  <2> QED BY <2>1, <2>2
<1> QED BY <1>3, <1>4

\* reserve goes on with a device of its class.
LEMMA FirstIsOne ==
  ASSUME NEW T \in SUBSET Devices, T # {}
  PROVE  First(T) \in T
<1>1. \E x \in T : \A y \in T : x <= y
  BY LeastExists, CtrlAssumption
<1> QED BY <1>1 DEF First

\* The tasks of a command one after the other.
LEMMA TaskLists ==
  ASSUME NEW c \in Commands
  PROVE  /\ c \in {"reserve", "drop", "reset"} => Left(c) = {<<"revoke">>, <<>>}
         /\ c = "program" => Left(c) = {<<"revoke", "script">>, <<"script">>, <<>>}
         /\ c = "activate" => Left(c) = {<<"script", "grant">>, <<"grant">>, <<>>}
         /\ c = "deactivate" => Left(c) = {<<"script", "revoke">>, <<"revoke">>, <<>>}
         /\ c = "setsignature" => Left(c) = {<<>>}
         /\ Tasks(c) \in Left(c)
BY DEF Left, Tasks, Commands

LEMMA TaskTail ==
  ASSUME NEW c \in Commands, NEW t \in Left(c), t # <<>>
  PROVE  Tail(t) \in Left(c)
<1>1. /\ Tail(<<"revoke">>) = <<>> /\ Tail(<<"grant">>) = <<>> /\ Tail(<<"script">>) = <<>>
      /\ Tail(<<"revoke", "script">>) = <<"script">>
      /\ Tail(<<"script", "grant">>) = <<"grant">>
      /\ Tail(<<"script", "revoke">>) = <<"revoke">>
  OBVIOUS
<1>2. CASE c \in {"reserve", "drop", "reset"}
  <2>1. t = <<"revoke">>
    BY <1>2, TaskLists
  <2> QED BY <1>1, <1>2, <2>1, TaskLists
<1>3. CASE c = "program"
  <2>1. t \in {<<"revoke", "script">>, <<"script">>}
    BY <1>3, TaskLists
  <2> QED BY <1>1, <1>3, <2>1, TaskLists
<1>4. CASE c = "activate"
  <2>1. t \in {<<"script", "grant">>, <<"grant">>}
    BY <1>4, TaskLists
  <2> QED BY <1>1, <1>4, <2>1, TaskLists
<1>5. CASE c = "deactivate"
  <2>1. t \in {<<"script", "revoke">>, <<"revoke">>}
    BY <1>5, TaskLists
  <2> QED BY <1>1, <1>5, <2>1, TaskLists
<1>6. CASE c = "setsignature"
  BY <1>6, TaskLists
<1> QED BY <1>2, <1>3, <1>4, <1>5, <1>6 DEF Commands

Todos == UNION {Left(c) : c \in Commands}

\* A process that is at work has all its fields.
LEMMA AtWork ==
  ASSUME TypeOK, NEW p \in Procs, proc[p].pc # "idle"
  PROVE  proc[p] # Idle /\ proc[p] \in Running
BY DEF TypeOK, Idle

LEMMA Fields ==
  ASSUME NEW q \in Running
  PROVE  /\ q.pc \in Labels /\ q.user \in Users /\ q.cmd \in Commands
         /\ q.force \in BOOLEAN /\ q.dev \in Devices /\ q.old \in Reservations
         /\ q.todo \in Todos /\ q # Idle /\ q.pc # "idle"
BY DEF Running, Idle, Labels, Todos

\* A step of a process changes some of its fields.
LEMMA ChangedLabel ==
  ASSUME NEW q \in Running, NEW l \in Labels
  PROVE  [q EXCEPT !.pc = l] \in Running
BY DEF Running

LEMMA ChangedOld ==
  ASSUME NEW q \in Running, NEW l \in Labels, NEW o \in Reservations
  PROVE  [q EXCEPT !.pc = l, !.old = o] \in Running
BY DEF Running

LEMMA ChangedDevice ==
  ASSUME NEW q \in Running, NEW l \in Labels, NEW o \in Reservations, NEW d \in Devices
  PROVE  [q EXCEPT !.pc = l, !.dev = d, !.old = o] \in Running
BY DEF Running

LEMMA ChangedTodo ==
  ASSUME NEW q \in Running, NEW t \in Todos
  PROVE  [q EXCEPT !.todo = t] \in Running
BY DEF Running, Todos

LEMMA NewProc ==
  ASSUME TypeOK, NEW p \in Procs, NEW q \in Running, proc' = [proc EXCEPT ![p] = q]
  PROVE  proc' \in [Procs -> Running \cup {Idle}]
BY DEF TypeOK

LEMMA GotoType ==
  ASSUME TypeOK, NEW p \in Procs, proc[p].pc # "idle", NEW l \in Labels, Goto(p, l)
  PROVE  proc' \in [Procs -> Running \cup {Idle}]
<1>1. proc' = [proc EXCEPT ![p] = [proc[p] EXCEPT !.pc = l]]
  BY DEF Goto
<1>2. [proc[p] EXCEPT !.pc = l] \in Running
  BY AtWork, ChangedLabel
<1> QED BY <1>1, <1>2, NewProc

LEMMA ExitType ==
  ASSUME TypeOK, NEW p \in Procs, Exit(p)
  PROVE  /\ proc' \in [Procs -> Running \cup {Idle}]
         /\ flock' \in [Files -> Procs \cup {NoProc}]
BY DEF TypeOK, Exit

\* The devices, files and targets of a site.
LEMMA SiteTypes ==
  ASSUME site \in Sites
  PROVE  /\ FileOf \in [Devices -> Files] /\ Targets \in [Procs -> SUBSET Devices]
         /\ site.mayForce \in BOOLEAN /\ site.mayCrash \in BOOLEAN
BY CtrlAssumption DEF FileOf, Targets

-----------------------------------------------------------------------------
(* Type correctness, together with what a process has before it. *)

LEMMA TypeStep ==
  ASSUME CtrlInv, NEW p \in Procs, Step(p), UNCHANGED site
  PROVE  TypeOK'
<1> DEFINE ProcOK == proc' \in [Procs -> Running \cup {Idle}]
<1>0. /\ TypeOK /\ site \in Sites /\ TargetsOwn
      /\ FileOf \in [Devices -> Files] /\ Targets \in [Procs -> SUBSET Devices]
  BY SiteTypes DEF CtrlInv
<1>1. ASSUME proc[p].pc # "idle"
      PROVE  /\ proc[p] \in Running /\ proc[p].cmd \in Commands /\ proc[p].user \in Users
             /\ proc[p].dev \in Devices /\ proc[p].todo \in Left(proc[p].cmd)
             /\ proc[p].todo \in Todos /\ File(p) \in Files
  BY <1>0, <1>1, AtWork, Fields DEF TargetsOwn, File
<1>2. CASE Start(p)
  <2>1. PICK user \in Users, cmd \in Commands, force \in BOOLEAN, dev \in Targets[p] :
          proc' = [proc EXCEPT ![p] =
                       [pc |-> IF cmd = "program" THEN "proglock" ELSE "lock",
                        user |-> user, cmd |-> cmd, force |-> force,
                        dev |-> dev, old |-> FreeFile, todo |-> Tasks(cmd)]]
    BY <1>2 DEF Start
  <2>2. dev \in Devices /\ FreeFile \in Reservations /\ Tasks(cmd) \in Todos
    BY <1>0, TaskLists DEF FreeFile, Reservations, States, Todos
  <2>3. [pc |-> IF cmd = "program" THEN "proglock" ELSE "lock",
         user |-> user, cmd |-> cmd, force |-> force,
         dev |-> dev, old |-> FreeFile, todo |-> Tasks(cmd)] \in Running
    BY <2>2 DEF Running, Labels, Todos
  <2>4. ProcOK
    BY <1>0, <2>1, <2>3, NewProc
  <2> QED BY <1>0, <1>2, <2>4 DEF Start, TypeOK
<1>3. CASE TakeProgLock(p) \/ WriteProgLock(p) \/ MissProgLock(p) \/ ReadProgLock(p) \/ Unlink(p)
  <2>1. proc[p].pc # "idle"
    BY <1>3 DEF TakeProgLock, WriteProgLock, MissProgLock, ReadProgLock, Unlink
  <2>2. \E l \in Labels : Goto(p, l)
    BY <1>3 DEF TakeProgLock, WriteProgLock, MissProgLock, ReadProgLock, Unlink, Labels
  <2>3. ProcOK
    BY <1>0, <2>1, <2>2, GotoType
  <2>4. progLock' \in Devices \cup Procs \cup {NoLock}
    BY <1>0, <1>1, <1>3, <2>1
       DEF TakeProgLock, WriteProgLock, MissProgLock, ReadProgLock, Unlink, TypeOK
  <2>5. UNCHANGED <<res, flock, access>>
    BY <1>3 DEF TakeProgLock, WriteProgLock, MissProgLock, ReadProgLock, Unlink
  <2> QED BY <1>0, <2>3, <2>4, <2>5 DEF TypeOK
<1>4. CASE Lock(p)
  <2>1. proc[p].pc # "idle" /\ res[File(p)] \in Reservations
    BY <1>0, <1>1, <1>4 DEF Lock, TypeOK
  <2>2. proc' = [proc EXCEPT ![p] = [proc[p] EXCEPT !.pc = "decide", !.old = res[File(p)]]]
    BY <1>4 DEF Lock
  <2>3. ProcOK
    BY <1>0, <1>1, <2>1, <2>2, ChangedOld, NewProc DEF Labels
  <2> QED BY <1>0, <1>1, <1>4, <2>1, <2>3 DEF Lock, TypeOK
<1>5. CASE GiveUp(p) \/ Refuse(p) \/ Finish(p) \/ Crash(p)
  <2>1. Exit(p) /\ UNCHANGED <<res, access>> /\ progLock' \in {progLock, NoLock}
    BY <1>5 DEF GiveUp, Refuse, Finish, Crash
  <2> QED BY <1>0, <2>1, ExitType DEF TypeOK
<1>6. CASE Update(p)
  <2>1. proc[p].pc # "idle" /\ FreeFile \in Reservations
    BY <1>6 DEF Update, FreeFile, Reservations, States
  <2>2. \E l \in Labels :
          proc' = [proc EXCEPT ![p] = [proc[p] EXCEPT !.pc = l, !.old = FreeFile]]
    BY <1>6 DEF Update, Labels
  <2>3. ProcOK
    BY <1>0, <1>1, <2>1, <2>2, ChangedOld, NewProc
  <2>4. [owner |-> proc[p].user, state |-> NewState(proc[p].cmd)] \in Reservations
    BY <1>1, <2>1 DEF Reservations, NewState, States, Commands
  <2> QED BY <1>0, <1>6, <2>3, <2>4 DEF Update, TypeOK
<1>7. CASE TryNext(p)
  <2> DEFINE rest == {d \in Targets[p] : d > proc[p].dev}
  <2>1. CASE rest = {}
    BY <1>0, <1>7, <2>1, ExitType DEF TryNext, TypeOK
  <2>2. CASE rest # {}
    <3>1. proc[p].pc # "idle" /\ FreeFile \in Reservations
      BY <1>7 DEF TryNext, FreeFile, Reservations, States
    <3>2. First(rest) \in Devices
      BY <1>0, <2>2, FirstIsOne
    <3>3. /\ proc' = [proc EXCEPT ![p] = [proc[p] EXCEPT !.pc = "lock", !.dev = First(rest),
                                                        !.old = FreeFile]]
          /\ flock' = [flock EXCEPT ![File(p)] = NoProc]
      BY <1>7, <2>2 DEF TryNext
    <3>4. ProcOK
      BY <1>0, <1>1, <3>1, <3>2, <3>3, ChangedDevice, NewProc DEF Labels
    <3> QED BY <1>0, <1>7, <3>3, <3>4 DEF TryNext, TypeOK
  <2> QED BY <2>1, <2>2
<1>8. CASE SetAccess(p)
  <2>1. proc[p].pc # "idle" /\ proc[p].todo # <<>>
    BY <1>8 DEF SetAccess
  <2>2. Tail(proc[p].todo) \in Todos
    BY <1>1, <2>1, TaskTail DEF Todos
  <2>3. proc' = [proc EXCEPT ![p] = [proc[p] EXCEPT !.todo = Tail(proc[p].todo)]]
    BY <1>8 DEF SetAccess
  <2>4. ProcOK
    BY <1>0, <1>1, <2>1, <2>2, <2>3, ChangedTodo, NewProc
  <2> QED BY <1>0, <1>1, <1>8, <2>1, <2>4 DEF SetAccess, TypeOK
<1>9. CASE RunScript(p)
  <2>1. proc[p].pc # "idle" /\ proc[p].todo # <<>>
    BY <1>9 DEF RunScript
  <2>2. Tail(proc[p].todo) \in Todos
    BY <1>1, <2>1, TaskTail DEF Todos
  <2>3. CASE Exit(p)
    BY <1>0, <1>9, <2>3, ExitType DEF RunScript, TypeOK
  <2>4. CASE proc' = [proc EXCEPT ![p] = [proc[p] EXCEPT !.todo = Tail(proc[p].todo)]]
             /\ UNCHANGED flock
    <3>1. ProcOK
      BY <1>0, <1>1, <2>1, <2>2, <2>4, ChangedTodo, NewProc
    <3> QED BY <1>0, <1>9, <2>4, <3>1 DEF RunScript, TypeOK
  <2> QED BY <1>9, <2>3, <2>4 DEF RunScript
<1> QED BY <1>2, <1>3, <1>4, <1>5, <1>6, <1>7, <1>8, <1>9 DEF Step

\* A step changes one process.
LEMMA OthersStay ==
  ASSUME TypeOK, NEW p \in Procs, Step(p), NEW q \in Procs, q # p
  PROVE  proc'[q] = proc[q]
BY DEF TypeOK, Step, Start, TakeProgLock, WriteProgLock, MissProgLock, ReadProgLock, Lock,
       GiveUp, Update, Unlink, TryNext, Refuse, SetAccess, RunScript, Finish, Crash, Goto, Exit

\* The process itself ends, starts, or keeps who it is and what it has been asked for.
SameJob(p) == /\ proc[p] # Idle /\ proc'[p] # Idle
              /\ proc'[p].user = proc[p].user /\ proc'[p].cmd = proc[p].cmd
              /\ proc'[p].force = proc[p].force

\* It keeps its device, and goes on to another label.
Goes(p, l) == /\ SameJob(p) /\ proc'[p].dev = proc[p].dev
              /\ proc'[p].todo = proc[p].todo /\ proc'[p].pc = l

LEMMA GotoGoes ==
  ASSUME TypeOK, NEW p \in Procs, proc[p].pc # "idle", NEW l \in Labels, Goto(p, l)
  PROVE  Goes(p, l) /\ proc'[p].old = proc[p].old
<1>1. proc[p] \in Running
  BY AtWork
<1>2. proc'[p] = [proc[p] EXCEPT !.pc = l]
  BY DEF Goto, TypeOK
<1>3. [proc[p] EXCEPT !.pc = l] \in Running
  BY <1>1, ChangedLabel
<1> QED BY <1>1, <1>2, <1>3, Fields DEF Goes, SameJob, Running

LEMMA OldGoes ==
  ASSUME TypeOK, NEW p \in Procs, proc[p].pc # "idle", NEW l \in Labels, NEW o \in Reservations,
         proc' = [proc EXCEPT ![p].pc = l, ![p].old = o]
  PROVE  Goes(p, l) /\ proc'[p].old = o
<1>1. proc[p] \in Running
  BY AtWork
<1>2. proc'[p] = [proc[p] EXCEPT !.pc = l, !.old = o]
  BY DEF TypeOK
<1>3. proc[p] # Idle /\ proc'[p] # Idle
  BY <1>1, <1>2, ChangedOld, Fields
<1>4. /\ proc'[p].user = proc[p].user /\ proc'[p].cmd = proc[p].cmd
      /\ proc'[p].force = proc[p].force /\ proc'[p].dev = proc[p].dev
      /\ proc'[p].todo = proc[p].todo /\ proc'[p].pc = l /\ proc'[p].old = o
  BY <1>1, <1>2 DEF Running
<1> QED BY <1>3, <1>4 DEF Goes, SameJob

LEMMA TodoGoes ==
  ASSUME TypeOK, NEW p \in Procs, proc[p].pc # "idle", NEW t \in Todos,
         proc' = [proc EXCEPT ![p].todo = t]
  PROVE  /\ SameJob(p) /\ proc'[p].dev = proc[p].dev /\ proc'[p].pc = proc[p].pc
         /\ proc'[p].todo = t /\ proc'[p].old = proc[p].old
<1>1. proc[p] \in Running
  BY AtWork
<1>2. proc'[p] = [proc[p] EXCEPT !.todo = t]
  BY DEF TypeOK
<1>3. [proc[p] EXCEPT !.todo = t] \in Running
  BY <1>1, ChangedTodo
<1> QED BY <1>1, <1>2, <1>3, Fields DEF SameJob, Running

LEMMA DeviceGoes ==
  ASSUME TypeOK, NEW p \in Procs, proc[p].pc # "idle", NEW d \in Devices, NEW o \in Reservations,
         proc' = [proc EXCEPT ![p].pc = "lock", ![p].dev = d, ![p].old = o]
  PROVE  /\ SameJob(p) /\ proc'[p].dev = d /\ proc'[p].pc = "lock"
         /\ proc'[p].todo = proc[p].todo /\ proc'[p].old = o
<1>1. proc[p] \in Running
  BY AtWork
<1>2. proc'[p] = [proc[p] EXCEPT !.pc = "lock", !.dev = d, !.old = o]
  BY DEF TypeOK
<1>3. proc[p] # Idle /\ proc'[p] # Idle
  BY <1>1, <1>2, ChangedDevice, Fields DEF Labels
<1>4. /\ proc'[p].user = proc[p].user /\ proc'[p].cmd = proc[p].cmd
      /\ proc'[p].force = proc[p].force /\ proc'[p].dev = d
      /\ proc'[p].todo = proc[p].todo /\ proc'[p].pc = "lock" /\ proc'[p].old = o
  <2> DEFINE r == [proc[p] EXCEPT !.pc = "lock"]
             s == [r EXCEPT !.dev = d]
  <2>1. /\ r \in Running /\ r.pc = "lock" /\ r.user = proc[p].user /\ r.cmd = proc[p].cmd
        /\ r.force = proc[p].force /\ r.todo = proc[p].todo
    BY <1>1 DEF Running, Labels
  <2> HIDE DEF r
  <2>2. /\ s \in Running /\ s.pc = r.pc /\ s.user = r.user /\ s.cmd = r.cmd
        /\ s.force = r.force /\ s.todo = r.todo /\ s.dev = d
    BY <2>1 DEF Running
  <2> HIDE DEF s
  <2>3. proc'[p] = [s EXCEPT !.old = o]
    BY <1>2 DEF r, s
  <2> QED BY <2>1, <2>2, <2>3 DEF Running
<1> QED BY <1>3, <1>4 DEF SameJob

LEMMA ExitEnds ==
  ASSUME TypeOK, NEW p \in Procs, Exit(p)
  PROVE  /\ proc'[p] = Idle /\ proc'[p].pc = "idle"
         /\ \A f \in Files : flock'[f] = IF flock[f] = p THEN NoProc ELSE flock[f]
BY DEF TypeOK, Exit, Idle

-----------------------------------------------------------------------------
(* Who holds a file, and what the holder knows. *)

\* A step that takes or gives back no lock, and leaves the reservations alone.
LEMMA QuietStep ==
  ASSUME CtrlInv, NEW p \in Procs, Step(p), UNCHANGED <<site, res, flock>>,
         NEW l \in Labels, Goes(p, l), proc[p].pc \notin {"decide", "tasks"},
         Holding(p) <=> l \in {"decide", "unlink", "tasks"},
         l \in {"proglock", "progwrite", "progread"} => proc[p].cmd = "program",
         l \in {"unlink", "decide"} => l = proc[p].pc,
         proc'[p].old = proc[p].old
  PROVE  TargetsOwn' /\ LocksHeld' /\ ContentsKnown'
<1>1. \A q \in Procs : q # p => proc'[q] = proc[q]
  BY OthersStay DEF CtrlInv
<1>2. TargetsOwn'
  BY <1>1 DEF CtrlInv, TargetsOwn, Goes, SameJob, Targets
<1>3. \A q \in Procs : (Holding(q) <=> Holding(q)') /\ (Holding(q) => File(q)' = File(q))
  BY <1>1 DEF Holding, File, FileOf, Goes
<1>4. LocksHeld'
  BY <1>3 DEF CtrlInv, LocksHeld
<1>5. \A q \in Procs : Written(q)' => Written(q)
  BY <1>1, <1>3 DEF Holding, Written, Goes
<1>6. ContentsKnown'
  BY <1>1, <1>3, <1>5 DEF CtrlInv, ContentsKnown, Goes, SameJob, Holding, Written
<1> QED BY <1>2, <1>4, <1>6

\* A process ends, and its lock with it.
LEMMA ExitStep ==
  ASSUME CtrlInv, NEW p \in Procs, Step(p), UNCHANGED <<site, res>>, Exit(p)
  PROVE  TargetsOwn' /\ LocksHeld' /\ ContentsKnown'
<1>1. \A q \in Procs : q # p => proc'[q] = proc[q]
  BY OthersStay DEF CtrlInv
<1>2. /\ proc'[p] = Idle /\ proc'[p].pc = "idle"
      /\ \A f \in Files : flock'[f] = IF flock[f] = p THEN NoProc ELSE flock[f]
  BY ExitEnds DEF CtrlInv
<1>3. TargetsOwn'
  BY <1>1, <1>2 DEF CtrlInv, TargetsOwn, Targets
<1>4. ASSUME NEW q \in Procs, NEW f \in Files
      PROVE  (flock'[f] = q <=> Holding(q)' /\ File(q)' = f)
  <2>1. CASE q = p
    BY <1>2, <2>1, CtrlAssumption DEF Holding
  <2>2. CASE q # p
    BY <1>1, <1>2, <2>2, CtrlAssumption DEF CtrlInv, LocksHeld, Holding, File, FileOf
  <2> QED BY <2>1, <2>2
<1>5. LocksHeld'
  BY <1>4 DEF LocksHeld
<1>6. ContentsKnown'
  BY <1>1, <1>2 DEF CtrlInv, ContentsKnown, Written, File, FileOf
<1> QED BY <1>3, <1>5, <1>6

LEMMA HoldStep ==
  ASSUME CtrlInv, NEW p \in Procs, Step(p), UNCHANGED site, TypeOK'
  PROVE  TargetsOwn' /\ LocksHeld' /\ ContentsKnown'
<1>0. /\ TypeOK /\ site \in Sites /\ TargetsOwn /\ LocksHeld /\ ContentsKnown
      /\ FileOf \in [Devices -> Files] /\ Targets \in [Procs -> SUBSET Devices]
      /\ FileOf' = FileOf /\ Targets' = Targets
  BY SiteTypes DEF CtrlInv, FileOf, Targets
<1>1. \A q \in Procs : q # p => proc'[q] = proc[q] /\ File(q)' = File(q)
  BY <1>0, OthersStay DEF File
<1>2. ASSUME proc[p].pc # "idle"
      PROVE  /\ proc[p] \in Running /\ proc[p] # Idle /\ proc[p].cmd \in Commands
             /\ proc[p].dev \in Devices /\ proc[p].dev \in Targets[p]
             /\ proc[p].todo \in Left(proc[p].cmd) /\ proc[p].todo \in Todos /\ File(p) \in Files
  BY <1>0, <1>2, AtWork, Fields DEF TargetsOwn, File
<1>3. FreeFile \in Reservations
  BY DEF FreeFile, Reservations, States
<1>4. CASE Start(p)
  <2>1. PICK user \in Users, cmd \in Commands, force \in BOOLEAN, dev \in Targets[p] :
          /\ force => site.mayForce
          /\ proc' = [proc EXCEPT ![p] =
                       [pc |-> IF cmd = "program" THEN "proglock" ELSE "lock",
                        user |-> user, cmd |-> cmd, force |-> force,
                        dev |-> dev, old |-> FreeFile, todo |-> Tasks(cmd)]]
    BY <1>4 DEF Start
  <2>2. proc'[p] = [pc |-> IF cmd = "program" THEN "proglock" ELSE "lock",
                    user |-> user, cmd |-> cmd, force |-> force,
                    dev |-> dev, old |-> FreeFile, todo |-> Tasks(cmd)]
    BY <1>0, <2>1 DEF TypeOK
  <2>3. /\ proc[p].pc = "idle" /\ UNCHANGED <<res, flock>> /\ proc'[p].pc \in {"proglock", "lock"}
        /\ proc'[p].pc = "proglock" => proc'[p].cmd = "program"
        /\ proc'[p].dev = dev /\ proc'[p].todo = Tasks(cmd) /\ proc'[p].cmd = cmd
        /\ proc'[p].force = force
    BY <1>4, <2>2 DEF Start
  <2>4. TargetsOwn'
    BY <1>0, <1>1, <2>1, <2>3, TaskLists DEF TargetsOwn
  <2>5. LocksHeld'
    BY <1>0, <1>1, <2>3 DEF LocksHeld, Holding
  <2>6. ContentsKnown'
    BY <1>0, <1>1, <2>3 DEF ContentsKnown, Written
  <2> QED BY <2>4, <2>5, <2>6
<1>5. CASE TakeProgLock(p)
  <2>1. proc[p].pc = "proglock" /\ Goes(p, "progwrite") /\ proc'[p].old = proc[p].old
    BY <1>0, <1>5, GotoGoes DEF TakeProgLock, Labels
  <2>2. proc[p].cmd = "program"
    BY <1>0, <1>2, <2>1 DEF TargetsOwn
  <2> QED BY <1>5, <2>1, <2>2, QuietStep DEF TakeProgLock, Labels, Holding
<1>6. CASE WriteProgLock(p)
  <2>1. proc[p].pc = "progwrite" /\ Goes(p, "lock") /\ proc'[p].old = proc[p].old
    BY <1>0, <1>6, GotoGoes DEF WriteProgLock, Labels
  <2> QED BY <1>6, <2>1, QuietStep DEF WriteProgLock, Labels, Holding
<1>7. CASE MissProgLock(p)
  <2>1. proc[p].pc = "proglock" /\ Goes(p, "progread") /\ proc'[p].old = proc[p].old
    BY <1>0, <1>7, GotoGoes DEF MissProgLock, Labels
  <2>2. proc[p].cmd = "program"
    BY <1>0, <1>2, <2>1 DEF TargetsOwn
  <2> QED BY <1>7, <2>1, <2>2, QuietStep DEF MissProgLock, Labels, Holding
<1>8. CASE ReadProgLock(p)
  <2>1. PICK l \in {"lock", "proglock"} : Goto(p, l)
    BY <1>8 DEF ReadProgLock
  <2>2. proc[p].pc = "progread" /\ Goes(p, l) /\ proc'[p].old = proc[p].old
    BY <1>0, <1>8, <2>1, GotoGoes DEF ReadProgLock, Labels
  <2>3. proc[p].cmd = "program"
    BY <1>0, <1>2, <2>2 DEF TargetsOwn
  <2> QED BY <1>8, <2>2, <2>3, QuietStep DEF ReadProgLock, Labels, Holding
<1>9. CASE Unlink(p)
  <2>1. proc[p].pc = "unlink" /\ Goes(p, "tasks") /\ proc'[p].old = proc[p].old
    BY <1>0, <1>9, GotoGoes DEF Unlink, Labels
  <2> QED BY <1>9, <2>1, QuietStep DEF Unlink, Labels, Holding
<1>10. CASE Lock(p)
  <2>1. /\ proc[p].pc = "lock" /\ flock[File(p)] = NoProc /\ res' = res
        /\ flock' = [flock EXCEPT ![File(p)] = p]
        /\ Goes(p, "decide") /\ proc'[p].old = res[File(p)]
    <3>1. proc[p].pc = "lock" /\ res[File(p)] \in Reservations
      BY <1>0, <1>2, <1>10 DEF Lock, TypeOK
    <3> QED BY <1>0, <1>10, <3>1, OldGoes DEF Lock, Labels
  <2>2. File(p) \in Files /\ File(p)' = File(p)
    BY <1>0, <1>2, <2>1 DEF File, Goes
  <2>3. TargetsOwn'
    BY <1>0, <1>1, <2>1 DEF TargetsOwn, Goes, SameJob
  <2>4. ASSUME NEW q \in Procs, NEW f \in Files
        PROVE  (flock'[f] = q <=> Holding(q)' /\ File(q)' = f)
    <3>1. flock'[f] = IF f = File(p) THEN p ELSE flock[f]
      BY <1>0, <2>1, <2>2 DEF TypeOK
    <3>2. CASE q = p
      BY <1>0, <2>1, <2>2, <3>1, <3>2 DEF LocksHeld, Holding, Goes
    <3>3. CASE q # p
      BY <1>0, <1>1, <2>1, <2>2, <3>1, <3>3, CtrlAssumption DEF LocksHeld, Holding
    <3> QED BY <3>2, <3>3
  <2>5. LocksHeld'
    BY <2>4 DEF LocksHeld
  <2>6. ContentsKnown'
    BY <1>0, <1>1, <2>1, <2>2 DEF ContentsKnown, Written, Goes
  <2> QED BY <2>3, <2>5, <2>6
<1>11. CASE GiveUp(p) \/ Refuse(p) \/ Finish(p) \/ Crash(p)
  BY <1>11, ExitStep DEF GiveUp, Refuse, Finish, Crash
<1>12. CASE Update(p)
  <2> DEFINE new == [owner |-> proc[p].user, state |-> NewState(proc[p].cmd)]
  <2>1. proc[p].pc = "decide" /\ File(p) \in Files
    BY <1>2, <1>12 DEF Update
  <2>2. PICK l \in {"unlink", "tasks"} :
          /\ Goes(p, l)
          /\ l = IF proc[p].old.state = "program" /\ NewState(proc[p].cmd) # "program"
                 THEN "unlink" ELSE "tasks"
    <3> DEFINE next == IF proc[p].old.state = "program" /\ NewState(proc[p].cmd) # "program"
                       THEN "unlink" ELSE "tasks"
    <3>1. proc' = [proc EXCEPT ![p].pc = next, ![p].old = FreeFile]
      BY <1>12 DEF Update
    <3>2. next \in {"unlink", "tasks"} /\ next \in Labels
      BY DEF Labels
    <3> HIDE DEF next
    <3>3. Goes(p, next)
      BY <1>0, <1>3, <2>1, <3>1, <3>2, OldGoes
    <3> QED BY <3>2, <3>3 DEF next
  <2>3. res' = [res EXCEPT ![File(p)] = new] /\ flock' = flock
    BY <1>12 DEF Update
  <2>4. File(p)' = File(p)
    BY <1>0, <2>2 DEF File, Goes
  <2>5. TargetsOwn'
    BY <1>0, <1>1, <2>1, <2>2 DEF TargetsOwn, Goes, SameJob
  <2>6. LocksHeld'
    BY <1>0, <1>1, <2>1, <2>2, <2>3, <2>4 DEF LocksHeld, Holding, Goes
  <2>7. res'[File(p)] = new
    BY <1>0, <2>1, <2>3 DEF TypeOK
  <2>8. \A q \in Procs : q # p /\ Holding(q) => File(q) # File(p)
    BY <1>0, <2>1 DEF LocksHeld, Holding
  <2>9. \A q \in Procs : q # p /\ Holding(q) => res'[File(q)] = res[File(q)]
    BY <1>0, <2>3, <2>8 DEF TypeOK, Holding
  <2>10. ContentsKnown'
    BY <1>0, <1>1, <2>2, <2>4, <2>7, <2>9
       DEF ContentsKnown, Written, Holding, Goes, SameJob
  <2> QED BY <2>5, <2>6, <2>10
<1>13. CASE TryNext(p)
  <2> DEFINE rest == {d \in Targets[p] : d > proc[p].dev}
  <2>1. proc[p].pc = "decide" /\ File(p) \in Files /\ res' = res /\ proc[p].cmd = "reserve"
    BY <1>2, <1>13 DEF TryNext
  <2>2. CASE rest = {}
    BY <1>13, <2>1, <2>2, ExitStep DEF TryNext
  <2>3. CASE rest # {}
    <3>1. First(rest) \in Devices /\ First(rest) \in Targets[p]
      BY <1>0, <2>3, FirstIsOne
    <3>2. /\ SameJob(p) /\ proc'[p].dev = First(rest) /\ proc'[p].pc = "lock"
          /\ proc'[p].todo = proc[p].todo /\ flock' = [flock EXCEPT ![File(p)] = NoProc]
      <4>1. /\ proc' = [proc EXCEPT ![p].pc = "lock", ![p].dev = First(rest),
                                    ![p].old = FreeFile]
            /\ flock' = [flock EXCEPT ![File(p)] = NoProc]
        BY <1>13, <2>3 DEF TryNext
      <4> HIDE DEF rest
      <4> QED BY <1>0, <1>3, <2>1, <3>1, <4>1, DeviceGoes
    <3>3. TargetsOwn'
      BY <1>0, <1>1, <2>1, <3>1, <3>2 DEF TargetsOwn, SameJob
    <3>4. ASSUME NEW q \in Procs, NEW f \in Files
          PROVE  (flock'[f] = q <=> Holding(q)' /\ File(q)' = f)
      <4>1. flock'[f] = IF f = File(p) THEN NoProc ELSE flock[f]
        BY <1>0, <2>1, <3>2 DEF TypeOK
      <4>2. flock[f] = p <=> f = File(p)
        BY <1>0, <2>1 DEF LocksHeld, Holding
      <4>3. CASE q = p
        BY <3>2, <4>1, <4>2, <4>3, CtrlAssumption DEF Holding
      <4>4. CASE q # p
        BY <1>0, <1>1, <4>1, <4>2, <4>4, CtrlAssumption DEF LocksHeld, Holding
      <4> QED BY <4>3, <4>4
    <3>5. LocksHeld'
      BY <3>4 DEF LocksHeld
    <3>6. ContentsKnown'
      BY <1>0, <1>1, <2>1, <3>2 DEF ContentsKnown, Written
    <3> QED BY <3>3, <3>5, <3>6
  <2> QED BY <2>2, <2>3
<1>14. CASE SetAccess(p) \/ (RunScript(p) /\ ~Exit(p))
  <2>1. /\ proc[p].pc = "tasks" /\ proc[p].todo # <<>> /\ UNCHANGED <<res, flock>>
        /\ proc' = [proc EXCEPT ![p].todo = Tail(proc[p].todo)]
    BY <1>14 DEF SetAccess, RunScript
  <2>2. Tail(proc[p].todo) \in Left(proc[p].cmd) /\ Tail(proc[p].todo) \in Todos
    BY <1>2, <2>1, TaskTail DEF Todos
  <2>3. /\ SameJob(p) /\ proc'[p].dev = proc[p].dev /\ proc'[p].pc = proc[p].pc
        /\ proc'[p].todo = Tail(proc[p].todo) /\ proc'[p].old = proc[p].old
    BY <1>0, <2>1, <2>2, TodoGoes
  <2>4. File(p)' = File(p)
    BY <1>0, <2>3 DEF File
  <2>5. TargetsOwn'
    BY <1>0, <1>1, <2>1, <2>2, <2>3 DEF TargetsOwn, SameJob
  <2>6. LocksHeld'
    BY <1>0, <1>1, <2>1, <2>3, <2>4 DEF LocksHeld, Holding
  <2>7. ContentsKnown'
    BY <1>0, <1>1, <2>1, <2>3, <2>4 DEF ContentsKnown, Written, SameJob
  <2> QED BY <2>5, <2>6, <2>7
<1>15. CASE RunScript(p) /\ Exit(p)
  BY <1>15, ExitStep DEF RunScript
<1> QED BY <1>4, <1>5, <1>6, <1>7, <1>8, <1>9, <1>10, <1>11, <1>12, <1>13, <1>14, <1>15 DEF Step

LEMMA CtrlStep ==
  ASSUME CtrlInv, NEW p \in Procs, Step(p), UNCHANGED site
  PROVE  CtrlInv'
BY TypeStep, HoldStep DEF CtrlInv

LEMMA CtrlInit == Init => CtrlInv
<1> SUFFICES ASSUME Init PROVE CtrlInv
  OBVIOUS
<1>1. TypeOK
  BY DEF Init, TypeOK, FreeFile, Reservations, States
<1>2. site \in Sites
  BY DEF Init
<1>3. \A p \in Procs : proc[p] = Idle /\ proc[p].pc = "idle"
  BY DEF Init, Idle
<1>4. LocksHeld
  BY <1>3, CtrlAssumption DEF Init, LocksHeld, Holding
<1>5. TargetsOwn /\ ContentsKnown
  BY <1>3 DEF TargetsOwn, ContentsKnown, Written
<1> QED BY <1>1, <1>2, <1>4, <1>5 DEF CtrlInv

-----------------------------------------------------------------------------
(* Access *)

\* A step that rewrites no reservation and gives no access.
LEMMA AccessKept ==
  ASSUME CtrlInv, AccessInv, NEW p \in Procs, Step(p), UNCHANGED <<site, res, access>>,
         \A d \in Devices : Revoking(p, d) => Revoking(p, d)'
  PROVE  AccessInv'
<1>1. \A q \in Procs : q # p => proc'[q] = proc[q]
  BY OthersStay DEF CtrlInv
<1>2. \A q \in Procs, d \in Devices : Revoking(q, d) => Revoking(q, d)'
  BY <1>1 DEF Revoking, Written
<1>3. \A d \in Devices : Owned(d) => Owned(d)'
  BY DEF Owned, FileOf
<1> QED BY <1>2, <1>3 DEF AccessInv, NoAlias, FileOf

LEMMA AccessStep ==
  ASSUME CtrlInv, AccessInv, NEW p \in Procs, Step(p), UNCHANGED site
  PROVE  AccessInv'
<1>0. /\ TypeOK /\ site \in Sites /\ TargetsOwn /\ LocksHeld /\ ContentsKnown
      /\ FileOf \in [Devices -> Files] /\ FileOf' = FileOf /\ NoAlias' = NoAlias
  BY SiteTypes DEF CtrlInv, FileOf, NoAlias
<1>1. CtrlInv'
  BY CtrlStep
<1>2. \A q \in Procs : q # p => proc'[q] = proc[q]
  BY <1>0, OthersStay
<1>3. ASSUME proc[p].pc # "idle"
      PROVE  /\ proc[p].cmd \in Commands /\ proc[p].dev \in Devices /\ proc[p].user \in Users
             /\ proc[p].todo \in Left(proc[p].cmd) /\ File(p) = FileOf[proc[p].dev]
             /\ File(p) \in Files
  BY <1>0, <1>3, AtWork, Fields DEF TargetsOwn, File
<1>4. CASE Start(p) \/ TakeProgLock(p) \/ WriteProgLock(p) \/ MissProgLock(p) \/ ReadProgLock(p)
           \/ Lock(p) \/ GiveUp(p) \/ TryNext(p) \/ Refuse(p)
  <2>1. ~Written(p) /\ UNCHANGED <<res, access>>
    BY <1>4 DEF Start, TakeProgLock, WriteProgLock, MissProgLock, ReadProgLock, Lock, GiveUp,
                TryNext, Refuse, Written
  <2> QED BY <2>1, AccessKept DEF Revoking
<1>5. CASE Unlink(p)
  <2>1. proc[p].pc = "unlink" /\ Goes(p, "tasks") /\ UNCHANGED <<res, access>>
    BY <1>0, <1>5, GotoGoes DEF Unlink, Labels
  <2>2. \A d \in Devices : Revoking(p, d) => Revoking(p, d)'
    BY <2>1 DEF Revoking, Written, Goes
  <2> QED BY <2>1, <2>2, AccessKept
<1>6. CASE RunScript(p) \/ Finish(p)
  <2>1. UNCHANGED <<res, access>> /\ (proc[p].todo = <<>> \/ Head(proc[p].todo) = "script")
    BY <1>6 DEF RunScript, Finish
  <2>2. \A d \in Devices : ~Revoking(p, d)
    BY <2>1 DEF Revoking
  <2> QED BY <2>1, <2>2, AccessKept
<1>7. CASE Crash(p)
  BY <1>7 DEF Crash, AccessInv
<1>8. CASE Update(p)
  <2> SUFFICES ASSUME ~site.mayCrash, NoAlias, NEW d \in Devices
               PROVE  Owned(d)' \/ \E q \in Procs : Revoking(q, d)'
    BY <1>0 DEF AccessInv
  <2>1. /\ proc[p].pc = "decide" /\ Allowed(proc[p]) /\ UNCHANGED access
        /\ res' = [res EXCEPT ![File(p)] = [owner |-> proc[p].user,
                                            state |-> NewState(proc[p].cmd)]]
    BY <1>8 DEF Update
  <2>2. Owned(d) \/ \E q \in Procs : Revoking(q, d)
    BY DEF AccessInv
  <2>3. CASE d # proc[p].dev
    <3>1. FileOf[d] # File(p)
      BY <1>3, <2>1, <2>3 DEF NoAlias
    <3>2. res'[FileOf[d]] = res[FileOf[d]]
      BY <1>0, <2>1, <3>1 DEF TypeOK
    <3>3. Owned(d) => Owned(d)'
      BY <1>0, <2>1, <3>2 DEF Owned
    <3>4. \A q \in Procs : Revoking(q, d) => Revoking(q, d)'
      BY <1>2, <2>1, <2>3 DEF Revoking, Written
    <3> QED BY <2>2, <3>3, <3>4
  <2>4. CASE d = proc[p].dev
    <3>1. /\ proc'[p].pc \in {"unlink", "tasks"} /\ proc'[p].dev = d
          /\ proc'[p].todo = Tasks(proc[p].cmd)
      <4>1. Holding(p)' /\ SameJob(p) /\ proc'[p].dev = d /\ proc'[p].todo = proc[p].todo
            /\ proc'[p].pc \in {"unlink", "tasks"}
        <5> DEFINE next == IF proc[p].old.state = "program" /\ NewState(proc[p].cmd) # "program"
                           THEN "unlink" ELSE "tasks"
        <5>1. proc' = [proc EXCEPT ![p].pc = next, ![p].old = FreeFile]
          BY <1>8 DEF Update
        <5>2. next \in {"unlink", "tasks"} /\ next \in Labels /\ FreeFile \in Reservations
          BY DEF Labels, FreeFile, Reservations, States
        <5> HIDE DEF next
        <5>3. Goes(p, next)
          BY <1>0, <2>1, <5>1, <5>2, OldGoes
        <5> QED BY <2>4, <5>2, <5>3 DEF Goes, Holding
      <4> QED BY <1>0, <2>1, <4>1 DEF TargetsOwn, SameJob
    <3>2. CASE proc[p].cmd \in {"reserve", "drop", "reset"}
      BY <3>1, <3>2 DEF Revoking, Written, Tasks
    <3>3. CASE proc[p].cmd \notin {"reserve", "drop", "reset"}
      <4>1. NewState(proc[p].cmd) \in {"program", "active", "inactive"}
        BY <1>3, <2>1, <3>3 DEF NewState, Commands
      <4>2. proc[p].user = res[FileOf[d]].owner
        BY <1>0, <1>3, <2>1, <2>4, <4>1 DEF Allowed, ReservationOnly, Mine, ContentsKnown
      <4>3. \A q \in Procs : ~Revoking(q, d)
        BY <1>0, <1>3, <2>1, <2>4 DEF Revoking, Written, LocksHeld, Holding, File
      <4>4. Owned(d)
        BY <2>2, <4>3
      <4>5. res'[FileOf[d]] = [owner |-> proc[p].user, state |-> NewState(proc[p].cmd)]
        BY <1>0, <1>3, <2>1, <2>4 DEF TypeOK
      <4> QED BY <1>0, <2>1, <4>1, <4>2, <4>4, <4>5 DEF Owned
    <3> QED BY <3>2, <3>3
  <2> QED BY <2>3, <2>4
<1>9. CASE SetAccess(p)
  <2> SUFFICES ASSUME ~site.mayCrash, NoAlias, NEW d \in Devices
               PROVE  Owned(d)' \/ \E q \in Procs : Revoking(q, d)'
    BY <1>0 DEF AccessInv
  <2>1. /\ proc[p].pc = "tasks" /\ Head(proc[p].todo) \in {"grant", "revoke"} /\ UNCHANGED res
        /\ proc[p].todo # <<>>
        /\ access' = [access EXCEPT ![proc[p].dev] =
                        IF Head(proc[p].todo) = "grant" THEN proc[p].user ELSE Root]
    BY <1>9 DEF SetAccess
  <2>2. Owned(d) \/ \E q \in Procs : Revoking(q, d)
    BY DEF AccessInv
  <2>3. CASE d # proc[p].dev
    <3>1. access'[d] = access[d]
      BY <1>0, <2>1, <2>3 DEF TypeOK
    <3>2. \A q \in Procs : Revoking(q, d) => Revoking(q, d)'
      BY <1>2, <2>3 DEF Revoking, Written
    <3> QED BY <1>0, <2>1, <2>2, <3>1, <3>2 DEF Owned
  <2>4. CASE d = proc[p].dev
    <3>1. access'[d] = IF Head(proc[p].todo) = "grant" THEN proc[p].user ELSE Root
      BY <1>0, <2>1, <2>4 DEF TypeOK
    <3>2. CASE Head(proc[p].todo) = "revoke"
      BY <3>1, <3>2 DEF Owned
    <3>3. CASE Head(proc[p].todo) = "grant"
      <4>1. proc[p].cmd = "activate"
        BY <1>3, <2>1, <3>3, TaskLists DEF Commands
      <4>2. res[FileOf[d]] = [owner |-> proc[p].user, state |-> "active"]
        BY <1>0, <1>3, <2>1, <2>4, <4>1 DEF ContentsKnown, Written, NewState
      <4> QED BY <1>0, <2>1, <3>1, <3>3, <4>2 DEF Owned
    <3> QED BY <2>1, <3>2, <3>3
  <2> QED BY <2>3, <2>4
<1> QED BY <1>4, <1>5, <1>6, <1>7, <1>8, <1>9 DEF Step

-----------------------------------------------------------------------------
(* Programming *)

\* Of two processes at work on one device, or on one file, there is only one.
LEMMA Alone ==
  ASSUME CtrlInv, NoAlias, OperatorEach, NEW p \in Procs, NEW q \in Procs,
         proc[p].pc # "idle", proc[q].pc # "idle", File(p) = File(q)
  PROVE  p = q
<1>1. /\ proc[p].dev \in Targets[p] /\ proc[q].dev \in Targets[q]
      /\ proc[p].dev \in Devices /\ proc[q].dev \in Devices
  BY AtWork, Fields DEF CtrlInv, TargetsOwn
<1>2. proc[p].dev = proc[q].dev
  BY <1>1 DEF NoAlias, File
<1> QED BY <1>1, <1>2 DEF OperatorEach

\* What the programming lock says of one process.
ProgOf(p) == /\ proc[p].pc = "progwrite" => progLock = p
             /\ proc[p].pc \in {"lock", "decide"} /\ proc[p].cmd = "program"
                  => progLock = proc[p].dev
             /\ proc[p].pc = "unlink" => progLock = proc[p].dev
ProgFiles == \A d \in Devices : res[FileOf[d]].state = "program" => progLock = d

LEMMA ProgStep ==
  ASSUME CtrlInv, ProgInv, NEW p \in Procs, Step(p), UNCHANGED site
  PROVE  ProgInv'
<1> SUFFICES ASSUME ~site.mayCrash, ~site.mayForce, NoAlias, OperatorEach
             PROVE  ProgFiles' /\ \A q \in Procs : ProgOf(q)'
  BY DEF ProgInv, ProgFiles, ProgOf, NoAlias, OperatorEach, FileOf, Targets
<1>0. /\ TypeOK /\ site \in Sites /\ TargetsOwn /\ LocksHeld /\ ContentsKnown
      /\ FileOf \in [Devices -> Files] /\ FileOf' = FileOf
      /\ ProgFiles /\ \A q \in Procs : ProgOf(q)
  BY SiteTypes DEF CtrlInv, FileOf, ProgInv, ProgFiles, ProgOf
<1>1. \A q \in Procs : q # p => proc'[q] = proc[q]
  BY <1>0, OthersStay
<1>2. ASSUME NEW q \in Procs, proc[q].pc # "idle"
      PROVE  /\ proc[q].cmd \in Commands /\ proc[q].dev \in Devices
             /\ ~proc[q].force /\ File(q) = FileOf[proc[q].dev] /\ File(q) \in Files
  BY <1>0, <1>2, AtWork, Fields DEF TargetsOwn, File
<1>3. ASSUME UNCHANGED <<res, progLock>>, ProgOf(p)'
      PROVE  ProgFiles' /\ \A q \in Procs : ProgOf(q)'
  BY <1>0, <1>1, <1>3 DEF ProgFiles, ProgOf
<1>4. CASE Start(p)
  <2>1. PICK user \in Users, cmd \in Commands, force \in BOOLEAN, dev \in Targets[p] :
          proc' = [proc EXCEPT ![p] =
                       [pc |-> IF cmd = "program" THEN "proglock" ELSE "lock",
                        user |-> user, cmd |-> cmd, force |-> force,
                        dev |-> dev, old |-> FreeFile, todo |-> Tasks(cmd)]]
    BY <1>4 DEF Start
  <2>2. proc'[p] = [pc |-> IF cmd = "program" THEN "proglock" ELSE "lock",
                    user |-> user, cmd |-> cmd, force |-> force,
                    dev |-> dev, old |-> FreeFile, todo |-> Tasks(cmd)]
    BY <1>0, <2>1 DEF TypeOK
  <2>3. proc'[p].pc = "proglock" \/ (proc'[p].pc = "lock" /\ proc'[p].cmd # "program")
    BY <2>2
  <2> QED BY <1>3, <1>4, <2>3 DEF Start, ProgOf
<1>5. CASE TakeProgLock(p)
  <2>1. /\ proc[p].pc = "proglock" /\ progLock = NoLock /\ progLock' = p /\ res' = res
        /\ Goes(p, "progwrite")
    BY <1>0, <1>5, GotoGoes DEF TakeProgLock, Labels
  <2>2. ProgFiles'
    BY <1>0, <2>1, CtrlAssumption DEF ProgFiles
  <2>3. ASSUME NEW q \in Procs, q # p PROVE ProgOf(q)'
    BY <1>0, <1>1, <1>2, <2>1, <2>3, CtrlAssumption DEF ProgOf
  <2>4. ProgOf(p)'
    BY <2>1 DEF ProgOf, Goes
  <2> QED BY <2>2, <2>3, <2>4
<1>6. CASE WriteProgLock(p)
  <2>1. /\ proc[p].pc = "progwrite" /\ progLock = p /\ progLock' = proc[p].dev /\ res' = res
        /\ Goes(p, "lock")
    BY <1>0, <1>6, GotoGoes DEF WriteProgLock, ProgOf, Labels
  <2>2. ProgFiles'
    BY <1>0, <2>1, CtrlAssumption DEF ProgFiles
  <2>3. ASSUME NEW q \in Procs, q # p PROVE ProgOf(q)'
    BY <1>0, <1>1, <1>2, <2>1, <2>3, CtrlAssumption DEF ProgOf
  <2>4. ProgOf(p)'
    BY <2>1 DEF ProgOf, Goes
  <2> QED BY <2>2, <2>3, <2>4
<1>7. CASE MissProgLock(p)
  <2>1. /\ Goes(p, "progread") /\ UNCHANGED <<res, progLock>>
    BY <1>0, <1>7, GotoGoes DEF MissProgLock, Labels
  <2> QED BY <1>3, <2>1 DEF ProgOf, Goes
<1>8. CASE ReadProgLock(p)
  <2>1. /\ proc[p].pc = "progread" /\ UNCHANGED <<res, progLock>>
        /\ \/ Goes(p, "proglock")
           \/ Goes(p, "lock") /\ progLock = proc[p].dev
    <3>1. proc[p].pc = "progread" /\ ~proc[p].force
      BY <1>2, <1>8 DEF ReadProgLock
    <3> QED BY <1>0, <1>8, <3>1, GotoGoes DEF ReadProgLock, Labels
  <2> QED BY <1>3, <2>1 DEF ProgOf, Goes, SameJob
<1>9. CASE Lock(p)
  <2>1. /\ proc[p].pc = "lock" /\ UNCHANGED <<res, progLock>> /\ Goes(p, "decide")
    <3>1. proc[p].pc = "lock" /\ res[File(p)] \in Reservations
      BY <1>0, <1>2, <1>9 DEF Lock, TypeOK
    <3> QED BY <1>0, <1>9, <3>1, OldGoes DEF Lock, Labels
  <2> QED BY <1>0, <1>3, <2>1 DEF ProgOf, Goes, SameJob
<1>10. CASE GiveUp(p)
  <2>1. proc[p].pc = "lock" /\ File(p) \in Files /\ flock[File(p)] # NoProc
    BY <1>2, <1>10 DEF GiveUp
  <2>2. PICK q \in Procs : flock[File(p)] = q
    BY <1>0, <2>1 DEF TypeOK
  <2>3. Holding(q) /\ File(q) = File(p)
    BY <1>0, <2>1, <2>2 DEF LocksHeld
  <2>4. p = q
    BY <2>1, <2>3, Alone DEF Holding
  <2> QED BY <2>1, <2>3, <2>4 DEF Holding
<1>11. CASE Update(p)
  <2> DEFINE next == IF proc[p].old.state = "program" /\ NewState(proc[p].cmd) # "program"
                     THEN "unlink" ELSE "tasks"
  <2>1. /\ proc[p].pc = "decide" /\ Allowed(proc[p]) /\ progLock' = progLock
        /\ res' = [res EXCEPT ![File(p)] = [owner |-> proc[p].user,
                                            state |-> NewState(proc[p].cmd)]]
        /\ proc' = [proc EXCEPT ![p].pc = next, ![p].old = FreeFile]
    BY <1>11 DEF Update
  <2>2. next \in {"unlink", "tasks"} /\ next \in Labels /\ FreeFile \in Reservations
    BY DEF Labels, FreeFile, Reservations, States
  <2>3. Goes(p, next)
    <3> HIDE DEF next
    <3> QED BY <1>0, <2>1, <2>2, OldGoes
  <2>4. proc[p].old.state = "program" => progLock = proc[p].dev
    BY <1>0, <1>2, <2>1 DEF ContentsKnown, ProgFiles
  <2>5. NewState(proc[p].cmd) = "program" => progLock = proc[p].dev
    BY <1>0, <1>2, <2>1, <2>4 DEF NewState, Commands, Allowed, ProgOf
  <2>6. ASSUME NEW d \in Devices, res'[FileOf[d]].state = "program" PROVE progLock = d
    <3>1. CASE d = proc[p].dev
      BY <1>0, <1>2, <2>1, <2>5, <2>6, <3>1 DEF TypeOK
    <3>2. CASE d # proc[p].dev
      <4>1. FileOf[d] # File(p)
        BY <1>2, <2>1, <3>2 DEF NoAlias
      <4> QED BY <1>0, <2>1, <2>6, <4>1 DEF TypeOK, ProgFiles
    <3> QED BY <3>1, <3>2
  <2>7. ProgFiles'
    BY <1>0, <2>1, <2>6 DEF ProgFiles
  <2>8. ProgOf(p)'
    BY <2>1, <2>2, <2>3, <2>4 DEF ProgOf, Goes
  <2> QED BY <1>0, <1>1, <2>1, <2>7, <2>8 DEF ProgOf
<1>12. CASE Unlink(p)
  <2>1. /\ proc[p].pc = "unlink" /\ progLock' = NoLock /\ res' = res /\ Goes(p, "tasks")
        /\ progLock = proc[p].dev
    BY <1>0, <1>12, GotoGoes DEF Unlink, Labels, ProgOf
  <2>2. res[File(p)].state # "program"
    <3>1. /\ NewState(proc[p].cmd) # "program"
          /\ res[File(p)] = [owner |-> proc[p].user, state |-> NewState(proc[p].cmd)]
      BY <1>0, <2>1 DEF ContentsKnown, Written
    <3> QED BY <3>1
  <2>3. ProgFiles'
    BY <1>0, <1>2, <2>1, <2>2 DEF ProgFiles
  <2>4. ASSUME NEW q \in Procs, q # p PROVE ProgOf(q)'
    <3>1. proc[q].pc # "progwrite"
      BY <1>0, <1>2, <2>1, <2>4, CtrlAssumption DEF ProgOf
    <3>2. proc[q].pc # "idle" => proc[q].dev # proc[p].dev
      BY <1>2, <2>1, <2>4, Alone
    <3> QED BY <1>0, <1>1, <1>2, <2>1, <2>4, <3>1, <3>2 DEF ProgOf
  <2>5. ProgOf(p)'
    BY <2>1 DEF ProgOf, Goes
  <2> QED BY <2>3, <2>4, <2>5
<1>13. CASE TryNext(p)
  <2>1. /\ proc[p].pc = "decide" /\ proc[p].cmd = "reserve" /\ UNCHANGED <<res, progLock>>
    BY <1>13 DEF TryNext
  <2> DEFINE rest == {d \in Targets[p] : d > proc[p].dev}
  <2>2. CASE rest = {}
    <3>1. Exit(p)
      BY <1>13, <2>2 DEF TryNext
    <3> QED BY <1>0, <1>3, <2>1, <3>1, ExitEnds DEF ProgOf
  <2>3. CASE rest # {}
    <3>1. /\ proc' = [proc EXCEPT ![p].pc = "lock", ![p].dev = First(rest), ![p].old = FreeFile]
      BY <1>13, <2>3 DEF TryNext
    <3>2. First(rest) \in Devices /\ FreeFile \in Reservations
      <4>1. rest \in SUBSET Devices
        BY SiteTypes DEF CtrlInv
      <4> HIDE DEF rest
      <4> QED BY <2>3, <4>1, FirstIsOne DEF FreeFile, Reservations, States
    <3>3. SameJob(p) /\ proc'[p].pc = "lock"
      <4> HIDE DEF rest
      <4> QED BY <1>0, <2>1, <3>1, <3>2, DeviceGoes
    <3> QED BY <1>3, <2>1, <3>3 DEF ProgOf, SameJob
  <2> QED BY <2>2, <2>3
<1>14. CASE Refuse(p)
  <2>1. proc[p].pc = "decide" /\ Exit(p) /\ res' = res
    BY <1>14 DEF Refuse
  <2>2. ProgOf(p)'
    BY <1>0, <2>1, ExitEnds DEF ProgOf
  <2>3. CASE progLock' = progLock
    BY <1>3, <2>1, <2>2, <2>3
  <2>4. CASE progLock' # progLock
    <3>1. /\ progLock' = NoLock /\ proc[p].cmd = "program" /\ proc[p].old.state # "program"
      BY <1>14, <2>4 DEF Refuse
    <3>2. progLock = proc[p].dev /\ res[File(p)].state # "program"
      BY <1>0, <2>1, <3>1 DEF ProgOf, ContentsKnown
    <3>3. ProgFiles'
      BY <1>0, <1>2, <2>1, <3>2 DEF ProgFiles
    <3>4. ASSUME NEW q \in Procs, q # p PROVE ProgOf(q)'
      <4>1. proc[q].pc # "progwrite"
        BY <1>0, <1>2, <2>1, <3>2, <3>4, CtrlAssumption DEF ProgOf
      <4>2. proc[q].pc # "idle" => proc[q].dev # proc[p].dev
        BY <1>2, <2>1, <3>4, Alone
      <4> QED BY <1>0, <1>1, <1>2, <3>2, <3>4, <4>1, <4>2 DEF ProgOf
    <3> QED BY <2>2, <3>3, <3>4
  <2> QED BY <2>3, <2>4
<1>15. CASE SetAccess(p) \/ (RunScript(p) /\ ~Exit(p))
  <2>1. /\ proc[p].pc = "tasks" /\ proc[p].todo # <<>> /\ UNCHANGED <<res, progLock>>
        /\ proc' = [proc EXCEPT ![p].todo = Tail(proc[p].todo)]
    BY <1>15 DEF SetAccess, RunScript
  <2>2. Tail(proc[p].todo) \in Todos
    BY <1>0, <1>2, <2>1, AtWork, Fields, TaskTail DEF Todos, TargetsOwn
  <2>3. proc'[p].pc = "tasks"
    BY <1>0, <2>1, <2>2, TodoGoes
  <2> QED BY <1>3, <2>1, <2>3 DEF ProgOf
<1>16. CASE (RunScript(p) /\ Exit(p)) \/ Finish(p)
  <2>1. Exit(p) /\ UNCHANGED <<res, progLock>>
    BY <1>16 DEF RunScript, Finish
  <2> QED BY <1>0, <1>3, <2>1, ExitEnds DEF ProgOf
<1>17. CASE Crash(p)
  BY <1>17 DEF Crash
<1> QED BY <1>4, <1>5, <1>6, <1>7, <1>8, <1>9, <1>10, <1>11, <1>12, <1>13, <1>14, <1>15, <1>16,
           <1>17 DEF Step

-----------------------------------------------------------------------------
(* The theorems *)

CtrlIInv == CtrlInv /\ AccessInv /\ ProgInv

LEMMA CtrlIInvInit == Init => CtrlIInv
<1> SUFFICES ASSUME Init PROVE AccessInv /\ ProgInv
  BY CtrlInit DEF CtrlIInv
<1>1. site \in Sites
  BY DEF Init
<1>2. AccessInv
  BY DEF Init, AccessInv, Owned
<1>3. \A d \in Devices : res[FileOf[d]].state = "free"
  BY <1>1, SiteTypes DEF Init, FreeFile
<1>4. \A p \in Procs : proc[p].pc = "idle"
  BY DEF Init, Idle
<1> QED BY <1>2, <1>3, <1>4 DEF ProgInv

LEMMA CtrlIInvStep == CtrlIInv /\ [Next]_ctrlVars => CtrlIInv'
<1> SUFFICES ASSUME CtrlIInv, [Next]_ctrlVars PROVE CtrlIInv'
  OBVIOUS
<1>1. CASE Next
  <2>1. PICK p \in Procs : Step(p) /\ UNCHANGED site
    BY <1>1 DEF Next
  <2> QED BY <2>1, CtrlStep, AccessStep, ProgStep DEF CtrlIInv
<1>2. CASE UNCHANGED ctrlVars
  <2> USE <1>2 DEF ctrlVars, CtrlIInv
  <2>1. CtrlInv'
    BY DEF CtrlInv, TypeOK, TargetsOwn, LocksHeld, ContentsKnown, Holding, Written, File, FileOf,
           Targets
  <2>2. AccessInv'
    BY DEF AccessInv, NoAlias, FileOf, Owned, Revoking, Written
  <2>3. ProgInv'
    BY DEF ProgInv, NoAlias, OperatorEach, FileOf, Targets
  <2> QED BY <2>1, <2>2, <2>3
<1> QED BY <1>1, <1>2

\* The files, processes and locks have their types, and every process that works on
\* a reservation file holds its lock and knows its contents.
THEOREM CtrlInvariant == Spec => []CtrlIInv
<1>1. Init => CtrlIInv
  BY CtrlIInvInit
<1>2. CtrlIInv /\ [Next]_ctrlVars => CtrlIInv'
  BY CtrlIInvStep
<1> QED BY <1>1, <1>2, PTL DEF Spec

\* change_current_reservation decides on what the file still says when it writes,
\* however many processes work, whoever is killed, and if devices share files.
THEOREM DecisionCurrent == Spec => []DecidesOnCurrentState
<1>1. CtrlIInv => DecidesOnCurrentState
  <2> SUFFICES ASSUME CtrlIInv, NEW p \in Procs, proc[p].pc = "decide"
               PROVE  flock[File(p)] = p /\ proc[p].old = res[File(p)]
    BY DEF DecidesOnCurrentState
  <2>1. File(p) \in Files
    BY AtWork, Fields, SiteTypes DEF CtrlIInv, CtrlInv, File
  <2> QED BY <2>1 DEF CtrlIInv, CtrlInv, LocksHeld, ContentsKnown, Holding
<1> QED BY <1>1, CtrlInvariant, PTL

\* No user keeps access to a device that is free or that somebody else holds.
THEOREM AccessCorrect == Spec => []AccessFollowsOwner
<1>1. CtrlIInv => AccessFollowsOwner
  <2> SUFFICES ASSUME CtrlIInv, ~site.mayCrash, NoAlias, NEW d \in Devices,
                      flock[FileOf[d]] = NoProc, access[d] # Root
               PROVE  res[FileOf[d]].owner = access[d] /\ res[FileOf[d]].state # "free"
    BY DEF AccessFollowsOwner
  <2>1. FileOf[d] \in Files
    BY SiteTypes DEF CtrlIInv, CtrlInv
  <2>2. \A p \in Procs : ~Revoking(p, d)
    <3> SUFFICES ASSUME NEW p \in Procs, Revoking(p, d) PROVE FALSE
      OBVIOUS
    <3>1. Holding(p) /\ File(p) = FileOf[d]
      BY DEF Revoking, Written, Holding, File
    <3>2. flock[FileOf[d]] = p
      BY <2>1, <3>1 DEF CtrlIInv, CtrlInv, LocksHeld
    <3> QED BY <3>2, CtrlAssumption
  <2> QED BY <2>2 DEF CtrlIInv, AccessInv, Owned
<1> QED BY <1>1, CtrlInvariant, PTL

\* A device in STATE_PROGRAM is named by the programming lock, so that there is only
\* one, where no two tools handle it and nobody uses --force.
THEOREM ProgrammingCorrect == Spec => []ProgrammingExclusive
<1>1. CtrlIInv => ProgrammingExclusive
  BY DEF CtrlIInv, ProgInv, ProgrammingExclusive
<1> QED BY <1>1, CtrlInvariant, PTL

\* Without --force a reservation is given to one caller only.
THEOREM GivenOnceCorrect == Spec => ReservationGivenOnce
<1>1. CtrlIInv /\ [Next]_ctrlVars => [GivenOnce]_ctrlVars
  <2> SUFFICES ASSUME CtrlIInv, Next, NEW f \in Files, res'[f] # res[f],
                      res'[f].state = "reserved"
               PROVE  \/ res[f].state = "free"
                      \/ \E p \in Procs : flock[f] = p /\ proc[p].force
    BY DEF GivenOnce
  <2>1. PICK p \in Procs : Step(p)
    BY DEF Next
  <2>2. Update(p)
    BY <2>1 DEF Step, Start, TakeProgLock, WriteProgLock, MissProgLock, ReadProgLock, Lock,
                GiveUp, Unlink, TryNext, Refuse, SetAccess, RunScript, Finish, Crash
  <2>3. proc[p].pc = "decide" /\ File(p) \in Files /\ proc[p].cmd \in Commands
    BY <2>2, AtWork, Fields, SiteTypes DEF Update, CtrlIInv, CtrlInv, File
  <2>4. f = File(p) /\ res'[f].state = NewState(proc[p].cmd)
    BY <2>2, <2>3 DEF Update, CtrlIInv, CtrlInv, TypeOK
  <2>5. proc[p].cmd = "reserve"
    BY <2>3, <2>4 DEF NewState, Commands
  <2>6. flock[f] = p /\ proc[p].old = res[f]
    BY <2>3, <2>4 DEF CtrlIInv, CtrlInv, LocksHeld, ContentsKnown, Holding
  <2> QED BY <2>2, <2>5, <2>6 DEF Update, Allowed, Taken
<1> QED BY <1>1, CtrlInvariant, PTL DEF Spec, ReservationGivenOnce
===============================================================================
