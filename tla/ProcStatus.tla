----------------------------- MODULE ProcStatus -----------------------------
(***************************************************************************)
(* The status-change protocol between the EXEC daemon and the objects of   *)
(* one processing element.                                                 *)
(*                                                                         *)
(* They share the process database (proc_db, struct hwapi_proc_i): EXEC    *)
(* writes the status an object has to change to, the object polls it from  *)
(* Status() in two phases, EXEC polls the database from exec_background(), *)
(* confirms the change and reports it to the software manager SWMAN.       *)
(* hwapi_proc_status_get/new/ack are critical sections of sem_status and   *)
(* are single steps here; everything between two of them interleaves.      *)
(* exec_background() works on a COPY of the database, taken at its start.  *)
(* Time stamps are kept relative to the present time slot.                 *)
(*                                                                         *)
(* SWMAN is an arbitrary environment here (module Waveform supplies the    *)
(* real one): it orders any status at any time and consumes the reports.   *)
(***************************************************************************)
EXTENDS Integers, Sequences, FiniteSets

CONSTANTS
  Objects,   \* the objects this processing element may be asked to launch
  Limit,     \* time slots an object may take for a change (execx.h *_LIMIT_TS)
  MaxQueue,  \* room for packets in the queues between EXEC and SWMAN
  Orderable, \* bound: the statuses SWMAN may order
  Dates,     \* bound: the slots an order may be dated, relative to the present one
  Failures   \* what the user code of an object may do: "error" (Init() or Run() fails),
             \* "crash" (it dies of a signal)

Stopped  == {"STOP", "ABNSTOP"}
Statuses == {"STARTED", "INIT", "RUN", "PAUSE", "STEP"} \cup Stopped
None     == "none"     \* status 0: the process has not started yet

ASSUME ConstAssumption ==
  /\ Limit \in Nat
  /\ Orderable \subseteq Statuses
  /\ MaxQueue \in Nat \ {0}
  /\ Dates \subseteq Int

VARIABLES
  proc,      \* proc_db: one entry per object
  pc,        \* where each object's process is
  initDone,  \* the object ran its Init() (init_done in phal_services.c)
  orders,    \* queue SWMAN -> EXEC of EXEC_SETSTATUS packets
  reports,   \* queue EXEC -> SWMAN of SWMAN_STATUSOK / SWMAN_STATUSERR packets
  epc,       \* where the EXEC daemon is
  snap,      \* exec_background()'s copy of proc_db
  todo,      \* entries of the copy exec_background() still has to look at
  victim     \* the object EXEC is killing, if any

objVars  == <<pc, initDone>>
execVars == <<epc, snap, todo, victim>>
vars     == <<proc, objVars, orders, reports, execVars>>

Entry == [cur   : Statuses \cup {None},   \* status.cur_status
          next  : Statuses,               \* status.next_status
          prog  : 0..2,                   \* change_progress
          due   : Int,                    \* status.next_tstamp - get_tstamp()
          pid   : BOOLEAN,                \* pid # 0
          known : BOOLEAN]                \* obj_id # 0

ObjPc  == {"none", "boot", "status", "work", "step1", "step2", "step3", "step4",
           "close", "abort1", "abort2", "abort3", "wait", "zombie", "failed"}
ExecPc == {"idle", "background", "killAndIdle", "killAndReport"}
Order  == [obj : Objects, st : Statuses]
Report == [obj : Objects, ok : BOOLEAN, st : Statuses \cup {None}]

TypeOK ==
  /\ proc \in [Objects -> Entry]
  /\ pc \in [Objects -> ObjPc]
  /\ initDone \in [Objects -> BOOLEAN]
  /\ orders \in Seq(Order)
  /\ reports \in Seq(Report)
  /\ epc \in ExecPc
  /\ snap \in [Objects -> Entry]
  /\ todo \in SUBSET Objects
  /\ victim \in SUBSET Objects

EmptyEntry == [cur |-> None, next |-> "STARTED", prog |-> 0, due |-> 0,
               pid |-> FALSE, known |-> FALSE]
NoCopy == [o \in Objects |-> EmptyEntry]

Init ==
  /\ proc = [o \in Objects |-> EmptyEntry]
  /\ pc = [o \in Objects |-> "none"]
  /\ initDone = [o \in Objects |-> FALSE]
  /\ orders = <<>>
  /\ reports = <<>>
  /\ epc = "idle"
  /\ snap = NoCopy
  /\ todo = {}
  /\ victim = {}

-----------------------------------------------------------------------------
(***************************************************************************)
(* The three critical sections, as functions of one database entry.        *)
(***************************************************************************)
Changing(p) == p.next # p.cur
Due(p)      == p.prog = 2 \/ p.due <= 0

\* hwapi_proc_status_get: first the object is told of the change, at the next
\* call the change becomes its current status.
status_get(p) ==
  CASE Changing(p) /\ p.prog = 2 -> [p EXCEPT !.cur = p.next]
    [] Changing(p) /\ p.prog < 2 /\ Due(p) -> [p EXCEPT !.prog = 2]
    [] OTHER -> p
\* the status it returns
status_got(p) == IF Changing(p) /\ Due(p) THEN p.next ELSE p.cur

\* hwapi_proc_status_new refuses an order while a change is in progress, unless it is
\* forced (time stamp -1)
MutantIdle(p) == ~Changing(p)
Idle(p) == p.prog = 0 /\ ~Changing(p)
MutantOrdered(p, st, due) == [p EXCEPT !.next = st, !.due = due, !.prog = @ + 1]
Ordered(p, st, due) == [p EXCEPT !.next = st, !.due = due, !.prog = 1]
status_new(p, st, due) == IF Idle(p) THEN Ordered(p, st, due) ELSE p

\* hwapi_proc_status_ack
MutantAckable(p) == p.prog = 2
Ackable(p)    == ~Changing(p) /\ p.prog = 2
status_ack(p) == IF Ackable(p) THEN [p EXCEPT !.prog = 0] ELSE p

-----------------------------------------------------------------------------
(***************************************************************************)
(* The object: InitPHAL, then the main loop of the skeleton around         *)
(* Status(), then ClosePHAL.                                               *)
(***************************************************************************)
Alive(o) == pc[o] \notin {"none", "zombie", "failed"}

Upd(o, p)  == proc' = [proc EXCEPT ![o] = p]
Goto(o, l) == pc' = [pc EXCEPT ![o] = l]

\* SWLOAD launches the process (hwapi_proc_create) with the order STARTED
NewEntry == [cur |-> None, next |-> "STARTED", prog |-> 1, due |-> 0,
             pid |-> TRUE, known |-> TRUE]
Create(o) ==
  /\ pc[o] = "none" /\ ~proc[o].known /\ ~proc[o].pid
  /\ proc[o].cur = None          \* object ids are never used twice
  /\ Upd(o, NewEntry)
  /\ Goto(o, "boot")
  /\ UNCHANGED <<initDone, orders, reports, execVars>>

\* InitPHAL: hwapi_init restarts the clock of the change to STARTED, then a first status_get
Boot(o) ==
  /\ pc[o] = "boot"
  /\ Upd(o, status_get([proc[o] EXCEPT !.due = 0]))
  /\ Goto(o, "status")
  /\ UNCHANGED <<initDone, orders, reports, execVars>>

\* one turn of the loop in Status()
Status(o) ==
  LET got == status_got(proc[o]) IN
  /\ pc[o] = "status"
  /\ Upd(o, status_get(proc[o]))
  /\ Goto(o, CASE got = "RUN" \/ (got = "INIT" /\ ~initDone[o]) -> "work"
               [] got \in Stopped -> "close"
               [] got = "STEP" -> "step1"
               [] OTHER -> "status")
  /\ initDone' = [initDone EXCEPT ![o] = @ \/ got = "INIT"]
  /\ UNCHANGED <<orders, reports, execVars>>

\* Status() in a single step: enter STEP, confirm it to oneself, order PAUSE to oneself
Step(o) ==
  /\ \/ pc[o] = "step1" /\ Upd(o, status_get(proc[o]))               /\ Goto(o, "step2")
     \/ pc[o] = "step2" /\ Upd(o, status_ack(proc[o]))               /\ Goto(o, "step3")
     \/ pc[o] = "step3" /\ Upd(o, status_new(proc[o], "PAUSE", 0))   /\ Goto(o, "step4")
     \/ pc[o] = "step4" /\ Upd(o, status_get(proc[o]))               /\ Goto(o, "work")
  /\ UNCHANGED <<initDone, orders, reports, execVars>>

\* the user's Init() or Run() returns, successfully (Relinquish, next turn) or not (ClosePHAL)
Work(o) ==
  /\ pc[o] = "work"
  /\ Goto(o, "status") \/ ("error" \in Failures /\ Goto(o, "close"))
  /\ UNCHANGED <<proc, initDone, orders, reports, execVars>>

\* time stamp -1 lies as far in the past as the system has been up
SinceBoot == {-1, -(Limit + 1)}

\* ClosePHAL: an object that was not told to stop forces ABNSTOP on itself; then it waits
\* for EXEC's confirmation, orders itself STOP and exits
Close(o) ==
  /\ \/ /\ pc[o] = "close"
        /\ Upd(o, status_get(proc[o]))
        /\ Goto(o, IF status_got(proc[o]) \in Stopped THEN "wait" ELSE "abort1")
     \/ /\ pc[o] = "abort1"
        /\ \E due \in SinceBoot : Upd(o, Ordered(proc[o], "ABNSTOP", due))
        /\ Goto(o, "abort2")
     \/ pc[o] = "abort2" /\ Upd(o, status_get(proc[o]))                /\ Goto(o, "abort3")
     \/ pc[o] = "abort3" /\ Upd(o, status_get(proc[o]))                /\ Goto(o, "wait")
     \/ /\ pc[o] = "wait" /\ Idle(proc[o])
        /\ Upd(o, status_new(proc[o], "STOP", 0))
        /\ Goto(o, "zombie")
  /\ UNCHANGED <<initDone, orders, reports, execVars>>

\* exit_fnc on a signal (SIGTERM of hwapi_proc_kill, SIGSEGV in user code): ClosePHAL with
\* isterming set, where status_new does nothing and nothing is waited for. SIGKILL, or a
\* signal before InitPHAL, cuts it short.
Terminated(p) ==
  LET p1 == status_get(p)
      p2 == status_get(p1)
  IN  {p, p1} \cup IF status_got(p) \in Stopped THEN {} ELSE {p2, status_get(p2)}
Die(o) ==
  /\ Alive(o) /\ (o \in victim \/ "crash" \in Failures)
  /\ \E p \in IF pc[o] = "boot" THEN {proc[o]} ELSE Terminated(proc[o]) : Upd(o, p)
  /\ Goto(o, "zombie")
  /\ UNCHANGED <<initDone, orders, reports, execVars>>

\* the kernel's SIGCHLD handler clears the pid (sig_chld in hwapi_backd_signals.c)
Reap(o) ==
  /\ pc[o] = "zombie"
  /\ Upd(o, [proc[o] EXCEPT !.pid = FALSE])
  /\ Goto(o, "none")
  /\ UNCHANGED <<initDone, orders, reports, execVars>>

-----------------------------------------------------------------------------
(***************************************************************************)
(* The EXEC daemon.                                                        *)
(***************************************************************************)
\* exec_statusrep: the packet goes to FRONTEND, which drops what finds no room in SWMAN's queue
exec_statusrep(o, ok, st) ==
  reports' = IF Len(reports) < MaxQueue THEN Append(reports, [obj |-> o, ok |-> ok, st |-> st])
                                        ELSE reports

\* exec_incmd_setstatus
exec_incmd_setstatus ==
  LET c == Head(orders)
      p == proc[c.obj]
  IN
  /\ epc = "idle" /\ orders # <<>>
  /\ orders' = Tail(orders)
  /\ \/ /\ ~p.known                                           \* unknown object
        /\ UNCHANGED <<proc, reports, epc, victim>>
     \/ /\ p.known /\ Idle(p)
        /\ \E due \in IF c.st = "ABNSTOP" THEN {-1} ELSE Dates :
             Upd(c.obj, status_new(p, c.st, due))
        /\ UNCHANGED <<reports, epc, victim>>
     \/ /\ p.known /\ ~Idle(p)                                \* report, then kill
        /\ exec_statusrep(c.obj, FALSE, p.cur)
        /\ epc' = IF p.pid THEN "killAndIdle" ELSE "idle"
        /\ victim' = IF p.pid THEN {c.obj} ELSE {}
        /\ UNCHANGED proc
  /\ UNCHANGED <<objVars, snap, todo>>

\* exec_background: copy the database
BackgroundStart ==
  /\ epc = "idle" /\ orders = <<>>
  /\ snap' = proc
  /\ todo' = {o \in Objects : proc[o].known}
  /\ epc' = "background"
  /\ UNCHANGED <<proc, objVars, orders, reports, victim>>

MutantDied(p) == p.cur \in Stopped
MutantDiedRunning(p) == ~p.pid /\ p.cur \notin Stopped \cup {None}
MutantTimedOut(p) == p.due > Limit
Died(p)     == ~p.pid /\ p.cur # None
Observed(p) == ~Died(p) /\ p.prog # 0 /\ p.cur # "STEP"
TimedOut(p) == p.due < -Limit

\* a dead object is reported unless it had stopped, and removed (hwapi_proc_remove)
BackgroundDied(o) ==
  /\ Died(snap[o])
  /\ IF snap[o].cur \in Stopped THEN UNCHANGED reports
                                   ELSE exec_statusrep(o, FALSE, snap[o].cur)
  /\ Upd(o, [proc[o] EXCEPT !.known = FALSE])
  /\ todo' = todo \ {o}
  /\ UNCHANGED <<epc, victim>>

\* a completed change is confirmed and reported from the copy; stale data ends the pass
BackgroundAck(o) ==
  /\ Observed(snap[o]) /\ Ackable(snap[o])
  /\ \/ /\ Ackable(proc[o])
        /\ Upd(o, status_ack(proc[o]))
        /\ exec_statusrep(o, TRUE, snap[o].cur)
        /\ todo' = todo \ {o}
     \/ /\ ~Ackable(proc[o])
        /\ todo' = {}
        /\ UNCHANGED <<proc, reports>>
  /\ UNCHANGED <<epc, victim>>

\* a change that takes too long: kill, then report ABNSTOP
BackgroundTimeout(o) ==
  /\ Observed(snap[o]) /\ ~Ackable(snap[o]) /\ TimedOut(snap[o])
  /\ epc' = "killAndReport"
  /\ victim' = {o}
  /\ todo' = todo \ {o}
  /\ UNCHANGED <<proc, reports>>

BackgroundSkip(o) ==
  /\ ~Died(snap[o])
  /\ Observed(snap[o]) => ~Ackable(snap[o]) /\ ~TimedOut(snap[o])
  /\ todo' = todo \ {o}
  /\ UNCHANGED <<proc, reports, epc, victim>>

Background ==
  /\ epc = "background"
  /\ \E o \in todo : \/ BackgroundDied(o)
                     \/ BackgroundAck(o)
                     \/ BackgroundTimeout(o)
                     \/ BackgroundSkip(o)
  /\ UNCHANGED <<objVars, orders, snap>>

\* the copy is not read again
BackgroundEnd ==
  /\ epc = "background" /\ todo = {}
  /\ epc' = "idle"
  /\ snap' = NoCopy
  /\ UNCHANGED <<proc, objVars, orders, reports, todo, victim>>

\* hwapi_proc_kill returns: the process is gone, or it outlived SIGTERM and gets SIGKILL
KillReturn ==
  /\ \E o \in victim :
       /\ \/ epc = "killAndIdle" /\ epc' = "idle" /\ UNCHANGED reports
          \/ epc = "killAndReport" /\ epc' = "background" /\ exec_statusrep(o, FALSE, "ABNSTOP")
       /\ IF Alive(o) THEN Goto(o, "zombie") ELSE UNCHANGED pc
  /\ victim' = {}
  /\ UNCHANGED <<proc, initDone, orders, snap, todo>>

Exec == exec_incmd_setstatus \/ BackgroundStart \/ Background \/ BackgroundEnd \/ KillReturn

-----------------------------------------------------------------------------
\* the next time slot; a deadline is forgotten once it is past every limit
Tick ==
  /\ proc' = [o \in Objects |->
                 [proc[o] EXCEPT !.due = IF @ > -(Limit + 1) THEN @ - 1 ELSE @]]
  /\ UNCHANGED <<objVars, orders, reports, execVars>>

Object(o) == Boot(o) \/ Status(o) \/ Step(o) \/ Work(o) \/ Close(o) \/ Die(o) \/ Reap(o)

\* Steps of this processing element on its own
Local == Tick \/ Exec \/ \E o \in Objects : Object(o)

\* SWMAN as an arbitrary environment: any order at any time (one that FRONTEND drops for want
\* of room changes nothing); reports are consumed
SendOrder(o) ==
  /\ Len(orders) < MaxQueue
  /\ \E st \in Orderable : orders' = Append(orders, [obj |-> o, st |-> st])
  /\ UNCHANGED <<proc, objVars, reports, execVars>>
TakeReport ==
  /\ reports # <<>>
  /\ reports' = Tail(reports)
  /\ UNCHANGED <<proc, objVars, orders, execVars>>

Next == Local \/ TakeReport \/ \E o \in Objects : Create(o) \/ SendOrder(o)

Spec == Init /\ [][Next]_vars
-----------------------------------------------------------------------------
(***************************************************************************)
(* Fairness. The kernel posts the slot and EXEC's semaphore in every slot, *)
(* SIGCHLD is delivered, and SWMAN does not send orders faster than EXEC   *)
(* takes them, so that exec_process_cmd() returns again and again. Nothing *)
(* is assumed of the objects, user code may hang, nor of SWMAN's reading.  *)
(***************************************************************************)
Fairness ==
  /\ WF_vars(Tick)
  /\ WF_vars(Exec) /\ SF_vars(BackgroundStart)
  /\ \A o \in Objects : WF_vars(Reap(o))

FairSpec == Spec /\ Fairness

-----------------------------------------------------------------------------
(***************************************************************************)
(* Properties.                                                             *)
(***************************************************************************)
Sends(m) == reports' = Append(reports, m)

\* exec_background() removes an entry on the word of a copy that is stale by then; still it
\* never forgets an object (obj_id = 0) whose process may be running.
ForgottenIsDead == \A o \in Objects : ~proc[o].known => ~proc[o].pid

\* A status order that is being carried out is never overwritten by another one: EXEC's
\* orders are refused meanwhile, only the object itself may force its own ABNSTOP
\* (ClosePHAL).
OrderNotOverwritten ==
  [][\A o \in Objects :
       proc[o].prog # 0 /\ proc[o].known /\ proc'[o].next # proc[o].next
         => pc[o] = "abort1" /\ proc'[o].next = "ABNSTOP"]_vars

\* SWMAN_STATUSOK(st) is only sent for an object that really made the change: at that moment
\* it is in st, or has already been overtaken by its own abnormal stop.
OkReportIsTrue ==
  [][\A o \in Objects, st \in Statuses :
       Sends([obj |-> o, ok |-> TRUE, st |-> st]) => proc[o].cur \in {st, "ABNSTOP"}]_vars

\* What SWMAN is told is the status the object has (header of exec_background's section):
\* does NOT hold, the report is built from the copy.
OkReportIsExact ==
  [][\A o \in Objects, st \in Statuses :
       Sends([obj |-> o, ok |-> TRUE, st |-> st]) => proc[o].cur = st]_vars

\* EXEC kills an object for not changing its status only if it did not change its status:
\* does NOT hold when the status it already has is ordered.
KilledOnlyIfUnchanged ==
  [][epc = "background" /\ epc' = "killAndReport"
       => \A o \in victim' : Changing(snap[o]) \/ ~Alive(o)]_vars

\* An object that waits in ClosePHAL for EXEC's confirmation is in a state EXEC confirms:
\* does NOT hold when its last status_get only announced the stop, nor when another stop is
\* ordered before it leaves.
WaitIsConfirmable == \A o \in Objects : pc[o] = "wait" => Ackable(proc[o]) \/ Idle(proc[o])

\* A change in progress ends, whatever the object does: it is confirmed, or the object is
\* killed and removed. (Not while the status is 0 or STEP, which exec_background() skips.)
ChangeEnds ==
  \A o \in Objects :
    proc[o].known /\ proc[o].prog # 0 /\ proc[o].cur \notin {None, "STEP"}
      ~> proc[o].prog = 0 \/ ~proc[o].known \/ proc[o].cur = "STEP"

\* The entry of an object that died after it had started is removed from the database.
DeadIsRemoved ==
  \A o \in Objects : proc[o].known /\ ~proc[o].pid /\ proc[o].cur # None ~> ~proc[o].known

-----------------------------------------------------------------------------
(***************************************************************************)
(* The database implements the handshake of StatusHandshake.               *)
(***************************************************************************)
Phase(p) ==
  CASE ~p.known /\ p.cur = None    -> "absent"
    [] ~p.known /\ p.cur # None    -> "forgotten"
    [] p.known /\ p.prog = 0       -> "settled"
    [] p.known /\ p.prog = 1       -> "ordered"
    [] p.known /\ p.prog = 2       -> IF Changing(p) THEN "told" ELSE "changed"

Hand(p) == [phase |-> Phase(p), status |-> p.cur, target |-> p.next]

hands   == [o \in Objects |-> Hand(proc[o])]
running == {o \in Objects : Alive(o)}

HS == INSTANCE StatusHandshake WITH hand <- hands, alive <- running

\* Whatever EXEC, the objects, the kernel and SWMAN do, and in whatever order: every change of
\* status goes through the handshake ordered - told - changed - confirmed.
ImplementsHandshake == HS!Handshake
=============================================================================
