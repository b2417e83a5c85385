------------------------------ MODULE Waveform ------------------------------
(***************************************************************************)
(* The software manager SWMAN (swman_cmds.c) and the life cycle of one     *)
(* waveform (application), composed with the EXEC daemon and the objects   *)
(* of ProcStatus.                                                          *)
(*                                                                         *)
(* SWMAN keeps the waveform's status, its own view of every object's       *)
(* status and a queue of length one for a status ordered while a change is *)
(* under way. CMDMAN, the user's side, is an arbitrary environment.        *)
(***************************************************************************)
EXTENDS ProcStatus

CONSTANTS
  ObjList,   \* the waveform's objects in the order of SWMAN's set
  MaxCmds    \* bound: number of status commands of the user

\* SWMAN's set holds every object of the waveform, and none of them twice
ASSUME ObjListAssumption ==
  /\ ObjList \in Seq(Objects)
  /\ \A o \in Objects : \E i \in 1..Len(ObjList) : ObjList[i] = o
  /\ \A i, j \in 1..Len(ObjList) : ObjList[i] = ObjList[j] => i = j
ASSUME MaxCmdsAssumption == MaxCmds \in Nat

VARIABLES
  app,       \* the waveform in SWMAN's apps_db
  view,      \* the status of each object, as SWMAN knows it (obj->status)
  placed,    \* objects whose processing element SWMAN knows (obj->pe_id # 0)
  told,      \* last packet to CMDMAN
  cmds,      \* status commands the user has sent
  lost       \* history: FRONTEND may have dropped a packet, a queue was too full

swman == <<app, view, placed, told, cmds>>
wvars == <<vars, swman, lost>>

Told == {"nothing", "LOADAPPOK", "LOADAPPERR", "STATUSOK", "STATUSERR"}

WTypeOK ==
  /\ TypeOK
  /\ app \in [phase : {"unloaded", "loaded", "removed"},
              cur   : Statuses \cup {None},     \* cur_status
              pend  : Statuses \cup {None}]     \* next_pending_status
  /\ view \in [Objects -> Statuses \cup {None}]
  /\ placed \in SUBSET Objects
  /\ told \in Told
  /\ cmds \in 0..MaxCmds
  /\ lost \in BOOLEAN

WInit ==
  /\ Init
  /\ app = [phase |-> "unloaded", cur |-> None, pend |-> None]
  /\ view = [o \in Objects |-> None]
  /\ placed = {}
  /\ told = "nothing"
  /\ cmds = 0
  /\ lost = FALSE

-----------------------------------------------------------------------------
MutantStatusOk(v, cur) == \E o \in Objects : v[o] = cur
status_ok(v, cur) == \A o \in Objects : v[o] = cur

\* swman_sendobjstatus: in list order, to the objects not known to have stopped; it gives up
\* at the first object whose processing element is unknown
AllPlaced(pl) == Objects \subseteq pl
Reached(pl) ==
  {i \in 1..Len(ObjList) : \A j \in 1..i : ObjList[j] \in pl}
Targets(v, pl) == {i \in Reached(pl) : v[ObjList[i]] \notin Stopped}
\* the k-th smallest of a set of positions
Nth(S, k) == CHOOSE i \in S : Cardinality({j \in S : j < i}) = k - 1
\* the orders to the objects at some positions of the list
swman_sendobjstatus(st, to) ==
  [k \in 1..Cardinality(to) |-> [obj |-> ObjList[Nth(to, k)], st |-> st]]

\* SWMAN sends n orders to EXEC. They go to FRONTEND one by one, and it drops those that find
\* no room in EXEC's queue: if there is not room for all, any of them may be (others send to EXEC)
Send(n, arrived) ==
  /\ IF Len(orders) + n <= MaxQueue THEN Len(arrived) = n
                                    ELSE Len(orders) + Len(arrived) <= MaxQueue
  /\ orders' = orders \o arrived
  /\ lost' = (lost \/ Len(orders) + n > MaxQueue)

\* loadapp_error(app): CMDMAN is told and the waveform is dropped
Removed == [app EXCEPT !.phase = "removed", !.pend = None]

\* swman_incmd_loadapp: the waveform is mapped by HWMAN and launched by SWLOAD
swman_incmd_loadapp ==
  /\ app.phase = "unloaded"
  /\ app' = [app EXCEPT !.phase = "loaded", !.cur = "STARTED"]
  /\ UNCHANGED <<vars, view, placed, told, cmds, lost>>

\* swman_incmd_apperror: SWLOAD or HWMAN could not load some object
swman_incmd_apperror ==
  /\ app.phase = "loaded" /\ "load" \in Failures
  /\ \E o \in Objects : pc[o] = "none" /\ ~proc[o].known /\ proc[o].cur = None /\ Goto(o, "failed")
  /\ app' = Removed
  /\ told' = "LOADAPPERR"
  /\ UNCHANGED <<proc, initDone, orders, reports, execVars, view, placed, cmds, lost>>

\* swman_incmd_appstatus: the user orders status st
swman_incmd_appstatus(st) ==
  LET target == IF st = "STEP" THEN "PAUSE" ELSE st
      now    == status_ok(view, app.cur) \/ target \in Stopped
      to     == Targets(view, placed)
      SendAll == \E T \in SUBSET to : Send(Cardinality(to), swman_sendobjstatus(st, T))
  IN
  /\ cmds < MaxCmds /\ cmds' = cmds + 1
  /\ app.phase # "unloaded"
  /\ \/ /\ app.phase = "removed"                        \* unknown waveform
        /\ told' = "LOADAPPERR"
        /\ UNCHANGED <<app, view, orders, lost>>
     \/ /\ app.phase = "loaded" /\ now /\ AllPlaced(placed)
        /\ SendAll
        /\ app' = [app EXCEPT !.cur = target]
        /\ view' = IF st = "STEP" THEN [o \in Objects |-> "STEP"] ELSE view
        /\ UNCHANGED told
     \/ /\ app.phase = "loaded" /\ now /\ ~AllPlaced(placed)
        /\ SendAll
        /\ app' = [Removed EXCEPT !.cur = target]
        /\ told' = "LOADAPPERR"
        /\ UNCHANGED view
     \/ /\ app.phase = "loaded" /\ ~now /\ app.pend = None
        /\ app' = [app EXCEPT !.pend = st]
        /\ UNCHANGED <<view, told, orders, lost>>
     \/ /\ app.phase = "loaded" /\ ~now /\ app.pend # None
        /\ app' = Removed
        /\ told' = "LOADAPPERR"
        /\ UNCHANGED <<view, orders, lost>>
  /\ UNCHANGED <<proc, objVars, reports, execVars, placed>>

\* swman_incmd_statusrep: EXEC reports an object
Expected(r) == r.ok /\ (r.st = app.cur \/ app.cur = "ABNSTOP")
MutantAborts(r) == ~Expected(r) /\ app.cur \notin Stopped
Aborts(r)   == ~Expected(r) /\ app.cur # "ABNSTOP"
MutantSeen(r) == IF r.ok THEN app.cur ELSE "ABNSTOP"
Seen(r)     == IF Expected(r) THEN r.st ELSE "ABNSTOP"
swman_incmd_statusrep ==
  LET r       == Head(reports)
      view1   == [view EXCEPT ![r.obj] = Seen(r)]
      placed1 == IF Expected(r) /\ r.st = "STARTED" THEN placed \cup {r.obj} ELSE placed
      cur1    == IF Aborts(r) THEN "ABNSTOP" ELSE app.cur
      toAbort == IF Aborts(r) THEN Targets(IF r.st = "ABNSTOP" THEN view1 ELSE view, placed) ELSE {}
      done    == status_ok(view1, cur1)
      pending == done /\ app.pend # None
      cur2    == IF pending THEN app.pend ELSE cur1
      to      == IF pending THEN Targets(view1, placed1) ELSE {}
      failed  == pending /\ ~AllPlaced(placed1)
      gone    == done /\ ~failed /\ cur2 \in Stopped
  IN
  /\ reports # <<>> /\ reports' = Tail(reports)
  /\ \/ app.phase # "loaded" /\ UNCHANGED <<app, view, placed, told, orders, lost>>
     \/ /\ app.phase = "loaded"
        /\ \E A \in SUBSET toAbort, T \in SUBSET to :
             Send(Cardinality(toAbort) + Cardinality(to),
                  swman_sendobjstatus("ABNSTOP", A) \o swman_sendobjstatus(cur2, T))
        /\ view' = view1
        /\ placed' = placed1
        /\ app' = [phase |-> IF gone THEN "removed" ELSE "loaded", cur |-> cur2,
                   pend |-> IF pending \/ gone THEN None ELSE app.pend]
        /\ told' = CASE ~done -> told
                     [] failed -> "LOADAPPERR"
                     [] done /\ ~failed /\ cur1 = "STARTED" -> "LOADAPPOK"
                     [] done /\ ~failed /\ cur1 = "ABNSTOP" -> "STATUSERR"
                     [] OTHER -> "STATUSOK"
  /\ UNCHANGED <<proc, objVars, execVars, cmds>>

\* A report of EXEC's that finds SWMAN's queue full is dropped
Noted == lost' = (lost \/ Len(reports') = MaxQueue)

WNext ==
  \/ Local /\ UNCHANGED swman /\ Noted
  \/ \E o \in Objects : app.phase # "unloaded" /\ Create(o) /\ UNCHANGED <<swman, lost>>
  \/ swman_incmd_loadapp
  \/ swman_incmd_apperror
  \/ \E st \in Orderable : swman_incmd_appstatus(st)
  \/ swman_incmd_statusrep

WSpec == WInit /\ [][WNext]_wvars

\* As in ProcStatus: time, EXEC, SIGCHLD and SWMAN's main loop go on; user code may hang.
WFairSpec ==
  /\ WSpec
  /\ WF_wvars(Tick /\ UNCHANGED swman /\ Noted)
  /\ WF_wvars(Exec /\ UNCHANGED swman /\ Noted)
  /\ WF_wvars(swman_incmd_statusrep)
  /\ \A o \in Objects : WF_wvars(Reap(o) /\ UNCHANGED swman /\ Noted)

-----------------------------------------------------------------------------
\* What SWMAN believes is so: an object it holds to be in the waveform's status is in that
\* status, or has been overtaken by its own abnormal stop.
ViewIsReal ==
  \A o \in Objects :
    app.phase = "loaded" /\ view[o] = app.cur /\ app.cur # "ABNSTOP"
      => proc[o].cur \in {app.cur, "ABNSTOP"}

\* No object of a waveform runs before every object of it has started: SWMAN holds the order
\* RUN back until all have reported STARTED.
StartBarrier ==
  \A o, other \in Objects : proc[o].cur = "RUN" => proc[other].cur # None

\* A waveform that is told to stop when all its objects run is removed in the end, unless
\* another status is queued behind the stop: an object that is late is killed, and the stop
\* becomes an abort. (As long as no object dies of itself or hangs in a single step, and the
\* queues between SWMAN and EXEC have room.)
Stopping ==
  /\ app.phase = "loaded" /\ app.cur = "STOP"
  /\ AllPlaced(placed) /\ \A o \in Objects : view[o] \notin Stopped
StopCompletes == Stopping ~> app.phase = "removed" \/ app.pend # None \/ lost

\* When all objects have reached the ordered stop, SWMAN learns it, tells the user and removes
\* the waveform: does NOT hold when an object dies after it entered STOP and before EXEC
\* confirmed it, exec_background() then forgets it without a report.
StopReported ==
  app.phase = "loaded" /\ app.cur = "STOP" ~> app.phase = "removed" \/ app.cur # "STOP"

\* A waveform that is being aborted ("stop all waveform") is removed in the end: does NOT
\* hold while some of its objects have not started yet, nor with a status still queued.
AbortCompletes == app.phase = "loaded" /\ app.cur = "ABNSTOP" ~> app.phase = "removed"

\* As long as every object is alive and none has aborted, a report never turns the waveform
\* into an aborted one: a status ordered while a change is under way "will be executed as soon
\* as all objects did finish their status change". Does NOT hold: not for a queued STEP, nor
\* for a STOP that finds an object in the middle of a change.
Healthy(o) == Alive(o) /\ o \notin victim /\ "ABNSTOP" \notin {proc[o].cur, proc[o].next}
AbortOnlyOnFailure ==
  [][app.cur # "ABNSTOP" /\ app'.cur = "ABNSTOP" => \E o \in Objects : ~Healthy(o)]_wvars

\* A waveform that SWMAN has removed leaves no running object behind: each is dead, or has
\* stopped, or is about to be told: does NOT hold.
NoOrphans ==
  app.phase = "removed" =>
    \A o \in Objects : \/ ~Alive(o)
                       \/ proc[o].cur \in Stopped \/ proc[o].next \in Stopped
                       \/ \E i \in 1..Len(orders) : orders[i].obj = o /\ orders[i].st \in Stopped
=============================================================================
