------------------------------- MODULE Stats -------------------------------
(***************************************************************************)
(* Statistics and parameters of the objects of one PE. An object creates a *)
(* variable in the shared table var_db (hwapi_linux_var.c), marks it with  *)
(* what it wants (opts) and waits until the mark has changed; the daemon   *)
(* STATS goes through the table in every slot, sends the requests on to    *)
(* STATSMAN, and marks the variables with the answers. STATSMAN keeps what *)
(* is registered by the name of the object; the user starts and stops      *)
(* reports and sets values through it.                                     *)
(*                                                                         *)
(* Packets between the daemons go through FRONTEND, which drops what finds *)
(* no room in the queue of the daemon it is for; nobody hears of it.       *)
(*                                                                         *)
(* Every object has at most one statistic. Values are left out, and logs,  *)
(* which are registered like statistics; so are STATSMAN's answers to the  *)
(* user and STATS' answers to STATSMAN about reports.                      *)
(***************************************************************************)
EXTENDS Integers, Sequences, FiniteSets, SequencesExt

CONSTANTS
  Objects,
  MaxVars,     \* entries of var_db
  MaxReports,  \* MAX_VAR_REPORTS
  MaxQueue,    \* packets a daemon's queue has room for
  Environments \* records [uses, what each object opens; params, the objects that have a parameter file;
               \* lives and cmds, bounds on the times an object is launched and on the commands of the
               \* user; faults, among "crash" (objects die without closing anything), "slow" (InitStat
               \* gives up), "torn" (STATS looks at an entry that is being filled), "soon" (objects
               \* open again what they have closed before that has gone through)]

Kinds == {"stat", "params"}

ASSUME StatsAssumption ==
  /\ IsFiniteSet(Objects) /\ Objects # {} /\ MaxVars \in Nat \ {0} /\ MaxReports \in Nat \ {0}
  /\ MaxQueue \in Nat \ {0}
  /\ Environments \subseteq [uses : [Objects -> SUBSET Kinds], params : SUBSET Objects,
                             lives : [Objects -> Nat], cmds : Nat,
                             faults : SUBSET {"crash", "slow", "torn", "soon"}]

VARIABLES
  var_db,    \* used (stat_id # 0), opts, of (name), obj (obj_id)
  sem_var,   \* the object that holds the semaphore while it fills an entry, if any
  obj,       \* each object: launched so often, running, the call it is in and its variable, the
             \* variable of its statistic (my_stats), params_initiated
  stats_q, statsman_q, \* the daemons' queues
  lost,      \* history: FRONTEND has dropped a packet
  at, seen,  \* STATS: 0 or the entry it looks at; the opts it has read there
  reports, max_report_idx, \* STATS' table of reports
  app_db,    \* STATSMAN: by name of the object: obj_id, ids of statistics (latest first), parameters
  cmds,      \* commands of the user so far
  env        \* the environment of this run; never changes

objects == <<sem_var, obj>>
stats   == <<at, seen, reports, max_report_idx>>
vvars   == <<var_db, objects, stats, stats_q, statsman_q, lost, app_db, cmds, env>>

VarIds    == 1..MaxVars
Slots  == 0..MaxReports - 1
NoObj  == <<>>
ObjIds == UNION {{o} \X (1..env.lives[o]) : o \in Objects}
ObjId(o) == <<o, obj[o].life>>
Owner(i) == CHOOSE o \in Objects : i # NoObj => o = i[1]
Alive(i) == i # NoObj /\ obj[i[1]].on /\ i = ObjId(i[1])

Requests == {"STINIT", "STCLOSE", "PMINIT", "PMCLOSE", "PMGET"}
Good     == [STINIT |-> "STOK", PMINIT |-> "PMINITOK", PMGET |-> "PMVALOK"]
Bad      == [STINIT |-> "STERR", PMINIT |-> "PMINITERR", PMGET |-> "PMVALERR"]
Answers  == {Good[c] : c \in DOMAIN Good} \cup {Bad[c] : c \in DOMAIN Bad}
None     == [obj |-> NoObj, stats |-> <<>>, params |-> FALSE]
NoReport == [id |-> 0, obj |-> NoObj]
Msg(cmd, o, i, id) == [cmd |-> cmd, of |-> o, obj |-> i, id |-> id]
Msgs(cmdSet) == [cmd : cmdSet, of : Objects, obj : ObjIds \cup {NoObj}, id : 0..MaxVars]

\* an object is in a call exactly as long as it has a variable for it; at most one fills an entry
VTypeOK ==
  /\ var_db \in [VarIds -> [used : BOOLEAN, opts : Requests \cup Answers \cup {""},
                         of : Objects \X Kinds, obj : ObjIds \cup {NoObj}]]
  /\ obj \in [Objects -> [life : Nat, on : BOOLEAN, call : Requests \cup {""}, id : 0..MaxVars,
                          stat : 0..MaxVars, params : BOOLEAN]]
  /\ \A o \in Objects : obj[o].life <= env.lives[o] /\ (obj[o].call = "") = (obj[o].id = 0)
  /\ sem_var \subseteq Objects /\ Cardinality(sem_var) <= 1
  /\ \A o \in sem_var : obj[o].call # "" /\ var_db[obj[o].id].used
  /\ stats_q \in Seq(Msgs(Answers \cup {"STREPORT", "STSTOP", "STSET"})) /\ Len(stats_q) <= MaxQueue
  /\ statsman_q \in Seq(Msgs(Requests \cup {"STREPORT", "STSTOP", "STSET"})) /\ Len(statsman_q) <= MaxQueue
  /\ lost \in BOOLEAN
  /\ at \in 0..MaxVars /\ seen \in Requests \cup {"", "delete"} /\ (at = 0 => seen = "")
  /\ reports \in [Slots -> [id : 0..MaxVars, obj : ObjIds \cup {NoObj}]]
  /\ max_report_idx \in 0..MaxReports + 1   \* report_rmi may leave it one too large
  /\ app_db \in [Objects -> [obj : ObjIds \cup {NoObj}, stats : Seq(0..MaxVars), params : BOOLEAN]]
  /\ cmds \in 0..env.cmds /\ env \in Environments

VInit ==
  /\ var_db = [i \in VarIds |-> [used |-> FALSE, opts |-> "", obj |-> NoObj,
                               of |-> <<CHOOSE o \in Objects : TRUE, "stat">>]]
  /\ sem_var = {}
  /\ obj = [o \in Objects |->
              [life |-> 0, on |-> FALSE, call |-> "", id |-> 0, stat |-> 0, params |-> FALSE]]
  /\ stats_q = <<>> /\ statsman_q = <<>> /\ lost = FALSE /\ at = 0 /\ seen = ""
  /\ reports = [i \in Slots |-> NoReport] /\ max_report_idx = 0
  /\ app_db = [o \in Objects |-> None] /\ cmds = 0
  /\ env \in Environments

-----------------------------------------------------------------------------
\* The variable table

\* hwapi_var_create2 takes the first free entry and fills it, opts last, while it holds sem_var. What
\* is not yet filled is seen by STATS alone, and in one step unless it looks.
Free == {i \in VarIds : ~var_db[i].used}
First(S) == CHOOSE i \in S : \A j \in S : i <= j
Filled(o, call) == [used |-> TRUE, opts |-> call, obj |-> ObjId(o),
                    of |-> <<o, IF call = "STINIT" THEN "stat" ELSE "params">>]
Waits(o, call) == IF call = "PMCLOSE" THEN [obj EXCEPT ![o].params = FALSE]   \* CloseParamFile does not
                  ELSE [obj EXCEPT ![o].call = call, ![o].id = First(Free)]
hwapi_var_create2(o, call) ==
  /\ obj[o].on /\ obj[o].call = "" /\ sem_var = {} /\ Free # {}
  /\ IF "torn" \in env.faults
     THEN /\ var_db' = [var_db EXCEPT ![First(Free)].used = TRUE]
          /\ obj' = [obj EXCEPT ![o].call = call, ![o].id = First(Free)]
          /\ sem_var' = {o}
     ELSE var_db' = [var_db EXCEPT ![First(Free)] = Filled(o, call)] /\ obj' = Waits(o, call) /\ UNCHANGED sem_var
  /\ UNCHANGED <<stats, stats_q, statsman_q, lost, app_db, cmds, env>>
hwapi_var_created(o) ==
  /\ o \in sem_var /\ sem_var' = {}
  /\ var_db' = [var_db EXCEPT ![obj[o].id] = Filled(o, obj[o].call)]
  /\ obj' = IF obj[o].call = "PMCLOSE" THEN [Waits(o, "PMCLOSE") EXCEPT ![o].call = "", ![o].id = 0] ELSE obj
  /\ UNCHANGED <<stats, stats_q, statsman_q, lost, app_db, cmds, env>>

MutantDeleted(i) == [var_db EXCEPT ![i].obj = NoObj]
\* the data and the opts stay as they are
Deleted(i) == [var_db EXCEPT ![i].used = FALSE, ![i].obj = NoObj]
\* hwapi_var_setopt does not look at stat_id
Opts(i, opts) == IF i = 0 THEN var_db ELSE [var_db EXCEPT ![i].opts = opts]

-----------------------------------------------------------------------------
\* Objects

\* what the object had open before is closed
Pending(i) == var_db[i].used /\ var_db[i].opts \in Requests
Settled(o, kind) ==
  \/ "soon" \in env.faults
  \/ /\ \A i \in VarIds : var_db[i].of = <<o, kind>> => ~Pending(i) /\ (at = i => seen = "")
     /\ \A p \in Range(stats_q) \cup Range(statsman_q) : p.of # o

InitStat(o) ==
  "stat" \in env.uses[o] /\ obj[o].stat = 0 /\ Settled(o, "stat") /\ hwapi_var_create2(o, "STINIT")
InitParamFile(o) ==
  "params" \in env.uses[o] /\ ~obj[o].params /\ Settled(o, "params") /\ hwapi_var_create2(o, "PMINIT")
GetParam(o)       == obj[o].params /\ hwapi_var_create2(o, "PMGET")
CloseParamFile(o) == obj[o].params /\ hwapi_var_create2(o, "PMCLOSE")

MutantDone(o, got) ==
  [obj EXCEPT ![o] = [obj[o] EXCEPT !.call = "", !.stat = IF got = "STOK" THEN obj[o].id ELSE obj[o].stat,
                                    !.params = obj[o].params \/ got = "PMINITOK"]]
\* the loops "wait to be initiated"; the variable of a statistic stays
Done(o, got) ==
  [obj EXCEPT ![o] = [obj[o] EXCEPT !.call = "", !.id = 0, !.stat = IF got = "STOK" THEN obj[o].id ELSE obj[o].stat,
                                    !.params = obj[o].params \/ got = "PMINITOK"]]
Return(o) ==
  /\ obj[o].call # "" /\ sem_var = {}
  /\ LET c == obj[o].call got == var_db[obj[o].id].opts IN
       /\ got \in {Good[c], Bad[c]} \/ ("slow" \in env.faults /\ c = "STINIT")
       /\ obj' = Done(o, got)
       /\ var_db' = IF got = "STOK" /\ c = "STINIT" THEN var_db ELSE Deleted(obj[o].id)
  /\ UNCHANGED <<sem_var, stats, stats_q, statsman_q, lost, app_db, cmds, env>>

CloseStat(o) ==
  /\ obj[o].on /\ obj[o].call = "" /\ obj[o].stat # 0
  /\ var_db' = Opts(obj[o].stat, "STCLOSE")
  /\ obj' = [obj EXCEPT ![o].stat = 0]
  /\ UNCHANGED <<sem_var, stats, stats_q, statsman_q, lost, app_db, cmds, env>>

\* the end of ClosePHAL, which has closed what was open (a full table makes CloseParamFile fail); or
\* the object dies
Off(o) == [obj EXCEPT ![o] = [life |-> @.life, on |-> FALSE, call |-> "", id |-> 0, stat |-> 0, params |-> FALSE]]
ClosePHAL(o) ==
  /\ obj[o].on /\ obj[o].call = "" /\ obj[o].stat = 0 /\ (obj[o].params => Free = {})
  /\ obj' = Off(o)
  /\ UNCHANGED <<var_db, sem_var, stats, stats_q, statsman_q, lost, app_db, cmds, env>>
Crash(o) ==
  /\ "crash" \in env.faults /\ obj[o].on /\ o \notin sem_var
  /\ obj' = Off(o)
  /\ UNCHANGED <<var_db, sem_var, stats, stats_q, statsman_q, lost, app_db, cmds, env>>

\* the object is launched, with a new obj_id
Launch(o) ==
  /\ ~obj[o].on /\ obj[o].life < env.lives[o] /\ \A kind \in Kinds : Settled(o, kind)
  /\ obj' = [obj EXCEPT ![o] = [obj[o] EXCEPT !.life = obj[o].life + 1, !.on = TRUE]]
  /\ UNCHANGED <<var_db, sem_var, stats, stats_q, statsman_q, lost, app_db, cmds, env>>

Object(o) ==
  \/ InitStat(o) \/ InitParamFile(o) \/ GetParam(o) \/ CloseParamFile(o) \/ CloseStat(o)
  \/ hwapi_var_created(o) \/ Return(o) \/ ClosePHAL(o) \/ Crash(o) \/ Launch(o)

-----------------------------------------------------------------------------
\* STATS

\* daemon_sendto to STATSMAN, through bridge() of FRONTEND
Send(p) ==
  IF Len(statsman_q) < MaxQueue THEN statsman_q' = Append(statsman_q, p) /\ UNCHANGED lost
                                ELSE lost' = TRUE /\ UNCHANGED statsman_q

\* report_rmi: the new limit is behind the next free entry
Used(i) == reports[i] # NoReport
Limit(i) == First({k \in i + 1..MaxReports : k = MaxReports \/ ~Used(k)}) + 1
RemoveReport(i) == reports' = [reports EXCEPT ![i] = NoReport] /\ max_report_idx' = Limit(i)
report_rmid(id) ==
  LET those == {i \in Slots : reports[i].id = id /\ Used(i)} IN
  IF those = {} THEN UNCHANGED <<reports, max_report_idx>> ELSE RemoveReport(First(those))

\* report_add replaces a report of the same variable
report_add(p) ==
  LET same == {i \in Slots : reports[i].id = p.id /\ Used(i)}
      free == {i \in Slots : ~Used(i)}
      i    == First(IF same # {} THEN same ELSE free)
      limit == IF same # {} THEN Limit(i) ELSE max_report_idx
  IN
  IF same \cup free = {} THEN UNCHANGED <<reports, max_report_idx>>
  ELSE /\ reports' = [reports EXCEPT ![i] = [id |-> p.id, obj |-> p.obj]]
       /\ max_report_idx' = IF i + 1 > limit THEN i + 1 ELSE limit

\* stats_process_cmd: initack and pmval mark the variable, stact
stats_process_cmd ==
  /\ at = 0 /\ stats_q # <<>> /\ stats_q' = Tail(stats_q)
  /\ LET p == Head(stats_q) IN
       \/ /\ p.cmd \in Answers /\ var_db' = Opts(p.id, p.cmd) /\ UNCHANGED <<reports, max_report_idx>>
       \/ p.cmd = "STREPORT" /\ report_add(p) /\ UNCHANGED var_db
       \/ p.cmd = "STSTOP" /\ report_rmid(p.id) /\ UNCHANGED var_db
       \/ p.cmd = "STSET" /\ UNCHANGED <<var_db, reports, max_report_idx>>
  /\ UNCHANGED <<objects, at, seen, statsman_q, lost, app_db, cmds, env>>

\* do_reports: the first report of an object that is gone is closed. Then the pass begins.
do_reports ==
  LET gone == {i \in Slots : i < max_report_idx /\ Used(i) /\ ~Alive(reports[i].obj)} IN
  /\ at = 0 /\ stats_q = <<>> /\ at' = 1
  /\ IF gone = {} THEN UNCHANGED <<reports, max_report_idx, statsman_q, lost>>
     ELSE LET r == reports[First(gone)] IN
          /\ Send(Msg("STCLOSE", Owner(r.obj), r.obj, r.id))
          /\ RemoveReport(First(gone))
  /\ UNCHANGED <<var_db, objects, seen, stats_q, app_db, cmds, env>>

MutantFurther == at' = IF at = MaxVars - 1 THEN 0 ELSE at + 1
Further == at' = IF at = MaxVars THEN 0 ELSE at + 1

\* stats_background reads stat_id and opts of the next entry, without the semaphore ...
Look ==
  /\ at > 0 /\ seen = "" /\ ("torn" \in env.faults \/ sem_var = {})
  /\ IF Pending(at) THEN seen' = var_db[at].opts /\ UNCHANGED at ELSE Further /\ UNCHANGED seen
  /\ UNCHANGED <<var_db, objects, reports, max_report_idx, stats_q, statsman_q, lost, app_db, cmds, env>>

\* ... and does what it has read. stats_stinit and stats_pminit (with the semaphore), stats_pmget
Taken == IF var_db[at].used THEN Opts(at, "") ELSE var_db
Forward ==
  /\ at > 0 /\ seen \in DOMAIN Good /\ (seen = "PMGET" \/ sem_var = {})
  /\ LET v == var_db[at] IN
       IF seen = "STINIT" /\ v.of[2] # "stat"   \* an invalid name
       THEN var_db' = (IF v.used THEN Opts(at, "STERR") ELSE var_db) /\ UNCHANGED <<statsman_q, lost>>
       ELSE /\ Send(Msg(seen, v.of[1], v.obj, IF v.used THEN at ELSE 0))
            /\ var_db' = Taken
  /\ seen' = "" /\ Further
  /\ UNCHANGED <<objects, reports, max_report_idx, stats_q, app_db, cmds, env>>

\* stats_stclose and stats_pmclose: the packet, ...
Close ==
  /\ at > 0 /\ seen \in {"STCLOSE", "PMCLOSE"}
  /\ Send(Msg(seen, var_db[at].of[1], var_db[at].obj, at))
  /\ IF seen = "STCLOSE" THEN report_rmid(at) ELSE UNCHANGED <<reports, max_report_idx>>
  /\ seen' = "delete"
  /\ UNCHANGED <<var_db, objects, at, stats_q, app_db, cmds, env>>

\* ... and hwapi_var_delete
DeleteVar ==
  /\ at > 0 /\ seen = "delete" /\ sem_var = {}
  /\ var_db' = Deleted(at)
  /\ seen' = "" /\ Further
  /\ UNCHANGED <<objects, reports, max_report_idx, stats_q, statsman_q, lost, app_db, cmds, env>>

Stats == stats_process_cmd \/ do_reports \/ Look \/ Forward \/ Close \/ DeleteVar

-----------------------------------------------------------------------------
\* STATSMAN

\* daemon_sendto to STATS
Reply(p) ==
  IF Len(stats_q) < MaxQueue THEN stats_q' = Append(stats_q, p) /\ UNCHANGED lost
                             ELSE lost' = TRUE /\ UNCHANGED stats_q

MutantEntry(p) == [None EXCEPT !.obj = p.obj]
\* statsman_incmd_init: the object is found by its name, and keeps the obj_id it came with first
Entry(p) == IF app_db[p.of] = None THEN [None EXCEPT !.obj = p.obj] ELSE app_db[p.of]
statsman_incmd_init(p) ==
  /\ p.cmd \in {"STINIT", "PMINIT"}
  /\ app_db' = [app_db EXCEPT ![p.of] =
       IF p.cmd = "STINIT" THEN [Entry(p) EXCEPT !.stats = <<p.id>> \o RemoveFirst(@, p.id)]
                           ELSE [Entry(p) EXCEPT !.params = p.of \in env.params]]
  /\ Reply(Msg(IF p.cmd = "PMINIT" /\ p.of \notin env.params THEN Bad[p.cmd] ELSE Good[p.cmd],
               p.of, p.obj, p.id))

\* statsman_incmd_close: found by obj_id; an object that has nothing registered is forgotten
Nothing(e) == e.stats = <<>> /\ ~e.params
Forgotten(e) == IF Nothing(e) THEN None ELSE e
statsman_incmd_close(p) ==
  LET e == app_db[p.of] IN
  /\ p.cmd \in {"STCLOSE", "PMCLOSE"} /\ UNCHANGED <<stats_q, lost>>
  /\ app_db' =
       IF p.obj = NoObj \/ e.obj # p.obj \/ (p.cmd = "STCLOSE" /\ p.id \notin Range(e.stats)) THEN app_db
       ELSE [app_db EXCEPT ![p.of] = Forgotten(
              IF p.cmd = "STCLOSE" THEN [e EXCEPT !.stats = RemoveFirst(@, p.id)] ELSE [e EXCEPT !.params = FALSE])]

statsman_incmd_pmget(p) ==
  /\ p.cmd = "PMGET" /\ UNCHANGED app_db
  /\ Reply(Msg(IF app_db[p.of].obj = p.obj /\ app_db[p.of].params THEN Good[p.cmd] ELSE Bad[p.cmd],
               p.of, p.obj, p.id))

\* statsman_incmd_stact: the statistic of that name, and the obj_id that is on record
statsman_incmd_stact(p) ==
  LET e == app_db[p.of] IN
  /\ p.cmd \in {"STREPORT", "STSTOP", "STSET"} /\ UNCHANGED app_db
  /\ IF e.stats = <<>> THEN UNCHANGED <<stats_q, lost>>
     ELSE Reply(Msg(p.cmd, p.of, e.obj, Head(e.stats)))

Statsman ==
  /\ statsman_q # <<>> /\ statsman_q' = Tail(statsman_q)
  /\ LET p == Head(statsman_q) IN
       statsman_incmd_init(p) \/ statsman_incmd_close(p) \/ statsman_incmd_pmget(p) \/ statsman_incmd_stact(p)
  /\ UNCHANGED <<var_db, objects, stats, cmds, env>>

User ==
  /\ cmds < env.cmds /\ cmds' = cmds + 1
  /\ \E o \in Objects, c \in {"STREPORT", "STSTOP", "STSET"} : Send(Msg(c, o, NoObj, 0))
  /\ UNCHANGED <<var_db, objects, stats, stats_q, app_db, env>>

VNext == Stats \/ Statsman \/ User \/ \E o \in Objects : Object(o)

VSpec == VInit /\ [][VNext]_vvars

\* The daemons run in every slot, and an object that waits looks at its variable in every slot.
VFairSpec ==
  /\ VSpec /\ WF_vvars(Stats) /\ WF_vvars(Statsman)
  /\ \A o \in Objects : WF_vvars(hwapi_var_created(o)) /\ WF_vvars(Return(o))

\* Where sem_var is held for longer than a step: who waits for a semaphore gets it some time.
VStrongSpec == VFairSpec /\ SF_vvars(Stats) /\ \A o \in Objects : SF_vvars(Return(o))

-----------------------------------------------------------------------------
\* Nothing fails, every object that opens a parameter file has one, and there is room in the table
\* for everything objects open.
Wanted == {w \in Objects \X Kinds : w[2] \in env.uses[w[1]]}
Orderly ==
  /\ env.faults = {} /\ Cardinality(Wanted) <= MaxVars
  /\ \A o \in Objects : "params" \in env.uses[o] => o \in env.params

\* What an object has registered is its own, and is found by its name, as long as no packet is
\* dropped: its variable has not been taken by another, STATSMAN leads the user to it, and serves its parameters. It holds however the
\* objects' calls, STATS' pass and the user's reports interleave, and when objects are launched
\* again. Does NOT hold for objects launched again after a crash (STATSMAN keeps the old obj_id, and
\* GetParam fails), or too soon; nor when InitStat has given up (a late answer is taken for one to
\* the next owner of the entry). Nor for an object that asked for a parameter file and has none: its
\* record stays, with the old obj_id, when it is launched again, and the first report the user starts
\* is taken for one of an object that is gone, and closes the statistic.
Registered ==
  Orderly /\ ~lost => \A o \in Objects :
    /\ obj[o].stat # 0 => /\ var_db[obj[o].stat].used /\ var_db[obj[o].stat].of = <<o, "stat">>
                          /\ app_db[o].stats # <<>> /\ Head(app_db[o].stats) = obj[o].stat
    /\ obj[o].params => app_db[o].params /\ app_db[o].obj = ObjId(o)

\* When all objects have gone and the daemons have nothing to do, and no packet was dropped (a close
\* that is dropped leaves the record for good), nothing is left of them: no
\* variable, no entry of STATSMAN's, and no report, where the table is too small for one to be
\* hidden (see ReportsServed). (The record of an object that asked for a parameter file and has none
\* is never removed, as nothing is ever closed; and where the table is full as an object ends,
\* CloseParamFile fails and its record stays as well.)
Quiet ==
  /\ \A o \in Objects : ~obj[o].on
  /\ stats_q = <<>> /\ statsman_q = <<>> /\ at = 0 /\ \A i \in VarIds : ~Pending(i)
  /\ \A i \in Slots : i < max_report_idx => ~Used(i)
NothingLeft ==
  Orderly /\ ~lost /\ Quiet =>
    /\ Free = VarIds /\ \A o \in Objects : app_db[o] = None
    /\ MaxReports <= 2 => \A i \in Slots : ~Used(i)

\* Every call returns (phal_services.c: "@return 1 if ok 0 if error"), also while other objects
\* crash and variables change owners, unless a packet is dropped, which is never sent again. Does
\* NOT hold if STATS looks at an entry that is being filled (it deletes the new variable for the
\* request that is left from the old one), nor when InitStat has given up.
CallsReturn == \A o \in Objects : obj[o].call # "" ~> obj[o].call = "" \/ lost
CallsEnd == env.faults \cap {"slow", "torn"} = {} => CallsReturn

\* Every report that was started is served (stats_cmds.c: "Starting report for stat"): does NOT hold
\* from three reports on; removing the first after the second hides the third.
ReportsServed == \A i \in Slots : Used(i) => i < max_report_idx

\* The value the user sets is set in the statistic of that name: does NOT hold, the entry may have
\* another owner when the command arrives.
SetHits ==
  [][at = 0 /\ stats_q # <<>> /\ stats_q' = Tail(stats_q) /\ Head(stats_q).cmd = "STSET" =>
       LET p == Head(stats_q) IN var_db[p.id].used => var_db[p.id].of = <<p.of, "stat">>]_vvars
=============================================================================
