--------------------------- MODULE WaveformProofs ---------------------------
(***************************************************************************)
(* Proofs about a waveform under SWMAN, for any number of objects in any   *)
(* order, any number of commands and any capacity of the queues.           *)
(***************************************************************************)
EXTENDS Waveform, ProcStatusProofs, Counting, SequenceTheorems

-----------------------------------------------------------------------------
(***************************************************************************)
(* The inductive invariant of the start barrier: who has started, and what *)
(* SWMAN and EXEC hold that shows it.                                      *)
(***************************************************************************)
Started(o) == proc[o].cur # None
AllStarted == \A o \in Objects : Started(o)

\* an order RUN is under way only when all objects have started
RunHeld ==
  /\ \A i \in 1..Len(orders) : orders[i].st = "RUN" => AllStarted
  /\ \A o \in Objects : "RUN" \in {proc[o].cur, proc[o].next} => AllStarted

\* a report of success, the place of an object and SWMAN's view of it come from an object
\* that has started
KnownStarted ==
  /\ \A i \in 1..Len(reports) :
       reports[i].ok => reports[i].st # None /\ Started(reports[i].obj)
  /\ \A o \in placed : Started(o)
  /\ \A o \in Objects : view[o] \notin Stopped \cup {None} => Started(o)
  /\ app.phase = "loaded" => app.cur # None

BInv == WTypeOK /\ RunHeld /\ KnownStarted

-----------------------------------------------------------------------------
(***************************************************************************)
(* What SWMAN sends.                                                       *)
(***************************************************************************)
\* swman_sendobjstatus sends the status it is given, and only to objects of the waveform
\* that SWMAN does not hold to have stopped
LEMMA Batch ==
  ASSUME NEW st \in Statuses, NEW v, NEW pl, NEW T \in SUBSET Targets(v, pl)
  PROVE  LET batch == swman_sendobjstatus(st, T) IN
         /\ batch \in Seq(Order)
         /\ \A k \in 1..Len(batch) :
              /\ batch[k].st = st /\ batch[k].obj \in Objects /\ batch[k].obj \in pl
              /\ v[batch[k].obj] \notin Stopped
<1> DEFINE b == Len(ObjList)
           batch == swman_sendobjstatus(st, T)
<1>1. b \in Nat /\ \A i \in 1..b : ObjList[i] \in Objects
  BY ObjListAssumption
<1>2. T \in SUBSET (1..b) /\ \A i \in T : v[ObjList[i]] \notin Stopped /\ ObjList[i] \in pl
  BY <1>1 DEF Targets, Reached
<1>3. Cardinality(T) \in Nat
  BY <1>1, <1>2, BeforeFinite
<1>4. \A k \in 1..Cardinality(T) : Nth(T, k) \in T
  <2> SUFFICES ASSUME NEW k \in 1..Cardinality(T) PROVE Nth(T, k) \in T
    OBVIOUS
  <2>1. k - 1 \in Nat /\ k - 1 < Cardinality(T)
    BY <1>3
  <2>2. \E i \in T : Cardinality(Before(T, i)) = k - 1
    BY <1>1, <1>2, <2>1, NthMember
  <2>3. QED
    BY <2>2 DEF Nth, Before
<1>5. batch = [k \in 1..Cardinality(T) |-> [obj |-> ObjList[Nth(T, k)], st |-> st]]
  BY DEF swman_sendobjstatus
<1> HIDE DEF batch
<1>6. \A k \in 1..Cardinality(T) :
        [obj |-> ObjList[Nth(T, k)], st |-> st] \in Order
  BY <1>1, <1>2, <1>4 DEF Order
<1>7. batch \in Seq(Order) /\ Len(batch) = Cardinality(T)
  BY <1>3, <1>5, <1>6
<1>8. \A k \in 1..Cardinality(T) :
        /\ batch[k].st = st /\ batch[k].obj \in Objects /\ batch[k].obj \in pl
        /\ v[batch[k].obj] \notin Stopped
  BY <1>1, <1>2, <1>4, <1>5
<1>9. QED
  BY <1>7, <1>8 DEF batch

\* no orders are sent to nobody
LEMMA NoneSent == ASSUME NEW st PROVE swman_sendobjstatus(st, {}) = <<>>
<1>1. Cardinality({}) = 0
  BY FS_EmptySet
<1>2. QED
  BY <1>1 DEF swman_sendobjstatus

\* what the queue holds after SWMAN's orders have arrived
LEMMA Sent ==
  ASSUME orders \in Seq(Order), NEW batch \in Seq(Order), orders' = orders \o batch
  PROVE  /\ orders' \in Seq(Order)
         /\ \A i \in 1..Len(orders') :
              \/ \E j \in 1..Len(orders) : orders'[i] = orders[j]
              \/ \E k \in 1..Len(batch) : orders'[i] = batch[k]
<1>1. orders' = orders \o batch
  OBVIOUS
<1>2. Len(orders') = Len(orders) + Len(batch)
  BY <1>1
<1>3. ASSUME NEW i \in 1..Len(orders')
      PROVE  \/ \E j \in 1..Len(orders) : orders'[i] = orders[j]
             \/ \E k \in 1..Len(batch) : orders'[i] = batch[k]
  <2>1. CASE i <= Len(orders)
    BY <1>1, <1>2, <2>1
  <2>2. CASE i > Len(orders)
    <3>1. i - Len(orders) \in 1..Len(batch) /\ orders'[i] = batch[i - Len(orders)]
      BY <1>1, <1>2, <2>2
    <3>2. QED
      BY <3>1
  <2>3. QED
    BY <2>1, <2>2
<1>4. orders' \in Seq(Order)
  BY <1>1
<1>5. QED
  BY <1>3, <1>4

-----------------------------------------------------------------------------
(***************************************************************************)
(* What the processing element does meanwhile.                             *)
(***************************************************************************)
\* a step leaves an entry's status or completes its change, and leaves its order or sets one
\* that is not RUN
EntryStep(p, q) ==
  /\ q.cur \in {p.cur, p.next}
  /\ q.next \in {p.next, "STARTED", "PAUSE", "STOP", "ABNSTOP"}

\* an object changes its own entry only, as EntryStep says, and no queue
LEMMA ObjectEntry ==
  ASSUME TypeOK, NEW o \in Objects, Object(o)
  PROVE  /\ \E q : proc' = [proc EXCEPT ![o] = q] /\ EntryStep(proc[o], q)
         /\ UNCHANGED <<orders, reports>>
<1> DEFINE p == proc[o]
<1>1. p \in Entry /\ proc \in [Objects -> Entry]
  BY DEF TypeOK
<1>2. {"PAUSE", "STOP", "ABNSTOP"} \subseteq Statuses
  BY DEF Statuses, Stopped
<1>3. UNCHANGED <<orders, reports>>
  BY DEF Object, Boot, Status, Step, Work, Close, Die, Reap
<1> SUFFICES \E q : Upd(o, q) /\ EntryStep(p, q)
  BY <1>3 DEF Upd
<1>4. EntryStep(p, p) /\ EntryStep(p, status_get(p)) /\ EntryStep(p, status_ack(p))
  BY <1>1, StatusGet, StatusAck DEF EntryStep
<1>5. \A st \in {"PAUSE", "STOP", "ABNSTOP"}, due \in Int :
        EntryStep(p, status_new(p, st, due)) /\ EntryStep(p, Ordered(p, st, due))
  BY <1>1, <1>2, Forced DEF EntryStep, status_new
<1>6. CASE Boot(o)
  <2> DEFINE p0 == [p EXCEPT !.due = 0]
  <2>1. p0 \in Entry /\ p0.cur = p.cur /\ p0.next = p.next
    BY <1>1 DEF Entry
  <2>2. Upd(o, status_get(p0))
    BY <1>6 DEF Boot
  <2> HIDE DEF p0
  <2>3. QED
    BY <2>1, <2>2, StatusGet DEF EntryStep
<1>7. CASE Status(o) \/ Step(o)
  BY <1>4, <1>5, <1>7 DEF Status, Step
<1>8. CASE Work(o)
  BY <1>1, <1>4, <1>8 DEF Work, Upd
<1>9. CASE Close(o)
  <2>1. \A due \in SinceBoot : due \in Int
    BY ConstAssumption DEF SinceBoot
  <2>2. \/ Upd(o, status_get(p)) \/ Upd(o, status_new(p, "STOP", 0))
        \/ \E due \in SinceBoot : Upd(o, Ordered(p, "ABNSTOP", due))
    BY <1>9 DEF Close
  <2>3. QED
    BY <1>4, <1>5, <2>1, <2>2
<1>10. CASE Die(o)
  <2>1. PICK q \in IF pc[o] = "boot" THEN {p} ELSE Terminated(p) : Upd(o, q)
    BY <1>10 DEF Die
  <2>2. EntryStep(p, q)
    BY <1>1, <2>1, TerminatedEntry DEF EntryStep
  <2>3. QED
    BY <2>1, <2>2
<1>11. CASE Reap(o)
  <2>1. Upd(o, [p EXCEPT !.pid = FALSE])
    BY <1>11 DEF Reap
  <2>2. EntryStep(p, [p EXCEPT !.pid = FALSE])
    BY <1>1 DEF EntryStep, Entry
  <2>3. QED
    BY <2>1, <2>2
<1>12. QED
  BY <1>6, <1>7, <1>8, <1>9, <1>10, <1>11 DEF Object

\* EXEC gives an object the order at the head of its queue, and reports success only of an
\* object whose current status is the one it was ordered
Reported(r) == r \in Report /\ (r.ok => r.st # None /\ Started(r.obj))
OrderStep(o) ==
  /\ proc'[o].cur = proc[o].cur
  /\ \E i \in 1..Len(orders) : orders[i].st = proc'[o].next
LocalStep ==
  /\ \A o \in Objects : EntryStep(proc[o], proc'[o]) \/ OrderStep(o)
  /\ orders' = orders \/ (orders # <<>> /\ orders' = Tail(orders))
  /\ reports' = reports \/ \E r : reports' = Append(reports, r) /\ Reported(r)

\* a step of EXEC is a LocalStep
LEMMA ExecEntry ==
  ASSUME TypeOK, Exec
  PROVE  LocalStep
<1>1. /\ proc \in [Objects -> Entry] /\ snap \in [Objects -> Entry] /\ orders \in Seq(Order)
      /\ todo \subseteq Objects /\ victim \subseteq Objects
  BY DEF TypeOK
<1>2. \A o \in Objects : EntryStep(proc[o], proc[o])
  BY DEF EntryStep
<1>3. ASSUME NEW o \in Objects, NEW st \in Statuses \cup {None}, exec_statusrep(o, FALSE, st)
      PROVE  reports' = reports \/ \E r : reports' = Append(reports, r) /\ Reported(r)
  <2> DEFINE r == [obj |-> o, ok |-> FALSE, st |-> st]
  <2>1. reports' = reports \/ reports' = Append(reports, r)
    BY <1>3, StatusRepSent
  <2>2. Reported(r)
    BY DEF Reported, Report
  <2>3. QED
    BY <2>1, <2>2
<1>4. \A p \in Entry : p.cur \in Statuses \cup {None} /\ p.next \in Statuses
  BY DEF Entry
<1>5. CASE exec_incmd_setstatus
  <2> DEFINE c == Head(orders)
             p == proc[c.obj]
  <2>1. c \in Order /\ c = orders[1] /\ 1 \in 1..Len(orders) /\ orders' = Tail(orders)
        /\ orders # <<>>
    BY <1>1, <1>5 DEF exec_incmd_setstatus
  <2>2. c.obj \in Objects /\ c.st \in Statuses /\ p \in Entry
    BY <1>1, <2>1 DEF Order
  <2>3. CASE UNCHANGED <<proc, reports>>
    BY <1>2, <2>1, <2>3 DEF LocalStep
  <2>4. CASE /\ \E due \in IF c.st = "ABNSTOP" THEN {-1} ELSE Dates :
                    Upd(c.obj, status_new(p, c.st, due))
             /\ UNCHANGED reports
    <3>1. PICK due \in IF c.st = "ABNSTOP" THEN {-1} ELSE Dates :
                 Upd(c.obj, status_new(p, c.st, due))
      BY <2>4
    <3>2. due \in Int
      <4>1. CASE c.st = "ABNSTOP"
        BY <4>1
      <4>2. CASE c.st # "ABNSTOP"
        BY <4>2, ConstAssumption
      <4>3. QED
        BY <4>1, <4>2
    <3> DEFINE q == status_new(p, c.st, due)
    <3>3. q.cur = p.cur /\ q.next \in {p.next, c.st}
      BY <2>2, <3>2, Forced DEF status_new
    <3> HIDE DEF q
    <3>4. proc'[c.obj] = q /\ \A o \in Objects \ {c.obj} : proc'[o] = proc[o]
      BY <1>1, <2>2, <3>1 DEF Upd, q
    <3>5. EntryStep(p, q) \/ OrderStep(c.obj)
      BY <2>1, <3>3, <3>4 DEF EntryStep, OrderStep
    <3>6. \A o \in Objects : EntryStep(proc[o], proc'[o]) \/ OrderStep(o)
      BY <1>2, <2>2, <3>4, <3>5
    <3>7. QED
      BY <2>1, <2>4, <3>6 DEF LocalStep
  <2>5. CASE exec_statusrep(c.obj, FALSE, p.cur) /\ UNCHANGED proc
    BY <1>2, <1>3, <1>4, <2>1, <2>2, <2>5 DEF LocalStep
  <2>6. QED
    BY <1>5, <2>3, <2>4, <2>5 DEF exec_incmd_setstatus
<1>6. CASE Background
  <2>1. UNCHANGED orders
    BY <1>6 DEF Background
  <2>2. PICK o \in todo : \/ BackgroundDied(o) \/ BackgroundAck(o)
                          \/ BackgroundTimeout(o) \/ BackgroundSkip(o)
    BY <1>6 DEF Background
  <2>3. o \in Objects
    BY <1>1, <2>2
  <2>4. CASE BackgroundDied(o)
    <3>1. [proc[o] EXCEPT !.known = FALSE].cur = proc[o].cur
          /\ [proc[o] EXCEPT !.known = FALSE].next = proc[o].next
      BY <1>1, <2>3 DEF Entry
    <3>2. \A other \in Objects : EntryStep(proc[other], proc'[other])
      BY <1>1, <2>3, <2>4, <3>1 DEF BackgroundDied, Upd, EntryStep
    <3>3. reports' = reports \/ \E r : reports' = Append(reports, r) /\ Reported(r)
      BY <1>1, <1>3, <1>4, <2>3, <2>4 DEF BackgroundDied
    <3>4. QED
      BY <2>1, <3>2, <3>3 DEF LocalStep
  <2>5. CASE BackgroundAck(o) /\ Ackable(proc[o])
    <3>1. \A other \in Objects : EntryStep(proc[other], proc'[other])
      BY <1>1, <2>3, <2>5, StatusAck DEF BackgroundAck, Upd, EntryStep
    <3> DEFINE r == [obj |-> o, ok |-> TRUE, st |-> snap[o].cur]
    <3>2. reports' = reports \/ reports' = Append(reports, r)
      <4>1. exec_statusrep(o, TRUE, snap[o].cur)
        BY <2>5 DEF BackgroundAck
      <4>2. QED
        BY <4>1, StatusRepSent
    <3>3. snap[o].cur \in Statuses /\ proc[o].cur \in Statuses
      BY <1>1, <1>4, <2>3, <2>5 DEF BackgroundAck, Ackable, Changing
    <3>4. Reported(r)
      BY <2>3, <3>3 DEF Reported, Report, Started, None, Statuses, Stopped
    <3>5. QED
      BY <2>1, <3>1, <3>2, <3>4 DEF LocalStep
  <2>6. CASE UNCHANGED <<proc, reports>>
    BY <1>2, <2>1, <2>6 DEF LocalStep
  <2>7. QED
    BY <2>2, <2>4, <2>5, <2>6 DEF BackgroundAck, BackgroundTimeout, BackgroundSkip
<1>7. CASE KillReturn
  <2>1. PICK o \in victim : reports' = reports \/ exec_statusrep(o, FALSE, "ABNSTOP")
    BY <1>7 DEF KillReturn
  <2>2. o \in Objects /\ "ABNSTOP" \in Statuses
    BY <1>1, <2>1 DEF Statuses, Stopped
  <2>3. QED
    BY <1>2, <1>3, <1>7, <2>1, <2>2 DEF KillReturn, LocalStep
<1>8. CASE BackgroundStart \/ BackgroundEnd
  BY <1>2, <1>8 DEF BackgroundStart, BackgroundEnd, LocalStep
<1>9. QED
  BY <1>5, <1>6, <1>7, <1>8 DEF Exec

\* every step of the processing element, and SWLOAD's launch of an object, is of this kind
LEMMA LocalEntry ==
  ASSUME TypeOK, Local \/ \E o \in Objects : Create(o)
  PROVE  LocalStep
<1>1. proc \in [Objects -> Entry]
  BY DEF TypeOK
<1>2. ASSUME NEW o \in Objects, NEW q, proc' = [proc EXCEPT ![o] = q],
             EntryStep(proc[o], q), UNCHANGED <<orders, reports>>
      PROVE  LocalStep
  BY <1>1, <1>2 DEF LocalStep, EntryStep
<1>3. ASSUME NEW o \in Objects, Object(o) PROVE LocalStep
  BY <1>2, <1>3, ObjectEntry
<1>4. ASSUME NEW o \in Objects, Create(o) PROVE LocalStep
  BY <1>2, <1>4 DEF Create, Upd, EntryStep, NewEntry
<1>5. CASE Tick
  <2>1. ASSUME NEW o \in Objects PROVE EntryStep(proc[o], proc'[o])
    <3>1. /\ proc[o] \in Entry
          /\ proc'[o] = [proc[o] EXCEPT !.due = IF @ > -(Limit + 1) THEN @ - 1 ELSE @]
      BY <1>1, <1>5 DEF Tick
    <3>2. QED
      BY <3>1 DEF Entry, EntryStep
  <2>2. QED
    BY <1>5, <2>1 DEF Tick, LocalStep
<1>6. QED
  BY <1>3, <1>4, <1>5, ExecEntry DEF Local

-----------------------------------------------------------------------------
(***************************************************************************)
(* The start barrier, step by step.                                        *)
(***************************************************************************)
Quiet == UNCHANGED <<proc, initDone, execVars>>

\* while SWMAN acts, the database stays as it is: nobody starts, nobody leaves
LEMMA QuietStarted ==
  ASSUME Quiet
  PROVE  AllStarted' = AllStarted /\ \A o \in Objects : Started(o)' = Started(o)
  BY DEF Quiet, AllStarted, Started

\* the objects SWMAN holds to be in one status that is none of the final ones have started
LEMMA InStatus ==
  ASSUME NEW v, NEW cur, status_ok(v, cur), cur \notin Stopped \cup {None},
         \A o \in Objects : v[o] \notin Stopped \cup {None} => Started(o)
  PROVE  AllStarted
  BY DEF status_ok, AllStarted

\* the user orders a status: RUN only when all are known to have started
LEMMA AppStatusStep ==
  ASSUME BInv, NEW st \in Orderable, swman_incmd_appstatus(st)
  PROVE  BInv'
<1> DEFINE target == IF st = "STEP" THEN "PAUSE" ELSE st
<1>0. PICK T \in SUBSET Targets(view, placed) :
        \/ orders' = orders
        \/ /\ orders' = orders \o swman_sendobjstatus(st, T) /\ app.phase = "loaded"
           /\ status_ok(view, app.cur) \/ target \in Stopped
  BY Zenon DEF swman_incmd_appstatus, Send
<1> DEFINE batch == swman_sendobjstatus(st, T)
<1>1. /\ TypeOK /\ orders \in Seq(Order) /\ view \in [Objects -> Statuses \cup {None}]
      /\ placed \subseteq Objects /\ RunHeld /\ KnownStarted
      /\ app \in [phase : {"unloaded", "loaded", "removed"},
                  cur : Statuses \cup {None}, pend : Statuses \cup {None}]
      /\ told \in Told /\ cmds \in 0..MaxCmds /\ lost \in BOOLEAN
  BY DEF BInv, WTypeOK, TypeOK
<1>2. st \in Statuses /\ target \in Statuses
  BY ConstAssumption DEF Statuses, Stopped
<1>3. Quiet /\ UNCHANGED <<pc, reports, placed>> /\ cmds' = cmds + 1 /\ cmds < MaxCmds
  BY DEF swman_incmd_appstatus, Quiet, objVars
<1>4. /\ batch \in Seq(Order)
      /\ \A k \in 1..Len(batch) :
           batch[k].st = st /\ batch[k].obj \in Objects /\ view[batch[k].obj] \notin Stopped
  BY <1>2, Batch
<1>5. \/ orders' = orders
      \/ /\ orders' = orders \o batch /\ app.phase = "loaded"
         /\ status_ok(view, app.cur) \/ target \in Stopped
  BY <1>0
<1>6. /\ app'.phase \in {"unloaded", "loaded", "removed"}
      /\ app'.cur \in {app.cur, target} /\ app'.pend \in {app.pend, st, None}
      /\ app' = [phase |-> app'.phase, cur |-> app'.cur, pend |-> app'.pend]
      /\ app'.phase = "loaded" => app.phase = "loaded"
      /\ told' \in {told, "LOADAPPERR"}
      /\ \/ view' = view
         \/ view' = [o \in Objects |-> "STEP"] /\ AllPlaced(placed)
  <2>1. /\ \A c : [app EXCEPT !.cur = c] = [phase |-> app.phase, cur |-> c, pend |-> app.pend]
        /\ \A d : [app EXCEPT !.pend = d] = [phase |-> app.phase, cur |-> app.cur, pend |-> d]
        /\ Removed = [phase |-> "removed", cur |-> app.cur, pend |-> None]
    <3>1. \A c : [app EXCEPT !.cur = c] = [phase |-> app.phase, cur |-> c, pend |-> app.pend]
      BY <1>1
    <3>2. \A d : [app EXCEPT !.pend = d] = [phase |-> app.phase, cur |-> app.cur, pend |-> d]
      BY <1>1
    <3>3. Removed = [phase |-> "removed", cur |-> app.cur, pend |-> None]
      <4> DEFINE a == [app EXCEPT !.phase = "removed"]
      <4>1. a = [phase |-> "removed", cur |-> app.cur, pend |-> app.pend]
        BY <1>1
      <4>2. Removed = [a EXCEPT !.pend = None]
        BY <1>1 DEF Removed
      <4>3. QED
        BY <4>1, <4>2
    <3>4. QED
      BY <3>1, <3>2, <3>3
  <2>2. \A c : [Removed EXCEPT !.cur = c] = [phase |-> "removed", cur |-> c, pend |-> None]
    BY <2>1
  <2>3. \/ app' = app
        \/ app' = [app EXCEPT !.cur = target] /\ app.phase = "loaded"
        \/ app' = [Removed EXCEPT !.cur = target]
        \/ app' = [app EXCEPT !.pend = st] /\ app.phase = "loaded"
        \/ app' = Removed
    BY DEF swman_incmd_appstatus
  <2>4. app = [phase |-> app.phase, cur |-> app.cur, pend |-> app.pend]
    BY <1>1
  <2>5. /\ told' \in {told, "LOADAPPERR"}
        /\ view' = view \/ (view' = [o \in Objects |-> "STEP"] /\ AllPlaced(placed))
    BY DEF swman_incmd_appstatus
  <2>6. QED
    BY <1>1, <2>1, <2>2, <2>3, <2>4, <2>5
<1> HIDE DEF target, batch
<1>7. orders' \in Seq(Order)
  BY <1>1, <1>4, <1>5, Sent
<1>8. RunHeld'
  <2>1. ASSUME NEW i \in 1..Len(orders'), orders'[i].st = "RUN" PROVE AllStarted
    <3>1. CASE \E j \in 1..Len(orders) : orders'[i] = orders[j]
      BY <1>1, <2>1, <3>1 DEF RunHeld
    <3>2. CASE ~\E j \in 1..Len(orders) : orders'[i] = orders[j]
      <4>1. orders' = orders \o batch /\ app.phase = "loaded" /\ (status_ok(view, app.cur) \/ target \in Stopped)
        BY <1>5, <2>1, <3>2
      <4>2. PICK k \in 1..Len(batch) : orders'[i] = batch[k]
        BY <1>1, <1>4, <2>1, <3>2, <4>1, Sent
      <4>3. target \notin Stopped
        BY <1>4, <2>1, <4>2 DEF target, Stopped
      <4>4. app.cur \notin Stopped \cup {None}
        BY <1>1, <1>4, <4>1, <4>2, <4>3 DEF status_ok, KnownStarted
      <4>5. QED
        BY <1>1, <4>1, <4>3, <4>4, InStatus DEF KnownStarted
    <3>3. QED
      BY <3>1, <3>2
  <2>2. QED
    BY <1>1, <1>3, <2>1, QuietStarted DEF RunHeld, Quiet
<1>9. KnownStarted'
  <2>1. \A o \in Objects : view'[o] \notin Stopped \cup {None} => Started(o)
    BY <1>1, <1>6 DEF KnownStarted, AllPlaced
  <2>2. app'.phase = "loaded" => app'.cur # None
    BY <1>1, <1>2, <1>6 DEF KnownStarted, None, Statuses, Stopped
  <2>3. \A i \in 1..Len(reports) : reports[i].obj \in Objects
    <3>1. \A i \in 1..Len(reports) : reports[i] \in Report
      BY <1>1 DEF TypeOK
    <3>2. QED
      BY <3>1 DEF Report
  <2>4. QED
    BY <1>1, <1>3, <2>1, <2>2, <2>3, QuietStarted DEF KnownStarted
<1>10. WTypeOK'
  <2>1. TypeOK'
    BY <1>1, <1>3, <1>7 DEF TypeOK, Quiet, execVars
  <2>2. app' \in [phase : {"unloaded", "loaded", "removed"},
                  cur : Statuses \cup {None}, pend : Statuses \cup {None}]
    BY <1>1, <1>2, <1>6
  <2>3. view' \in [Objects -> Statuses \cup {None}]
    BY <1>1, <1>6 DEF Statuses
  <2>4. cmds' \in 0..MaxCmds
    BY <1>1, <1>3, MaxCmdsAssumption
  <2>5. lost' \in BOOLEAN
    <3>1. UNCHANGED lost \/ \E n : lost' = (lost \/ Len(orders) + n > MaxQueue)
      BY Zenon DEF swman_incmd_appstatus, Send
    <3>2. QED
      BY <1>1, <3>1
  <2>6. QED
    BY <1>1, <1>3, <1>6, <2>1, <2>2, <2>3, <2>4, <2>5 DEF WTypeOK, Told
<1>11. QED
  BY <1>8, <1>9, <1>10 DEF BInv

\* SWMAN takes a report: the status held back is sent when all have reported
LEMMA StatusRepStep ==
  ASSUME BInv, swman_incmd_statusrep
  PROVE  BInv'
<1> DEFINE r       == Head(reports)
           view1   == [view EXCEPT ![r.obj] = Seen(r)]
           placed1 == IF Expected(r) /\ r.st = "STARTED" THEN placed \cup {r.obj} ELSE placed
           cur1    == IF Aborts(r) THEN "ABNSTOP" ELSE app.cur
           toldOf  == IF r.st = "ABNSTOP" THEN view1 ELSE view
           toAbort == IF Aborts(r) THEN Targets(toldOf, placed) ELSE {}
           pending == status_ok(view1, cur1) /\ app.pend # None
           cur2    == IF pending THEN app.pend ELSE cur1
           to      == IF pending THEN Targets(view1, placed1) ELSE {}
<1>0. PICK A \in SUBSET toAbort, T \in SUBSET to :
        app.phase = "loaded" =>
          orders' = orders \o (swman_sendobjstatus("ABNSTOP", A) \o swman_sendobjstatus(cur2, T))
  BY DEF swman_incmd_statusrep, Send
<1> DEFINE abort == swman_sendobjstatus("ABNSTOP", A)
           batch == swman_sendobjstatus(cur2, T)
<1>1. /\ TypeOK /\ orders \in Seq(Order) /\ reports \in Seq(Report)
      /\ view \in [Objects -> Statuses \cup {None}]
      /\ placed \subseteq Objects /\ RunHeld /\ KnownStarted
      /\ app \in [phase : {"unloaded", "loaded", "removed"},
                  cur : Statuses \cup {None}, pend : Statuses \cup {None}]
      /\ told \in Told /\ cmds \in 0..MaxCmds /\ lost \in BOOLEAN
  BY DEF BInv, WTypeOK, TypeOK
<1>2. Quiet /\ UNCHANGED <<pc, cmds>> /\ reports # <<>> /\ reports' = Tail(reports)
  BY DEF swman_incmd_statusrep, Quiet, objVars
<1>3. /\ r \in Report /\ r = reports[1] /\ 1 \in 1..Len(reports)
      /\ reports' \in Seq(Report)
      /\ \A i \in 1..Len(reports') : i + 1 \in 1..Len(reports) /\ reports'[i] = reports[i + 1]
  BY <1>1, <1>2
<1>4. /\ r.obj \in Objects /\ r.ok \in BOOLEAN /\ r.st \in Statuses \cup {None}
      /\ r.ok => r.st # None /\ Started(r.obj)
  BY <1>1, <1>3 DEF Report, KnownStarted
<1>5. \A i \in 1..Len(reports') :
        /\ reports'[i].obj \in Objects
        /\ reports'[i].ok => reports'[i].st # None /\ Started(reports'[i].obj)
  <2>1. \A i \in 1..Len(reports) : reports[i] \in Report
    BY <1>1
  <2>2. QED
    BY <1>1, <1>3, <2>1 DEF Report, KnownStarted
<1>6. /\ Seen(r) \in Statuses \cup {None}
      /\ Seen(r) \notin Stopped \cup {None} => Started(r.obj)
  BY <1>4 DEF Seen, Expected, Statuses, Stopped
<1>7. /\ view1 \in [Objects -> Statuses \cup {None}]
      /\ \A o \in Objects : view1[o] \notin Stopped \cup {None} => Started(o)
  <2>1. \A o \in Objects : view1[o] = IF o = r.obj THEN Seen(r) ELSE view[o]
    BY <1>1, <1>4
  <2>2. QED
    BY <1>1, <1>4, <1>6, <2>1 DEF KnownStarted
<1>8. placed1 \subseteq Objects /\ \A o \in placed1 : Started(o)
  BY <1>1, <1>4 DEF Expected, KnownStarted
<1> HIDE DEF r, view1, placed1
<1>9. /\ abort \in Seq(Order)
      /\ \A k \in 1..Len(abort) : abort[k].st # "RUN"
  <2>1. CASE Aborts(r)
    <3>1. "ABNSTOP" \in Statuses
      BY DEF Statuses, Stopped
    <3>2. A \in SUBSET Targets(toldOf, placed)
      BY <2>1
    <3> HIDE DEF toldOf
    <3>3. /\ abort \in Seq(Order)
          /\ \A k \in 1..Len(abort) : abort[k].st = "ABNSTOP"
      BY <3>1, <3>2, Batch
    <3> HIDE DEF abort
    <3>4. QED
      BY <3>3
  <2>2. CASE ~Aborts(r)
    <3>1. A = {}
      BY <2>2
    <3>2. abort = <<>>
      BY <3>1, NoneSent
    <3> HIDE DEF abort
    <3>3. QED
      BY <2>2, <3>2
  <2>3. QED
    BY <2>1, <2>2
<1>10. /\ batch \in Seq(Order)
       /\ \A k \in 1..Len(batch) :
            /\ batch[k].obj \in Objects /\ view1[batch[k].obj] \notin Stopped
            /\ status_ok(view1, cur1)
  <2>1. CASE pending
    <3>1. cur2 \in Statuses
      BY <1>1, <2>1
    <3>2. T \in SUBSET Targets(view1, placed1)
      BY <2>1
    <3> HIDE DEF cur2
    <3>3. QED
      BY <2>1, <3>1, <3>2, Batch
  <2>2. CASE ~pending
    <3>1. T = {}
      BY <2>2
    <3>2. batch = <<>>
      BY <3>1, NoneSent
    <3> HIDE DEF batch, pending
    <3>3. QED
      BY <2>2, <3>2
  <2>3. QED
    BY <2>1, <2>2
<1>11. cur1 \in Statuses \cup {None} /\ cur2 \in Statuses \cup {None}
  BY <1>1 DEF Statuses, Stopped
<1>12. app.phase = "loaded" => cur1 # None /\ cur2 # None
  BY <1>1 DEF KnownStarted, None
<1>13. \/ app.phase # "loaded" /\ UNCHANGED <<app, view, placed, told, orders>>
       \/ /\ app.phase = "loaded"
          /\ orders' = orders \o (abort \o batch)
          /\ view' = view1 /\ placed' = placed1
          /\ \E ph \in {"loaded", "removed"}, pe \in {None, app.pend} :
               app' = [phase |-> ph, cur |-> cur2, pend |-> pe]
          /\ told' \in Told
  <2>1. CASE app.phase # "loaded"
    BY <2>1 DEF swman_incmd_statusrep
  <2>2. CASE app.phase = "loaded"
    <3>1. /\ orders' = orders \o (abort \o batch)
          /\ view' = view1 /\ placed' = placed1
      BY <1>0, <2>2 DEF swman_incmd_statusrep, r, view1, placed1
    <3>2. \E ph \in {"loaded", "removed"}, pe \in {None, app.pend} :
            app' = [phase |-> ph, cur |-> cur2, pend |-> pe]
      BY <2>2 DEF swman_incmd_statusrep, r, view1, placed1
    <3>3. told' \in {told, "LOADAPPERR", "LOADAPPOK", "STATUSERR", "STATUSOK"}
      BY <2>2 DEF swman_incmd_statusrep, r, view1, placed1
    <3>4. QED
      BY <1>1, <2>2, <3>1, <3>2, <3>3 DEF Told
  <2>3. QED
    BY <2>1, <2>2
<1> HIDE DEF cur1, cur2, abort, batch, pending
<1>14. RunHeld' /\ orders' \in Seq(Order)
  <2>1. CASE orders' = orders
    BY <1>1, <1>2, <2>1, QuietStarted DEF RunHeld, Quiet
  <2>2. CASE app.phase = "loaded" /\ orders' = orders \o (abort \o batch)
    <3>1. abort \o batch \in Seq(Order)
      BY <1>9, <1>10
    <3>2. ASSUME NEW k \in 1..Len(abort \o batch), (abort \o batch)[k].st = "RUN"
          PROVE  AllStarted
      <4>1. k > Len(abort) /\ k - Len(abort) \in 1..Len(batch)
        BY <1>9, <1>10, <3>2
      <4>2. cur1 \notin Stopped \cup {None}
        BY <1>10, <1>12, <2>2, <4>1 DEF status_ok
      <4>3. status_ok(view1, cur1)
        BY <1>10, <4>1
      <4>4. QED
        BY <1>7, <4>2, <4>3, InStatus
    <3>3. ASSUME NEW i \in 1..Len(orders'), orders'[i].st = "RUN" PROVE AllStarted
      <4>1. CASE \E j \in 1..Len(orders) : orders'[i] = orders[j]
        BY <1>1, <3>3, <4>1 DEF RunHeld
      <4>2. CASE \E k \in 1..Len(abort \o batch) : orders'[i] = (abort \o batch)[k]
        BY <3>2, <3>3, <4>2
      <4>3. QED
        BY <1>1, <2>2, <3>1, <4>1, <4>2, Sent
    <3>4. orders' \in Seq(Order)
      BY <1>1, <2>2, <3>1, Sent
    <3>5. QED
      BY <1>1, <1>2, <3>3, <3>4, QuietStarted DEF RunHeld, Quiet
  <2>3. QED
    BY <1>13, <2>1, <2>2
<1>15. KnownStarted'
  <2>1. /\ \A o \in placed' : o \in Objects /\ Started(o)
        /\ \A o \in Objects : view'[o] \notin Stopped \cup {None} => Started(o)
    BY <1>1, <1>7, <1>8, <1>13 DEF KnownStarted
  <2>2. app'.phase = "loaded" => app'.cur # None
    BY <1>1, <1>12, <1>13 DEF KnownStarted
  <2>3. QED
    BY <1>2, <1>5, <2>1, <2>2, QuietStarted DEF KnownStarted
<1>16. WTypeOK'
  <2>1. TypeOK'
    BY <1>1, <1>2, <1>3, <1>14 DEF TypeOK, Quiet, execVars
  <2>2. app' \in [phase : {"unloaded", "loaded", "removed"},
                  cur : Statuses \cup {None}, pend : Statuses \cup {None}]
    BY <1>1, <1>11, <1>13
  <2>3. lost' \in BOOLEAN
    <3>1. UNCHANGED lost \/ \E n : lost' = (lost \/ Len(orders) + n > MaxQueue)
      BY DEF swman_incmd_statusrep, Send
    <3>2. QED
      BY <1>1, <3>1
  <2>4. QED
    BY <1>1, <1>2, <1>7, <1>8, <1>13, <2>1, <2>2, <2>3 DEF WTypeOK
<1>17. QED
  BY <1>14, <1>15, <1>16 DEF BInv

\* the steps of the processing element keep the barrier: who has started has started for good,
\* and RUN is only carried out when it was ordered
LEMMA LocalBarrier ==
  ASSUME BInv, Local \/ (\E o \in Objects : Create(o)), UNCHANGED swman, Noted \/ UNCHANGED lost
  PROVE  BInv'
<1>1. /\ TypeOK /\ RunHeld /\ KnownStarted /\ LocalStep
  BY LocalEntry DEF BInv, WTypeOK
<1>2. orders \in Seq(Order) /\ reports \in Seq(Report) /\ proc \in [Objects -> Entry]
      /\ placed \subseteq Objects
  BY DEF BInv, WTypeOK, TypeOK
<1>3. UNCHANGED <<app, view, placed, told, cmds>>
  BY DEF swman
<1>4. TypeOK'
  BY <1>1, NextTypeOK DEF Next
<1>5. \A o \in Objects : Started(o) => Started(o)'
  <2>1. \A p \in Entry : p.next # None
    BY DEF Entry, None, Statuses, Stopped
  <2>2. QED
    BY <1>1, <1>2, <2>1 DEF LocalStep, EntryStep, OrderStep, Started
<1>6. AllStarted => AllStarted'
  BY <1>5 DEF AllStarted
<1>7. \A i \in 1..Len(orders') : \E j \in 1..Len(orders) : orders'[i] = orders[j]
  <2>1. CASE orders' = orders
    BY <2>1
  <2>2. CASE orders # <<>> /\ orders' = Tail(orders)
    <3>1. \A i \in 1..Len(orders') : i + 1 \in 1..Len(orders) /\ orders'[i] = orders[i + 1]
      BY <1>2, <2>2
    <3>2. QED
      BY <3>1
  <2>3. QED
    BY <1>1, <2>1, <2>2 DEF LocalStep
<1>8. RunHeld'
  <2>1. \A i \in 1..Len(orders') : orders'[i].st = "RUN" => AllStarted'
    BY <1>1, <1>6, <1>7 DEF RunHeld
  <2>2. \A o \in Objects : "RUN" \in {proc'[o].cur, proc'[o].next} => AllStarted'
    BY <1>1, <1>6 DEF RunHeld, LocalStep, EntryStep, OrderStep
  <2>3. QED
    BY <2>1, <2>2 DEF RunHeld
<1>9. KnownStarted'
  <2>1. \A i \in 1..Len(reports) :
          reports[i] \in Report /\ (reports[i].ok => reports[i].st # None /\ Started(reports[i].obj))
    BY <1>1, <1>2 DEF KnownStarted
  <2>2. \A i \in 1..Len(reports') :
          reports'[i] \in Report
          /\ (reports'[i].ok => reports'[i].st # None /\ Started(reports'[i].obj))
    <3>1. CASE reports' = reports
      BY <2>1, <3>1
    <3>2. CASE reports' # reports
      <4>1. PICK r : reports' = Append(reports, r) /\ Reported(r)
        BY <1>1, <3>2 DEF LocalStep
      <4>2. \A i \in 1..Len(reports') : reports'[i] = r \/ \E j \in 1..Len(reports) : reports'[i] = reports[j]
        BY <1>2, <4>1 DEF Reported
      <4>3. QED
        BY <2>1, <4>1, <4>2 DEF Reported
    <3>3. QED
      BY <3>1, <3>2
  <2>3. \A o \in Objects : proc[o].cur # None => proc'[o].cur # None
    BY <1>5 DEF Started
  <2>4. \A r \in Report : r.obj \in Objects
    BY DEF Report
  <2>5. \A i \in 1..Len(reports') :
          reports'[i].ok => reports'[i].st # None /\ proc'[reports'[i].obj].cur # None
    BY <2>2, <2>3, <2>4 DEF Started
  <2>6. /\ \A o \in placed' : proc'[o].cur # None
        /\ \A o \in Objects : view'[o] \notin Stopped \cup {None} => proc'[o].cur # None
        /\ app'.phase = "loaded" => app'.cur # None
    BY <1>1, <1>2, <1>3, <2>3 DEF KnownStarted, Started
  <2>7. QED
    BY <2>5, <2>6 DEF KnownStarted, Started
<1>10. WTypeOK'
  BY <1>3, <1>4 DEF BInv, WTypeOK, Noted
<1>11. QED
  BY <1>8, <1>9, <1>10 DEF BInv

\* every step keeps the invariant of the barrier
LEMMA NextBInv == BInv /\ [WNext]_wvars => BInv'
<1> SUFFICES ASSUME BInv, [WNext]_wvars PROVE BInv'
  OBVIOUS
<1>1. CASE UNCHANGED <<proc, initDone, execVars, orders, reports, view, placed>>
           /\ pc' \in [Objects -> ObjPc] /\ cmds' = cmds
           /\ app' \in [phase : {"unloaded", "loaded", "removed"},
                        cur : Statuses \cup {None}, pend : Statuses \cup {None}]
           /\ (app'.phase = "loaded" => app'.cur # None) /\ told' \in Told /\ lost' = lost
  <2>1. RunHeld'
    BY <1>1 DEF BInv, RunHeld, AllStarted, Started
  <2>2. KnownStarted'
    BY <1>1 DEF BInv, KnownStarted, Started
  <2>3. WTypeOK'
    BY <1>1 DEF BInv, WTypeOK, TypeOK, execVars
  <2>4. QED
    BY <2>1, <2>2, <2>3 DEF BInv
<1>2. /\ pc \in [Objects -> ObjPc] /\ told \in Told /\ KnownStarted
      /\ app \in [phase : {"unloaded", "loaded", "removed"},
                  cur : Statuses \cup {None}, pend : Statuses \cup {None}]
  BY DEF BInv, WTypeOK, TypeOK
<1>3. CASE swman_incmd_loadapp
  <2>1. /\ app' \in [phase : {"unloaded", "loaded", "removed"},
                     cur : Statuses \cup {None}, pend : Statuses \cup {None}]
        /\ app'.cur # None
    BY <1>2, <1>3 DEF swman_incmd_loadapp, Statuses, None
  <2>2. QED
    BY <1>1, <1>2, <1>3, <2>1 DEF swman_incmd_loadapp, vars, objVars
<1>4. CASE swman_incmd_apperror
  <2>1. /\ app' \in [phase : {"unloaded", "loaded", "removed"},
                     cur : Statuses \cup {None}, pend : Statuses \cup {None}]
        /\ app'.phase = "removed"
    <3> DEFINE a == [app EXCEPT !.phase = "removed"]
    <3>1. a \in [phase : {"unloaded", "loaded", "removed"},
                 cur : Statuses \cup {None}, pend : Statuses \cup {None}]
          /\ a.phase = "removed"
      BY <1>2
    <3>2. Removed = [a EXCEPT !.pend = None]
      BY <1>2 DEF Removed
    <3> HIDE DEF a
    <3>3. QED
      BY <1>4, <3>1, <3>2 DEF swman_incmd_apperror
  <2>2. pc' \in [Objects -> ObjPc]
    BY <1>2, <1>4 DEF swman_incmd_apperror, Goto, ObjPc
  <2>3. QED
    BY <1>1, <1>4, <2>1, <2>2 DEF swman_incmd_apperror, Told
<1>5. CASE UNCHANGED wvars
  BY <1>1, <1>2, <1>5 DEF wvars, vars, objVars, swman, KnownStarted
<1>6. QED
  BY <1>3, <1>4, <1>5, AppStatusStep, StatusRepStep, LocalBarrier DEF WNext

\* the invariant of the barrier holds at the start
LEMMA InitBInv == WInit => BInv
<1> SUFFICES ASSUME WInit PROVE BInv
  OBVIOUS
<1>1. TypeOK
  BY InitTypeOK DEF WInit
<1>2. WTypeOK
  <2>1. /\ app \in [phase : {"unloaded", "loaded", "removed"},
                   cur : Statuses \cup {None}, pend : Statuses \cup {None}]
        /\ view \in [Objects -> Statuses \cup {None}]
    BY DEF WInit
  <2>2. placed \in SUBSET Objects /\ told \in Told /\ cmds \in 0..MaxCmds
    BY MaxCmdsAssumption DEF WInit, Told
  <2>3. lost \in BOOLEAN
    BY DEF WInit
  <2>4. QED
    BY <1>1, <2>1, <2>2, <2>3 DEF WTypeOK
<1>3. RunHeld
  BY DEF WInit, Init, RunHeld, EmptyEntry, None
<1>4. KnownStarted
  BY DEF WInit, Init, KnownStarted
<1>5. QED
  BY <1>2, <1>3, <1>4 DEF BInv

\* the invariant of the barrier always holds
LEMMA BarrierInductive == WSpec => []BInv
  BY InitBInv, NextBInv, PTL DEF WSpec

-----------------------------------------------------------------------------
(***************************************************************************)
(* What SWMAN believes. The invariant follows one object o through what is *)
(* under way for it: the orders O that EXEC has not read, the change in    *)
(* its entry, the reports R that SWMAN has not read; v is SWMAN's view of  *)
(* o and c the status of the waveform. They are parameters because SWMAN   *)
(* takes a report and sends orders in one step.                            *)
(***************************************************************************)
\* a closing object only gets from here to its end
Late == {"abort2", "abort3", "wait"}

\* nothing but stops is ordered, or is going to be reported
OnlyStops(o, O) == \A i \in 1..Len(O) : O[i].obj = o => O[i].st \in Stopped
NoNews(o, R)    == \A i \in 1..Len(R) : R[i].obj = o /\ R[i].ok => R[i].st \in Stopped
Pending(o)      == o \in todo /\ Ackable(snap[o]) /\ snap[o].cur \notin Stopped \cup {"STEP"}

\* an object on its way out, and one that is not going to complete another change but a stop
Leaving(o)  == o \in victim \/ proc[o].cur \in Stopped
Calm(o, O)  == /\ proc[o].cur # "STEP"
               /\ \/ proc[o].next \in Stopped
                  \/ proc[o].next = proc[o].cur /\ proc[o].prog = 0
               /\ OnlyStops(o, O)
Hopeless(o, O, R) == NoNews(o, R) /\ ~Pending(o) /\ (Leaving(o) \/ Calm(o, O))

\* the waveform is being stopped, or it goes on without o
Over(o, O, R, v, c)   == c \in Stopped \/ (v # c /\ Hopeless(o, O, R))
Sealed(o, O, R, v, c) == proc[o].next \in Stopped /\ OnlyStops(o, O) /\ Over(o, O, R, v, c)

\* o is in status x and stays there until it stops by itself
Holds(o, O, x) ==
  /\ proc[o].cur \in {x, "ABNSTOP"}
  /\ Alive(o) => /\ proc[o].next \in {x, "ABNSTOP"}
                 /\ \A i \in 1..Len(O) : O[i].obj = o => O[i].st \in {x, "ABNSTOP"}

\* a view that counts is right, for the status of the waveform and for the stop that may follow
Faithful(o, O, v, c) == v \in {c, "STOP"} /\ v # "ABNSTOP" => Holds(o, O, v)

\* a report of success that is under way
First(R, i) == \A j \in 1..i - 1 : R[j].obj # R[i].obj
DeadNews(o, R, v, c) ==
  ~Alive(o) => \A i \in 1..Len(R) :
    R[i].obj = o /\ R[i].ok /\ R[i].st # "ABNSTOP" =>
      \/ proc[o].cur \in {R[i].st, "ABNSTOP"}
      \/ R[i].st \notin Stopped /\ c \in Stopped /\ v \notin Stopped /\ First(R, i)
GoodNews(o, O, R, v, c) ==
  Alive(o) => \A i \in 1..Len(R) :
    R[i].obj = o /\ R[i].ok /\ R[i].st \notin Stopped =>
      /\ First(R, i) /\ v \notin Stopped /\ (c \notin Stopped => v # c)
      /\ {proc[o].cur, proc[o].next} \subseteq Stopped \cup {R[i].st}
      /\ OnlyStops(o, O) /\ ~Pending(o)
      /\ proc[o].cur \in Stopped \/ Calm(o, O)

\* any other report comes from an object on its way out
BadNews(o, R) ==
  Alive(o) => \A i \in 1..Len(R) : R[i].obj = o /\ (R[i].ok => R[i].st \in Stopped) => Leaving(o)
GivenUp(o, O, R, v) == Alive(o) /\ v \in Stopped => Hopeless(o, O, R)

\* what EXEC is going to report
NextNews(o, O, R, v, c) ==
  Alive(o) /\ Pending(o) =>
    /\ \A i \in 1..Len(R) : R[i].obj # o
    /\ v \notin Stopped /\ (c \notin Stopped => v # c)
    /\ OnlyStops(o, O)
    /\ "ABNSTOP" \in {proc[o].cur, proc[o].next} => pc[o] \in Late

\* in the status of the waveform an object has settled
Settled(o, v, c) ==
  Alive(o) /\ v = c /\ c \notin Stopped =>
    \/ proc[o].cur \in Stopped
    \/ proc[o].next = "ABNSTOP"
    \/ proc[o].next = proc[o].cur /\ proc[o].prog # 2

\* orders other than stops wait for a settled object, all but the last for the status it has
Waiting(o, O) ==
  Alive(o) /\ proc[o].cur \notin Stopped => \A i \in 1..Len(O) :
    O[i].obj = o /\ O[i].st \notin Stopped =>
      /\ proc[o].cur # "STEP"
      /\ \/ proc[o].next \in Stopped
         \/ proc[o].next = proc[o].cur /\ proc[o].prog # 2
      /\ \A j \in 1..i - 1 : O[j].obj = o /\ O[j].st \notin Stopped => O[j].st = proc[o].cur

\* behind a stop comes nothing else, whether it is ordered, in the entry, copied or reported
StopOrdered(o, O, R, v, c) ==
  Alive(o) => \A i \in 1..Len(O) : O[i].obj = o /\ O[i].st \in Stopped =>
    /\ Over(o, O, R, v, c)
    /\ \A j \in i..Len(O) : O[j].obj = o => O[j].st \in Stopped
Stops(o) == \/ "STOP" \in {proc[o].cur, proc[o].next}
            \/ pc[o] \notin Late /\ "ABNSTOP" \in {proc[o].cur, proc[o].next}
StopEntered(o, O, R, v, c) == Alive(o) /\ Stops(o) => Sealed(o, O, R, v, c)
StopCopied(o, O, R, v, c) ==
  Alive(o) /\ o \in todo /\ Ackable(snap[o]) /\ snap[o].cur = "STOP" => Sealed(o, O, R, v, c)
StopTold(o, O, R, v, c) ==
  Alive(o) => \A i \in 1..Len(R) : R[i].obj = o /\ R[i].ok /\ R[i].st = "STOP" =>
    proc[o].cur \in Stopped /\ Sealed(o, O, R, v, c)

StepView(v, c) == v = "STEP" => c \in {"PAUSE"} \cup Stopped

OInv(o, O, R, v, c) ==
  /\ Faithful(o, O, v, c) /\ DeadNews(o, R, v, c) /\ GoodNews(o, O, R, v, c) /\ BadNews(o, R)
  /\ GivenUp(o, O, R, v) /\ NextNews(o, O, R, v, c) /\ Settled(o, v, c) /\ Waiting(o, O)
  /\ StopOrdered(o, O, R, v, c) /\ StopEntered(o, O, R, v, c) /\ StopCopied(o, O, R, v, c)
  /\ StopTold(o, O, R, v, c) /\ StepView(v, c)

-----------------------------------------------------------------------------
(***************************************************************************)
(* What becomes of the invariant of one object at each kind of event.      *)
(***************************************************************************)
\* EXEC never reports a single step: the object confirms it to itself
NoStep(R) == \A i \in 1..Len(R) : R[i].ok => R[i].st # "STEP"

\* what a living object does to its entry: nothing; it is told of its change; it makes it; it goes
\* through a single step; it aborts
Warned(o) == /\ proc[o].next # proc[o].cur /\ proc'[o].prog = 2
            /\ proc'[o].cur = proc[o].cur /\ proc'[o].next = proc[o].next
Turn(o) ==
  \/ /\ proc'[o].cur = proc[o].cur /\ proc'[o].next = proc[o].next /\ proc'[o].prog = proc[o].prog
  \/ Warned(o)
  \/ /\ proc[o].next # proc[o].cur /\ proc'[o].prog = 2
     /\ proc'[o].cur = proc[o].next /\ proc'[o].next = proc[o].next
     /\ pc[o] \in Late => proc[o].next = "ABNSTOP"
  \/ /\ proc[o].cur = "STEP" /\ proc'[o].cur = "STEP"
     /\ \/ proc[o].next = "STEP" /\ proc'[o].next = "STEP" /\ proc'[o].prog = 0
        \/ proc[o].next = "STEP" /\ proc'[o].next = "PAUSE" /\ proc'[o].prog = 1
  \/ /\ proc'[o].cur = proc[o].cur /\ proc'[o].next = "ABNSTOP" /\ proc'[o].prog = 1
     /\ pc'[o] \in Late

\* a living object takes a turn
LEMMA Moves ==
  ASSUME NEW o \in Objects, NEW v, NEW c, OInv(o, orders, reports, v, c), NoStep(reports),
         UNCHANGED <<orders, reports, snap, todo, victim>>, Alive(o), Alive(o)',
         pc[o] \in Late => pc'[o] \in Late, Turn(o)
  PROVE  OInv(o, orders, reports, v, c)'
<1> USE DEF Stopped
<1>1. proc[o].cur \in Stopped => proc'[o].cur \in Stopped
  BY DEF OInv, StopEntered, Stops, Sealed, Turn, Warned
<1>2. Stops(o)' => Stops(o)
  BY DEF Stops, Turn, Warned
<1>3. OnlyStops(o, orders)' = OnlyStops(o, orders) /\ NoNews(o, reports)' = NoNews(o, reports)
      /\ Pending(o)' = Pending(o)
  BY DEF OnlyStops, NoNews, Pending
<1>4. proc[o].cur \in Stopped \/ Calm(o, orders) => (proc[o].cur \in Stopped \/ Calm(o, orders))'
  BY <1>1, <1>3 DEF Calm, Turn, Warned
<1>5. Hopeless(o, orders, reports) => Hopeless(o, orders, reports)'
  BY <1>1, <1>3, <1>4 DEF Hopeless, Leaving
<1>6. Over(o, orders, reports, v, c) => Over(o, orders, reports, v, c)'
  BY <1>5 DEF Over
<1>7. Sealed(o, orders, reports, v, c) => Sealed(o, orders, reports, v, c)'
  BY <1>3, <1>6 DEF Sealed, Turn, Warned
<1>8. proc[o].cur = "STEP" => v # c \/ c \in Stopped
  BY DEF OInv, Faithful, Holds, StepView
<1>9. Faithful(o, orders, v, c)'
  BY DEF OInv, Faithful, Holds, Turn, Warned, StepView
<1>10. DeadNews(o, reports, v, c)'
  BY DEF DeadNews
<1>11. GoodNews(o, orders, reports, v, c)'
  <2> SUFFICES ASSUME NEW i \in 1..Len(reports), reports[i].obj = o, reports[i].ok, reports[i].st \notin Stopped
               PROVE  /\ First(reports, i) /\ v \notin Stopped /\ (c \notin Stopped => v # c)
                      /\ ({proc[o].cur, proc[o].next} \subseteq Stopped \cup {reports[i].st})'
                      /\ OnlyStops(o, orders) /\ ~Pending(o)
                      /\ (proc[o].cur \in Stopped \/ Calm(o, orders))'
    BY <1>3 DEF GoodNews, First
  <2>1. /\ First(reports, i) /\ v \notin Stopped /\ (c \notin Stopped => v # c)
        /\ {proc[o].cur, proc[o].next} \subseteq Stopped \cup {reports[i].st}
        /\ OnlyStops(o, orders) /\ ~Pending(o)
        /\ proc[o].cur \in Stopped \/ Calm(o, orders)
    BY DEF OInv, GoodNews
  <2>2. reports[i].st # "STEP"
    BY DEF NoStep
  <2>3. QED
    BY <1>4, <2>1, <2>2 DEF Turn, Warned
<1>12. BadNews(o, reports)'
  BY <1>1 DEF OInv, BadNews, Leaving
<1>13. GivenUp(o, orders, reports, v)'
  BY <1>5 DEF OInv, GivenUp
<1>14. NextNews(o, orders, reports, v, c)'
  BY <1>3 DEF OInv, NextNews, Turn, Warned
<1>15. Settled(o, v, c)'
  BY <1>1, <1>8 DEF OInv, Settled, Turn, Warned
<1>16. Waiting(o, orders)'
  <2>1. CASE proc'[o].cur \in Stopped
    BY <2>1 DEF Waiting
  <2>2. CASE proc'[o].cur \notin Stopped
    BY <1>1, <2>2 DEF OInv, Waiting, Turn, Warned
  <2>3. QED
    BY <2>1, <2>2
<1>17. StopOrdered(o, orders, reports, v, c)'
  BY <1>6 DEF OInv, StopOrdered
<1>18. StopEntered(o, orders, reports, v, c)'
  BY <1>2, <1>7 DEF OInv, StopEntered
<1>19. StopCopied(o, orders, reports, v, c)'
  BY <1>7 DEF OInv, StopCopied
<1>20. StopTold(o, orders, reports, v, c)'
  BY <1>1, <1>7 DEF OInv, StopTold
<1>21. StepView(v, c)'
  BY DEF OInv, StepView
<1>22. QED
  BY <1>9, <1>10, <1>11, <1>12, <1>13, <1>14, <1>15, <1>16, <1>17, <1>18, <1>19, <1>20, <1>21 DEF OInv

\* an object dies, and what happens to a dead one
Failed(o, R, R2) == R2 = R \/ \E r \in Report : R2 = Append(R, r) /\ (r.obj = o => ~r.ok)

\* an object ends or is killed
LEMMA Dies ==
  ASSUME NEW o \in Objects, NEW v, NEW c, OInv(o, orders, reports, v, c),
         reports \in Seq(Report), Alive(o), ~Alive(o)', proc'[o].cur \in {proc[o].cur, proc[o].next},
         Failed(o, reports, reports')
  PROVE  OInv(o, orders, reports, v, c)'
<1> USE DEF Stopped
<1>1. Faithful(o, orders, v, c)'
  BY DEF OInv, Faithful, Holds
<1>2. DeadNews(o, reports, v, c)'
  <2>0. /\ Len(reports) \in Nat /\ \A i \in 1..Len(reports) : reports'[i] = reports[i]
        /\ \A i \in 1..Len(reports') : (reports'[i].obj = o => ~reports'[i].ok) \/ i \in 1..Len(reports)
    <3>1. CASE reports' = reports
      BY <3>1
    <3>2. CASE reports' # reports
      <4>1. PICK r \in Report : reports' = Append(reports, r) /\ (r.obj = o => ~r.ok)
        BY <3>2 DEF Failed
      <4>2. QED
        BY <4>1
    <3>3. QED
      BY <3>1, <3>2
  <2> SUFFICES ASSUME NEW i \in 1..Len(reports), reports[i].obj = o, reports[i].ok, reports[i].st # "ABNSTOP"
               PROVE  \/ proc'[o].cur \in {reports[i].st, "ABNSTOP"}
                      \/ reports[i].st \notin Stopped /\ c \in Stopped /\ v \notin Stopped /\ First(reports, i)
    BY <2>0 DEF DeadNews, First
  <2>1. CASE reports[i].st \in Stopped
    BY <2>1 DEF OInv, StopTold, Sealed
  <2>2. CASE reports[i].st \notin Stopped
    <3>1. /\ First(reports, i) /\ v \notin Stopped /\ (c \notin Stopped => v # c)
          /\ {proc[o].cur, proc[o].next} \subseteq Stopped \cup {reports[i].st}
      BY <2>2 DEF OInv, GoodNews
    <3>2. "STOP" \in {proc[o].cur, proc[o].next} => c \in Stopped
      BY <2>2 DEF OInv, StopEntered, Stops, Sealed, Over, Hopeless, NoNews
    <3>3. QED
      BY <2>2, <3>1, <3>2
  <2>3. QED
    BY <2>1, <2>2
<1>3. QED
  BY <1>1, <1>2 DEF OInv, GoodNews, BadNews, GivenUp, NextNews, Settled, Waiting, StopOrdered, StopEntered,
                    StopCopied, StopTold, StepView

\* the report r of an object, if it is one of success, is true
Added(o, R, R2) ==
  \/ R2 = R
  \/ \E r \in Report : R2 = Append(R, r) /\ (r.obj = o /\ r.ok => proc[o].cur \in {r.st, "ABNSTOP"})

\* whatever happens to a dead object
LEMMA StaysDead ==
  ASSUME NEW o \in Objects, NEW v, NEW c, OInv(o, orders, reports, v, c), reports \in Seq(Report),
         ~Alive(o), ~Alive(o)', proc'[o].cur = proc[o].cur, Added(o, reports, reports')
  PROVE  OInv(o, orders, reports, v, c)'
<1>1. Faithful(o, orders, v, c)'
  BY DEF OInv, Faithful, Holds
<1>2. DeadNews(o, reports, v, c)'
  <2>1. CASE reports' = reports
    BY <2>1 DEF OInv, DeadNews, First
  <2>2. CASE \E r \in Report : /\ reports' = Append(reports, r)
                               /\ r.obj = o /\ r.ok => proc[o].cur \in {r.st, "ABNSTOP"}
    <3>1. PICK r \in Report : /\ reports' = Append(reports, r)
                              /\ r.obj = o /\ r.ok => proc[o].cur \in {r.st, "ABNSTOP"}
      BY <2>2
    <3>2. /\ Len(reports') = Len(reports) + 1 /\ Len(reports) \in Nat
          /\ reports'[Len(reports) + 1] = r
          /\ \A i \in 1..Len(reports) : reports'[i] = reports[i]
      BY <3>1
    <3>3. \A i \in 1..Len(reports) : First(reports, i) => First(reports', i)
      BY <3>2 DEF First
    <3>4. QED
      BY <3>1, <3>2, <3>3 DEF OInv, DeadNews
  <2>3. QED
    BY <2>1, <2>2 DEF Added
<1>3. QED
  BY <1>1, <1>2 DEF OInv, GoodNews, BadNews, GivenUp, NextNews, Settled, Waiting, StopOrdered, StopEntered,
                    StopCopied, StopTold, StepView

\* EXEC and other objects act, while o stays as it is: EXEC takes an order and does not carry it
\* out, looks at other entries, reports on others, or refuses an order of o's and kills it
Unread(R, R2, o) ==
  \/ R2 = R
  \/ \E r \in Report : R2 = Append(R, r) /\ (r.obj = o => ~r.ok /\ o \in victim' /\ ~Pending(o)')
Shorter(O, O2) == O2 = O \/ (O # <<>> /\ O2 = Tail(O))

\* a living object stands still, while EXEC skips what is under way for it or others
LEMMA Stands ==
  ASSUME NEW o \in Objects, NEW v, NEW c, OInv(o, orders, reports, v, c), Alive(o), Alive(o)',
         orders \in Seq(Order), reports \in Seq(Report),
         proc'[o].cur = proc[o].cur, proc'[o].next = proc[o].next, proc'[o].prog = proc[o].prog,
         pc'[o] = pc[o], o \in victim => o \in victim',
         o \in todo' => o \in todo /\ snap'[o] = snap[o],
         Shorter(orders, orders'), Unread(reports, reports', o)
  PROVE  OInv(o, orders, reports, v, c)'
<1> USE DEF Stopped
<1>1. Pending(o)' => Pending(o)
  BY DEF Pending
<1>2. PICK k \in 0..1 :
        /\ Len(orders) \in Nat /\ Len(orders') = Len(orders) - k
        /\ \A i \in 1..Len(orders') : i + k \in 1..Len(orders) /\ orders'[i] = orders[i + k]
  <2>1. CASE orders' = orders
    BY <2>1
  <2>2. CASE orders # <<>> /\ orders' = Tail(orders)
    BY <2>2
  <2>3. QED
    BY <2>1, <2>2 DEF Shorter
<1>3. OnlyStops(o, orders) => OnlyStops(o, orders)'
  BY <1>2 DEF OnlyStops
<1>4. /\ Len(reports) \in Nat /\ Len(reports') \in Nat /\ Len(reports) <= Len(reports')
      /\ \A i \in 1..Len(reports) : reports'[i] = reports[i]
      /\ \A i \in 1..Len(reports') : i \in 1..Len(reports) \/
           (reports'[i].obj = o => ~reports'[i].ok /\ o \in victim' /\ ~Pending(o)')
  <2>1. CASE reports' = reports
    BY <2>1
  <2>2. CASE reports' # reports
    <3>1. PICK r \in Report : /\ reports' = Append(reports, r)
                              /\ r.obj = o => ~r.ok /\ o \in victim' /\ ~Pending(o)'
      BY <2>2 DEF Unread
    <3>2. QED
      BY <3>1
  <2>3. QED
    BY <2>1, <2>2
<1>5. NoNews(o, reports) => NoNews(o, reports)'
  BY <1>4 DEF NoNews
<1>6. \A i \in 1..Len(reports) : First(reports, i) => First(reports, i)'
  BY <1>4 DEF First
<1>7. Calm(o, orders) => Calm(o, orders)'
  BY <1>3 DEF Calm
<1>8. Leaving(o) => Leaving(o)'
  BY DEF Leaving
<1>9. Hopeless(o, orders, reports) => Hopeless(o, orders, reports)'
  BY <1>1, <1>5, <1>7, <1>8 DEF Hopeless
<1>10. Over(o, orders, reports, v, c) => Over(o, orders, reports, v, c)'
  BY <1>9 DEF Over
<1>11. Sealed(o, orders, reports, v, c) => Sealed(o, orders, reports, v, c)'
  BY <1>3, <1>10 DEF Sealed
<1>12. Faithful(o, orders, v, c)'
  BY <1>2 DEF OInv, Faithful, Holds
<1>13. DeadNews(o, reports, v, c)'
  BY DEF DeadNews
<1>14. GoodNews(o, orders, reports, v, c)'
  <2> SUFFICES ASSUME NEW i \in 1..Len(reports'), reports'[i].obj = o, reports'[i].ok,
                      reports'[i].st \notin Stopped
               PROVE  /\ First(reports, i)' /\ v \notin Stopped /\ (c \notin Stopped => v # c)
                      /\ ({proc[o].cur, proc[o].next} \subseteq Stopped \cup {reports[i].st})'
                      /\ OnlyStops(o, orders)' /\ ~Pending(o)'
                      /\ (proc[o].cur \in Stopped \/ Calm(o, orders))'
    BY DEF GoodNews
  <2>1. i \in 1..Len(reports) /\ reports'[i] = reports[i]
    BY <1>4
  <2>2. /\ First(reports, i) /\ v \notin Stopped /\ (c \notin Stopped => v # c)
        /\ {proc[o].cur, proc[o].next} \subseteq Stopped \cup {reports[i].st}
        /\ OnlyStops(o, orders) /\ ~Pending(o)
        /\ proc[o].cur \in Stopped \/ Calm(o, orders)
    BY <2>1 DEF OInv, GoodNews
  <2>3. QED
    BY <1>1, <1>3, <1>6, <1>7, <2>1, <2>2
<1>15. BadNews(o, reports)'
  BY <1>4, <1>8 DEF OInv, BadNews, Leaving
<1>16. GivenUp(o, orders, reports, v)'
  BY <1>9 DEF OInv, GivenUp
<1>17. NextNews(o, orders, reports, v, c)'
  BY <1>1, <1>3, <1>4 DEF OInv, NextNews
<1>18. Settled(o, v, c)'
  BY DEF OInv, Settled
<1>19. Waiting(o, orders)'
  <2> SUFFICES ASSUME proc[o].cur \notin Stopped, NEW i \in 1..Len(orders'),
                      orders'[i].obj = o, orders'[i].st \notin Stopped
               PROVE  /\ proc[o].cur # "STEP"
                      /\ proc[o].next \in Stopped \/ (proc[o].next = proc[o].cur /\ proc[o].prog # 2)
                      /\ \A j \in 1..i - 1 : orders'[j].obj = o /\ orders'[j].st \notin Stopped =>
                           orders'[j].st = proc[o].cur
    BY DEF Waiting
  <2>1. i + k \in 1..Len(orders) /\ orders[i + k] = orders'[i]
    BY <1>2
  <2>2. /\ proc[o].cur # "STEP"
        /\ proc[o].next \in Stopped \/ (proc[o].next = proc[o].cur /\ proc[o].prog # 2)
        /\ \A j \in 1..(i + k) - 1 : orders[j].obj = o /\ orders[j].st \notin Stopped =>
             orders[j].st = proc[o].cur
    BY <2>1 DEF OInv, Waiting
  <2>3. ASSUME NEW j \in 1..i - 1
        PROVE  j + k \in 1..(i + k) - 1 /\ orders'[j] = orders[j + k]
    <3>1. j \in 1..Len(orders')
      BY <1>2
    <3>2. QED
      BY <1>2, <3>1
  <2>4. QED
    BY <2>2, <2>3
<1>20. StopOrdered(o, orders, reports, v, c)'
  <2> SUFFICES ASSUME NEW i \in 1..Len(orders'), orders'[i].obj = o, orders'[i].st \in Stopped
               PROVE  /\ Over(o, orders, reports, v, c)'
                      /\ \A j \in i..Len(orders') : orders'[j].obj = o => orders'[j].st \in Stopped
    BY DEF StopOrdered
  <2>1. i + k \in 1..Len(orders) /\ orders[i + k] = orders'[i]
    BY <1>2
  <2>2. /\ Over(o, orders, reports, v, c)
        /\ \A j \in i + k..Len(orders) : orders[j].obj = o => orders[j].st \in Stopped
    BY <2>1 DEF OInv, StopOrdered
  <2>3. \A j \in i..Len(orders') : j + k \in i + k..Len(orders) /\ orders'[j] = orders[j + k]
    BY <1>2, <2>1
  <2>4. QED
    BY <1>10, <2>2, <2>3
<1>21. StopEntered(o, orders, reports, v, c)'
  BY <1>11 DEF OInv, StopEntered, Stops
<1>22. StopCopied(o, orders, reports, v, c)'
  BY <1>11 DEF OInv, StopCopied
<1>23. StopTold(o, orders, reports, v, c)'
  BY <1>4, <1>11 DEF OInv, StopTold
<1>24. StepView(v, c)'
  BY DEF OInv, StepView
<1>25. QED
  BY <1>12, <1>13, <1>14, <1>15, <1>16, <1>17, <1>18, <1>19, <1>20, <1>21, <1>22, <1>23, <1>24 DEF OInv

\* EXEC gives o the order at the head of the queue
LEMMA Accepts ==
  ASSUME NEW o \in Objects, NEW v, NEW c, OInv(o, orders, reports, v, c), Alive(o), Alive(o)',
         orders \in Seq(Order), orders # <<>>, orders[1].obj = o, orders' = Tail(orders), UNCHANGED reports,
         proc[o].next = proc[o].cur, proc'[o].cur = proc[o].cur,
         proc'[o].next = orders[1].st, proc'[o].prog = 1,
         UNCHANGED victim, pc'[o] = pc[o], o \notin todo'
  PROVE  OInv(o, orders, reports, v, c)'
<1> USE DEF Stopped
<1> DEFINE st == orders[1].st
<1>0. proc'[o].cur = proc[o].cur /\ proc'[o].next = st /\ proc'[o].prog # 2
  OBVIOUS
<1>1. ~Pending(o)'
  BY DEF Pending
<1>2. /\ Len(orders) \in Nat /\ Len(orders') = Len(orders) - 1 /\ 1 \in 1..Len(orders)
      /\ \A i \in 1..Len(orders') : i + 1 \in 1..Len(orders) /\ orders'[i] = orders[i + 1]
  OBVIOUS
<1> HIDE DEF st
<1>3. OnlyStops(o, orders) => OnlyStops(o, orders)' /\ st \in Stopped
  BY <1>2 DEF OnlyStops, st
<1>4. NoNews(o, reports)' = NoNews(o, reports) /\ Leaving(o)' = Leaving(o)
  BY DEF NoNews, Leaving
<1>5. Calm(o, orders) => Calm(o, orders)'
  BY <1>0, <1>3 DEF Calm
<1>6. Hopeless(o, orders, reports) => Hopeless(o, orders, reports)'
  BY <1>1, <1>4, <1>5 DEF Hopeless
<1>7. Over(o, orders, reports, v, c) => Over(o, orders, reports, v, c)'
  BY <1>6 DEF Over
<1>8. Sealed(o, orders, reports, v, c) => Sealed(o, orders, reports, v, c)'
  BY <1>0, <1>3, <1>7 DEF Sealed
<1>9. Faithful(o, orders, v, c)'
  BY <1>0, <1>2 DEF OInv, Faithful, Holds, st
<1>10. DeadNews(o, reports, v, c)'
  BY DEF DeadNews
<1>11. GoodNews(o, orders, reports, v, c)'
  BY <1>0, <1>1, <1>3, <1>5 DEF OInv, GoodNews, First
<1>12. BadNews(o, reports)'
  BY <1>4 DEF OInv, BadNews
<1>13. GivenUp(o, orders, reports, v)'
  BY <1>6 DEF OInv, GivenUp
<1>14. NextNews(o, orders, reports, v, c)'
  BY <1>1 DEF NextNews
<1>15. Settled(o, v, c)'
  BY <1>0, <1>2 DEF OInv, Settled, Faithful, Holds, st
<1>16. Waiting(o, orders)'
  <2> SUFFICES ASSUME proc[o].cur \notin Stopped, NEW i \in 1..Len(orders'),
                      orders'[i].obj = o, orders'[i].st \notin Stopped
               PROVE  /\ proc[o].cur # "STEP"
                      /\ st \in Stopped \/ st = proc[o].cur
                      /\ \A j \in 1..i - 1 : orders'[j].obj = o /\ orders'[j].st \notin Stopped =>
                           orders'[j].st = proc[o].cur
    BY <1>0 DEF Waiting
  <2>1. i + 1 \in 1..Len(orders) /\ orders[i + 1] = orders'[i]
    BY <1>2
  <2>2. /\ proc[o].cur # "STEP"
        /\ \A j \in 1..(i + 1) - 1 : orders[j].obj = o /\ orders[j].st \notin Stopped =>
             orders[j].st = proc[o].cur
    BY <2>1 DEF OInv, Waiting
  <2>3. 1 \in 1..(i + 1) - 1
    BY <1>2
  <2>4. ASSUME NEW j \in 1..i - 1
        PROVE  j + 1 \in 1..(i + 1) - 1 /\ orders'[j] = orders[j + 1]
    <3>1. j \in 1..Len(orders')
      BY <1>2
    <3>2. QED
      BY <1>2, <3>1
  <2>5. QED
    BY <2>2, <2>3, <2>4 DEF st
<1>17. StopOrdered(o, orders, reports, v, c)'
  <2> SUFFICES ASSUME NEW i \in 1..Len(orders'), orders'[i].obj = o, orders'[i].st \in Stopped
               PROVE  /\ Over(o, orders, reports, v, c)'
                      /\ \A j \in i..Len(orders') : orders'[j].obj = o => orders'[j].st \in Stopped
    BY DEF StopOrdered
  <2>1. i + 1 \in 1..Len(orders) /\ orders[i + 1] = orders'[i]
    BY <1>2
  <2>2. /\ Over(o, orders, reports, v, c)
        /\ \A j \in i + 1..Len(orders) : orders[j].obj = o => orders[j].st \in Stopped
    BY <2>1 DEF OInv, StopOrdered
  <2>3. \A j \in i..Len(orders') : j + 1 \in i + 1..Len(orders) /\ orders'[j] = orders[j + 1]
    BY <1>2, <2>1
  <2>4. QED
    BY <1>7, <2>2, <2>3
<1>18. StopEntered(o, orders, reports, v, c)'
  <2> SUFFICES ASSUME Stops(o)' PROVE Sealed(o, orders, reports, v, c)'
    BY DEF StopEntered
  <2>1. CASE st \in Stopped
    <3>1. Over(o, orders, reports, v, c) /\ OnlyStops(o, orders)
      BY <1>2, <2>1 DEF OInv, StopOrdered, OnlyStops, st
    <3>2. QED
      BY <1>0, <1>3, <1>7, <2>1, <3>1 DEF Sealed
  <2>2. CASE st \notin Stopped
    <3>1. Stops(o)
      BY <1>0, <2>2 DEF Stops
    <3>2. OnlyStops(o, orders)
      BY <3>1 DEF OInv, StopEntered, Sealed
    <3>3. QED
      BY <1>3, <2>2, <3>2
  <2>3. QED
    BY <2>1, <2>2
<1>19. StopCopied(o, orders, reports, v, c)'
  BY DEF StopCopied
<1>20. StopTold(o, orders, reports, v, c)'
  BY <1>8 DEF OInv, StopTold
<1>21. StepView(v, c)'
  BY DEF OInv, StepView
<1>22. QED
  BY <1>9, <1>10, <1>11, <1>12, <1>13, <1>14, <1>15, <1>16, <1>17, <1>18, <1>19, <1>20, <1>21 DEF OInv

\* EXEC copies the database
LEMMA Copied ==
  ASSUME NEW o \in Objects, NEW v, NEW c, OInv(o, orders, reports, v, c), Alive(o),
         UNCHANGED <<orders, reports, proc, pc, victim>>, o \notin victim, ~Pending(o), snap'[o] = proc[o]
  PROVE  OInv(o, orders, reports, v, c)'
<1> USE DEF Stopped
<1>1. /\ UNCHANGED <<OnlyStops(o, orders), NoNews(o, reports), Leaving(o), Calm(o, orders), Stops(o), Alive(o)>>
      /\ \A i \in 1..Len(reports) : UNCHANGED First(reports, i)
  BY DEF OnlyStops, NoNews, Leaving, Calm, Stops, First, Alive
<1>2. Leaving(o) \/ Calm(o, orders) => ~Pending(o)'
  BY DEF Leaving, Calm, Pending, Ackable, Changing
<1>3. Hopeless(o, orders, reports) => Hopeless(o, orders, reports)'
  BY <1>1, <1>2 DEF Hopeless
<1>4. Over(o, orders, reports, v, c) => Over(o, orders, reports, v, c)'
  BY <1>3 DEF Over
<1>5. Sealed(o, orders, reports, v, c) => Sealed(o, orders, reports, v, c)'
  BY <1>1, <1>4 DEF Sealed
<1>6. Faithful(o, orders, v, c)' /\ DeadNews(o, reports, v, c)'
  BY <1>1 DEF OInv, Faithful, Holds, DeadNews
<1>7. GoodNews(o, orders, reports, v, c)'
  <2> SUFFICES ASSUME NEW i \in 1..Len(reports), reports[i].obj = o, reports[i].ok, reports[i].st \notin Stopped
               PROVE  /\ First(reports, i) /\ v \notin Stopped /\ (c \notin Stopped => v # c)
                      /\ {proc[o].cur, proc[o].next} \subseteq Stopped \cup {reports[i].st}
                      /\ OnlyStops(o, orders) /\ ~Pending(o)'
                      /\ proc[o].cur \in Stopped \/ Calm(o, orders)
    BY <1>1 DEF GoodNews
  <2>1. /\ First(reports, i) /\ v \notin Stopped /\ (c \notin Stopped => v # c)
        /\ {proc[o].cur, proc[o].next} \subseteq Stopped \cup {reports[i].st}
        /\ OnlyStops(o, orders) /\ ~Pending(o)
        /\ proc[o].cur \in Stopped \/ Calm(o, orders)
    BY DEF OInv, GoodNews
  <2>2. QED
    BY <1>2, <2>1 DEF Leaving
<1>8. BadNews(o, reports)'
  BY <1>1 DEF OInv, BadNews
<1>9. GivenUp(o, orders, reports, v)'
  BY <1>1, <1>3 DEF OInv, GivenUp
<1>10. NextNews(o, orders, reports, v, c)'
  <2> SUFFICES ASSUME Pending(o)'
               PROVE  /\ \A i \in 1..Len(reports) : reports[i].obj # o
                      /\ v \notin Stopped /\ (c \notin Stopped => v # c)
                      /\ OnlyStops(o, orders)
                      /\ "ABNSTOP" \notin {proc[o].cur, proc[o].next}
    BY <1>1 DEF NextNews
  <2>1. ~Leaving(o) /\ ~Calm(o, orders)
    BY <1>2
  <2>2. proc[o].next = proc[o].cur /\ proc[o].prog = 2 /\ proc[o].cur \notin Stopped
    BY DEF Pending, Ackable, Changing
  <2>3. \A i \in 1..Len(reports) : reports[i].obj # o
    BY <2>1 DEF OInv, GoodNews, BadNews, Leaving
  <2>4. v \notin Stopped
    BY <2>1 DEF OInv, GivenUp, Hopeless
  <2>5. c \notin Stopped => v # c
    BY <2>2 DEF OInv, Settled
  <2>6. OnlyStops(o, orders)
    BY <2>2 DEF OInv, Waiting, OnlyStops
  <2>7. QED
    BY <2>2, <2>3, <2>4, <2>5, <2>6
<1>11. Settled(o, v, c)' /\ Waiting(o, orders)'
  BY <1>1 DEF OInv, Settled, Waiting
<1>12. StopOrdered(o, orders, reports, v, c)' /\ StopEntered(o, orders, reports, v, c)'
  BY <1>1, <1>4, <1>5 DEF OInv, StopOrdered, StopEntered
<1>13. StopCopied(o, orders, reports, v, c)'
  BY <1>1, <1>5 DEF OInv, StopCopied, StopEntered, Stops
<1>14. StopTold(o, orders, reports, v, c)' /\ StepView(v, c)'
  BY <1>1, <1>5 DEF OInv, StopTold, StepView
<1>15. QED
  BY <1>6, <1>7, <1>8, <1>9, <1>10, <1>11, <1>12, <1>13, <1>14 DEF OInv

\* EXEC confirms a change and its report is dropped
LEMMA ConfirmsUnheard ==
  ASSUME NEW o \in Objects, NEW v, NEW c, OInv(o, orders, reports, v, c), Alive(o),
         UNCHANGED <<orders, pc, victim, reports>>,
         proc[o].next = proc[o].cur, proc'[o].cur = proc[o].cur, proc'[o].next = proc[o].cur, proc'[o].prog = 0,
         o \notin todo'
  PROVE  OInv(o, orders, reports, v, c)'
<1> USE DEF Stopped
<1>1. ~Pending(o)' /\ (Alive(o)' <=> Alive(o)) /\ (Leaving(o)' <=> Leaving(o)) /\ (Stops(o)' <=> Stops(o))
  BY DEF Pending, Alive, Leaving, Stops
<1>2. /\ OnlyStops(o, orders)' <=> OnlyStops(o, orders)
      /\ NoNews(o, reports)' <=> NoNews(o, reports)
  BY DEF OnlyStops, NoNews
<1>3. Calm(o, orders) => Calm(o, orders)'
  BY <1>2 DEF Calm
<1>4. Hopeless(o, orders, reports) => Hopeless(o, orders, reports)'
  BY <1>1, <1>2, <1>3 DEF Hopeless
<1>5. Over(o, orders, reports, v, c) => Over(o, orders, reports, v, c)'
  BY <1>4 DEF Over
<1>6. Sealed(o, orders, reports, v, c) => Sealed(o, orders, reports, v, c)'
  BY <1>2, <1>5 DEF Sealed
<1>7. Faithful(o, orders, v, c)' /\ DeadNews(o, reports, v, c)'
  BY <1>1 DEF OInv, Faithful, Holds, DeadNews
<1>8. GoodNews(o, orders, reports, v, c)' /\ BadNews(o, reports)'
  BY <1>1, <1>2, <1>3 DEF OInv, GoodNews, BadNews, First
<1>9. GivenUp(o, orders, reports, v)' /\ NextNews(o, orders, reports, v, c)'
  BY <1>1, <1>4 DEF OInv, GivenUp, NextNews
<1>10. Settled(o, v, c)' /\ Waiting(o, orders)' /\ StepView(v, c)'
  BY <1>1 DEF OInv, Settled, Waiting, StepView
<1>11. StopOrdered(o, orders, reports, v, c)' /\ StopEntered(o, orders, reports, v, c)'
  BY <1>1, <1>5, <1>6 DEF OInv, StopOrdered, StopEntered
<1>12. StopCopied(o, orders, reports, v, c)' /\ StopTold(o, orders, reports, v, c)'
  BY <1>1, <1>6 DEF OInv, StopCopied, StopTold
<1>13. QED
  BY <1>7, <1>8, <1>9, <1>10, <1>11, <1>12 DEF OInv

\* EXEC confirms a change and reports it from its copy
LEMMA Confirms ==
  ASSUME NEW o \in Objects, NEW v, NEW c, OInv(o, orders, reports, v, c), Alive(o),
         reports \in Seq(Report), UNCHANGED <<orders, pc, victim>>,
         proc[o].next = proc[o].cur, proc'[o].cur = proc[o].cur, proc'[o].next = proc[o].cur, proc'[o].prog = 0,
         o \in todo, o \notin todo', Ackable(snap[o]), snap[o].cur # "STEP",
         proc[o].cur \in {snap[o].cur, "ABNSTOP"},
         reports' = Append(reports, [obj |-> o, ok |-> TRUE, st |-> snap[o].cur])
  PROVE  OInv(o, orders, reports, v, c)'
<1> USE DEF Stopped
<1> PICK n \in Nat : n = Len(reports) + 1
  OBVIOUS
<1>0. proc'[o].cur = proc[o].cur /\ proc'[o].next = proc[o].cur /\ proc'[o].prog = 0
      /\ proc[o].next = proc[o].cur /\ proc[o].cur \in {snap[o].cur, "ABNSTOP"}
      /\ (Alive(o)' <=> Alive(o))
  BY DEF Alive
<1>1. ~Pending(o)' /\ (Pending(o) <=> snap[o].cur \notin Stopped)
  BY DEF Pending
<1>2. /\ Len(reports) \in Nat /\ Len(reports') = n
      /\ \A i \in 1..Len(reports) : reports'[i] = reports[i]
      /\ reports'[n].obj = o /\ reports'[n].ok /\ reports'[n].st = snap[o].cur
      /\ \A i \in 1..n : i = n \/ i \in 1..Len(reports)
  OBVIOUS
<1>3. UNCHANGED <<OnlyStops(o, orders), Leaving(o), Stops(o), Holds(o, orders, v)>>
  BY <1>0 DEF OnlyStops, Leaving, Stops, Holds
<1>4. \A i \in 1..Len(reports) : First(reports, i) => First(reports, i)'
  BY <1>2 DEF First
<1>5. Faithful(o, orders, v, c)' /\ DeadNews(o, reports, v, c)'
  BY <1>0, <1>3 DEF OInv, Faithful, DeadNews
<1>6. NextNews(o, orders, reports, v, c)' /\ StopCopied(o, orders, reports, v, c)' /\ StepView(v, c)'
  BY <1>1 DEF OInv, NextNews, StopCopied, StepView
<1>7. CASE snap[o].cur \notin Stopped
  <2>1. /\ \A i \in 1..Len(reports) : reports[i].obj # o
        /\ v \notin Stopped /\ (c \notin Stopped => v # c)
        /\ OnlyStops(o, orders)
    BY <1>1, <1>7 DEF OInv, NextNews
  <2>2. Over(o, orders, reports, v, c) => c \in Stopped
    BY <1>1, <1>7 DEF Over, Hopeless
  <2>3. Sealed(o, orders, reports, v, c) => Sealed(o, orders, reports, v, c)'
    BY <1>0, <1>3, <2>2 DEF Sealed, Over
  <2>4. \A i \in 1..n : reports'[i].obj = o => i = n
    BY <1>2, <2>1
  <2>5. GoodNews(o, orders, reports, v, c)'
    <3>1. First(reports, n)'
      BY <1>2, <2>1 DEF First
    <3>2. {proc[o].cur, proc[o].next} \subseteq Stopped \cup {snap[o].cur}
      BY <1>0
    <3>3. (proc[o].cur \in Stopped \/ Calm(o, orders))'
      BY <1>0, <1>3, <2>1 DEF Calm
    <3>4. \A i \in 1..Len(reports') : (reports[i].obj = o)' => i = n
      BY <1>2, <2>4
    <3>5. (/\ First(reports, n) /\ v \notin Stopped /\ (c \notin Stopped => v # c)
           /\ {proc[o].cur, proc[o].next} \subseteq Stopped \cup {reports[n].st}
           /\ OnlyStops(o, orders) /\ ~Pending(o)
           /\ proc[o].cur \in Stopped \/ Calm(o, orders))'
      BY <1>0, <1>1, <1>2, <1>3, <2>1, <3>1, <3>2, <3>3
    <3>6. QED
      BY <3>4, <3>5 DEF GoodNews
  <2>6. BadNews(o, reports)'
    BY <1>2, <1>7, <2>4 DEF BadNews
  <2>7. GivenUp(o, orders, reports, v)' /\ Settled(o, v, c)'
    BY <2>1 DEF GivenUp, Settled
  <2>8. Waiting(o, orders)'
    BY <1>3, <2>1 DEF Waiting, OnlyStops
  <2>9. StopOrdered(o, orders, reports, v, c)' /\ StopEntered(o, orders, reports, v, c)'
    BY <1>0, <1>3, <2>2, <2>3 DEF OInv, StopOrdered, StopEntered, Over
  <2>10. StopTold(o, orders, reports, v, c)'
    BY <1>2, <1>7, <2>4 DEF StopTold
  <2>11. QED
    BY <1>5, <1>6, <2>5, <2>6, <2>7, <2>8, <2>9, <2>10 DEF OInv
<1>8. CASE snap[o].cur \in Stopped
  <2>1. proc[o].cur \in Stopped /\ Leaving(o)' /\ ~Pending(o)
    BY <1>0, <1>1, <1>8 DEF Leaving
  <2>2. NoNews(o, reports) => NoNews(o, reports)'
    BY <1>2, <1>8 DEF NoNews
  <2>3. Hopeless(o, orders, reports) => Hopeless(o, orders, reports)'
    BY <1>1, <2>1, <2>2 DEF Hopeless
  <2>4. Over(o, orders, reports, v, c) => Over(o, orders, reports, v, c)'
    BY <2>3 DEF Over
  <2>5. Sealed(o, orders, reports, v, c) => Sealed(o, orders, reports, v, c)'
    BY <1>0, <1>3, <2>4 DEF Sealed
  <2>6. GoodNews(o, orders, reports, v, c)'
    <3> SUFFICES ASSUME NEW i \in 1..Len(reports'), reports'[i].obj = o, reports'[i].ok, reports'[i].st \notin Stopped
                 PROVE  /\ First(reports, i)' /\ v \notin Stopped /\ (c \notin Stopped => v # c)
                        /\ ({proc[o].cur, proc[o].next} \subseteq Stopped \cup {reports[i].st})'
                        /\ OnlyStops(o, orders)' /\ ~Pending(o)' /\ proc'[o].cur \in Stopped
      BY <1>0 DEF GoodNews
    <3>1. i \in 1..Len(reports) /\ reports'[i] = reports[i]
      BY <1>2, <1>8
    <3>2. /\ First(reports, i) /\ v \notin Stopped /\ (c \notin Stopped => v # c)
          /\ OnlyStops(o, orders)
      BY <3>1 DEF OInv, GoodNews
    <3>3. QED
      BY <1>0, <1>1, <1>3, <1>4, <2>1, <3>1, <3>2
  <2>7. BadNews(o, reports)' /\ Settled(o, v, c)' /\ Waiting(o, orders)'
    BY <1>0, <2>1 DEF BadNews, Settled, Waiting
  <2>8. GivenUp(o, orders, reports, v)'
    BY <1>0, <2>3 DEF OInv, GivenUp
  <2>9. StopOrdered(o, orders, reports, v, c)' /\ StopEntered(o, orders, reports, v, c)'
    BY <1>0, <1>3, <2>4, <2>5 DEF OInv, StopOrdered, StopEntered
  <2>10. StopTold(o, orders, reports, v, c)'
    <3>1. snap[o].cur = "STOP" => Sealed(o, orders, reports, v, c)
      BY DEF OInv, StopCopied
    <3> SUFFICES ASSUME NEW i \in 1..Len(reports'), reports'[i].obj = o, reports'[i].ok, reports'[i].st = "STOP"
                 PROVE  proc'[o].cur \in Stopped /\ Sealed(o, orders, reports, v, c)'
      BY DEF StopTold
    <3>2. CASE i = n
      BY <1>0, <1>2, <2>1, <2>5, <3>1, <3>2
    <3>3. CASE i \in 1..Len(reports)
      BY <1>0, <1>2, <2>5, <3>3 DEF OInv, StopTold
    <3>4. QED
      BY <1>2, <3>2, <3>3
  <2>11. QED
    BY <1>5, <1>6, <2>6, <2>7, <2>8, <2>9, <2>10 DEF OInv
<1>9. QED
  BY <1>7, <1>8

\* SWLOAD launches an object SWMAN has never heard of
LEMMA Created ==
  ASSUME NEW o \in Objects, NEW c, c # None,
         proc'[o].cur = None, proc'[o].next = "STARTED", o \notin todo', o \notin victim',
         \A i \in 1..Len(orders') : orders'[i].obj # o, \A i \in 1..Len(reports') : reports'[i].obj # o
  PROVE  OInv(o, orders, reports, None, c)'
  BY DEF OInv, Faithful, Holds, DeadNews, GoodNews, BadNews, GivenUp, NextNews, Pending, Settled, Waiting,
         StopOrdered, StopEntered, Stops, StopCopied, StopTold, StepView, None, Stopped

-----------------------------------------------------------------------------
(***************************************************************************)
(* SWMAN takes a report and sends orders. The database stays as it is.     *)
(***************************************************************************)
\* what is left of the reports
LEMMA Rest ==
  ASSUME NEW o, NEW R \in Seq(Report), R # <<>>, NEW R2, R2 = Tail(R)
  PROVE  /\ Len(R) \in Nat /\ Len(R2) = Len(R) - 1 /\ 1 \in 1..Len(R)
         /\ \A i \in 1..Len(R2) : i + 1 \in 1..Len(R) /\ R2[i] = R[i + 1]
         /\ \A i \in 1..Len(R2) : First(R, i + 1) => First(R2, i)
         /\ \A i \in 1..Len(R2) : R2[i].obj = R[1].obj => ~First(R, i + 1)
         /\ NoNews(o, R) => NoNews(o, R2)
<1>1. /\ Len(R) \in Nat /\ Len(R2) = Len(R) - 1 /\ 1 \in 1..Len(R)
      /\ \A i \in 1..Len(R2) : i + 1 \in 1..Len(R) /\ R2[i] = R[i + 1]
  OBVIOUS
<1>2. ASSUME NEW i \in 1..Len(R2), First(R, i + 1)
      PROVE  First(R2, i) /\ R[1].obj # R2[i].obj
  <2>1. /\ R2[i] = R[i + 1]
        /\ \A j \in 1..(i + 1) - 1 : R[j].obj # R[i + 1].obj
    BY <1>1, <1>2 DEF First
  <2>2. 1 \in 1..(i + 1) - 1
    BY <1>1
  <2>3. \A j \in 1..i - 1 : j + 1 \in 1..(i + 1) - 1 /\ j \in 1..Len(R2)
    BY <1>1
  <2>4. \A j \in 1..i - 1 : R2[j] = R[j + 1]
    BY <1>1, <2>3
  <2>5. QED
    BY <2>1, <2>2, <2>3, <2>4 DEF First
<1>3. NoNews(o, R) => NoNews(o, R2)
  BY <1>1 DEF NoNews
<1>4. QED
  BY <1>1, <1>2, <1>3

\* SWMAN takes a report of another object
LEMMA TakeOther ==
  ASSUME NEW o \in Objects, NEW O, NEW R \in Seq(Report), NEW v, NEW c, OInv(o, O, R, v, c),
         R # <<>>, R[1].obj # o, NEW R2, R2 = Tail(R)
  PROVE  OInv(o, O, R2, v, c)
<1>1. /\ Len(R) \in Nat /\ Len(R2) = Len(R) - 1 /\ 1 \in 1..Len(R)
      /\ \A i \in 1..Len(R2) : i + 1 \in 1..Len(R) /\ R2[i] = R[i + 1]
  BY Rest
<1>1a. \A i \in 1..Len(R2) : First(R, i + 1) => First(R2, i)
  BY Rest
<1>1b. NoNews(o, R) => NoNews(o, R2)
  BY Rest
<1>2. Over(o, O, R, v, c) => Over(o, O, R2, v, c)
  BY <1>1, <1>1a, <1>1b DEF Over, Hopeless
<1>3. Sealed(o, O, R, v, c) => Sealed(o, O, R2, v, c)
  BY <1>2 DEF Sealed
<1>4. DeadNews(o, R2, v, c)
  BY <1>1, <1>1a, <1>1b DEF OInv, DeadNews
<1>5. GoodNews(o, O, R2, v, c)
  BY <1>1, <1>1a, <1>1b DEF OInv, GoodNews
<1>6. BadNews(o, R2) /\ GivenUp(o, O, R2, v)
  BY <1>1, <1>1a, <1>1b DEF OInv, BadNews, GivenUp, Hopeless
<1>7. NextNews(o, O, R2, v, c)
  BY <1>1, <1>1a, <1>1b DEF OInv, NextNews
<1>8. StopOrdered(o, O, R2, v, c)
  BY <1>2 DEF OInv, StopOrdered
<1>9. StopEntered(o, O, R2, v, c) /\ StopCopied(o, O, R2, v, c)
  BY <1>3 DEF OInv, StopEntered, StopCopied
<1>10. StopTold(o, O, R2, v, c)
  BY <1>1, <1>1a, <1>1b, <1>3 DEF OInv, StopTold
<1>11. QED
  BY <1>4, <1>5, <1>6, <1>7, <1>8, <1>9, <1>10 DEF OInv

\* SWMAN takes a report of o: one it expected, or one that aborts the waveform
LEMMA TakeOwn ==
  ASSUME NEW o \in Objects, NEW O, NEW R \in Seq(Report), NEW v, NEW c, OInv(o, O, R, v, c),
         NoStep(R), R # <<>>, R[1].obj = o, NEW R2, R2 = Tail(R), NEW v2, NEW c2,
         \/ R[1].ok /\ (R[1].st = c \/ c = "ABNSTOP") /\ v2 = R[1].st /\ c2 = c
         \/ v2 = "ABNSTOP" /\ c2 = "ABNSTOP"
  PROVE  OInv(o, O, R2, v2, c2)
<1> USE DEF Stopped
<1> DEFINE r == R[1]
<1>1. /\ Len(R) \in Nat /\ Len(R2) = Len(R) - 1 /\ 1 \in 1..Len(R)
      /\ \A i \in 1..Len(R2) : i + 1 \in 1..Len(R) /\ R2[i] = R[i + 1]
  BY Rest
<1>1a. \A i \in 1..Len(R2) : R2[i].obj = R[1].obj => ~First(R, i + 1)
  BY Rest
<1>2. r.obj = o /\ (r.ok => r.st # "STEP")
      /\ (\/ r.ok /\ (r.st = c \/ c = "ABNSTOP") /\ v2 = r.st /\ c2 = c
          \/ v2 = "ABNSTOP" /\ c2 = "ABNSTOP")
  BY <1>1 DEF NoStep
<1> HIDE DEF r
<1>3. NoNews(o, R) => ~(r.ok /\ r.st \notin Stopped)
  BY <1>1, <1>2 DEF NoNews, r
<1>4. Alive(o) => NoNews(o, R2)
  BY <1>1, <1>1a DEF OInv, GoodNews, NoNews
<1>5. Alive(o) => ~Pending(o) /\ (Leaving(o) \/ Calm(o, O))
  BY <1>1, <1>2 DEF OInv, NextNews, GoodNews, BadNews, Leaving, r
<1>6. Over(o, O, R, v, c) => c2 \in Stopped
  BY <1>2, <1>3 DEF Over, Hopeless
<1>7. Over(o, O, R, v, c) => Over(o, O, R2, v2, c2)
  BY <1>6 DEF Over
<1>8. Sealed(o, O, R, v, c) => Sealed(o, O, R2, v2, c2)
  BY <1>7 DEF Sealed
<1>9. r.ok /\ v2 = r.st /\ r.st \in {c2, "STOP"} /\ r.st # "ABNSTOP" => Holds(o, O, r.st)
  <2> SUFFICES ASSUME r.ok, v2 = r.st, r.st \in {c2, "STOP"}, r.st # "ABNSTOP" PROVE Holds(o, O, r.st)
    OBVIOUS
  <2>1. CASE ~Alive(o)
    <3>1. \/ proc[o].cur \in {r.st, "ABNSTOP"}
          \/ r.st \notin Stopped /\ c \in Stopped
      BY <1>1, <1>2, <2>1 DEF OInv, DeadNews, r
    <3>2. r.st \notin Stopped => c \notin Stopped
      BY <1>2
    <3>3. QED
      BY <2>1, <3>1, <3>2 DEF Holds
  <2>2. CASE Alive(o) /\ r.st = "STOP"
    <3>1. proc[o].cur \in Stopped /\ proc[o].next \in Stopped /\ OnlyStops(o, O)
      BY <1>1, <1>2, <2>2 DEF OInv, StopTold, Sealed, r
    <3>2. QED
      BY <2>2, <3>1 DEF Holds, OnlyStops
  <2>3. CASE Alive(o) /\ r.st # "STOP"
    <3>1. ~Over(o, O, R, v, c)
      BY <1>2, <1>6, <2>3
    <3>2. {proc[o].cur, proc[o].next} \subseteq Stopped \cup {r.st} /\ OnlyStops(o, O)
      BY <1>1, <1>2, <2>3 DEF OInv, GoodNews, r
    <3>3. "STOP" \notin {proc[o].cur, proc[o].next}
      BY <2>3, <3>1 DEF OInv, StopEntered, Stops, Sealed
    <3>4. \A i \in 1..Len(O) : O[i].obj # o
      BY <2>3, <3>1, <3>2 DEF OInv, StopOrdered, OnlyStops
    <3>5. QED
      BY <3>2, <3>3, <3>4 DEF Holds
  <2>4. QED
    BY <2>1, <2>2, <2>3
<1>10. Faithful(o, O, v2, c2)
  BY <1>2, <1>9 DEF Faithful
<1>11. DeadNews(o, R2, v2, c2)
  BY <1>1, <1>1a DEF OInv, DeadNews
<1>12. GoodNews(o, O, R2, v2, c2)
  BY <1>4 DEF GoodNews, NoNews
<1>13. BadNews(o, R2)
  BY <1>1 DEF OInv, BadNews
<1>14. GivenUp(o, O, R2, v2) /\ NextNews(o, O, R2, v2, c2)
  BY <1>4, <1>5 DEF GivenUp, Hopeless, NextNews
<1>15. Settled(o, v2, c2)
  <2> SUFFICES ASSUME Alive(o), v2 = c2, c2 \notin Stopped, proc[o].cur \notin Stopped
               PROVE  proc[o].next = "ABNSTOP" \/ (proc[o].next = proc[o].cur /\ proc[o].prog # 2)
    BY DEF Settled
  <2>1. Holds(o, O, r.st) /\ r.ok /\ r.st \notin Stopped
    BY <1>2, <1>9
  <2>2. Calm(o, O)
    BY <1>1, <1>2, <2>1 DEF OInv, GoodNews, r
  <2>3. QED
    BY <2>1, <2>2 DEF Holds, Calm
<1>16. StopOrdered(o, O, R2, v2, c2)
  BY <1>7 DEF OInv, StopOrdered
<1>17. StopEntered(o, O, R2, v2, c2) /\ StopCopied(o, O, R2, v2, c2)
  BY <1>8 DEF OInv, StopEntered, StopCopied
<1>18. StopTold(o, O, R2, v2, c2)
  BY <1>1, <1>8 DEF OInv, StopTold
<1>19. StepView(v2, c2)
  BY <1>2 DEF StepView
<1>20. QED
  BY <1>10, <1>11, <1>12, <1>13, <1>14, <1>15, <1>16, <1>17, <1>18, <1>19 DEF OInv

\* the queue with what was sent behind it
Behind(O, b, O2) ==
  /\ Len(O) \in Nat /\ Len(b) \in Nat /\ Len(O2) = Len(O) + Len(b)
  /\ \A i \in 1..Len(O) : O2[i] = O[i]
  /\ \A i \in 1..Len(O2) : i > Len(O) => i - Len(O) \in 1..Len(b) /\ O2[i] = b[i - Len(O)]

\* what is sent is behind what was sent before
LEMMA SentBehind ==
  ASSUME NEW O \in Seq(Order), NEW b \in Seq(Order)
  PROVE  O \o b \in Seq(Order) /\ Behind(O, b, O \o b)
<1>1. Len(O) \in Nat /\ Len(b) \in Nat /\ Len(O \o b) = Len(O) + Len(b) /\ O \o b \in Seq(Order)
  OBVIOUS
<1>2. \A i \in 1..Len(O) : (O \o b)[i] = O[i]
  OBVIOUS
<1>3. \A i \in 1..Len(O) + Len(b) : i > Len(O) => i - Len(O) \in 1..Len(b) /\ (O \o b)[i] = b[i - Len(O)]
  BY <1>1
<1>4. QED
  BY <1>1, <1>2, <1>3 DEF Behind

\* the waveform is to stop, and what SWMAN sends are stops
LEMMA SendStop ==
  ASSUME NEW o \in Objects, NEW O, NEW R, NEW v, NEW c, OInv(o, O, R, v, c), NEW c2 \in Stopped,
         NEW b, NEW O2, Behind(O, b, O2),
         \A k \in 1..Len(b) : b[k].obj = o => b[k].st \in Stopped /\ (v = "STOP" => b[k].st = "ABNSTOP")
  PROVE  OInv(o, O2, R, v, c2)
<1> USE DEF Stopped
<1>1. /\ Len(O) \in Nat /\ \A i \in 1..Len(O) : i \in 1..Len(O2) /\ O2[i] = O[i]
      /\ \A i \in 1..Len(O2) : i \in 1..Len(O) \/ (i > Len(O) /\ \E k \in 1..Len(b) : O2[i] = b[k])
  BY DEF Behind
<1>2. \A i \in 1..Len(O2) : i \in 1..Len(O) \/
        (O2[i].obj = o => O2[i].st \in Stopped /\ (v = "STOP" => O2[i].st = "ABNSTOP"))
  BY <1>1
<1>3. OnlyStops(o, O) => OnlyStops(o, O2)
  BY <1>1, <1>2 DEF OnlyStops
<1>4. Calm(o, O) => Calm(o, O2)
  BY <1>3 DEF Calm
<1>5. Hopeless(o, O, R) => Hopeless(o, O2, R)
  BY <1>4 DEF Hopeless
<1>6. Over(o, O2, R, v, c2)
  BY DEF Over
<1>7. Sealed(o, O, R, v, c) => Sealed(o, O2, R, v, c2)
  BY <1>3, <1>6 DEF Sealed
<1>8. Faithful(o, O2, v, c2)
  <2> SUFFICES ASSUME v = "STOP" PROVE Holds(o, O2, v)
    BY DEF Faithful
  <2>1. Holds(o, O, "STOP")
    BY DEF OInv, Faithful
  <2>2. QED
    BY <1>1, <1>2, <2>1 DEF Holds
<1>9. DeadNews(o, R, v, c2)
  BY DEF OInv, DeadNews
<1>10. GoodNews(o, O2, R, v, c2)
  BY <1>3, <1>4 DEF OInv, GoodNews
<1>11. BadNews(o, R) /\ GivenUp(o, O2, R, v)
  BY <1>5 DEF OInv, GivenUp
<1>12. NextNews(o, O2, R, v, c2)
  BY <1>3 DEF OInv, NextNews
<1>13. Settled(o, v, c2) /\ StepView(v, c2)
  BY DEF Settled, StepView
<1>14. Waiting(o, O2)
  <2> SUFFICES ASSUME Alive(o), proc[o].cur \notin Stopped,
                      NEW i \in 1..Len(O2), O2[i].obj = o, O2[i].st \notin Stopped
               PROVE  /\ proc[o].cur # "STEP"
                      /\ proc[o].next \in Stopped \/ (proc[o].next = proc[o].cur /\ proc[o].prog # 2)
                      /\ \A j \in 1..i - 1 : O2[j].obj = o /\ O2[j].st \notin Stopped => O2[j].st = proc[o].cur
    BY DEF Waiting
  <2>1. i \in 1..Len(O) /\ O2[i] = O[i]
    BY <1>1, <1>2
  <2>2. \A j \in 1..i - 1 : O2[j] = O[j]
    BY <1>1, <2>1
  <2>3. QED
    BY <2>1, <2>2 DEF OInv, Waiting
<1>15. StopOrdered(o, O2, R, v, c2)
  <2> SUFFICES ASSUME Alive(o), NEW i \in 1..Len(O2), O2[i].obj = o, O2[i].st \in Stopped,
                      NEW j \in i..Len(O2), O2[j].obj = o, O2[j].st \notin Stopped
               PROVE  FALSE
    BY <1>6 DEF StopOrdered
  <2>1. j \in 1..Len(O) /\ O2[j] = O[j]
    BY <1>1, <1>2, j \in 1..Len(O2)
  <2>2. i \in 1..Len(O) /\ O2[i] = O[i] /\ j \in i..Len(O)
    BY <1>1, <2>1
  <2>3. QED
    BY <2>1, <2>2 DEF OInv, StopOrdered
<1>16. StopEntered(o, O2, R, v, c2) /\ StopCopied(o, O2, R, v, c2)
  BY <1>7 DEF OInv, StopEntered, StopCopied
<1>17. StopTold(o, O2, R, v, c2)
  BY <1>7 DEF OInv, StopTold
<1>18. QED
  BY <1>8, <1>9, <1>10, <1>11, <1>12, <1>13, <1>14, <1>15, <1>16, <1>17 DEF OInv

\* all objects have the status of the waveform as far as SWMAN knows, and it orders another one
LEMMA SendOn ==
  ASSUME NEW o \in Objects, NEW O, NEW R, NEW v, NEW c, OInv(o, O, R, v, c), v = c, NEW c2, c2 \notin Stopped,
         NEW v2, v2 = v \/ (v2 = "STEP" /\ c2 = "PAUSE"),
         NEW b, NEW O2, Behind(O, b, O2),
         \A k \in 1..Len(b) : b[k].obj = o =>
           /\ v \notin Stopped
           /\ b[k].st = IF v2 = "STEP" THEN "STEP" ELSE c2
           /\ \A l \in 1..Len(b) : b[l].obj = o => l = k
  PROVE  OInv(o, O2, R, v2, c2)
<1> USE DEF Stopped
<1>1. /\ Len(O) \in Nat /\ \A i \in 1..Len(O) : i \in 1..Len(O2) /\ O2[i] = O[i]
      /\ \A i \in 1..Len(O2) : i \in 1..Len(O) \/ (i > Len(O) /\ i - Len(O) \in 1..Len(b) /\ O2[i] = b[i - Len(O)])
  BY DEF Behind
<1>2. v # "STEP"
  BY DEF OInv, StepView
<1>3. \A i \in 1..Len(O2) : O2[i].obj = o /\ i \notin 1..Len(O) =>
        v \notin Stopped /\ O2[i].st \notin Stopped /\ (v2 = v => O2[i].st = c2)
  BY <1>1, <1>2
<1>4. v \in Stopped /\ OnlyStops(o, O) => OnlyStops(o, O2)
  BY <1>1, <1>3 DEF OnlyStops
<1>5. Alive(o) /\ v \in Stopped => Hopeless(o, O2, R)
  BY <1>4 DEF OInv, GivenUp, Hopeless, Calm
<1>6. Over(o, O, R, v, c) => v \in Stopped
  BY DEF Over
<1>7. Alive(o) /\ Over(o, O, R, v, c) => Over(o, O2, R, v2, c2)
  BY <1>5, <1>6 DEF Over
<1>8. Alive(o) /\ Sealed(o, O, R, v, c) => Sealed(o, O2, R, v2, c2)
  BY <1>4, <1>6, <1>7 DEF Sealed
<1>9. Faithful(o, O2, v2, c2)
  <2> SUFFICES ASSUME v2 \in {c2, "STOP"}, v2 # "ABNSTOP" PROVE Holds(o, O2, v2)
    BY DEF Faithful
  <2>1. v2 = v /\ Holds(o, O, v)
    BY DEF OInv, Faithful
  <2>2. \A i \in 1..Len(O2) : O2[i].obj = o /\ i \notin 1..Len(O) => O2[i].st = v
    BY <1>3, <2>1
  <2>3. QED
    BY <1>1, <2>1, <2>2 DEF Holds
<1>10. DeadNews(o, R, v2, c2)
  BY DEF OInv, DeadNews
<1>11. GoodNews(o, O2, R, v2, c2)
  BY DEF OInv, GoodNews
<1>12. BadNews(o, R) /\ GivenUp(o, O2, R, v2)
  BY <1>5 DEF OInv, GivenUp
<1>13. NextNews(o, O2, R, v2, c2)
  BY DEF OInv, NextNews
<1>14. Settled(o, v2, c2) /\ StepView(v2, c2)
  BY <1>2 DEF OInv, Settled, StepView
<1>15. Waiting(o, O2)
  <2> SUFFICES ASSUME Alive(o), proc[o].cur \notin Stopped,
                      NEW i \in 1..Len(O2), O2[i].obj = o, O2[i].st \notin Stopped
               PROVE  /\ proc[o].cur # "STEP"
                      /\ proc[o].next \in Stopped \/ (proc[o].next = proc[o].cur /\ proc[o].prog # 2)
                      /\ \A j \in 1..i - 1 : O2[j].obj = o /\ O2[j].st \notin Stopped => O2[j].st = proc[o].cur
    BY DEF Waiting
  <2>1. CASE i \in 1..Len(O)
    <3>1. O2[i] = O[i] /\ \A j \in 1..i - 1 : O2[j] = O[j]
      BY <1>1, <2>1
    <3>2. QED
      BY <2>1, <3>1 DEF OInv, Waiting
  <2>2. CASE i \notin 1..Len(O)
    <3>1. v \notin Stopped /\ i > Len(O) /\ i - Len(O) \in 1..Len(b) /\ O2[i] = b[i - Len(O)]
      BY <1>1, <1>3, <2>2
    <3>2. Holds(o, O, v) /\ proc[o].cur = v
      BY <3>1 DEF OInv, Faithful, Holds
    <3>3. proc[o].next = "ABNSTOP" \/ (proc[o].next = proc[o].cur /\ proc[o].prog # 2)
      BY <3>1 DEF OInv, Settled
    <3>4. ASSUME NEW j \in 1..i - 1, O2[j].obj = o, O2[j].st \notin Stopped PROVE O2[j].st = proc[o].cur
      <4>1. CASE j \in 1..Len(O)
        BY <1>1, <3>2, <3>4, <4>1 DEF Holds
      <4>2. CASE j \notin 1..Len(O)
        <5>1. j \in 1..Len(O2)
          BY <1>1, <3>1
        <5>2. j - Len(O) \in 1..Len(b) /\ O2[j] = b[j - Len(O)]
          BY <1>1, <4>2, <5>1
        <5>3. j - Len(O) = i - Len(O)
          BY <3>1, <3>4, <5>2
        <5>4. QED
          BY <1>1, <5>3
      <4>3. QED
        BY <4>1, <4>2
    <3>5. QED
      BY <1>2, <3>2, <3>3, <3>4
  <2>3. QED
    BY <2>1, <2>2
<1>16. StopOrdered(o, O2, R, v2, c2)
  <2> SUFFICES ASSUME Alive(o), NEW i \in 1..Len(O2), O2[i].obj = o, O2[i].st \in Stopped
               PROVE  /\ Over(o, O2, R, v2, c2)
                      /\ \A j \in i..Len(O2) : O2[j].obj = o => O2[j].st \in Stopped
    BY DEF StopOrdered
  <2>1. i \in 1..Len(O) /\ O2[i] = O[i]
    BY <1>1, <1>3
  <2>2. Over(o, O, R, v, c) /\ \A j \in i..Len(O) : O[j].obj = o => O[j].st \in Stopped
    BY <2>1 DEF OInv, StopOrdered
  <2>3. ASSUME NEW j \in i..Len(O2), O2[j].obj = o PROVE O2[j].st \in Stopped
    <3>1. j \in 1..Len(O2)
      BY <2>1
    <3>2. j \in i..Len(O) /\ O2[j] = O[j]
      BY <1>1, <1>3, <1>6, <2>2, <2>3, <3>1
    <3>3. QED
      BY <2>2, <2>3, <3>2
  <2>4. QED
    BY <1>7, <2>2, <2>3
<1>17. StopEntered(o, O2, R, v2, c2) /\ StopCopied(o, O2, R, v2, c2)
  BY <1>8 DEF OInv, StopEntered, StopCopied
<1>18. StopTold(o, O2, R, v2, c2)
  BY <1>8 DEF OInv, StopTold
<1>19. QED
  BY <1>9, <1>10, <1>11, <1>12, <1>13, <1>14, <1>15, <1>16, <1>17, <1>18 DEF OInv

-----------------------------------------------------------------------------
(***************************************************************************)
(* What a step of an object's process is to the others.                    *)
(***************************************************************************)
\* hwapi_proc_status_get does nothing, tells of a change, or makes it
LEMMA GetTurns ==
  ASSUME NEW p \in Entry
  PROVE  LET q == status_get(p) IN
         /\ q.next = p.next
         /\ \/ q.cur = p.cur /\ q.prog = p.prog
            \/ p.next # p.cur /\ q.cur = p.cur /\ q.prog = 2
            \/ p.next # p.cur /\ p.prog = 2 /\ q.cur = p.next /\ q.prog = 2
  BY DEF Entry, status_get, Changing, Due

\* in ClosePHAL the change to ABNSTOP takes its two turns
Aborting(o) ==
  /\ pc[o] = "abort2" => proc[o].next = "ABNSTOP" /\ proc[o].prog = 1
  /\ pc[o] = "abort3" => /\ proc[o].next = "ABNSTOP"
                         /\ proc[o].prog = 1 \/ (proc[o].prog = 2 /\ proc[o].cur # "ABNSTOP")

Own(o) ==
  /\ \A other \in Objects \ {o} : proc'[other] = proc[other] /\ pc'[other] = pc[other]
  /\ proc'[o].known = proc[o].known
  /\ UNCHANGED <<orders, reports, execVars>>
  /\ Alive(o)' => /\ Alive(o) /\ proc'[o].pid = proc[o].pid
                  /\ pc[o] \in Late => pc'[o] \in Late
                  /\ Turn(o)
  /\ Alive(o) /\ ~Alive(o)' => proc'[o].cur \in {proc[o].cur, proc[o].next}
  /\ ~Alive(o) => proc'[o].cur = proc[o].cur

\* every step of an object is one of those Own lists
LEMMA ObjectOwn ==
  ASSUME TypeOK, SteppingInv, NEW o \in Objects, Aborting(o), Object(o)
  PROVE  Own(o) /\ Aborting(o)'
<1> DEFINE p == proc[o]
           g == status_get(p)
<1>1. p \in Entry /\ SteppingAt(o) /\ pc \in [Objects -> ObjPc] /\ proc \in [Objects -> Entry]
  BY DEF TypeOK, SteppingInv
<1>2. ASSUME NEW q, Upd(o, q)
      PROVE  proc'[o] = q /\ \A other \in Objects \ {o} : proc'[other] = proc[other]
  BY <1>1, <1>2 DEF Upd
<1>3. ASSUME NEW l, Goto(o, l)
      PROVE  pc'[o] = l /\ \A other \in Objects \ {o} : pc'[other] = pc[other]
  BY <1>1, <1>3 DEF Goto
<1>4. /\ g.known = p.known /\ g.pid = p.pid /\ g.next = p.next /\ g.cur \in {p.cur, p.next}
      /\ \/ g.cur = p.cur /\ g.prog = p.prog
         \/ p.next # p.cur /\ g.cur = p.cur /\ g.prog = 2
         \/ p.next # p.cur /\ p.prog = 2 /\ g.cur = p.next /\ g.prog = 2
  BY <1>1, GetTurns, StatusGet
<1>5. UNCHANGED <<orders, reports, execVars>>
  BY DEF Object, Boot, Status, Step, Work, Close, Die, Reap
<1> HIDE DEF g
<1>6. ASSUME NEW l, Upd(o, g), Goto(o, l), Alive(o), l \notin {"none", "zombie", "failed", "abort2", "abort3"},
             pc[o] \notin {"abort2", "wait"}, pc[o] \in Late => l \in Late
      PROVE  Own(o) /\ Aborting(o)'
  <2>1. /\ proc'[o] = g /\ \A other \in Objects \ {o} : proc'[other] = proc[other]
        /\ pc'[o] = l /\ \A other \in Objects \ {o} : pc'[other] = pc[other]
    BY <1>2, <1>3, <1>6
  <2>2. pc[o] \in Late => p.next = "ABNSTOP"
    BY <1>6 DEF Aborting, Late
  <2>3. Turn(o)
    BY <1>4, <2>1, <2>2 DEF Turn, Warned
  <2>4. Aborting(o)' /\ Alive(o)'
    BY <1>6, <2>1 DEF Aborting, Alive
  <2>5. QED
    BY <1>4, <1>5, <1>6, <2>1, <2>3, <2>4 DEF Own
<1>7. CASE Boot(o)
  <2> DEFINE p0 == [p EXCEPT !.due = 0]
             q == status_get(p0)
  <2>1. /\ p0 \in Entry /\ p0.cur = p.cur /\ p0.next = p.next /\ p0.prog = p.prog
        /\ p0.pid = p.pid /\ p0.known = p.known
    BY <1>1 DEF Entry
  <2>2. Upd(o, q) /\ Goto(o, "status") /\ pc[o] = "boot"
    BY <1>7 DEF Boot
  <2> HIDE DEF p0
  <2>3. /\ q.known = p.known /\ q.pid = p.pid /\ q.next = p.next
        /\ \/ q.cur = p.cur /\ q.prog = p.prog
           \/ p.next # p.cur /\ q.cur = p.cur /\ q.prog = 2
           \/ p.next # p.cur /\ p.prog = 2 /\ q.cur = p.next /\ q.prog = 2
    BY <2>1, GetTurns, StatusGet
  <2> HIDE DEF q
  <2>4. /\ proc'[o] = q /\ \A other \in Objects \ {o} : proc'[other] = proc[other]
        /\ pc'[o] = "status" /\ \A other \in Objects \ {o} : pc'[other] = pc[other]
    BY <1>2, <1>3, <2>2
  <2>5. Turn(o)
    BY <2>2, <2>3, <2>4 DEF Turn, Warned, Late
  <2>6. Aborting(o)' /\ Alive(o)' /\ Alive(o) /\ pc[o] \notin Late
    BY <2>2, <2>4 DEF Aborting, Alive, Late
  <2>7. QED
    BY <1>5, <2>3, <2>4, <2>5, <2>6 DEF Own
<1>8. CASE Status(o)
  <2>1. Upd(o, g) /\ pc[o] = "status" /\ \E l \in {"work", "close", "step1", "status"} : Goto(o, l)
    BY <1>8 DEF Status, g
  <2>2. QED
    BY <1>6, <2>1 DEF Alive, Late
<1>9. CASE Step(o) /\ pc[o] \in {"step1", "step4"}
  <2>1. Upd(o, g) /\ \E l \in {"step2", "work"} : Goto(o, l)
    BY <1>9 DEF Step, g
  <2>2. QED
    BY <1>6, <1>9, <2>1 DEF Alive, Late
<1>10. CASE Step(o) /\ pc[o] \in {"step2", "step3"}
  <2>1. PICK q \in {status_ack(p), status_new(p, "PAUSE", 0)}, l \in {"step3", "step4"} : Upd(o, q) /\ Goto(o, l)
    BY <1>10 DEF Step
  <2>2. p.cur = "STEP" /\ "PAUSE" \in Statuses
    BY <1>1, <1>10 DEF SteppingAt, Statuses
  <2>3. /\ q.cur = "STEP" /\ q.known = p.known /\ q.pid = p.pid
        /\ \/ q.next = p.next /\ q.prog = p.prog
           \/ p.next = "STEP" /\ q.next = "STEP" /\ q.prog = 0
           \/ p.next = "STEP" /\ q.next = "PAUSE" /\ q.prog = 1
    <3>1. CASE q = status_ack(p)
      BY <1>1, <2>2, <3>1 DEF Entry, status_ack, Ackable, Changing
    <3>2. CASE q = status_new(p, "PAUSE", 0)
      <4>1. CASE Idle(p)
        <5>1. q = Ordered(p, "PAUSE", 0)
          BY <3>2, <4>1 DEF status_new
        <5>2. p.next = "STEP"
          BY <2>2, <4>1 DEF Idle, Changing
        <5>3. QED
          BY <1>1, <2>2, <5>1, <5>2, Forced
      <4>2. CASE ~Idle(p)
        BY <2>2, <3>2, <4>2 DEF status_new
      <4>3. QED
        BY <4>1, <4>2
    <3>3. QED
      BY <2>1, <3>1, <3>2
  <2>4. /\ proc'[o] = q /\ \A other \in Objects \ {o} : proc'[other] = proc[other]
        /\ pc'[o] = l /\ \A other \in Objects \ {o} : pc'[other] = pc[other]
    BY <1>2, <1>3, <2>1
  <2>5. Turn(o)
    BY <2>2, <2>3, <2>4 DEF Turn
  <2>6. Aborting(o)' /\ Alive(o)' /\ Alive(o) /\ pc[o] \notin Late
    BY <1>10, <2>1, <2>4 DEF Aborting, Alive, Late
  <2>7. QED
    BY <1>5, <2>3, <2>4, <2>5, <2>6 DEF Own
<1>11. CASE Work(o)
  <2>1. PICK l \in {"status", "close"} : Goto(o, l)
    BY <1>11 DEF Work
  <2>2. /\ proc' = proc /\ pc[o] = "work"
        /\ pc'[o] = l /\ \A other \in Objects \ {o} : pc'[other] = pc[other]
    BY <1>3, <1>11, <2>1 DEF Work
  <2>3. Turn(o)
    BY <2>2 DEF Turn
  <2>4. Aborting(o)' /\ Alive(o)' /\ Alive(o) /\ pc[o] \notin Late
    BY <2>1, <2>2 DEF Aborting, Alive, Late
  <2>5. QED
    BY <1>5, <2>2, <2>3, <2>4 DEF Own
<1>12. CASE Close(o) /\ pc[o] = "close"
  <2>1. Upd(o, g) /\ \E l \in {"wait", "abort1"} : Goto(o, l)
    BY <1>12 DEF Close, g
  <2>2. QED
    BY <1>6, <1>12, <2>1 DEF Alive, Late
<1>13. CASE Close(o) /\ pc[o] = "abort1"
  <2>1. PICK due \in SinceBoot : Upd(o, Ordered(p, "ABNSTOP", due)) /\ Goto(o, "abort2")
    BY <1>13 DEF Close
  <2>2. due \in Int /\ "ABNSTOP" \in Statuses
    BY <2>1, ConstAssumption DEF SinceBoot, Statuses, Stopped
  <2> DEFINE q == Ordered(p, "ABNSTOP", due)
  <2>3. q.cur = p.cur /\ q.next = "ABNSTOP" /\ q.prog = 1 /\ q.known = p.known /\ q.pid = p.pid
    BY <1>1, <2>2, Forced
  <2> HIDE DEF q
  <2>4. /\ proc'[o] = q /\ \A other \in Objects \ {o} : proc'[other] = proc[other]
        /\ pc'[o] = "abort2" /\ \A other \in Objects \ {o} : pc'[other] = pc[other]
    BY <1>2, <1>3, <2>1 DEF q
  <2>5. Turn(o)
    BY <2>3, <2>4 DEF Turn, Late
  <2>6. Aborting(o)' /\ Alive(o)' /\ Alive(o) /\ pc[o] \notin Late
    BY <1>13, <2>3, <2>4 DEF Aborting, Alive, Late
  <2>7. QED
    BY <1>5, <2>3, <2>4, <2>5, <2>6 DEF Own
<1>14. CASE Close(o) /\ pc[o] = "abort2"
  <2>1. /\ proc'[o] = g /\ \A other \in Objects \ {o} : proc'[other] = proc[other]
        /\ pc'[o] = "abort3" /\ \A other \in Objects \ {o} : pc'[other] = pc[other]
    BY <1>2, <1>3, <1>14 DEF Close, g
  <2>2. p.next = "ABNSTOP" /\ p.prog = 1
    BY <1>14 DEF Aborting
  <2>3. Turn(o)
    BY <1>4, <2>1, <2>2 DEF Turn, Warned
  <2>4. Aborting(o)' /\ Alive(o)' /\ Alive(o) /\ pc'[o] \in Late
    BY <1>4, <1>14, <2>1, <2>2 DEF Aborting, Alive, Late
  <2>5. QED
    BY <1>4, <1>5, <2>1, <2>3, <2>4 DEF Own
<1>15. CASE Close(o) /\ pc[o] = "abort3"
  <2>1. Upd(o, g) /\ Goto(o, "wait")
    BY <1>15 DEF Close, g
  <2>2. QED
    BY <1>6, <1>15, <2>1 DEF Alive, Late
<1>16. CASE Close(o) /\ pc[o] = "wait"
  <2>1. Upd(o, status_new(p, "STOP", 0)) /\ Goto(o, "zombie")
    BY <1>16 DEF Close
  <2>2. "STOP" \in Statuses
    BY DEF Statuses, Stopped
  <2>3. status_new(p, "STOP", 0).cur = p.cur /\ status_new(p, "STOP", 0).known = p.known
    BY <1>1, <2>2, StatusNew
  <2>4. /\ proc'[o].cur = p.cur /\ proc'[o].known = p.known
        /\ \A other \in Objects \ {o} : proc'[other] = proc[other]
        /\ pc'[o] = "zombie" /\ \A other \in Objects \ {o} : pc'[other] = pc[other]
    BY <1>2, <1>3, <2>1, <2>3
  <2>5. QED
    BY <1>5, <2>4 DEF Own, Aborting, Alive
<1>17. CASE Die(o)
  <2>1. PICK q \in IF pc[o] = "boot" THEN {p} ELSE Terminated(p) : Upd(o, q)
    BY <1>17 DEF Die
  <2>2. q.cur \in {p.cur, p.next} /\ q.known = p.known
    BY <1>1, <2>1, TerminatedEntry
  <2>3. /\ proc'[o] = q /\ \A other \in Objects \ {o} : proc'[other] = proc[other]
        /\ pc'[o] = "zombie" /\ Alive(o) /\ \A other \in Objects \ {o} : pc'[other] = pc[other]
    BY <1>2, <1>3, <1>17, <2>1 DEF Die
  <2>4. QED
    BY <1>5, <2>2, <2>3 DEF Own, Aborting, Alive
<1>18. CASE Reap(o)
  <2>1. [p EXCEPT !.pid = FALSE].cur = p.cur /\ [p EXCEPT !.pid = FALSE].known = p.known
    BY <1>1 DEF Entry
  <2>2. /\ proc'[o] = [p EXCEPT !.pid = FALSE] /\ \A other \in Objects \ {o} : proc'[other] = proc[other]
        /\ pc'[o] = "none" /\ (\A other \in Objects \ {o} : pc'[other] = pc[other]) /\ pc[o] = "zombie"
    BY <1>2, <1>3, <1>18 DEF Reap
  <2>3. QED
    BY <1>5, <2>1, <2>2 DEF Own, Aborting, Alive
<1>19. Step(o) => pc[o] \in {"step1", "step2", "step3", "step4"}
  BY DEF Step
<1>20. Close(o) => pc[o] \in {"close", "abort1", "abort2", "abort3", "wait"}
  BY DEF Close
<1>21. QED
  BY <1>7, <1>8, <1>9, <1>10, <1>11, <1>12, <1>13, <1>14, <1>15, <1>16, <1>17, <1>18, <1>19, <1>20 DEF Object

\* EXEC and others act, whether o is alive or not
LEMMA Rests ==
  ASSUME NEW o \in Objects, NEW v, NEW c, OInv(o, orders, reports, v, c),
         orders \in Seq(Order), reports \in Seq(Report),
         proc'[o].cur = proc[o].cur, proc'[o].next = proc[o].next, proc'[o].prog = proc[o].prog,
         pc'[o] = pc[o], o \in victim => o \in victim',
         o \in todo' => o \in todo /\ snap'[o] = snap[o],
         Shorter(orders, orders'), Unread(reports, reports', o)
  PROVE  OInv(o, orders, reports, v, c)'
<1>1. CASE Alive(o)
  <2>1. Alive(o)'
    BY <1>1 DEF Alive
  <2>2. QED
    BY <1>1, <2>1, Stands
<1>2. CASE ~Alive(o)
  <2>1. ~Alive(o)'
    BY <1>2 DEF Alive
  <2>2. Added(o, reports, reports')
    BY DEF Added, Unread
  <2>3. QED
    BY <1>2, <2>1, <2>2, StaysDead
<1>3. QED
  BY <1>1, <1>2

-----------------------------------------------------------------------------
(***************************************************************************)
(* The rest of the invariant, which speaks of all objects at once.         *)
(***************************************************************************)
LivingHasPid == \A o \in Objects : Alive(o) => proc[o].pid

\* EXEC looks at its copy in the background only, and kills one object at a time
ExecAt ==
  /\ epc \in {"idle", "killAndIdle"} => todo = {}
  /\ epc \in {"idle", "background"} => victim = {}
  /\ \A o, other \in victim : o = other

\* nobody has heard of an object before SWLOAD launches it
Born(o) == proc[o].known \/ proc[o].cur # None
Unheard ==
  \A o \in Objects : ~Born(o) =>
    /\ view[o] = None /\ o \notin victim
    /\ \A i \in 1..Len(orders) : orders[i].obj # o
    /\ \A i \in 1..Len(reports) : reports[i].obj # o
CopyBorn == \A o \in todo : snap[o].cur # None => proc[o].cur # None
Unloaded ==
  app.phase = "unloaded" => \A o \in Objects : view[o] = None /\ ~Born(o) /\ ~Alive(o)

GInv ==
  /\ LivingHasPid /\ ExecAt /\ (\A o \in Objects : Aborting(o))
  /\ Unheard /\ CopyBorn /\ Unloaded
  /\ NoStep(reports) /\ app.pend \notin Stopped

\* what every step of EXEC is to the database, the processes, the queues and its own records
ExecStep ==
  /\ \A o \in Objects :
       /\ proc'[o].cur = proc[o].cur /\ proc'[o].pid = proc[o].pid
       /\ proc'[o].known => proc[o].known
       /\ Born(o) => Born(o)'
       /\ \/ proc'[o].next = proc[o].next /\ proc'[o].prog = proc[o].prog
          \/ proc[o].next = proc[o].cur /\ proc[o].prog # 1
       /\ pc'[o] = pc[o] \/ pc'[o] = "zombie"
       /\ o \in victim' => o \in victim \/ Born(o)
  /\ Shorter(orders, orders')
  /\ \/ reports' = reports
     \/ \E r \in Report : /\ reports' = Append(reports, r)
                          /\ Born(r.obj) /\ (r.ok => r.st # "STEP")

\* a step of EXEC is an ExecStep, and its own records stay in order
LEMMA ExecSteps ==
  ASSUME IInv, GInv, Exec
  PROVE  ExecStep /\ ExecAt' /\ CopyBorn'
<1>1. /\ proc \in [Objects -> Entry] /\ snap \in [Objects -> Entry] /\ pc \in [Objects -> ObjPc]
      /\ orders \in Seq(Order) /\ reports \in Seq(Report)
      /\ todo \subseteq Objects /\ victim \subseteq Objects
      /\ CopyIsOlder /\ ExecAt /\ Unheard /\ CopyBorn
  BY DEF IInv, TypeOK, GInv
<1>2. ASSUME UNCHANGED <<proc, pc>>, \A o \in victim' : o \in victim \/ Born(o), Shorter(orders, orders'),
             \/ reports' = reports
             \/ \E r \in Report : /\ reports' = Append(reports, r)
                                  /\ Born(r.obj) /\ (r.ok => r.st # "STEP")
      PROVE  ExecStep
  BY <1>2 DEF ExecStep, Born
<1>3. \A o \in todo \cup victim : o \in Objects /\ Born(o)
  BY <1>1 DEF CopyIsOlder, Born, Unheard
<1>4. \A o \in Objects, st \in Statuses \cup {None} :
        exec_statusrep(o, FALSE, st) /\ Born(o) =>
          \/ reports' = reports
          \/ \E r \in Report : reports' = Append(reports, r) /\ Born(r.obj) /\ (r.ok => r.st # "STEP")
  <2> SUFFICES ASSUME NEW o \in Objects, NEW st \in Statuses \cup {None}, exec_statusrep(o, FALSE, st), Born(o)
               PROVE  \/ reports' = reports
                      \/ \E r \in Report : reports' = Append(reports, r) /\ Born(r.obj) /\ (r.ok => r.st # "STEP")
    OBVIOUS
  <2> DEFINE r == [obj |-> o, ok |-> FALSE, st |-> st]
  <2>1. r \in Report /\ r.obj = o /\ ~r.ok
    BY DEF Report
  <2>2. reports' = reports \/ reports' = Append(reports, r)
    BY StatusRepSent
  <2> HIDE DEF r
  <2>3. QED
    BY <2>1, <2>2
<1>5. CASE exec_incmd_setstatus
  <2> DEFINE a == Head(orders)
             p == proc[a.obj]
  <2>1. /\ a.obj \in Objects /\ a.st \in Statuses /\ p \in Entry
        /\ p.cur \in Statuses \cup {None}
    <3>1. a \in Order
      BY <1>1, <1>5 DEF exec_incmd_setstatus
    <3>2. QED
      BY <1>1, <3>1 DEF Order, Entry
  <2>2. /\ UNCHANGED <<pc, snap, todo>> /\ Shorter(orders, orders') /\ epc = "idle"
        /\ todo = {} /\ victim = {}
    BY <1>1, <1>5 DEF exec_incmd_setstatus, objVars, Shorter, ExecAt
  <2>3. CASE UNCHANGED <<proc, reports, epc, victim>>
    <3>1. ExecStep
      BY <1>2, <2>2, <2>3
    <3>2. QED
      BY <1>1, <2>2, <2>3, <3>1 DEF ExecAt, CopyBorn
  <2>4. CASE /\ p.known /\ Idle(p)
             /\ \E due \in IF a.st = "ABNSTOP" THEN {-1} ELSE Dates :
                    Upd(a.obj, status_new(p, a.st, due))
             /\ UNCHANGED <<reports, epc, victim>>
    <3>1. PICK due \in IF a.st = "ABNSTOP" THEN {-1} ELSE Dates :
                 Upd(a.obj, status_new(p, a.st, due))
      BY <2>4
    <3>2. due \in Int
      <4>1. CASE a.st = "ABNSTOP"
        BY <4>1
      <4>2. CASE a.st # "ABNSTOP"
        BY <4>2, ConstAssumption
      <4>3. QED
        BY <4>1, <4>2
    <3> DEFINE q == status_new(p, a.st, due)
    <3>3. q.cur = p.cur /\ q.pid = p.pid /\ q.known = p.known
      BY <2>1, <3>2, StatusNew
    <3> HIDE DEF q
    <3>4. /\ proc'[a.obj] = q /\ \A other \in Objects \ {a.obj} : proc'[other] = proc[other]
      BY <1>1, <2>1, <3>1 DEF Upd, q
    <3>5. p.next = p.cur /\ p.prog # 1
      BY <2>4 DEF Idle, Changing
    <3>6. ExecStep
      BY <2>2, <2>4, <3>3, <3>4, <3>5 DEF ExecStep, Born
    <3>7. QED
      BY <1>1, <2>2, <2>4, <3>6 DEF ExecAt, CopyBorn
  <2>5. CASE /\ p.known /\ exec_statusrep(a.obj, FALSE, p.cur) /\ UNCHANGED proc
             /\ epc' = IF p.pid THEN "killAndIdle" ELSE "idle"
             /\ victim' = IF p.pid THEN {a.obj} ELSE {}
    <3>1. Born(a.obj) /\ \A o \in victim' : o = a.obj
      BY <2>5 DEF Born
    <3>2. ExecStep
      BY <1>2, <1>4, <2>1, <2>2, <2>5, <3>1
    <3>3. ExecAt' /\ CopyBorn'
      BY <2>2, <2>5 DEF ExecAt, CopyBorn
    <3>4. QED
      BY <3>2, <3>3
  <2>6. QED
    BY <1>5, <2>3, <2>4, <2>5 DEF exec_incmd_setstatus
<1>6. CASE BackgroundStart
  <2>1. /\ UNCHANGED <<proc, pc, orders, reports, victim>> /\ snap' = proc
        /\ epc' = "background" /\ victim = {}
    BY <1>1, <1>6 DEF BackgroundStart, objVars, ExecAt
  <2>2. ExecStep
    BY <1>2, <2>1 DEF Shorter
  <2>3. QED
    BY <2>1, <2>2 DEF ExecAt, CopyBorn
<1>7. CASE Background
  <2>1. UNCHANGED <<pc, orders, snap>> /\ epc = "background" /\ victim = {} /\ Shorter(orders, orders')
    BY <1>1, <1>7 DEF Background, objVars, ExecAt, Shorter
  <2>2. PICK o \in todo : \/ BackgroundDied(o) \/ BackgroundAck(o)
                          \/ BackgroundTimeout(o) \/ BackgroundSkip(o)
    BY <1>7 DEF Background
  <2>3. o \in Objects /\ Born(o) /\ snap[o].cur \in Statuses \cup {None}
    BY <1>1, <1>3, <2>2 DEF Entry
  <2>4. CASE BackgroundDied(o)
    <3> DEFINE q == [proc[o] EXCEPT !.known = FALSE]
    <3>1. q.cur = proc[o].cur /\ q.next = proc[o].next /\ q.prog = proc[o].prog /\ q.pid = proc[o].pid
          /\ ~q.known
      BY <1>1, <2>3 DEF Entry
    <3> HIDE DEF q
    <3>2. proc'[o] = q /\ \A other \in Objects \ {o} : proc'[other] = proc[other]
      BY <1>1, <2>3, <2>4 DEF BackgroundDied, Upd, q
    <3>3. proc[o].cur # None
      BY <1>1, <2>2, <2>4 DEF BackgroundDied, Died, CopyBorn
    <3>4. UNCHANGED <<epc, victim>> /\ todo' = todo \ {o}
      BY <2>4 DEF BackgroundDied
    <3>5. \/ reports' = reports
          \/ \E r \in Report : reports' = Append(reports, r) /\ Born(r.obj) /\ (r.ok => r.st # "STEP")
      BY <1>4, <2>3, <2>4 DEF BackgroundDied
    <3>6. ExecStep
      BY <2>1, <3>1, <3>2, <3>3, <3>4, <3>5 DEF ExecStep, Born
    <3>7. ExecAt' /\ CopyBorn'
      BY <1>1, <2>1, <3>1, <3>2, <3>4 DEF ExecAt, CopyBorn
    <3>8. QED
      BY <3>6, <3>7
  <2>5. CASE BackgroundAck(o) /\ Ackable(proc[o])
    <3> DEFINE q == status_ack(proc[o])
               r == [obj |-> o, ok |-> TRUE, st |-> snap[o].cur]
    <3>1. q.cur = proc[o].cur /\ q.next = proc[o].next /\ q.pid = proc[o].pid /\ q.known = proc[o].known
      BY <1>1, <2>3, StatusAck
    <3> HIDE DEF q
    <3>2. proc'[o] = q /\ \A other \in Objects \ {o} : proc'[other] = proc[other]
      BY <1>1, <2>3, <2>5 DEF BackgroundAck, Upd, q
    <3>3. proc[o].next = proc[o].cur /\ proc[o].prog # 1
      BY <2>5 DEF Ackable, Changing
    <3>4. UNCHANGED <<epc, victim>> /\ todo' = todo \ {o} /\ snap[o].cur # "STEP"
          /\ exec_statusrep(o, TRUE, snap[o].cur)
      BY <2>5 DEF BackgroundAck, Observed
    <3>5. r \in Report /\ r.obj = o /\ r.st # "STEP" /\ (reports' = reports \/ reports' = Append(reports, r))
      BY <2>3, <3>4, StatusRepSent DEF Report
    <3> HIDE DEF r
    <3>6. ExecStep
      BY <2>1, <2>3, <3>1, <3>2, <3>3, <3>4, <3>5 DEF ExecStep, Born
    <3>7. ExecAt' /\ CopyBorn'
      BY <1>1, <2>1, <3>1, <3>2, <3>4 DEF ExecAt, CopyBorn
    <3>8. QED
      BY <3>6, <3>7
  <2>6. CASE (BackgroundAck(o) /\ ~Ackable(proc[o])) \/ BackgroundTimeout(o) \/ BackgroundSkip(o)
    <3>1. /\ UNCHANGED <<proc, reports>> /\ todo' \subseteq todo
          /\ (UNCHANGED <<epc, victim>>) \/ (epc' = "killAndReport" /\ victim' = {o})
      BY <2>6 DEF BackgroundAck, BackgroundTimeout, BackgroundSkip
    <3>2. ExecStep
      BY <1>2, <2>1, <2>3, <3>1
    <3>3. ExecAt' /\ CopyBorn'
      BY <1>1, <2>1, <3>1 DEF ExecAt, CopyBorn
    <3>4. QED
      BY <3>2, <3>3
  <2>7. QED
    BY <2>2, <2>4, <2>5, <2>6
<1>8. CASE BackgroundEnd
  <2>1. UNCHANGED <<proc, pc, orders, reports, victim, todo>> /\ todo = {} /\ victim = {}
    BY <1>1, <1>8 DEF BackgroundEnd, objVars, ExecAt
  <2>2. ExecStep
    BY <1>2, <2>1 DEF Shorter
  <2>3. QED
    BY <2>1, <2>2 DEF ExecAt, CopyBorn
<1>9. CASE KillReturn
  <2>1. PICK o \in victim :
          /\ \/ epc = "killAndIdle" /\ epc' = "idle" /\ UNCHANGED reports
             \/ epc = "killAndReport" /\ epc' = "background" /\ exec_statusrep(o, FALSE, "ABNSTOP")
          /\ IF Alive(o) THEN Goto(o, "zombie") ELSE UNCHANGED pc
    BY <1>9 DEF KillReturn
  <2>2. UNCHANGED <<proc, orders, snap, todo>> /\ victim' = {}
    BY <1>9 DEF KillReturn
  <2>3. o \in Objects /\ Born(o) /\ "ABNSTOP" \in Statuses
    BY <1>3, <2>1 DEF Statuses, Stopped
  <2>4. \A other \in Objects : pc'[other] = pc[other] \/ pc'[other] = "zombie"
    BY <1>1, <2>1 DEF Goto
  <2>5. \/ reports' = reports
        \/ \E r \in Report : reports' = Append(reports, r) /\ Born(r.obj) /\ (r.ok => r.st # "STEP")
    BY <1>4, <2>1, <2>3
  <2>6. ExecStep
    BY <2>2, <2>4, <2>5 DEF ExecStep, Born, Shorter
  <2>7. ExecAt' /\ CopyBorn'
    BY <1>1, <2>1, <2>2 DEF ExecAt, CopyBorn
  <2>8. QED
    BY <2>6, <2>7
<1>10. QED
  BY <1>5, <1>6, <1>7, <1>8, <1>9 DEF Exec

\* a step of EXEC, for each object
LEMMA ExecOInv ==
  ASSUME IInv, GInv, Exec, NEW o \in Objects, NEW v, NEW c, OInv(o, orders, reports, v, c)
  PROVE  OInv(o, orders, reports, v, c)'
<1>1. /\ proc \in [Objects -> Entry] /\ snap \in [Objects -> Entry] /\ pc \in [Objects -> ObjPc]
      /\ orders \in Seq(Order) /\ reports \in Seq(Report)
      /\ todo \subseteq Objects /\ victim \subseteq Objects
      /\ ForgottenIsDead /\ CopyIsOlder /\ CompletedInv /\ ExecAt /\ LivingHasPid
  BY DEF IInv, TypeOK, GInv
<1>2. /\ \A other \in Objects : /\ proc[other].cur \in Statuses \cup {None}
                                /\ snap[other].cur \in Statuses \cup {None}
      /\ "ABNSTOP" \in Statuses
  BY <1>1 DEF Entry, Statuses, Stopped
<1>3. ASSUME NEW x \in Objects, NEW st \in Statuses \cup {None}, exec_statusrep(x, FALSE, st)
      PROVE  /\ x # o => Unread(reports, reports', o)
             /\ o \in victim' /\ ~Pending(o)' => Unread(reports, reports', o)
             /\ Added(o, reports, reports') /\ Failed(o, reports, reports')
  <2> DEFINE r == [obj |-> x, ok |-> FALSE, st |-> st]
  <2>1. r \in Report /\ r.obj = x /\ ~r.ok /\ (reports' = reports \/ reports' = Append(reports, r))
    BY <1>3, StatusRepSent DEF Report
  <2> HIDE DEF r
  <2>2. QED
    BY <2>1 DEF Unread, Added, Failed
<1>4. ASSUME UNCHANGED <<proc, pc>>, o \in victim => o \in victim', o \in todo' => o \in todo /\ snap'[o] = snap[o],
             Shorter(orders, orders'), Unread(reports, reports', o)
      PROVE  OInv(o, orders, reports, v, c)'
  BY <1>1, <1>4, Rests
<1>5. ASSUME ~Alive(o), pc' = pc, proc'[o].cur = proc[o].cur, Added(o, reports, reports')
      PROVE  OInv(o, orders, reports, v, c)'
  <2>1. ~Alive(o)'
    BY <1>5 DEF Alive
  <2>2. QED
    BY <1>1, <1>5, <2>1, StaysDead
<1>6. CASE exec_incmd_setstatus
  <2> DEFINE a == Head(orders)
             p == proc[a.obj]
  <2>1. /\ a \in Order /\ a = orders[1] /\ orders # <<>> /\ orders' = Tail(orders)
        /\ UNCHANGED <<pc, snap, todo>> /\ todo = {} /\ victim = {} /\ Shorter(orders, orders')
    BY <1>1, <1>6 DEF exec_incmd_setstatus, objVars, ExecAt, Shorter
  <2>2. a.obj \in Objects /\ a.st \in Statuses /\ p \in Entry
    BY <1>1, <2>1 DEF Order
  <2>3. CASE UNCHANGED <<proc, reports, epc, victim>>
    BY <1>4, <2>1, <2>3 DEF Unread
  <2>4. CASE /\ Idle(p)
             /\ \E due \in IF a.st = "ABNSTOP" THEN {-1} ELSE Dates :
                    Upd(a.obj, status_new(p, a.st, due))
             /\ UNCHANGED <<reports, epc, victim>>
    <3>1. PICK due \in IF a.st = "ABNSTOP" THEN {-1} ELSE Dates :
                 Upd(a.obj, status_new(p, a.st, due))
      BY <2>4
    <3>2. due \in Int
      <4>1. CASE a.st = "ABNSTOP"
        BY <4>1
      <4>2. CASE a.st # "ABNSTOP"
        BY <4>2, ConstAssumption
      <4>3. QED
        BY <4>1, <4>2
    <3> DEFINE q == Ordered(p, a.st, due)
    <3>3. q.cur = p.cur /\ q.next = a.st /\ q.prog = 1 /\ Upd(a.obj, q)
      BY <2>2, <2>4, <3>1, <3>2, Forced DEF status_new
    <3> HIDE DEF q
    <3>4. proc'[a.obj] = q /\ \A other \in Objects \ {a.obj} : proc'[other] = proc[other]
      BY <1>1, <2>2, <3>3 DEF Upd
    <3>5. CASE a.obj # o
      BY <1>1, <2>1, <2>4, <3>4, <3>5, Rests DEF Unread
    <3>6. CASE a.obj = o /\ ~Alive(o)
      BY <1>5, <2>1, <2>4, <3>3, <3>4, <3>6 DEF Added
    <3>7. CASE a.obj = o /\ Alive(o)
      <4>1. proc[o].next = proc[o].cur /\ Alive(o)'
        BY <2>1, <2>4, <3>7 DEF Idle, Changing, Alive
      <4>2. orders[1].obj = o /\ proc'[o].next = orders[1].st /\ proc'[o].prog = 1 /\ proc'[o].cur = proc[o].cur
        BY <2>1, <3>3, <3>4, <3>7
      <4>3. UNCHANGED <<reports, victim>> /\ pc'[o] = pc[o] /\ o \notin todo'
        BY <2>1, <2>4
      <4>4. QED
        BY <1>1, <2>1, <3>7, <4>1, <4>2, <4>3, Accepts
    <3>8. QED
      BY <3>5, <3>6, <3>7
  <2>5. CASE /\ p.known /\ exec_statusrep(a.obj, FALSE, p.cur) /\ UNCHANGED proc
             /\ victim' = IF p.pid THEN {a.obj} ELSE {}
    <3>1. a.obj # o \/ Alive(o) => Unread(reports, reports', o)
      <4>1. a.obj = o /\ Alive(o) => o \in victim' /\ ~Pending(o)'
        BY <1>1, <2>1, <2>5 DEF LivingHasPid, Pending
      <4>2. QED
        BY <1>2, <1>3, <2>2, <2>5, <4>1
    <3>2. CASE a.obj # o \/ Alive(o)
      BY <1>4, <2>1, <2>5, <3>1, <3>2
    <3>3. CASE ~Alive(o)
      BY <1>2, <1>3, <1>5, <2>1, <2>2, <2>5, <3>3
    <3>4. QED
      BY <3>2, <3>3
  <2>6. QED
    BY <1>6, <2>3, <2>4, <2>5 DEF exec_incmd_setstatus
<1>7. CASE BackgroundStart
  <2>1. UNCHANGED <<orders, reports, proc, pc, victim>> /\ o \notin victim /\ ~Pending(o) /\ snap'[o] = proc[o]
    BY <1>1, <1>7 DEF BackgroundStart, objVars, ExecAt, Pending
  <2>2. CASE Alive(o)
    BY <2>1, <2>2, Copied
  <2>3. CASE ~Alive(o)
    BY <1>5, <2>1, <2>3 DEF Added
  <2>4. QED
    BY <2>2, <2>3
<1>8. CASE Background
  <2>1. UNCHANGED <<pc, orders, snap>> /\ epc = "background" /\ victim = {} /\ Shorter(orders, orders')
    BY <1>1, <1>8 DEF Background, objVars, ExecAt, Shorter
  <2>2. PICK x \in todo : \/ BackgroundDied(x) \/ BackgroundAck(x)
                          \/ BackgroundTimeout(x) \/ BackgroundSkip(x)
    BY <1>8 DEF Background
  <2>3. x \in Objects
    BY <1>1, <2>2
  <2>4. CASE BackgroundDied(x)
    <3> DEFINE q == [proc[x] EXCEPT !.known = FALSE]
    <3>1. q.cur = proc[x].cur
      BY <1>1, <2>3 DEF Entry
    <3> HIDE DEF q
    <3>2. proc'[x] = q /\ \A other \in Objects \ {x} : proc'[other] = proc[other]
      BY <1>1, <2>3, <2>4 DEF BackgroundDied, Upd, q
    <3>3. ~Alive(x)
      BY <1>1, <2>2, <2>3, <2>4 DEF BackgroundDied, Died, CopyIsOlder, LivingHasPid
    <3>4. todo' = todo \ {x} /\ victim' = victim
          /\ (reports' = reports \/ exec_statusrep(x, FALSE, snap[x].cur))
      BY <2>4 DEF BackgroundDied
    <3>5. /\ Added(o, reports, reports')
          /\ x # o => Unread(reports, reports', o)
      BY <1>2, <1>3, <2>3, <3>4 DEF Added, Unread
    <3>6. CASE x = o
      BY <1>5, <2>1, <3>1, <3>2, <3>3, <3>5, <3>6
    <3>7. CASE x # o
      BY <1>1, <2>1, <3>2, <3>4, <3>5, <3>7, Rests
    <3>8. QED
      BY <3>6, <3>7
  <2>5. CASE BackgroundAck(x) /\ Ackable(proc[x])
    <3> DEFINE q == status_ack(proc[x])
               r == [obj |-> x, ok |-> TRUE, st |-> snap[x].cur]
    <3>1. q.cur = proc[x].cur /\ q.next = proc[x].next /\ q.prog = 0
      BY <1>1, <2>3, <2>5, StatusAck DEF status_ack, Entry
    <3> HIDE DEF q
    <3>2. proc'[x] = q /\ \A other \in Objects \ {x} : proc'[other] = proc[other]
      BY <1>1, <2>3, <2>5 DEF BackgroundAck, Upd, q
    <3>3. /\ UNCHANGED <<epc, victim>> /\ todo' = todo \ {x} /\ snap[x].cur # "STEP" /\ Ackable(snap[x])
          /\ reports' = reports \/ reports' = Append(reports, r)
      <4>1. exec_statusrep(x, TRUE, snap[x].cur)
        BY <2>5 DEF BackgroundAck
      <4>2. QED
        BY <2>5, <4>1, StatusRepSent DEF BackgroundAck, Observed
    <3>4. r \in Report /\ r.obj = x /\ r.st = snap[x].cur
      BY <1>2, <2>3 DEF Report
    <3>5. proc[x].next = proc[x].cur
      BY <2>5 DEF Ackable, Changing
    <3>6. proc[x].cur \in {snap[x].cur, "ABNSTOP"}
      BY <1>1, <2>2, <3>3 DEF CompletedInv
    <3>7. CASE x # o
      <4>1. Unread(reports, reports', o)
        BY <3>3, <3>4, <3>7 DEF Unread
      <4>2. QED
        BY <1>1, <2>1, <3>2, <3>3, <3>7, <4>1, Rests
    <3>8. CASE x = o /\ ~Alive(o)
      <4>1. Added(o, reports, reports')
        BY <3>3, <3>4, <3>6, <3>8 DEF Added
      <4>2. QED
        BY <1>5, <2>1, <3>1, <3>2, <3>8, <4>1
    <3>9. CASE x = o /\ Alive(o)
      <4>1. \/ reports' = reports
            \/ reports' = Append(reports, [obj |-> o, ok |-> TRUE, st |-> snap[o].cur])
        BY <3>3, <3>9
      <4>2. /\ UNCHANGED <<orders, pc, victim>> /\ proc[o].next = proc[o].cur /\ proc'[o].cur = proc[o].cur
            /\ proc'[o].next = proc[o].cur /\ proc'[o].prog = 0 /\ o \in todo /\ o \notin todo'
            /\ Ackable(snap[o]) /\ snap[o].cur # "STEP" /\ proc[o].cur \in {snap[o].cur, "ABNSTOP"}
        BY <2>1, <2>2, <3>1, <3>2, <3>3, <3>5, <3>6, <3>9
      <4>3. QED
        BY <1>1, <3>9, <4>1, <4>2, Confirms, ConfirmsUnheard
    <3>10. QED
      BY <3>7, <3>8, <3>9
  <2>6. CASE (BackgroundAck(x) /\ ~Ackable(proc[x])) \/ BackgroundTimeout(x) \/ BackgroundSkip(x)
    <3>1. UNCHANGED <<proc, reports>> /\ todo' \subseteq todo
      BY <2>6 DEF BackgroundAck, BackgroundTimeout, BackgroundSkip
    <3>2. QED
      BY <1>4, <2>1, <3>1 DEF Unread
  <2>7. QED
    BY <2>2, <2>4, <2>5, <2>6
<1>9. CASE BackgroundEnd
  <2>1. UNCHANGED <<proc, pc, orders, reports, victim>> /\ todo' = {}
    BY <1>9 DEF BackgroundEnd, objVars
  <2>2. QED
    BY <1>4, <2>1 DEF Shorter, Unread
<1>10. CASE KillReturn
  <2>1. PICK x \in victim :
          /\ reports' = reports \/ exec_statusrep(x, FALSE, "ABNSTOP")
          /\ IF Alive(x) THEN Goto(x, "zombie") ELSE UNCHANGED pc
    BY <1>10 DEF KillReturn
  <2>2. UNCHANGED <<proc, orders, snap, todo>> /\ x \in Objects /\ \A other \in victim : other = x
    BY <1>1, <1>10, <2>1 DEF KillReturn, ExecAt
  <2>3. /\ Added(o, reports, reports') /\ Failed(o, reports, reports')
        /\ x # o => Unread(reports, reports', o)
    BY <1>2, <1>3, <2>1, <2>2 DEF Added, Failed, Unread
  <2>4. CASE x # o
    <3>1. pc'[o] = pc[o] /\ o \notin victim
      BY <1>1, <2>1, <2>2, <2>4 DEF Goto
    <3>2. QED
      BY <1>1, <2>2, <2>3, <2>4, <3>1, Rests DEF Shorter
  <2>5. CASE x = o /\ Alive(o)
    <3>1. ~Alive(o)'
      BY <1>1, <2>1, <2>5 DEF Goto, Alive
    <3>2. QED
      BY <1>1, <2>2, <2>3, <2>5, <3>1, Dies
  <2>6. CASE x = o /\ ~Alive(o)
    BY <1>5, <2>1, <2>2, <2>3, <2>6
  <2>7. QED
    BY <2>4, <2>5, <2>6
<1>11. QED
  BY <1>6, <1>7, <1>8, <1>9, <1>10 DEF Exec

Beliefs == app.phase = "loaded" => \A o \in Objects : OInv(o, orders, reports, view[o], app.cur)
VInv == BInv /\ IInv /\ GInv /\ Beliefs

\* what SWMAN believes after a step
LEMMA Renamed ==
  ASSUME NEW o \in Objects, NEW v, NEW c, OInv(o, orders, reports, v, c)', view'[o] = v, app'.cur = c
  PROVE  OInv(o, orders, reports, view[o], app.cur)'
<1>1. Faithful(o, orders, view[o], app.cur)' /\ DeadNews(o, reports, view[o], app.cur)'
  BY DEF OInv, Faithful, DeadNews
<1>2. GoodNews(o, orders, reports, view[o], app.cur)' /\ BadNews(o, reports)'
  BY DEF OInv, GoodNews
<1>3. GivenUp(o, orders, reports, view[o])' /\ NextNews(o, orders, reports, view[o], app.cur)'
  BY DEF OInv, GivenUp, NextNews
<1>4. Settled(o, view[o], app.cur)' /\ Waiting(o, orders)' /\ StepView(view[o], app.cur)'
  BY DEF OInv, Settled, StepView
<1>5. Over(o, orders, reports, v, c)' => Over(o, orders, reports, view[o], app.cur)'
  BY DEF Over
<1>6. Sealed(o, orders, reports, v, c)' => Sealed(o, orders, reports, view[o], app.cur)'
  BY <1>5 DEF Sealed
<1>7. StopOrdered(o, orders, reports, view[o], app.cur)'
  BY <1>5 DEF OInv, StopOrdered
<1>8. StopEntered(o, orders, reports, view[o], app.cur)' /\ StopCopied(o, orders, reports, view[o], app.cur)'
  BY <1>6 DEF OInv, StopEntered, StopCopied
<1>9. StopTold(o, orders, reports, view[o], app.cur)'
  BY <1>6 DEF OInv, StopTold
<1>10. QED
  BY <1>1, <1>2, <1>3, <1>4, <1>7, <1>8, <1>9 DEF OInv

\* the steps of the processing element keep what is so for all objects
LEMMA LocalGInv ==
  ASSUME IInv, GInv, Local \/ (app.phase # "unloaded" /\ \E o \in Objects : Create(o)), UNCHANGED swman
  PROVE  GInv'
<1>1. /\ proc \in [Objects -> Entry] /\ pc \in [Objects -> ObjPc]
      /\ orders \in Seq(Order) /\ reports \in Seq(Report) /\ todo \subseteq Objects
      /\ ForgottenIsDead /\ CopyIsOlder /\ SteppingInv /\ TypeOK
  BY DEF IInv, TypeOK
<1>2. /\ LivingHasPid /\ ExecAt /\ Unheard /\ CopyBorn /\ Unloaded /\ NoStep(reports)
      /\ \A o \in Objects : Aborting(o)
      /\ app'.pend \notin Stopped /\ UNCHANGED <<app, view>>
  BY DEF GInv, swman
<1>3. \A o \in Objects : Alive(o) => proc[o].known
  BY <1>1, <1>2 DEF LivingHasPid, ForgottenIsDead
<1>4. ASSUME \A o \in Objects : Born(o) => Born(o)', UNCHANGED <<orders, reports, execVars>>
      PROVE  Unheard' /\ ExecAt' /\ NoStep(reports)'
  BY <1>2, <1>4 DEF Unheard, ExecAt, NoStep, execVars
<1>5. CASE Exec
  <2>1. ExecStep /\ ExecAt' /\ CopyBorn'
    BY <1>5, ExecSteps
  <2>2. \A o \in Objects : Alive(o)' => Alive(o) /\ pc'[o] = pc[o]
    BY <2>1 DEF ExecStep, Alive
  <2>3. LivingHasPid'
    BY <1>2, <2>1, <2>2 DEF ExecStep, LivingHasPid
  <2>4. \A o \in Objects : Aborting(o)'
    BY <1>2, <2>1 DEF ExecStep, Aborting
  <2>5. /\ \A o \in Objects : ~Born(o)' => ~Born(o)
        /\ Unloaded'
    BY <1>2, <2>1, <2>2 DEF ExecStep, Unloaded, Born
  <2>6. \A i \in 1..Len(orders') : \E j \in 1..Len(orders) : orders'[i] = orders[j]
    <3>1. CASE orders' = orders
      BY <3>1
    <3>2. CASE orders # <<>> /\ orders' = Tail(orders)
      <4>1. \A i \in 1..Len(orders') : i + 1 \in 1..Len(orders) /\ orders'[i] = orders[i + 1]
        BY <1>1, <3>2
      <4>2. QED
        BY <4>1
    <3>3. QED
      BY <2>1, <3>1, <3>2 DEF ExecStep, Shorter
  <2>7. \A i \in 1..Len(reports') :
          \/ \E j \in 1..Len(reports) : reports'[i] = reports[j]
          \/ Born(reports'[i].obj) /\ reports'[i].obj \in Objects /\ (reports'[i].ok => reports'[i].st # "STEP")
    <3>1. CASE reports' = reports
      BY <3>1
    <3>2. CASE reports' # reports
      <4>1. PICK r \in Report : reports' = Append(reports, r) /\ Born(r.obj) /\ (r.ok => r.st # "STEP")
        BY <2>1, <3>2 DEF ExecStep
      <4>2. \A i \in 1..Len(reports') : reports'[i] = r \/ \E j \in 1..Len(reports) : reports'[i] = reports[j]
        BY <1>1, <4>1
      <4>3. QED
        BY <4>1, <4>2 DEF Report
    <3>3. QED
      BY <3>1, <3>2
  <2>8. NoStep(reports)'
    BY <1>2, <2>7 DEF NoStep
  <2>9. Unheard'
    <3> SUFFICES ASSUME NEW o \in Objects, ~Born(o)'
                 PROVE  /\ view[o] = None /\ o \notin victim'
                        /\ \A i \in 1..Len(orders') : orders'[i].obj # o
                        /\ \A i \in 1..Len(reports') : reports'[i].obj # o
      BY <1>2 DEF Unheard
    <3>1. ~Born(o)
      BY <2>5
    <3>2. QED
      BY <1>2, <2>1, <2>6, <2>7, <3>1 DEF Unheard, ExecStep
  <2>10. QED
    BY <1>2, <2>1, <2>3, <2>4, <2>5, <2>8, <2>9 DEF GInv
<1>6. CASE \E o \in Objects : Object(o)
  <2>1. PICK x \in Objects : Own(x) /\ Aborting(x)'
    BY <1>1, <1>2, <1>6, ObjectOwn
  <2>2. \A o \in Objects : proc[o].next # None
    BY <1>1 DEF Entry, None, Statuses, Stopped
  <2>3. \A o \in Objects : proc[o].cur # None => proc'[o].cur # None
    BY <2>1, <2>2 DEF Own, Turn, Warned, None
  <2>4. \A o \in Objects : proc'[o].known = proc[o].known
    BY <2>1 DEF Own
  <2>5. \A o \in Objects : Alive(o)' => Alive(o) /\ proc'[o].pid = proc[o].pid
    BY <2>1 DEF Own, Alive
  <2>6. UNCHANGED <<orders, reports, execVars>> /\ \A o \in Objects : Born(o) => Born(o)'
    BY <2>1, <2>3, <2>4 DEF Own, Born
  <2>7. LivingHasPid' /\ \A o \in Objects : Aborting(o)'
    BY <1>2, <2>1, <2>5 DEF LivingHasPid, Own, Aborting
  <2>8. CopyBorn' /\ Unheard' /\ ExecAt' /\ NoStep(reports)'
    BY <1>1, <1>2, <1>4, <2>3, <2>6 DEF CopyBorn, execVars
  <2>9. Unloaded'
    BY <1>2, <2>1, <2>4, <2>5 DEF Unloaded, Own, Born
  <2>10. QED
    BY <1>2, <2>7, <2>8, <2>9 DEF GInv
<1>7. CASE Tick
  <2>1. \A o \in Objects : /\ proc'[o].cur = proc[o].cur /\ proc'[o].next = proc[o].next
                           /\ proc'[o].prog = proc[o].prog /\ proc'[o].pid = proc[o].pid
                           /\ proc'[o].known = proc[o].known
    <3> SUFFICES ASSUME NEW o \in Objects
                 PROVE  /\ proc'[o].cur = proc[o].cur /\ proc'[o].next = proc[o].next
                        /\ proc'[o].prog = proc[o].prog /\ proc'[o].pid = proc[o].pid
                        /\ proc'[o].known = proc[o].known
      OBVIOUS
    <3>1. /\ proc[o] \in Entry
          /\ proc'[o] = [proc[o] EXCEPT !.due = IF @ > -(Limit + 1) THEN @ - 1 ELSE @]
      BY <1>1, <1>7 DEF Tick
    <3>2. QED
      BY <3>1 DEF Entry
  <2>2. UNCHANGED <<pc, orders, reports, execVars>>
    BY <1>7 DEF Tick, objVars
  <2>3. Unheard' /\ ExecAt' /\ NoStep(reports)'
    BY <1>4, <2>1, <2>2 DEF Born
  <2>4. LivingHasPid' /\ (\A o \in Objects : Aborting(o)') /\ CopyBorn' /\ Unloaded'
    BY <1>1, <1>2, <2>1, <2>2 DEF LivingHasPid, Alive, Aborting, CopyBorn, Unloaded, Born, execVars
  <2>5. QED
    BY <1>2, <2>3, <2>4 DEF GInv
<1>8. ASSUME app.phase # "unloaded", NEW x \in Objects, Create(x) PROVE GInv'
  <2>1. /\ proc'[x] = NewEntry /\ \A o \in Objects \ {x} : proc'[o] = proc[o]
        /\ pc'[x] = "boot" /\ \A o \in Objects \ {x} : pc'[o] = pc[o]
        /\ UNCHANGED <<orders, reports, execVars>> /\ ~proc[x].known
    BY <1>1, <1>8 DEF Create, Upd, Goto
  <2>2. x \notin todo /\ NewEntry.known /\ NewEntry.pid
    BY <1>1, <2>1 DEF CopyIsOlder, NewEntry
  <2>3. Unheard' /\ ExecAt' /\ NoStep(reports)'
    BY <1>4, <2>1, <2>2 DEF Born
  <2>4. LivingHasPid' /\ (\A o \in Objects : Aborting(o)')
    BY <1>2, <2>1, <2>2 DEF LivingHasPid, Alive, Aborting
  <2>5. CopyBorn' /\ Unloaded'
    BY <1>1, <1>2, <1>8, <2>1, <2>2 DEF CopyBorn, Unloaded, execVars
  <2>6. QED
    BY <1>2, <2>3, <2>4, <2>5 DEF GInv
<1>9. QED
  BY <1>5, <1>6, <1>7, <1>8 DEF Local

\* and what SWMAN believes of each
LEMMA LocalBeliefs ==
  ASSUME BInv, IInv, GInv, Beliefs, Local \/ (app.phase # "unloaded" /\ \E o \in Objects : Create(o)),
         UNCHANGED swman
  PROVE  Beliefs'
<1> SUFFICES ASSUME app.phase = "loaded", NEW o \in Objects
             PROVE  OInv(o, orders, reports, view[o], app.cur)'
  BY DEF Beliefs, swman
<1>1. /\ proc \in [Objects -> Entry] /\ pc \in [Objects -> ObjPc]
      /\ orders \in Seq(Order) /\ reports \in Seq(Report)
      /\ CopyIsOlder /\ SteppingInv /\ TypeOK /\ Unheard /\ NoStep(reports)
      /\ \A other \in Objects : Aborting(other)
  BY DEF IInv, TypeOK, GInv
<1>2. PICK v, c : v = view[o] /\ c = app.cur
  OBVIOUS
<1>3. OInv(o, orders, reports, v, c) /\ view'[o] = v /\ app'.cur = c
  BY <1>2 DEF Beliefs, swman
<1> SUFFICES OInv(o, orders, reports, v, c)'
  BY <1>3, Renamed
<1>4. CASE Exec
  BY <1>3, <1>4, ExecOInv
<1>5. CASE \E x \in Objects : Object(x)
  <2>1. PICK x \in Objects : Own(x)
    BY <1>1, <1>5, ObjectOwn
  <2>2. UNCHANGED <<orders, reports, epc, snap, todo, victim>>
    BY <2>1 DEF Own, execVars
  <2>3. CASE x # o
    BY <1>1, <1>3, <2>1, <2>2, <2>3, Rests DEF Own, Shorter, Unread
  <2>4. CASE x = o /\ Alive(o)'
    <3>1. Alive(o) /\ (pc[o] \in Late => pc'[o] \in Late) /\ Turn(o)
      BY <2>1, <2>4 DEF Own
    <3>2. QED
      BY <1>1, <1>3, <2>2, <2>4, <3>1, Moves
  <2>5. CASE x = o /\ ~Alive(o)' /\ Alive(o)
    BY <1>1, <1>3, <2>1, <2>2, <2>5, Dies DEF Own, Failed
  <2>6. CASE x = o /\ ~Alive(o)' /\ ~Alive(o)
    BY <1>1, <1>3, <2>1, <2>2, <2>6, StaysDead DEF Own, Added
  <2>7. QED
    BY <2>3, <2>4, <2>5, <2>6
<1>6. CASE Tick
  <2>1. /\ proc[o] \in Entry
        /\ proc'[o] = [proc[o] EXCEPT !.due = IF @ > -(Limit + 1) THEN @ - 1 ELSE @]
    BY <1>1, <1>6 DEF Tick
  <2>2. proc'[o].cur = proc[o].cur /\ proc'[o].next = proc[o].next /\ proc'[o].prog = proc[o].prog
    BY <2>1 DEF Entry
  <2>3. UNCHANGED <<pc, orders, reports, snap, todo, victim>>
    BY <1>6 DEF Tick, objVars, execVars
  <2>4. QED
    BY <1>1, <1>3, <2>2, <2>3, Rests DEF Shorter, Unread
<1>7. ASSUME NEW x \in Objects, Create(x) PROVE OInv(o, orders, reports, v, c)'
  <2>1. /\ proc'[x] = NewEntry /\ \A other \in Objects \ {x} : proc'[other] = proc[other]
        /\ pc'[x] = "boot" /\ \A other \in Objects \ {x} : pc'[other] = pc[other]
        /\ UNCHANGED <<orders, reports, snap, todo, victim>> /\ ~Born(x) /\ ~proc[x].known
    BY <1>1, <1>7 DEF Create, Upd, Goto, Born, execVars
  <2>2. CASE x # o
    BY <1>1, <1>3, <2>1, <2>2, Rests DEF Shorter, Unread
  <2>3. CASE x = o
    <3>1. /\ v = None /\ c # None
          /\ \A i \in 1..Len(orders) : orders[i].obj # o
          /\ \A i \in 1..Len(reports) : reports[i].obj # o
          /\ o \notin victim /\ o \notin todo
      BY <1>1, <1>2, <2>1, <2>3 DEF Unheard, BInv, KnownStarted, CopyIsOlder
    <3>2. proc'[o].cur = None /\ proc'[o].next = "STARTED"
      BY <2>1, <2>3 DEF NewEntry
    <3>3. QED
      BY <2>1, <3>1, <3>2, Created
  <2>4. QED
    BY <2>2, <2>3
<1>8. QED
  BY <1>4, <1>5, <1>6, <1>7 DEF Local

-----------------------------------------------------------------------------
(***************************************************************************)
(* The steps of SWMAN.                                                     *)
(***************************************************************************)
\* swman_sendobjstatus sends no object two orders
LEMMA BatchOnce ==
  ASSUME NEW st \in Statuses, NEW v, NEW pl, NEW T \in SUBSET Targets(v, pl)
  PROVE  LET batch == swman_sendobjstatus(st, T) IN
         \A k, l \in 1..Len(batch) : batch[k].obj = batch[l].obj => k = l
<1> DEFINE b == Len(ObjList)
           batch == swman_sendobjstatus(st, T)
<1>1. b \in Nat /\ T \in SUBSET (1..b)
  BY ObjListAssumption DEF Targets, Reached
<1>2. Cardinality(T) \in Nat
  BY <1>1, BeforeFinite
<1>3. \A k \in 1..Cardinality(T) : Nth(T, k) \in T /\ Cardinality(Before(T, Nth(T, k))) = k - 1
  <2> SUFFICES ASSUME NEW k \in 1..Cardinality(T)
               PROVE  Nth(T, k) \in T /\ Cardinality(Before(T, Nth(T, k))) = k - 1
    OBVIOUS
  <2>1. k - 1 \in Nat /\ k - 1 < Cardinality(T)
    BY <1>2
  <2>2. \E i \in T : Cardinality(Before(T, i)) = k - 1
    BY <1>1, <2>1, NthMember
  <2>3. QED
    BY <2>2 DEF Nth, Before
<1>4. batch = [k \in 1..Cardinality(T) |-> [obj |-> ObjList[Nth(T, k)], st |-> st]]
  BY DEF swman_sendobjstatus
<1>5. Len(batch) = Cardinality(T) /\ \A k \in 1..Cardinality(T) : batch[k].obj = ObjList[Nth(T, k)]
  BY <1>2, <1>4
<1>6. \A k, l \in 1..Cardinality(T) : ObjList[Nth(T, k)] = ObjList[Nth(T, l)] => k = l
  <2> SUFFICES ASSUME NEW k \in 1..Cardinality(T), NEW l \in 1..Cardinality(T),
                      ObjList[Nth(T, k)] = ObjList[Nth(T, l)]
               PROVE  k = l
    OBVIOUS
  <2>1. Nth(T, k) \in 1..b /\ Nth(T, l) \in 1..b
    BY <1>1, <1>3
  <2>2. Nth(T, k) = Nth(T, l)
    BY <2>1, ObjListAssumption
  <2>3. k - 1 = l - 1
    BY <1>3, <2>2
  <2>4. QED
    BY <1>2, <2>3
<1>7. QED
  BY <1>5, <1>6 DEF batch

\* while SWMAN acts, the database and EXEC stay as they are
Still == UNCHANGED <<proc, pc, execVars>>

\* while database and EXEC stay, the invariant holds of the new queues if it holds of their values
LEMMA StillBelieves ==
  ASSUME NEW o \in Objects, NEW O, NEW R, NEW v, NEW c, OInv(o, O, R, v, c), Still,
         orders' = O, reports' = R, view'[o] = v, app'.cur = c
  PROVE  OInv(o, orders, reports, view[o], app.cur)'
<1>1. UNCHANGED <<proc, pc, epc, snap, todo, victim>> /\ (Alive(o)' <=> Alive(o))
      /\ (Pending(o)' <=> Pending(o)) /\ (Leaving(o)' <=> Leaving(o)) /\ (Stops(o)' <=> Stops(o))
  BY DEF Still, execVars, Alive, Pending, Leaving, Stops
<1>2. Faithful(o, orders, view[o], app.cur)' /\ DeadNews(o, reports, view[o], app.cur)'
  BY <1>1 DEF OInv, Faithful, Holds, DeadNews, First
<1>3. (OnlyStops(o, O) => OnlyStops(o, orders)') /\ (NoNews(o, R) => NoNews(o, reports)')
  BY DEF OnlyStops, NoNews
<1>4. Calm(o, O) => Calm(o, orders)'
  BY <1>1, <1>3 DEF Calm
<1>5. Hopeless(o, O, R) => Hopeless(o, orders, reports)'
  BY <1>1, <1>3, <1>4 DEF Hopeless
<1>6. GoodNews(o, orders, reports, view[o], app.cur)' /\ BadNews(o, reports)'
  BY <1>1, <1>3, <1>4 DEF OInv, GoodNews, BadNews, First
<1>7. GivenUp(o, orders, reports, view[o])' /\ NextNews(o, orders, reports, view[o], app.cur)'
  BY <1>1, <1>3, <1>5 DEF OInv, GivenUp, NextNews
<1>8. Settled(o, view[o], app.cur)' /\ Waiting(o, orders)' /\ StepView(view[o], app.cur)'
  BY <1>1 DEF OInv, Settled, Waiting, StepView
<1>9. Over(o, O, R, v, c) => Over(o, orders, reports, view[o], app.cur)'
  BY <1>5 DEF Over
<1>10. Sealed(o, O, R, v, c) => Sealed(o, orders, reports, view[o], app.cur)'
  BY <1>1, <1>3, <1>9 DEF Sealed
<1>11. StopOrdered(o, orders, reports, view[o], app.cur)'
  BY <1>1, <1>9 DEF OInv, StopOrdered
<1>12. StopEntered(o, orders, reports, view[o], app.cur)' /\ StopCopied(o, orders, reports, view[o], app.cur)'
  BY <1>1, <1>10 DEF OInv, StopEntered, StopCopied
<1>13. StopTold(o, orders, reports, view[o], app.cur)'
  BY <1>1, <1>10 DEF OInv, StopTold
<1>14. QED
  BY <1>2, <1>6, <1>7, <1>8, <1>11, <1>12, <1>13 DEF OInv

\* while database and EXEC stay, what is so for all objects stays so if SWMAN invents nothing
LEMMA StillGInv ==
  ASSUME GInv, Still, NoStep(reports)', app'.pend \notin Stopped,
         app'.phase = "unloaded" => app.phase = "unloaded" /\ view' = view,
         \A o \in Objects : ~Born(o) => /\ view'[o] = None
                                        /\ \A i \in 1..Len(orders') : orders'[i].obj # o
                                        /\ \A i \in 1..Len(reports') : reports'[i].obj # o
  PROVE  GInv'
<1>1. LivingHasPid' /\ ExecAt' /\ CopyBorn' /\ Unloaded' /\ \A o \in Objects : Aborting(o)'
  BY DEF GInv, Still, execVars, LivingHasPid, Alive, ExecAt, CopyBorn, Unloaded, Born, Aborting
<1>2. Unheard'
  BY DEF GInv, Still, execVars, Unheard, Born
<1>3. QED
  BY <1>1, <1>2 DEF GInv

\* while the database stays, so does the invariant of the status protocol
LEMMA StillIInv ==
  ASSUME IInv, TypeOK', UNCHANGED <<proc, snap, todo>>,
         \A o \in Objects : pc'[o] = pc[o] \/ pc'[o] = "failed"
  PROVE  IInv'
  BY DEF IInv, ForgottenIsDead, CopyIsOlder, SteppingInv, SteppingAt, CompletedInv, Ackable, Changing

\* the user orders a status
LEMMA AppStatusVInv ==
  ASSUME BInv, IInv, GInv, Beliefs, NEW st \in Orderable, swman_incmd_appstatus(st)
  PROVE  GInv' /\ Beliefs'
<1> DEFINE target == IF st = "STEP" THEN "PAUSE" ELSE st
           now == status_ok(view, app.cur) \/ target \in Stopped
<1>0. PICK T \in SUBSET Targets(view, placed) :
        /\ app.phase # "unloaded"
        /\ \/ orders' = orders /\ view' = view /\ app' = app /\ app.phase = "removed"
           \/ orders' = orders /\ view' = view /\ app' = [app EXCEPT !.pend = st] /\ ~now
           \/ orders' = orders /\ view' = view /\ app' = Removed
           \/ /\ orders' = orders \o swman_sendobjstatus(st, T) /\ view' = view
              /\ app' = [Removed EXCEPT !.cur = target]
           \/ /\ app.phase = "loaded" /\ now /\ AllPlaced(placed)
              /\ orders' = orders \o swman_sendobjstatus(st, T)
              /\ app' = [app EXCEPT !.cur = target]
              /\ view' = IF st = "STEP" THEN [o \in Objects |-> "STEP"] ELSE view
  BY DEF swman_incmd_appstatus, Send
<1> DEFINE batch == swman_sendobjstatus(st, T)
<1>1. /\ orders \in Seq(Order) /\ view \in [Objects -> Statuses \cup {None}] /\ KnownStarted
      /\ app \in [phase : {"unloaded", "loaded", "removed"},
                  cur : Statuses \cup {None}, pend : Statuses \cup {None}]
      /\ Unheard /\ NoStep(reports) /\ app.pend \notin Stopped
  BY DEF BInv, WTypeOK, TypeOK, GInv
<1>2. st \in Statuses /\ (target \in Stopped => st \in Stopped /\ target = st)
      /\ (st \in Stopped => target = st) /\ None \notin Stopped
  BY ConstAssumption DEF Stopped, None
<1>3. Still /\ UNCHANGED <<reports, placed>>
  BY DEF swman_incmd_appstatus, Still, objVars
<1>4. /\ batch \in Seq(Order)
      /\ \A k \in 1..Len(batch) :
           /\ batch[k].st = st /\ batch[k].obj \in Objects /\ batch[k].obj \in placed
           /\ view[batch[k].obj] \notin Stopped
  BY <1>2, Batch
<1>5. \A k, l \in 1..Len(batch) : batch[k].obj = batch[l].obj => k = l
  BY <1>2, BatchOnce
<1>6. \A o \in placed : Born(o)
  BY <1>1 DEF KnownStarted, Started, Born
<1>7. /\ app.phase # "unloaded"
      /\ \/ orders' = orders /\ view' = view /\ app' = app /\ app.phase = "removed"
         \/ orders' = orders /\ view' = view /\ app' = [app EXCEPT !.pend = st] /\ ~now
         \/ orders' = orders /\ view' = view /\ app' = Removed
         \/ orders' = orders \o batch /\ view' = view /\ app' = [Removed EXCEPT !.cur = target]
         \/ /\ app.phase = "loaded" /\ now /\ AllPlaced(placed)
            /\ orders' = orders \o batch
            /\ app' = [app EXCEPT !.cur = target]
            /\ view' = IF st = "STEP" THEN [o \in Objects |-> "STEP"] ELSE view
  BY <1>0
<1>8. Removed \in [phase : {"removed"}, cur : Statuses \cup {None}, pend : {None}]
  <2> DEFINE a == [app EXCEPT !.phase = "removed"]
  <2>1. a \in [phase : {"removed"}, cur : Statuses \cup {None}, pend : Statuses \cup {None}]
    BY <1>1
  <2>2. Removed = [a EXCEPT !.pend = None]
    BY <1>1 DEF Removed
  <2> HIDE DEF a
  <2>3. QED
    BY <2>1, <2>2
<1> HIDE DEF target, batch, now
<1>9. [Removed EXCEPT !.cur = target].phase = "removed" /\ [Removed EXCEPT !.cur = target].pend = None
  BY <1>8
<1>10. /\ app'.phase # "unloaded" /\ app'.pend \notin Stopped
       /\ app'.phase = "loaded" =>
            /\ app.phase = "loaded"
            /\ \/ orders' = orders /\ view' = view /\ app'.cur = app.cur
               \/ /\ now /\ orders' = orders \o batch /\ app'.cur = target
                  /\ view' = IF st = "STEP" THEN [o \in Objects |-> "STEP"] ELSE view
  <2>1. CASE app' = app /\ app.phase = "removed"
    BY <1>1, <2>1
  <2>2. CASE orders' = orders /\ view' = view /\ app' = [app EXCEPT !.pend = st] /\ ~now
    <3>1. app'.phase = app.phase /\ app'.cur = app.cur /\ app'.pend = st
      BY <1>1, <2>2
    <3>2. QED
      BY <1>2, <1>7, <2>2, <3>1 DEF now
  <2>3. CASE app' = Removed \/ app' = [Removed EXCEPT !.cur = target]
    <3>1. app'.phase = "removed" /\ app'.pend = None
      BY <1>8, <1>9, <2>3
    <3>2. QED
      BY <1>2, <3>1
  <2>4. CASE /\ app.phase = "loaded" /\ now
             /\ orders' = orders \o batch
             /\ app' = [app EXCEPT !.cur = target]
             /\ view' = IF st = "STEP" THEN [o \in Objects |-> "STEP"] ELSE view
    <3>1. app'.phase = app.phase /\ app'.cur = target /\ app'.pend = app.pend
      BY <1>1, <2>4
    <3>2. QED
      BY <1>1, <2>4, <3>1
  <2>5. QED
    BY <1>7, <2>1, <2>2, <2>3, <2>4
<1>11. GInv'
  <2>1. \A i \in 1..Len(orders') : \/ \E j \in 1..Len(orders) : orders'[i] = orders[j]
                                   \/ orders'[i].obj \in Objects /\ Born(orders'[i].obj)
    <3>1. CASE orders' = orders
      BY <3>1
    <3>2. CASE orders' = orders \o batch
      BY <1>1, <1>4, <1>6, <3>2, Sent
    <3>3. QED
      BY <1>7, <3>1, <3>2
  <2>2. \A o \in Objects : ~Born(o) => view'[o] = None
    <3>1. view' = view \/ AllPlaced(placed)
      BY <1>7
    <3>2. QED
      BY <1>1, <1>6, <3>1 DEF Unheard, AllPlaced
  <2>3. \A o \in Objects : ~Born(o) => \A i \in 1..Len(orders') : orders'[i].obj # o
    BY <1>1, <2>1 DEF Unheard
  <2>4. \A o \in Objects : ~Born(o) => \A i \in 1..Len(reports') : reports'[i].obj # o
    BY <1>1, <1>3 DEF Unheard
  <2>5. NoStep(reports)'
    BY <1>1, <1>3 DEF NoStep
  <2>6. QED
    BY <1>3, <1>10, <2>2, <2>3, <2>4, <2>5, StillGInv
<1>12. Beliefs'
  <2> SUFFICES ASSUME app'.phase = "loaded", NEW o \in Objects
               PROVE  OInv(o, orders, reports, view[o], app.cur)'
    BY DEF Beliefs
  <2>1. PICK O, R, v, c : O = orders /\ R = reports /\ v = view[o] /\ c = app.cur
    OBVIOUS
  <2>2. OInv(o, O, R, v, c)
    BY <1>10, <2>1 DEF Beliefs
  <2>3. CASE orders' = orders /\ view' = view /\ app'.cur = app.cur
    BY <1>3, <2>1, <2>2, <2>3, StillBelieves
  <2>4. CASE /\ now /\ orders' = orders \o batch /\ app'.cur = target
             /\ view' = IF st = "STEP" THEN [other \in Objects |-> "STEP"] ELSE view
    <3>1. PICK b, O2, v2, c2 : b = batch /\ O2 = O \o b /\ v2 = view'[o] /\ c2 = target
      OBVIOUS
    <3>2. orders' = O2 /\ reports' = R /\ view'[o] = v2 /\ app'.cur = c2
      BY <1>3, <2>1, <2>4, <3>1
    <3>3. Behind(O, b, O2)
      BY <1>1, <1>4, <2>1, <3>1, SentBehind
    <3>4. v2 = IF st = "STEP" THEN "STEP" ELSE v
      BY <2>1, <2>4, <3>1
    <3>5. CASE target \in Stopped
      <4>1. st # "STEP" /\ v2 = v /\ c2 \in Stopped
        BY <1>2, <3>1, <3>4, <3>5 DEF Stopped
      <4>2. \A k \in 1..Len(b) : b[k].obj = o => b[k].st \in Stopped /\ v \notin Stopped
        BY <1>2, <1>4, <2>1, <3>1, <3>5
      <4>3. OInv(o, O2, R, v, c2)
        BY <2>2, <3>3, <4>1, <4>2, SendStop DEF Stopped
      <4>4. QED
        BY <1>3, <3>2, <4>1, <4>3, StillBelieves
    <3>6. CASE target \notin Stopped
      <4>1. v = c
        BY <2>1, <2>4, <3>6 DEF now, status_ok
      <4>2. v # "STEP"
        BY <2>2, <4>1 DEF OInv, StepView, Stopped
      <4>3. c2 \notin Stopped /\ (v2 = v \/ (v2 = "STEP" /\ c2 = "PAUSE"))
            /\ st = IF v2 = "STEP" THEN "STEP" ELSE c2
        BY <3>1, <3>4, <3>6, <4>2 DEF target
      <4>4. \A k \in 1..Len(b) : b[k].obj = o =>
              /\ v \notin Stopped
              /\ b[k].st = IF v2 = "STEP" THEN "STEP" ELSE c2
              /\ \A l \in 1..Len(b) : b[l].obj = o => l = k
        BY <1>4, <1>5, <2>1, <3>1, <4>3
      <4>5. OInv(o, O2, R, v2, c2)
        BY <2>2, <3>3, <4>1, <4>3, <4>4, SendOn
      <4>6. QED
        BY <1>3, <3>2, <4>5, StillBelieves
    <3>7. QED
      BY <3>5, <3>6
  <2>5. QED
    BY <1>10, <2>3, <2>4
<1>13. QED
  BY <1>11, <1>12

\* SWMAN takes a report
LEMMA StatusRepVInv ==
  ASSUME BInv, IInv, GInv, Beliefs, swman_incmd_statusrep
  PROVE  GInv' /\ Beliefs'
<1> DEFINE r       == Head(reports)
           view1   == [view EXCEPT ![r.obj] = Seen(r)]
           placed1 == IF Expected(r) /\ r.st = "STARTED" THEN placed \cup {r.obj} ELSE placed
           cur1    == IF Aborts(r) THEN "ABNSTOP" ELSE app.cur
           toldOf  == IF r.st = "ABNSTOP" THEN view1 ELSE view
           toAbort == IF Aborts(r) THEN Targets(toldOf, placed) ELSE {}
           pending == status_ok(view1, cur1) /\ app.pend # None
           cur2    == IF pending THEN app.pend ELSE cur1
           to      == IF pending THEN Targets(view1, placed1) ELSE {}
<1>0. PICK A \in SUBSET toAbort, T \in SUBSET to :
        app.phase = "loaded" =>
          orders' = orders \o (swman_sendobjstatus("ABNSTOP", A) \o swman_sendobjstatus(cur2, T))
  BY DEF swman_incmd_statusrep, Send
<1> DEFINE abort == swman_sendobjstatus("ABNSTOP", A)
           batch == swman_sendobjstatus(cur2, T)
<1>1. /\ orders \in Seq(Order) /\ reports \in Seq(Report) /\ KnownStarted
      /\ view \in [Objects -> Statuses \cup {None}]
      /\ app \in [phase : {"unloaded", "loaded", "removed"},
                  cur : Statuses \cup {None}, pend : Statuses \cup {None}]
      /\ Unheard /\ NoStep(reports) /\ app.pend \notin Stopped /\ None \notin Stopped
  BY DEF BInv, WTypeOK, TypeOK, GInv, Stopped, None
<1>2. Still /\ reports # <<>> /\ reports' = Tail(reports)
  BY DEF swman_incmd_statusrep, Still, objVars
<1>3. /\ r \in Report /\ r = reports[1] /\ 1 \in 1..Len(reports) /\ r.obj \in Objects
      /\ \A i \in 1..Len(reports') : i + 1 \in 1..Len(reports) /\ reports'[i] = reports[i + 1]
  <2>1. /\ r \in Report /\ r = reports[1] /\ 1 \in 1..Len(reports)
        /\ \A i \in 1..Len(reports') : i + 1 \in 1..Len(reports) /\ reports'[i] = reports[i + 1]
    BY <1>1, <1>2
  <2>2. QED
    BY <2>1 DEF Report
<1>4. Born(r.obj) /\ \A o \in placed : Born(o)
  BY <1>1, <1>3 DEF Unheard, KnownStarted, Started, Born
<1>5. \A o \in Objects : view1[o] = IF o = r.obj THEN Seen(r) ELSE view[o]
  BY <1>1, <1>3
<1>6. \A o \in placed1 : Born(o)
  BY <1>4
<1>7. \/ app.phase # "loaded" /\ UNCHANGED <<app, view, orders>>
      \/ /\ app.phase = "loaded"
         /\ orders' = orders \o (abort \o batch)
         /\ view' = view1
         /\ \E ph \in {"loaded", "removed"}, pe \in {None, app.pend} :
              app' = [phase |-> ph, cur |-> cur2, pend |-> pe]
  <2>1. CASE app.phase # "loaded"
    BY <2>1 DEF swman_incmd_statusrep
  <2>2. CASE app.phase = "loaded"
    <3>1. orders' = orders \o (abort \o batch) /\ view' = view1
      BY <1>0, <2>2 DEF swman_incmd_statusrep
    <3>2. \E ph \in {"loaded", "removed"}, pe \in {None, app.pend} :
            app' = [phase |-> ph, cur |-> cur2, pend |-> pe]
      BY <2>2 DEF swman_incmd_statusrep
    <3>3. QED
      BY <2>2, <3>1, <3>2
  <2>3. QED
    BY <2>1, <2>2
<1> HIDE DEF view1, placed1, r
<1>8. /\ abort \in Seq(Order)
      /\ \A k \in 1..Len(abort) : abort[k].st = "ABNSTOP" /\ abort[k].obj \in placed
      /\ ~Aborts(r) => abort = <<>>
  <2>1. CASE Aborts(r)
    <3>1. "ABNSTOP" \in Statuses
      BY DEF Statuses, Stopped
    <3>2. A \in SUBSET Targets(toldOf, placed)
      BY <2>1
    <3> HIDE DEF toldOf
    <3>3. /\ abort \in Seq(Order)
          /\ \A k \in 1..Len(abort) : abort[k].st = "ABNSTOP" /\ abort[k].obj \in placed
      BY <3>1, <3>2, Batch
    <3> HIDE DEF abort
    <3>4. QED
      BY <2>1, <3>3
  <2>2. CASE ~Aborts(r)
    <3>1. A = {}
      BY <2>2
    <3>2. abort = <<>>
      BY <3>1, NoneSent
    <3> HIDE DEF abort
    <3>3. QED
      BY <2>2, <3>2
  <2>3. QED
    BY <2>1, <2>2
<1>9. /\ batch \in Seq(Order)
      /\ \A k \in 1..Len(batch) : /\ batch[k].st = cur2 /\ batch[k].obj \in Objects
                                  /\ batch[k].obj \in placed1 /\ view1[batch[k].obj] \notin Stopped
      /\ \A k, l \in 1..Len(batch) : batch[k].obj = batch[l].obj => k = l
      /\ ~pending => batch = <<>>
  <2>1. CASE pending
    <3>1. cur2 \in Statuses
      BY <1>1, <2>1
    <3>2. T \in SUBSET Targets(view1, placed1)
      BY <2>1
    <3> HIDE DEF cur2, pending
    <3>3. /\ batch \in Seq(Order)
          /\ \A k \in 1..Len(batch) : /\ batch[k].st = cur2 /\ batch[k].obj \in Objects
                                      /\ batch[k].obj \in placed1 /\ view1[batch[k].obj] \notin Stopped
      BY <3>1, <3>2, Batch
    <3>4. \A k, l \in 1..Len(batch) : batch[k].obj = batch[l].obj => k = l
      BY <3>1, <3>2, BatchOnce
    <3>5. QED
      BY <2>1, <3>3, <3>4
  <2>2. CASE ~pending
    <3>1. T = {}
      BY <2>2
    <3>2. batch = <<>>
      BY <3>1, NoneSent
    <3> HIDE DEF batch, pending
    <3>3. QED
      BY <2>2, <3>2
  <2>3. QED
    BY <2>1, <2>2
<1>10. /\ Aborts(r) => cur1 = "ABNSTOP"
       /\ ~Aborts(r) => cur1 = app.cur
       /\ ~Expected(r) => cur1 = "ABNSTOP"
       /\ Expected(r) => cur1 = app.cur
  BY DEF Aborts
<1>11. /\ pending => cur2 = app.pend /\ cur2 \notin Stopped /\ status_ok(view1, cur1)
       /\ ~pending => cur2 = cur1
  BY <1>1
<1> HIDE DEF abort, batch, cur1, cur2, pending
<1>12. GInv'
  <2>1. \A i \in 1..Len(orders') : \/ \E j \in 1..Len(orders) : orders'[i] = orders[j]
                                   \/ orders'[i].obj \in Objects /\ Born(orders'[i].obj)
    <3>1. CASE orders' = orders
      BY <3>1
    <3>2. CASE orders' = orders \o (abort \o batch)
      <4>1. abort \o batch \in Seq(Order) /\ Len(abort \o batch) = Len(abort) + Len(batch)
        BY <1>8, <1>9
      <4>2. ASSUME NEW k \in 1..Len(abort \o batch)
            PROVE  (abort \o batch)[k].obj \in Objects /\ Born((abort \o batch)[k].obj)
        <5>1. (abort \o batch)[k] \in Order
          BY <4>1
        <5>2. CASE k \in 1..Len(abort)
          <6>1. (abort \o batch)[k] = abort[k]
            BY <1>8, <1>9, <5>2
          <6>2. QED
            BY <1>4, <1>8, <5>1, <5>2, <6>1 DEF Order
        <5>3. CASE k \notin 1..Len(abort)
          <6>1. k - Len(abort) \in 1..Len(batch) /\ (abort \o batch)[k] = batch[k - Len(abort)]
            BY <1>8, <1>9, <4>1, <5>3
          <6>2. QED
            BY <1>6, <1>9, <6>1
        <5>4. QED
          BY <5>2, <5>3
      <4>3. QED
        <5>1. PICK s : s = abort \o batch
          OBVIOUS
        <5>2. /\ s \in Seq(Order) /\ orders' = orders \o s
              /\ \A k \in 1..Len(s) : s[k].obj \in Objects /\ Born(s[k].obj)
          BY <3>2, <4>1, <4>2, <5>1
        <5>3. \A i \in 1..Len(orders') : \/ \E j \in 1..Len(orders) : orders'[i] = orders[j]
                                         \/ \E k \in 1..Len(s) : orders'[i] = s[k]
          BY <1>1, <5>2, Sent
        <5>4. QED
          BY <5>2, <5>3
    <3>3. QED
      BY <1>7, <3>1, <3>2
  <2>2. \A o \in Objects : ~Born(o) => view'[o] = None
    BY <1>1, <1>4, <1>5, <1>7 DEF Unheard
  <2>3. \A o \in Objects : ~Born(o) => \A i \in 1..Len(orders') : orders'[i].obj # o
    BY <1>1, <2>1 DEF Unheard
  <2>4. \A o \in Objects : ~Born(o) => \A i \in 1..Len(reports') : reports'[i].obj # o
    BY <1>1, <1>3 DEF Unheard
  <2>5. NoStep(reports)'
    BY <1>1, <1>3 DEF NoStep
  <2>6. /\ app'.pend \notin Stopped
        /\ app'.phase = "unloaded" => app.phase = "unloaded" /\ view' = view
    BY <1>1, <1>7
  <2>7. QED
    BY <1>2, <2>2, <2>3, <2>4, <2>5, <2>6, StillGInv
<1>13. Beliefs'
  <2> SUFFICES ASSUME app'.phase = "loaded", NEW o \in Objects
               PROVE  OInv(o, orders, reports, view[o], app.cur)'
    BY DEF Beliefs
  <2>1. /\ app.phase = "loaded" /\ orders' = orders \o (abort \o batch) /\ view' = view1 /\ app'.cur = cur2
    BY <1>7
  <2>2. PICK O, R, v, c, R2, v1, c1, a, O1 :
          /\ O = orders /\ R = reports /\ v = view[o] /\ c = app.cur
          /\ R2 = Tail(R) /\ v1 = view1[o] /\ c1 = cur1 /\ a = abort /\ O1 = O \o a
    OBVIOUS
  <2>3. OInv(o, O, R, v, c) /\ R \in Seq(Report) /\ R # <<>> /\ NoStep(R) /\ R[1] = r
    BY <1>1, <1>2, <1>3, <2>1, <2>2 DEF Beliefs
  <2>4. \/ OInv(o, O, R2, v1, c1)
        \/ OInv(o, O, R2, v1, c) /\ r.obj # o
    <3>1. CASE r.obj = o
      <4>1. \/ R[1].ok /\ (R[1].st = c \/ c = "ABNSTOP") /\ v1 = R[1].st /\ c1 = c
            \/ v1 = "ABNSTOP" /\ c1 = "ABNSTOP"
        BY <1>5, <1>10, <2>2, <2>3, <3>1 DEF Expected, Seen
      <4>2. R[1].obj = o /\ R2 = Tail(R)
        BY <2>2, <2>3, <3>1
      <4>3. QED
        BY <2>3, <4>1, <4>2, TakeOwn
    <3>2. CASE r.obj # o
      <4>1. v1 = v
        BY <1>5, <2>2, <3>2
      <4>2. QED
        BY <2>2, <2>3, <3>2, <4>1, TakeOther
    <3>3. QED
      BY <3>1, <3>2
  <2>5. OInv(o, O1, R2, v1, c1)
    <3>1. CASE Aborts(r)
      <4>1. c1 \in Stopped /\ Behind(O, a, O1)
        BY <1>1, <1>8, <1>10, <2>2, <3>1, SentBehind DEF Stopped
      <4>2. \A k \in 1..Len(a) : a[k].obj = o => a[k].st \in Stopped /\ (v1 = "STOP" => a[k].st = "ABNSTOP")
        BY <1>8, <2>2 DEF Stopped
      <4>3. CASE OInv(o, O, R2, v1, c1)
        BY <4>1, <4>2, <4>3, SendStop
      <4>4. CASE OInv(o, O, R2, v1, c)
        BY <4>1, <4>2, <4>4, SendStop
      <4>5. QED
        BY <2>4, <4>3, <4>4
    <3>2. CASE ~Aborts(r)
      <4>1. O1 = O
        BY <1>1, <1>8, <2>2, <3>2
      <4>2. c1 = c
        BY <1>10, <2>2, <3>2
      <4>3. QED
        BY <2>4, <4>1, <4>2
    <3>3. QED
      BY <3>1, <3>2
  <2>6. PICK c2, b, O2 : c2 = cur2 /\ b = batch /\ O2 = O1 \o b
    OBVIOUS
  <2>7. O1 \in Seq(Order)
    BY <1>1, <1>8, <2>2
  <2>8. OInv(o, O2, R2, v1, c2)
    <3>1. CASE pending
      <4>1. v1 = c1 /\ c2 \notin Stopped /\ Behind(O1, b, O2)
        BY <1>9, <1>11, <2>2, <2>6, <2>7, <3>1, SentBehind DEF status_ok
      <4>2. v1 # "STEP"
        BY <2>5, <4>1 DEF OInv, StepView, Stopped
      <4>3. \A k \in 1..Len(b) : b[k].obj = o =>
              /\ v1 \notin Stopped
              /\ b[k].st = IF v1 = "STEP" THEN "STEP" ELSE c2
              /\ \A l \in 1..Len(b) : b[l].obj = o => l = k
        BY <1>9, <2>2, <2>6, <4>2
      <4>4. QED
        BY <2>5, <4>1, <4>3, SendOn
    <3>2. CASE ~pending
      <4>1. O2 = O1
        BY <1>9, <2>6, <2>7, <3>2
      <4>2. c2 = c1
        BY <1>11, <2>2, <2>6, <3>2
      <4>3. QED
        BY <2>5, <4>1, <4>2
    <3>3. QED
      BY <3>1, <3>2
  <2>9. orders' = O2
    <3>1. orders' = orders \o (abort \o batch)
      BY <2>1
    <3>2. O2 = (orders \o abort) \o batch
      BY <2>2, <2>6
    <3>3. abort \in Seq(Order) /\ batch \in Seq(Order) /\ orders \in Seq(Order)
      BY <1>1, <1>8, <1>9
    <3>4. (orders \o abort) \o batch = orders \o (abort \o batch)
      BY <3>3, ConcatAssociative
    <3>5. QED
      BY <3>1, <3>2, <3>4
  <2>10. reports' = R2 /\ view'[o] = v1 /\ app'.cur = c2
    BY <1>2, <2>1, <2>2, <2>6
  <2>11. QED
    BY <1>2, <2>8, <2>9, <2>10, StillBelieves
<1>14. QED
  BY <1>12, <1>13

\* the waveform is loaded: nothing is known of its objects yet
LEMMA LoadVInv ==
  ASSUME IInv, GInv, swman_incmd_loadapp
  PROVE  GInv' /\ Beliefs'
<1>1. /\ app.phase = "unloaded" /\ app' = [app EXCEPT !.phase = "loaded", !.cur = "STARTED"]
      /\ Still /\ UNCHANGED <<orders, reports, view>>
  BY DEF swman_incmd_loadapp, vars, objVars, Still
<1>2. Unheard /\ Unloaded /\ NoStep(reports) /\ app.pend \notin Stopped /\ CopyIsOlder
  BY DEF GInv, IInv
<1>3. app'.phase # "unloaded" /\ app'.pend \notin Stopped
  BY <1>1, <1>2
<1>4. GInv'
  <2>1. NoStep(reports)'
    BY <1>1, <1>2 DEF NoStep
  <2>2. \A o \in Objects : ~Born(o) => /\ view'[o] = None
                                       /\ \A i \in 1..Len(orders') : orders'[i].obj # o
                                       /\ \A i \in 1..Len(reports') : reports'[i].obj # o
    BY <1>1, <1>2 DEF Unheard
  <2>3. QED
    BY <1>1, <1>3, <2>1, <2>2, StillGInv
<1>5. Beliefs'
  <2> SUFFICES ASSUME NEW o \in Objects
               PROVE  OInv(o, orders, reports, view[o], app.cur)'
    BY DEF Beliefs
  <2>1. PICK O, R, v, c : O = orders /\ R = reports /\ v = view[o] /\ c = app'.cur
    OBVIOUS
  <2>2. /\ v = None /\ ~Alive(o)
        /\ \A i \in 1..Len(O) : O[i].obj # o
        /\ \A i \in 1..Len(R) : R[i].obj # o
    BY <1>1, <1>2, <2>1 DEF Unheard, Unloaded
  <2>3. v \notin Stopped /\ v # "STEP" /\ (v \in {c, "STOP"} => v = c)
    BY <2>2 DEF None, Stopped
  <2>4. app'.cur = "STARTED" \/ app'.cur = app.cur
    BY <1>1
  <2>5. OInv(o, O, R, v, c)
    <3>1. Faithful(o, O, v, c)
      <4>1. c = v => Holds(o, O, v)
        BY <1>1, <1>2, <2>1, <2>2 DEF Unloaded, Born, Holds
      <4>2. QED
        BY <2>3, <4>1 DEF Faithful
    <3>2. DeadNews(o, R, v, c) /\ GoodNews(o, O, R, v, c) /\ BadNews(o, R) /\ GivenUp(o, O, R, v)
      BY <2>2 DEF DeadNews, GoodNews, BadNews, GivenUp
    <3>3. NextNews(o, O, R, v, c) /\ Settled(o, v, c) /\ Waiting(o, O) /\ StepView(v, c)
      BY <2>2, <2>3 DEF NextNews, Settled, Waiting, StepView
    <3>4. StopOrdered(o, O, R, v, c) /\ StopEntered(o, O, R, v, c) /\ StopCopied(o, O, R, v, c)
          /\ StopTold(o, O, R, v, c)
      BY <2>2 DEF StopOrdered, StopEntered, StopCopied, StopTold
    <3>5. QED
      BY <3>1, <3>2, <3>3, <3>4 DEF OInv
  <2>6. QED
    BY <1>1, <2>1, <2>5, StillBelieves
<1>6. QED
  BY <1>4, <1>5

\* a load error drops the waveform
LEMMA AppErrorVInv ==
  ASSUME WTypeOK, GInv, swman_incmd_apperror
  PROVE  /\ GInv' /\ Beliefs' /\ UNCHANGED <<proc, snap, todo>>
         /\ \A o \in Objects : pc'[o] = pc[o] \/ pc'[o] = "failed"
<1>1. /\ app \in [phase : {"unloaded", "loaded", "removed"},
                  cur : Statuses \cup {None}, pend : Statuses \cup {None}]
      /\ pc \in [Objects -> ObjPc] /\ UNCHANGED <<proc, orders, reports, view, execVars>>
      /\ app.phase = "loaded" /\ app' = Removed
  BY DEF WTypeOK, TypeOK, swman_incmd_apperror
<1>2. \A o \in Objects : pc'[o] = pc[o] \/ pc'[o] = "failed"
  BY <1>1 DEF swman_incmd_apperror, Goto
<1>3. app'.phase = "removed" /\ app'.pend = None /\ None \notin Stopped
  <2> DEFINE a == [app EXCEPT !.phase = "removed"]
  <2>1. a \in [phase : {"removed"}, cur : Statuses \cup {None}, pend : Statuses \cup {None}]
    BY <1>1
  <2>2. Removed = [a EXCEPT !.pend = None]
    BY <1>1 DEF Removed
  <2> HIDE DEF a
  <2>3. QED
    BY <1>1, <2>1, <2>2 DEF None, Stopped
<1>4. LivingHasPid' /\ \A o \in Objects : Aborting(o)'
  BY <1>1, <1>2 DEF GInv, LivingHasPid, Alive, Aborting
<1>5. ExecAt' /\ Unheard' /\ CopyBorn'
  BY <1>1 DEF GInv, ExecAt, Unheard, CopyBorn, Born, execVars
<1>6. Unloaded' /\ NoStep(reports)' /\ app'.pend \notin Stopped
  BY <1>1, <1>3 DEF GInv, Unloaded, NoStep
<1>7. Beliefs'
  BY <1>3 DEF Beliefs
<1>8. QED
  BY <1>1, <1>2, <1>4, <1>5, <1>6, <1>7 DEF GInv, execVars

\* a step that leaves everything as it is
LEMMA StutterVInv ==
  ASSUME GInv, Beliefs, UNCHANGED wvars
  PROVE  GInv' /\ Beliefs'
<1>1. Still /\ UNCHANGED <<orders, reports, view, app>>
  BY DEF wvars, vars, objVars, swman, Still
<1>2. GInv'
  <2>1. NoStep(reports)' /\ app'.pend \notin Stopped
    BY <1>1 DEF GInv, NoStep
  <2>2. \A o \in Objects : ~Born(o) => /\ view'[o] = None
                                       /\ \A i \in 1..Len(orders') : orders'[i].obj # o
                                       /\ \A i \in 1..Len(reports') : reports'[i].obj # o
    BY <1>1 DEF GInv, Unheard
  <2>3. QED
    BY <1>1, <2>1, <2>2, StillGInv
<1>3. Beliefs'
  <2> SUFFICES ASSUME app.phase = "loaded", NEW o \in Objects
               PROVE  OInv(o, orders, reports, view[o], app.cur)'
    BY <1>1 DEF Beliefs
  <2>1. PICK O, R, v, c : O = orders /\ R = reports /\ v = view[o] /\ c = app.cur
    OBVIOUS
  <2>2. OInv(o, O, R, v, c)
    BY <2>1 DEF Beliefs
  <2>3. QED
    BY <1>1, <2>1, <2>2, StillBelieves
<1>4. QED
  BY <1>2, <1>3

\* every step keeps the invariant
LEMMA NextVInv == VInv /\ [WNext]_wvars => VInv'
<1> SUFFICES ASSUME VInv, [WNext]_wvars PROVE VInv'
  OBVIOUS
<1>1. BInv /\ IInv /\ GInv /\ Beliefs /\ BInv'
  BY NextBInv DEF VInv
<1>2. WTypeOK /\ TypeOK'
  BY <1>1 DEF BInv, WTypeOK
<1>3. ASSUME Local \/ (app.phase # "unloaded" /\ \E o \in Objects : Create(o)), UNCHANGED swman
      PROVE  VInv'
  <2>1. [Next]_vars
    BY <1>3 DEF Next
  <2>2. IInv' /\ GInv' /\ Beliefs'
    BY <1>1, <1>3, <2>1, NextIInv, LocalGInv, LocalBeliefs
  <2>3. QED
    BY <1>1, <2>2 DEF VInv
<1>4. CASE swman_incmd_loadapp
  <2>1. UNCHANGED <<proc, pc, snap, todo>>
    BY <1>4 DEF swman_incmd_loadapp, vars, objVars, execVars
  <2>2. IInv' /\ GInv' /\ Beliefs'
    BY <1>1, <1>2, <1>4, <2>1, StillIInv, LoadVInv
  <2>3. QED
    BY <1>1, <2>2 DEF VInv
<1>5. CASE swman_incmd_apperror
  BY <1>1, <1>2, <1>5, StillIInv, AppErrorVInv DEF VInv
<1>6. ASSUME NEW st \in Orderable, swman_incmd_appstatus(st) PROVE VInv'
  <2>1. UNCHANGED <<proc, pc, snap, todo>>
    BY <1>6 DEF swman_incmd_appstatus, objVars, execVars
  <2>2. IInv' /\ GInv' /\ Beliefs'
    BY <1>1, <1>2, <1>6, <2>1, StillIInv, AppStatusVInv
  <2>3. QED
    BY <1>1, <2>2 DEF VInv
<1>7. CASE swman_incmd_statusrep
  <2>1. UNCHANGED <<proc, pc, snap, todo>>
    BY <1>7 DEF swman_incmd_statusrep, objVars, execVars
  <2>2. IInv' /\ GInv' /\ Beliefs'
    BY <1>1, <1>2, <1>7, <2>1, StillIInv, StatusRepVInv
  <2>3. QED
    BY <1>1, <2>2 DEF VInv
<1>8. CASE UNCHANGED wvars
  <2>1. UNCHANGED <<proc, pc, snap, todo>>
    BY <1>8 DEF wvars, vars, objVars, execVars
  <2>2. IInv' /\ GInv' /\ Beliefs'
    BY <1>1, <1>2, <1>8, <2>1, StillIInv, StutterVInv
  <2>3. QED
    BY <1>1, <2>2 DEF VInv
<1>9. QED
  BY <1>3, <1>4, <1>5, <1>6, <1>7, <1>8 DEF WNext

\* the invariant holds at the start
LEMMA InitVInv == WInit => VInv
<1> SUFFICES ASSUME WInit PROVE VInv
  OBVIOUS
<1>1. BInv
  BY InitBInv
<1>2. IInv
  BY InitTypeOK, InitConsistent DEF WInit, IInv, Consistent
<1>3. /\ \A o \in Objects : /\ proc[o] = EmptyEntry /\ pc[o] = "none" /\ view[o] = None
      /\ orders = <<>> /\ reports = <<>> /\ epc = "idle" /\ todo = {} /\ victim = {}
      /\ app.phase = "unloaded" /\ app.pend = None
  BY DEF WInit, Init
<1>4. EmptyEntry.cur = None /\ ~EmptyEntry.known
  BY DEF EmptyEntry
<1>5. GInv
  <2>1. \A o \in Objects : ~Alive(o) /\ ~Born(o) /\ Aborting(o)
    BY <1>3, <1>4 DEF Alive, Born, Aborting
  <2>2. LivingHasPid /\ ExecAt /\ Unheard /\ CopyBorn /\ Unloaded
    BY <1>3, <2>1 DEF LivingHasPid, ExecAt, Unheard, CopyBorn, Unloaded
  <2>3. NoStep(reports) /\ app.pend \notin Stopped
    BY <1>3 DEF NoStep, None, Stopped
  <2>4. QED
    BY <2>1, <2>2, <2>3 DEF GInv
<1>6. Beliefs
  BY <1>3 DEF Beliefs
<1>7. QED
  BY <1>1, <1>2, <1>5, <1>6 DEF VInv

-----------------------------------------------------------------------------
(***************************************************************************)
(* The theorems.                                                           *)
(***************************************************************************)
\* SWMAN's records of the waveform, its view of the objects, the queues and the database
\* always hold values of their types.
THEOREM WTypeCorrect == WSpec => []WTypeOK
<1>1. BInv => WTypeOK
  BY DEF BInv
<1>2. QED
  BY <1>1, BarrierInductive, PTL

\* No object of a waveform runs before every object of it has started, for any number of
\* objects and whatever commands, deaths and load errors come in between.
THEOREM BarrierHolds == WSpec => []StartBarrier
<1>1. BInv => StartBarrier
  BY DEF BInv, RunHeld, AllStarted, Started, StartBarrier
<1>2. QED
  BY <1>1, BarrierInductive, PTL

\* What SWMAN believes of its waveform's objects is so, for any number of objects, whatever
\* is ordered and however reports, orders, deaths and time limits overtake one another: an
\* object it holds to be in the waveform's status is in it, or has aborted since.
THEOREM ViewIsRealEver == WSpec => []ViewIsReal
<1>1. VInv => ViewIsReal
  <2> SUFFICES ASSUME VInv, NEW o \in Objects,
                      app.phase = "loaded", view[o] = app.cur, app.cur # "ABNSTOP"
               PROVE  proc[o].cur \in {app.cur, "ABNSTOP"}
    BY DEF ViewIsReal
  <2>1. OInv(o, orders, reports, view[o], app.cur)
    BY DEF VInv, Beliefs
  <2>2. QED
    BY <2>1 DEF OInv, Faithful, Holds
<1>2. QED
  BY <1>1, InitVInv, NextVInv, PTL DEF WSpec
=============================================================================
