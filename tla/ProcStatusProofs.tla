-------------------------- MODULE ProcStatusProofs --------------------------
(***************************************************************************)
(* Proofs about the status-change protocol of ProcStatus, for any set of   *)
(* objects, any limit and any capacity of the queues.                      *)
(***************************************************************************)
EXTENDS ProcStatus, TLAPS

-----------------------------------------------------------------------------
(***************************************************************************)
(* The inductive invariant.                                                *)
(***************************************************************************)
\* what exec_background() still has to look at has not been forgotten, and a process that
\* was dead when the copy was taken is dead
CopyIsOlder ==
  \A o \in todo : proc[o].known /\ (proc[o].pid => snap[o].pid)

\* in a single step the object is about to enter STEP or is in STEP until the step is over
SteppingAt(o) ==
  /\ pc[o] = "step1" =>
       \/ proc[o].next = "STEP" /\ proc[o].prog = 2
       \/ proc[o].cur = "STEP" /\ proc[o].prog # 2
       \/ proc[o].cur = "STEP" /\ proc[o].next = "STEP"
  /\ pc[o] \in {"step2", "step3", "step4"} => proc[o].cur = "STEP"
SteppingInv == \A o \in Objects : SteppingAt(o)

\* a change that the copy shows as completed is still unconfirmed, and was overtaken by
\* nothing but the object's own abnormal stop
CompletedInv ==
  \A o \in todo :
    Ackable(snap[o]) /\ snap[o].cur # "STEP" =>
      /\ proc[o].prog # 0
      /\ proc[o].cur \in {snap[o].cur, "ABNSTOP"}
      /\ proc[o].next \in {snap[o].cur, "ABNSTOP"}

IInv == TypeOK /\ ForgottenIsDead /\ CopyIsOlder /\ SteppingInv /\ CompletedInv
-----------------------------------------------------------------------------
(***************************************************************************)
(* The critical sections on one database entry.                            *)
(***************************************************************************)
\* hwapi_proc_status_get leaves a valid entry; it neither touches the order nor the
\* registration, and a change in progress stays in progress.
LEMMA StatusGet ==
  ASSUME NEW p \in Entry
  PROVE  /\ status_get(p) \in Entry
         /\ status_get(p).next = p.next
         /\ status_get(p).due = p.due
         /\ status_get(p).pid = p.pid
         /\ status_get(p).known = p.known
         /\ status_get(p).cur \in {p.cur, p.next}
         /\ p.prog # 0 => status_get(p).prog # 0
  BY DEF Entry, status_get, Changing, Due

\* the status a call of hwapi_proc_status_get returns is one of the two of the entry
LEMMA StatusGot ==
  ASSUME NEW p \in Entry
  PROVE  status_got(p) \in {p.cur, p.next}
  BY DEF status_got

\* the forced order of ClosePHAL
LEMMA Forced ==
  ASSUME NEW p \in Entry, NEW st \in Statuses, NEW due \in Int
  PROVE  /\ Ordered(p, st, due) \in Entry
         /\ Ordered(p, st, due).pid = p.pid
         /\ Ordered(p, st, due).known = p.known
         /\ Ordered(p, st, due).cur = p.cur
         /\ Ordered(p, st, due).next = st
         /\ Ordered(p, st, due).prog = 1
<1> DEFINE q1 == [p EXCEPT !.next = st]
           q2 == [q1 EXCEPT !.due = due]
           q3 == [q2 EXCEPT !.prog = 1]
<1>1. Ordered(p, st, due) = q3
  BY DEF Ordered, Entry
<1>2. q1 \in Entry /\ q1.pid = p.pid /\ q1.known = p.known /\ q1.cur = p.cur /\ q1.next = st
  BY DEF Entry
<1> HIDE DEF q1
<1>3. q2 \in Entry /\ q2.pid = p.pid /\ q2.known = p.known /\ q2.cur = p.cur /\ q2.next = st
  BY <1>2 DEF Entry
<1> HIDE DEF q2
<1>4. /\ q3 \in Entry /\ q3.pid = p.pid /\ q3.known = p.known /\ q3.cur = p.cur
      /\ q3.next = st /\ q3.prog = 1
  BY <1>3 DEF Entry
<1>5. QED
  BY <1>1, <1>4

\* hwapi_proc_status_new changes an entry only when no change is in progress
LEMMA StatusNew ==
  ASSUME NEW p \in Entry, NEW st \in Statuses, NEW due \in Int
  PROVE  /\ status_new(p, st, due) \in Entry
         /\ status_new(p, st, due).pid = p.pid
         /\ status_new(p, st, due).known = p.known
         /\ status_new(p, st, due).cur = p.cur
         /\ p.prog # 0 => status_new(p, st, due) = p
  BY Forced DEF status_new, Idle

\* hwapi_proc_status_ack only closes a completed change
LEMMA StatusAck ==
  ASSUME NEW p \in Entry
  PROVE  /\ status_ack(p) \in Entry
         /\ status_ack(p).pid = p.pid
         /\ status_ack(p).known = p.known
         /\ status_ack(p).cur = p.cur
         /\ status_ack(p).next = p.next
  BY DEF Entry, status_ack

\* what a terminated object leaves in its entry is what some calls of status_get leave
LEMMA TerminatedEntry ==
  ASSUME NEW p \in Entry, NEW q \in Terminated(p)
  PROVE  /\ q \in Entry
         /\ q.next = p.next
         /\ q.pid = p.pid
         /\ q.known = p.known
         /\ q.cur \in {p.cur, p.next}
         /\ p.prog # 0 => q.prog # 0
<1> DEFINE p1 == status_get(p)
           p2 == status_get(p1)
           p3 == status_get(p2)
<1>1. q \in {p, p1, p2, p3}
  BY DEF Terminated
<1>2. /\ p1 \in Entry /\ p1.next = p.next /\ p1.pid = p.pid /\ p1.known = p.known
      /\ p1.cur \in {p.cur, p.next} /\ (p.prog # 0 => p1.prog # 0)
  BY StatusGet
<1> HIDE DEF p1
<1>3. /\ p2 \in Entry /\ p2.next = p1.next /\ p2.pid = p1.pid /\ p2.known = p1.known
      /\ p2.cur \in {p1.cur, p1.next} /\ (p1.prog # 0 => p2.prog # 0)
  BY <1>2, StatusGet
<1> HIDE DEF p2
<1>4. /\ p3 \in Entry /\ p3.next = p2.next /\ p3.pid = p2.pid /\ p3.known = p2.known
      /\ p3.cur \in {p2.cur, p2.next} /\ (p2.prog # 0 => p3.prog # 0)
  BY <1>3, StatusGet
<1> HIDE DEF p3
<1>5. QED
  BY <1>1, <1>2, <1>3, <1>4

-----------------------------------------------------------------------------
(***************************************************************************)
(* Type correctness.                                                       *)
(***************************************************************************)
LEMMA InitTypeOK == Init => TypeOK
  BY DEF Init, TypeOK, EmptyEntry, NoCopy, Entry, ObjPc, ExecPc, Statuses, Stopped, Order, Report

\* every step of an object's process keeps the types
LEMMA ObjectTypeOK ==
  ASSUME TypeOK, NEW o \in Objects, Object(o)
  PROVE  TypeOK'
<1>1. proc[o] \in Entry /\ pc[o] \in ObjPc
  BY DEF TypeOK
<1>2. \A l : l \in ObjPc /\ Goto(o, l) => pc' \in [Objects -> ObjPc]
  BY DEF TypeOK, Goto
<1>3. \A q : q \in Entry /\ Upd(o, q) => proc' \in [Objects -> Entry]
  BY DEF TypeOK, Upd
<1>4. {"PAUSE", "STOP", "ABNSTOP"} \subseteq Statuses
  BY DEF Statuses, Stopped
<1>5. CASE Boot(o)
  <2>1. [proc[o] EXCEPT !.due = 0] \in Entry
    BY <1>1 DEF Entry
  <2>2. status_get([proc[o] EXCEPT !.due = 0]) \in Entry
    BY <2>1, StatusGet
  <2>3. proc' \in [Objects -> Entry] /\ pc' \in [Objects -> ObjPc]
    BY <1>2, <1>3, <1>5, <2>2 DEF Boot, ObjPc
  <2>4. QED
    BY <1>5, <2>3 DEF TypeOK, Boot, execVars
<1>6. CASE Status(o)
  <2>1. proc' \in [Objects -> Entry]
    BY <1>1, <1>3, <1>6, StatusGet DEF Status
  <2>2. pc' \in [Objects -> ObjPc]
    BY <1>2, <1>6 DEF Status, ObjPc
  <2>3. initDone' \in [Objects -> BOOLEAN]
    BY <1>6 DEF Status, TypeOK
  <2>4. QED
    BY <1>6, <2>1, <2>2, <2>3 DEF TypeOK, Status, execVars
<1>7. CASE Step(o)
  <2>1. proc' \in [Objects -> Entry]
    BY <1>1, <1>3, <1>4, <1>7, StatusGet, StatusAck, StatusNew DEF Step
  <2>2. pc' \in [Objects -> ObjPc]
    BY <1>2, <1>7 DEF Step, ObjPc
  <2>3. QED
    BY <1>7, <2>1, <2>2 DEF TypeOK, Step, execVars
<1>8. CASE Work(o)
  <2>1. pc' \in [Objects -> ObjPc]
    BY <1>2, <1>8 DEF Work, ObjPc
  <2>2. QED
    BY <1>8, <2>1 DEF TypeOK, Work, execVars
<1>9. CASE Close(o)
  <2>1. \A due \in SinceBoot : due \in Int
    BY ConstAssumption DEF SinceBoot
  <2>2. proc' \in [Objects -> Entry]
    <3>1. CASE pc[o] = "abort1"
      <4>1. PICK due \in SinceBoot : Upd(o, Ordered(proc[o], "ABNSTOP", due))
        BY <1>9, <3>1 DEF Close
      <4>2. Ordered(proc[o], "ABNSTOP", due) \in Entry
        BY <1>1, <1>4, <2>1, Forced
      <4>3. QED
        BY <1>3, <4>1, <4>2
    <3>2. CASE pc[o] # "abort1"
      BY <1>1, <1>3, <1>4, <1>9, <3>2, StatusGet, StatusNew DEF Close
    <3>3. QED
      BY <3>1, <3>2
  <2>3. pc' \in [Objects -> ObjPc]
    BY <1>2, <1>9 DEF Close, ObjPc
  <2>4. QED
    BY <1>9, <2>2, <2>3 DEF TypeOK, Close, execVars
<1>10. CASE Die(o)
  <2>1. proc' \in [Objects -> Entry]
    BY <1>1, <1>3, <1>10, TerminatedEntry DEF Die
  <2>2. pc' \in [Objects -> ObjPc]
    BY <1>2, <1>10 DEF Die, ObjPc
  <2>3. QED
    BY <1>10, <2>1, <2>2 DEF TypeOK, Die, execVars
<1>11. CASE Reap(o)
  <2>1. [proc[o] EXCEPT !.pid = FALSE] \in Entry
    BY <1>1 DEF Entry
  <2>2. proc' \in [Objects -> Entry] /\ pc' \in [Objects -> ObjPc]
    BY <1>2, <1>3, <1>11, <2>1 DEF Reap, ObjPc
  <2>3. QED
    BY <1>11, <2>2 DEF TypeOK, Reap, execVars
<1>12. QED
  BY <1>5, <1>6, <1>7, <1>8, <1>9, <1>10, <1>11 DEF Object

\* the report of exec_statusrep is appended to SWMAN's queue, or dropped
LEMMA StatusRepSent ==
  ASSUME NEW o, NEW ok, NEW st, exec_statusrep(o, ok, st)
  PROVE  reports' = reports \/ reports' = Append(reports, [obj |-> o, ok |-> ok, st |-> st])
<1>1. CASE Len(reports) < MaxQueue
  BY <1>1 DEF exec_statusrep
<1>2. CASE ~(Len(reports) < MaxQueue)
  BY <1>2 DEF exec_statusrep
<1>3. QED
  BY <1>1, <1>2

LEMMA StatusRep ==
  ASSUME TypeOK, NEW o \in Objects, NEW ok \in BOOLEAN, NEW st \in Statuses \cup {None},
         exec_statusrep(o, ok, st)
  PROVE  reports' \in Seq(Report)
<1>1. reports \in Seq(Report) /\ [obj |-> o, ok |-> ok, st |-> st] \in Report
  BY DEF TypeOK, Report
<1>2. CASE reports' = reports
  BY <1>1, <1>2
<1>3. CASE reports' = Append(reports, [obj |-> o, ok |-> ok, st |-> st])
  BY <1>1, <1>3
<1>4. QED
  BY <1>2, <1>3, StatusRepSent

\* every step of the EXEC daemon keeps the types
LEMMA ExecTypeOK ==
  ASSUME TypeOK, Exec
  PROVE  TypeOK'
<1>1. \A o \in Objects : proc[o] \in Entry /\ snap[o] \in Entry
  BY DEF TypeOK
<1>2. \A o \in Objects : \A q \in Entry : Upd(o, q) => proc' \in [Objects -> Entry]
  BY DEF TypeOK, Upd
<1>3. \A p \in Entry : p.cur \in Statuses \cup {None}
  BY DEF Entry
<1>4. CASE exec_incmd_setstatus
  <2> DEFINE c == Head(orders)
             p == proc[c.obj]
  <2>1. c \in Order /\ Tail(orders) \in Seq(Order)
    BY <1>4 DEF exec_incmd_setstatus, TypeOK
  <2>2. c.obj \in Objects /\ c.st \in Statuses /\ p \in Entry
    BY <1>1, <2>1 DEF Order
  <2>3. orders' \in Seq(Order)
    BY <1>4, <2>1 DEF exec_incmd_setstatus
  <2>4. UNCHANGED <<pc, initDone, snap, todo>>
    BY <1>4 DEF exec_incmd_setstatus, objVars
  <2>5. CASE ~p.known /\ UNCHANGED <<proc, reports, epc, victim>>
    BY <2>3, <2>4, <2>5 DEF TypeOK
  <2>6. CASE \E due \in IF c.st = "ABNSTOP" THEN {-1} ELSE Dates :
               Upd(c.obj, status_new(p, c.st, due)) /\ UNCHANGED <<reports, epc, victim>>
    <3>1. PICK due \in IF c.st = "ABNSTOP" THEN {-1} ELSE Dates :
                 Upd(c.obj, status_new(p, c.st, due))
      BY <2>6
    <3>2. due \in Int
      <4>1. CASE c.st = "ABNSTOP"
        BY <4>1
      <4>2. CASE c.st # "ABNSTOP"
        BY <4>2, ConstAssumption
      <4>3. QED
        BY <4>1, <4>2
    <3>3. status_new(p, c.st, due) \in Entry
      BY <2>2, <3>2, StatusNew
    <3>4. proc' \in [Objects -> Entry]
      BY <1>2, <2>2, <3>1, <3>3
    <3>5. QED
      BY <2>3, <2>4, <2>6, <3>4 DEF TypeOK
  <2>7. CASE /\ exec_statusrep(c.obj, FALSE, p.cur)
             /\ epc' = IF p.pid THEN "killAndIdle" ELSE "idle"
             /\ victim' = IF p.pid THEN {c.obj} ELSE {}
             /\ UNCHANGED proc
    <3>1. reports' \in Seq(Report)
      BY <1>3, <2>2, <2>7, StatusRep
    <3>2. epc' \in ExecPc /\ victim' \in SUBSET Objects
      BY <2>2, <2>7 DEF ExecPc
    <3>3. QED
      BY <2>3, <2>4, <2>7, <3>1, <3>2 DEF TypeOK
  <2>8. QED
    BY <1>4, <2>5, <2>6, <2>7 DEF exec_incmd_setstatus
<1>5. CASE BackgroundStart
  BY <1>5 DEF BackgroundStart, TypeOK, objVars, ExecPc
<1>6. CASE Background
  <2>1. UNCHANGED <<pc, initDone, orders, snap>>
    BY <1>6 DEF Background, objVars
  <2>2. PICK o \in todo : \/ BackgroundDied(o) \/ BackgroundAck(o)
                          \/ BackgroundTimeout(o) \/ BackgroundSkip(o)
    BY <1>6 DEF Background
  <2>3. o \in Objects /\ todo \ {o} \in SUBSET Objects
    BY <2>2 DEF TypeOK
  <2>4. CASE BackgroundDied(o)
    <3>1. reports' \in Seq(Report)
      BY <1>1, <1>3, <2>3, <2>4, StatusRep DEF BackgroundDied, TypeOK
    <3>2. [proc[o] EXCEPT !.known = FALSE] \in Entry
      BY <1>1, <2>3 DEF Entry
    <3>3. proc' \in [Objects -> Entry]
      BY <1>2, <2>3, <2>4, <3>2 DEF BackgroundDied
    <3>4. QED
      BY <2>1, <2>3, <2>4, <3>1, <3>3 DEF BackgroundDied, TypeOK
  <2>5. CASE BackgroundAck(o)
    <3>1. CASE Ackable(proc[o])
      <4>1. proc' \in [Objects -> Entry]
        BY <1>1, <1>2, <2>3, <2>5, <3>1, StatusAck DEF BackgroundAck
      <4>2. reports' \in Seq(Report)
        BY <1>1, <1>3, <2>3, <2>5, <3>1, StatusRep DEF BackgroundAck
      <4>3. QED
        BY <2>1, <2>3, <2>5, <3>1, <4>1, <4>2 DEF BackgroundAck, TypeOK
    <3>2. CASE ~Ackable(proc[o])
      BY <2>1, <2>5, <3>2 DEF BackgroundAck, TypeOK
    <3>3. QED
      BY <3>1, <3>2
  <2>6. CASE BackgroundTimeout(o)
    BY <2>1, <2>3, <2>6 DEF BackgroundTimeout, TypeOK, ExecPc
  <2>7. CASE BackgroundSkip(o)
    BY <2>1, <2>3, <2>7 DEF BackgroundSkip, TypeOK
  <2>8. QED
    BY <2>2, <2>4, <2>5, <2>6, <2>7
<1>7. CASE BackgroundEnd
  <2>1. NoCopy \in [Objects -> Entry]
    BY DEF NoCopy, EmptyEntry, Entry, Statuses
  <2>2. QED
    BY <1>7, <2>1 DEF BackgroundEnd, TypeOK, objVars, ExecPc
<1>8. CASE KillReturn
  <2>1. PICK o \in victim :
          /\ \/ epc' = "idle" /\ UNCHANGED reports
             \/ epc' = "background" /\ exec_statusrep(o, FALSE, "ABNSTOP")
          /\ IF Alive(o) THEN Goto(o, "zombie") ELSE UNCHANGED pc
    BY <1>8 DEF KillReturn
  <2>2. o \in Objects /\ "ABNSTOP" \in Statuses
    BY <2>1 DEF TypeOK, Statuses, Stopped
  <2>3. reports' \in Seq(Report)
    BY <2>1, <2>2, StatusRep DEF TypeOK
  <2>4. pc' \in [Objects -> ObjPc]
    BY <2>1, <2>2 DEF TypeOK, Goto, ObjPc
  <2>5. QED
    BY <1>8, <2>1, <2>3, <2>4 DEF KillReturn, TypeOK, ExecPc
<1>9. QED
  BY <1>4, <1>5, <1>6, <1>7, <1>8 DEF Exec

\* every step keeps the types
LEMMA NextTypeOK == TypeOK /\ [Next]_vars => TypeOK'
<1> SUFFICES ASSUME TypeOK, [Next]_vars PROVE TypeOK'
  OBVIOUS
<1>1. ASSUME NEW o \in Objects, Create(o) PROVE TypeOK'
  <2>1. NewEntry \in Entry
    BY DEF NewEntry, Entry, Statuses
  <2>2. proc' \in [Objects -> Entry]
    BY <1>1, <2>1 DEF Create, Upd, TypeOK
  <2>3. pc' \in [Objects -> ObjPc]
    BY <1>1 DEF Create, Goto, TypeOK, ObjPc
  <2>4. QED
    BY <1>1, <2>2, <2>3 DEF Create, TypeOK, execVars
<1>2. CASE Tick
  <2>1. ASSUME NEW o \in Objects
        PROVE  [proc[o] EXCEPT !.due = IF @ > -(Limit + 1) THEN @ - 1 ELSE @] \in Entry
    <3>1. proc[o] \in Entry
      BY DEF TypeOK
    <3>2. QED
      BY <3>1, ConstAssumption DEF Entry
  <2>2. proc' \in [Objects -> Entry]
    BY <1>2, <2>1 DEF Tick
  <2>3. QED
    BY <1>2, <2>2 DEF Tick, TypeOK, objVars, execVars
<1>3. CASE TakeReport
  BY <1>3 DEF TakeReport, TypeOK, objVars, execVars
<1>4. ASSUME NEW o \in Objects, SendOrder(o) PROVE TypeOK'
  <2>1. PICK st \in Orderable : orders' = Append(orders, [obj |-> o, st |-> st])
    BY <1>4 DEF SendOrder
  <2>2. [obj |-> o, st |-> st] \in Order
    BY ConstAssumption DEF Order
  <2>3. QED
    BY <1>4, <2>1, <2>2 DEF SendOrder, TypeOK, objVars, execVars
<1>5. CASE UNCHANGED vars
  BY <1>5 DEF vars, objVars, execVars, TypeOK
<1>6. QED
  BY <1>1, <1>2, <1>3, <1>4, <1>5, ObjectTypeOK, ExecTypeOK DEF Next, Local

\* The process database, the queues between EXEC and SWMAN and EXEC's copy of the database
\* always hold values of their types, and every process is where its program can be.
THEOREM TypeCorrect == Spec => []TypeOK
  BY InitTypeOK, NextTypeOK, PTL DEF Spec

-----------------------------------------------------------------------------
(***************************************************************************)
(* The inductive invariant holds.                                          *)
(***************************************************************************)
\* What a step of an object's process may do to its entry: it never registers anything, it
\* loses a change in progress only in a single step, and it changes the order in progress
\* only to its own abnormal stop.
OwnStep(o, p, q) ==
  /\ q \in Entry
  /\ q.known = p.known
  /\ q.pid => p.pid
  /\ p.prog # 0 => q.next = p.next \/ (pc[o] = "abort1" /\ q.next = "ABNSTOP")
  /\ p.prog # 0 /\ p.cur # "STEP" => q.prog # 0 /\ q.cur \in {p.cur, p.next}

\* every step of an object changes its own entry, as OwnStep says
LEMMA ObjectStep ==
  ASSUME TypeOK, SteppingInv, NEW o \in Objects, Object(o)
  PROVE  \E q : /\ proc' = [proc EXCEPT ![o] = q]
                /\ OwnStep(o, proc[o], q)
                /\ SteppingAt(o)'
                /\ \A other \in Objects \ {o} : pc'[other] = pc[other]
                /\ UNCHANGED <<snap, todo>>
<1> DEFINE p == proc[o]
<1>1. p \in Entry /\ SteppingAt(o) /\ pc \in [Objects -> ObjPc]
  BY DEF TypeOK, SteppingInv
<1>2. proc \in [Objects -> Entry]
  BY DEF TypeOK
<1>3. {"PAUSE", "STOP", "ABNSTOP"} \subseteq Statuses
  BY DEF Statuses, Stopped
<1> SUFFICES \E q : /\ Upd(o, q)
                    /\ OwnStep(o, p, q)
                    /\ SteppingAt(o)'
                    /\ \A other \in Objects \ {o} : pc'[other] = pc[other]
                    /\ UNCHANGED <<snap, todo>>
  BY DEF Upd
<1>4. CASE Boot(o)
  <2> DEFINE p0 == [p EXCEPT !.due = 0]
  <2>1. /\ p0 \in Entry /\ p0.cur = p.cur /\ p0.next = p.next /\ p0.prog = p.prog
        /\ p0.pid = p.pid /\ p0.known = p.known
    BY <1>1 DEF Entry
  <2>2. Upd(o, status_get(p0))
    BY <1>4 DEF Boot
  <2> HIDE DEF p0
  <2>3. OwnStep(o, p, status_get(p0))
    BY <2>1, StatusGet DEF OwnStep
  <2>4. pc' = [pc EXCEPT ![o] = "status"] /\ UNCHANGED <<snap, todo>>
    BY <1>4 DEF Boot, Goto, execVars
  <2>5. QED
    BY <1>1, <2>2, <2>3, <2>4 DEF SteppingAt
<1>5. CASE Status(o)
  <2> DEFINE q == status_get(p)
  <2>1. Upd(o, q) /\ UNCHANGED <<snap, todo>>
    BY <1>5 DEF Status, execVars
  <2>2. OwnStep(o, p, q)
    BY <1>1, StatusGet DEF OwnStep
  <2>3. proc'[o] = q
    BY <1>2, <2>1 DEF Upd
  <2>4. /\ pc'[o] \notin {"step2", "step3", "step4"}
        /\ pc'[o] = "step1" => status_got(p) = "STEP"
        /\ \A other \in Objects \ {o} : pc'[other] = pc[other]
    BY <1>1, <1>5 DEF Status, Goto
  <2>5. status_got(p) = "STEP" => \/ q.next = "STEP" /\ q.prog = 2
                                  \/ q.cur = "STEP" /\ q.prog # 2
                                  \/ q.cur = "STEP" /\ q.next = "STEP"
    BY <1>1 DEF Entry, status_get, status_got, Changing, Due
  <2>6. SteppingAt(o)'
    BY <2>3, <2>4, <2>5 DEF SteppingAt
  <2>7. QED
    BY <2>1, <2>2, <2>4, <2>6
<1>6. CASE Step(o)
  <2>1. UNCHANGED <<snap, todo>> /\ \A other \in Objects \ {o} : pc'[other] = pc[other]
    BY <1>1, <1>6 DEF Step, Goto, execVars
  <2>2. CASE pc[o] = "step1"
    <3>1. Upd(o, status_get(p)) /\ pc'[o] = "step2"
      BY <1>1, <1>6, <2>2 DEF Step, Goto
    <3>2. OwnStep(o, p, status_get(p))
      BY <1>1, StatusGet DEF OwnStep
    <3>3. status_get(p).cur = "STEP"
      BY <1>1, <2>2 DEF SteppingAt, Entry, status_get, Changing, Due
    <3>4. SteppingAt(o)'
      BY <1>2, <3>1, <3>3 DEF SteppingAt, Upd
    <3>5. QED
      BY <2>1, <3>1, <3>2, <3>4
  <2>3. CASE pc[o] = "step2"
    <3>1. Upd(o, status_ack(p)) /\ pc'[o] = "step3" /\ p.cur = "STEP"
      BY <1>1, <1>6, <2>3 DEF Step, Goto, SteppingAt
    <3>2. OwnStep(o, p, status_ack(p)) /\ status_ack(p).cur = "STEP"
      BY <1>1, <3>1, StatusAck DEF OwnStep
    <3>3. SteppingAt(o)'
      BY <1>2, <3>1, <3>2 DEF SteppingAt, Upd
    <3>4. QED
      BY <2>1, <3>1, <3>2, <3>3
  <2>4. CASE pc[o] = "step3"
    <3>1. Upd(o, status_new(p, "PAUSE", 0)) /\ pc'[o] = "step4" /\ p.cur = "STEP"
      BY <1>1, <1>6, <2>4 DEF Step, Goto, SteppingAt
    <3>2. OwnStep(o, p, status_new(p, "PAUSE", 0)) /\ status_new(p, "PAUSE", 0).cur = "STEP"
      BY <1>1, <1>3, <3>1, StatusNew DEF OwnStep
    <3>3. SteppingAt(o)'
      BY <1>2, <3>1, <3>2 DEF SteppingAt, Upd
    <3>4. QED
      BY <2>1, <3>1, <3>2, <3>3
  <2>5. CASE pc[o] = "step4"
    <3>1. Upd(o, status_get(p)) /\ pc'[o] = "work"
      BY <1>1, <1>6, <2>5 DEF Step, Goto
    <3>2. OwnStep(o, p, status_get(p))
      BY <1>1, StatusGet DEF OwnStep
    <3>3. SteppingAt(o)'
      BY <3>1 DEF SteppingAt
    <3>4. QED
      BY <2>1, <3>1, <3>2, <3>3
  <2>6. QED
    BY <1>6, <2>2, <2>3, <2>4, <2>5 DEF Step
<1>7. CASE Work(o)
  <2>1. /\ Upd(o, p) /\ UNCHANGED <<snap, todo>> /\ pc'[o] \in {"status", "close"}
        /\ \A other \in Objects \ {o} : pc'[other] = pc[other]
    BY <1>1, <1>2, <1>7 DEF Work, Goto, Upd, execVars
  <2>2. OwnStep(o, p, p) /\ SteppingAt(o)'
    BY <1>1, <2>1 DEF OwnStep, SteppingAt
  <2>3. QED
    BY <2>1, <2>2
<1>8. CASE Close(o)
  <2>1. /\ UNCHANGED <<snap, todo>>
        /\ pc'[o] \in {"wait", "abort1", "abort2", "abort3", "zombie"}
        /\ \A other \in Objects \ {o} : pc'[other] = pc[other]
    BY <1>1, <1>8 DEF Close, Goto, execVars
  <2>2. SteppingAt(o)'
    BY <2>1 DEF SteppingAt
  <2>3. OwnStep(o, p, status_get(p)) /\ OwnStep(o, p, status_new(p, "STOP", 0))
    BY <1>1, <1>3, StatusGet, StatusNew DEF OwnStep
  <2>4. CASE pc[o] = "abort1"
    <3>1. PICK due \in SinceBoot : Upd(o, Ordered(p, "ABNSTOP", due))
      BY <1>8, <2>4 DEF Close
    <3>2. due \in Int
      BY <3>1, ConstAssumption DEF SinceBoot
    <3>3. OwnStep(o, p, Ordered(p, "ABNSTOP", due))
      BY <1>1, <1>3, <2>4, <3>2, Forced DEF OwnStep
    <3>4. QED
      BY <2>1, <2>2, <3>1, <3>3
  <2>5. CASE pc[o] # "abort1"
    <3>1. Upd(o, status_get(p)) \/ Upd(o, status_new(p, "STOP", 0))
      BY <1>8, <2>5 DEF Close
    <3>2. QED
      BY <2>1, <2>2, <2>3, <3>1
  <2>6. QED
    BY <2>4, <2>5
<1>9. CASE Die(o)
  <2>1. PICK q \in IF pc[o] = "boot" THEN {p} ELSE Terminated(p) : Upd(o, q)
    BY <1>9 DEF Die
  <2>2. OwnStep(o, p, q)
    BY <1>1, <2>1, TerminatedEntry DEF OwnStep
  <2>3. /\ UNCHANGED <<snap, todo>> /\ pc'[o] = "zombie"
        /\ \A other \in Objects \ {o} : pc'[other] = pc[other]
    BY <1>1, <1>9 DEF Die, Goto, execVars
  <2>4. SteppingAt(o)'
    BY <2>3 DEF SteppingAt
  <2>5. QED
    BY <2>1, <2>2, <2>3, <2>4
<1>10. CASE Reap(o)
  <2>1. Upd(o, [p EXCEPT !.pid = FALSE])
    BY <1>10 DEF Reap
  <2>2. OwnStep(o, p, [p EXCEPT !.pid = FALSE])
    BY <1>1 DEF OwnStep, Entry
  <2>3. /\ UNCHANGED <<snap, todo>> /\ pc'[o] = "none"
        /\ \A other \in Objects \ {o} : pc'[other] = pc[other]
    BY <1>1, <1>10 DEF Reap, Goto, execVars
  <2>4. SteppingAt(o)'
    BY <2>3 DEF SteppingAt
  <2>5. QED
    BY <2>1, <2>2, <2>3, <2>4
<1>11. QED
  BY <1>4, <1>5, <1>6, <1>7, <1>8, <1>9, <1>10 DEF Object

\* the parts of the invariant besides the types
Consistent == ForgottenIsDead /\ CopyIsOlder /\ SteppingInv /\ CompletedInv

\* the invariant holds at the start
LEMMA InitConsistent == Init => Consistent
  BY DEF Init, Consistent, ForgottenIsDead, CopyIsOlder, SteppingInv, SteppingAt, CompletedInv,
         EmptyEntry

\* a step of an object keeps the invariant
LEMMA ObjectConsistent ==
  ASSUME IInv, NEW o \in Objects, Object(o)
  PROVE  Consistent'
<1>1. proc \in [Objects -> Entry] /\ todo \subseteq Objects
  BY DEF IInv, TypeOK
<1>2. PICK q : /\ proc' = [proc EXCEPT ![o] = q]
               /\ OwnStep(o, proc[o], q)
               /\ SteppingAt(o)'
               /\ \A other \in Objects \ {o} : pc'[other] = pc[other]
               /\ UNCHANGED <<snap, todo>>
  BY ObjectStep DEF IInv
<1>3. proc'[o] = q /\ \A other \in Objects \ {o} : proc'[other] = proc[other]
  BY <1>1, <1>2
<1>4. ForgottenIsDead'
  BY <1>2, <1>3 DEF IInv, ForgottenIsDead, OwnStep
<1>5. CopyIsOlder'
  BY <1>1, <1>2, <1>3 DEF IInv, CopyIsOlder, OwnStep
<1>6. SteppingInv'
  BY <1>2, <1>3 DEF IInv, SteppingInv, SteppingAt
<1>7. CompletedInv'
  BY <1>1, <1>2, <1>3 DEF IInv, CompletedInv, OwnStep, Ackable
<1>8. QED
  BY <1>4, <1>5, <1>6, <1>7 DEF Consistent

\* a step of EXEC keeps the invariant
LEMMA ExecConsistent ==
  ASSUME IInv, Exec
  PROVE  Consistent'
<1>1. /\ proc \in [Objects -> Entry] /\ snap \in [Objects -> Entry] /\ pc \in [Objects -> ObjPc]
      /\ todo \subseteq Objects /\ victim \subseteq Objects /\ orders \in Seq(Order)
  BY DEF IInv, TypeOK
<1>2. ForgottenIsDead /\ CopyIsOlder /\ SteppingInv /\ CompletedInv
  BY DEF IInv
<1>3. CASE exec_incmd_setstatus
  <2> DEFINE c == Head(orders)
             p == proc[c.obj]
  <2>1. c.obj \in Objects /\ c.st \in Statuses
    <3>1. c \in Order
      BY <1>1, <1>3 DEF exec_incmd_setstatus
    <3>2. QED
      BY <3>1 DEF Order
  <2>2. UNCHANGED <<pc, snap, todo>>
    BY <1>3 DEF exec_incmd_setstatus, objVars
  <2>3. CASE UNCHANGED proc
    BY <1>2, <2>2, <2>3 DEF Consistent, ForgottenIsDead, CopyIsOlder, SteppingInv, SteppingAt,
                            CompletedInv, Ackable, Changing
  <2>4. CASE \E due \in IF c.st = "ABNSTOP" THEN {-1} ELSE Dates :
               Upd(c.obj, status_new(p, c.st, due))
    <3>1. PICK due \in IF c.st = "ABNSTOP" THEN {-1} ELSE Dates :
                 Upd(c.obj, status_new(p, c.st, due))
      BY <2>4
    <3>2. due \in Int
      <4>1. CASE c.st = "ABNSTOP"
        BY <4>1
      <4>2. CASE c.st # "ABNSTOP"
        BY <4>2, ConstAssumption
      <4>3. QED
        BY <4>1, <4>2
    <3> DEFINE q == status_new(p, c.st, due)
    <3>3. /\ q.pid = p.pid /\ q.known = p.known /\ q.cur = p.cur
          /\ p.prog # 0 => q = p
          /\ q = p \/ q.prog = 1
      <4>1. p \in Entry
        BY <1>1, <2>1
      <4>2. Ordered(p, c.st, due).prog = 1
        BY <2>1, <3>2, <4>1, Forced
      <4>3. QED
        BY <2>1, <3>2, <4>1, <4>2, StatusNew DEF status_new
    <3> HIDE DEF q
    <3>4. /\ proc'[c.obj] = q
          /\ \A other \in Objects \ {c.obj} : proc'[other] = proc[other]
      BY <1>1, <2>1, <3>1 DEF Upd, q
    <3>5. ForgottenIsDead' /\ CopyIsOlder'
      BY <1>1, <1>2, <2>2, <3>3, <3>4 DEF ForgottenIsDead, CopyIsOlder
    <3>6. SteppingInv'
      BY <1>2, <2>2, <3>3, <3>4 DEF SteppingInv, SteppingAt
    <3>7. CompletedInv'
      BY <1>1, <1>2, <2>2, <3>3, <3>4 DEF CompletedInv, Ackable, Changing
    <3>8. QED
      BY <3>5, <3>6, <3>7 DEF Consistent
  <2>5. QED
    BY <1>3, <2>3, <2>4 DEF exec_incmd_setstatus
<1>4. CASE BackgroundStart
  <2>1. /\ snap' = proc /\ todo' = {o \in Objects : proc[o].known}
        /\ UNCHANGED <<proc, pc>>
    BY <1>4 DEF BackgroundStart, objVars
  <2>2. CompletedInv'
    BY <1>1, <2>1 DEF CompletedInv, Ackable, Changing
  <2>3. ForgottenIsDead' /\ CopyIsOlder' /\ SteppingInv'
    BY <1>2, <2>1 DEF ForgottenIsDead, CopyIsOlder, SteppingInv, SteppingAt
  <2>4. QED
    BY <2>2, <2>3 DEF Consistent
<1>5. CASE Background
  <2>1. UNCHANGED <<pc, snap>>
    BY <1>5 DEF Background, objVars
  <2>2. PICK o \in todo : \/ BackgroundDied(o) \/ BackgroundAck(o)
                          \/ BackgroundTimeout(o) \/ BackgroundSkip(o)
    BY <1>5 DEF Background
  <2>3. o \in Objects
    BY <1>1, <2>2
  <2>4. CASE BackgroundDied(o)
    <3> DEFINE q == [proc[o] EXCEPT !.known = FALSE]
    <3>1. /\ proc'[o] = q /\ \A other \in Objects \ {o} : proc'[other] = proc[other]
          /\ todo' = todo \ {o} /\ ~snap[o].pid
      BY <1>1, <2>3, <2>4 DEF BackgroundDied, Upd, Died
    <3>2. q.pid = proc[o].pid /\ q.cur = proc[o].cur /\ q.next = proc[o].next
          /\ q.prog = proc[o].prog
      BY <1>1, <2>3 DEF Entry
    <3> HIDE DEF q
    <3>3. ~q.pid
      BY <1>2, <2>2, <3>1, <3>2 DEF CopyIsOlder
    <3>4. ForgottenIsDead' /\ CopyIsOlder'
      BY <1>1, <1>2, <2>1, <3>1, <3>3 DEF ForgottenIsDead, CopyIsOlder
    <3>5. SteppingInv'
      BY <1>2, <2>1, <3>1, <3>2 DEF SteppingInv, SteppingAt
    <3>6. CompletedInv'
      BY <1>1, <1>2, <2>1, <3>1 DEF CompletedInv, Ackable, Changing
    <3>7. QED
      BY <3>4, <3>5, <3>6 DEF Consistent
  <2>5. CASE BackgroundAck(o) /\ Ackable(proc[o])
    <3> DEFINE q == status_ack(proc[o])
    <3>1. /\ proc'[o] = q /\ \A other \in Objects \ {o} : proc'[other] = proc[other]
          /\ todo' = todo \ {o}
      BY <1>1, <2>3, <2>5 DEF BackgroundAck, Upd
    <3>2. q.pid = proc[o].pid /\ q.known = proc[o].known /\ q.cur = proc[o].cur
          /\ q.next = proc[o].next
      BY <1>1, <2>3, StatusAck
    <3>3. q.next = q.cur
      BY <2>5, <3>2 DEF Ackable, Changing
    <3> HIDE DEF q
    <3>4. ForgottenIsDead' /\ CopyIsOlder'
      BY <1>1, <1>2, <2>1, <3>1, <3>2 DEF ForgottenIsDead, CopyIsOlder
    <3>5. SteppingInv'
      BY <1>2, <2>1, <3>1, <3>2, <3>3 DEF SteppingInv, SteppingAt
    <3>6. CompletedInv'
      BY <1>1, <1>2, <2>1, <3>1 DEF CompletedInv, Ackable, Changing
    <3>7. QED
      BY <3>4, <3>5, <3>6 DEF Consistent
  <2>6. CASE (BackgroundAck(o) /\ ~Ackable(proc[o])) \/ BackgroundTimeout(o) \/ BackgroundSkip(o)
    <3>1. UNCHANGED proc /\ todo' \subseteq todo
      BY <2>6 DEF BackgroundAck, BackgroundTimeout, BackgroundSkip
    <3>2. QED
      BY <1>2, <2>1, <3>1 DEF Consistent, ForgottenIsDead, CopyIsOlder, SteppingInv, SteppingAt,
                              CompletedInv, Ackable, Changing
  <2>7. QED
    BY <2>2, <2>4, <2>5, <2>6
<1>6. CASE BackgroundEnd
  BY <1>2, <1>6 DEF BackgroundEnd, objVars, Consistent, ForgottenIsDead, CopyIsOlder,
                    SteppingInv, SteppingAt, CompletedInv
<1>7. CASE KillReturn
  <2>1. UNCHANGED <<proc, snap, todo>>
    BY <1>7 DEF KillReturn
  <2>2. \A o \in Objects : pc'[o] = pc[o] \/ pc'[o] = "zombie"
    BY <1>1, <1>7 DEF KillReturn, Goto
  <2>3. QED
    BY <1>2, <2>1, <2>2 DEF Consistent, ForgottenIsDead, CopyIsOlder, SteppingInv, SteppingAt,
                            CompletedInv, Ackable, Changing
<1>8. QED
  BY <1>3, <1>4, <1>5, <1>6, <1>7 DEF Exec

\* every step keeps the inductive invariant
LEMMA NextIInv == IInv /\ [Next]_vars => IInv'
<1> SUFFICES ASSUME IInv, [Next]_vars PROVE Consistent'
  BY NextTypeOK DEF IInv, Consistent
<1>1. /\ proc \in [Objects -> Entry] /\ pc \in [Objects -> ObjPc] /\ todo \subseteq Objects
      /\ ForgottenIsDead /\ CopyIsOlder /\ SteppingInv /\ CompletedInv
  BY DEF IInv, TypeOK
<1>2. ASSUME NEW o \in Objects, Create(o) PROVE Consistent'
  <2>1. /\ proc'[o] = NewEntry /\ \A other \in Objects \ {o} : proc'[other] = proc[other]
        /\ pc'[o] = "boot" /\ \A other \in Objects \ {o} : pc'[other] = pc[other]
        /\ UNCHANGED <<snap, todo>> /\ ~proc[o].known
    BY <1>1, <1>2 DEF Create, Upd, Goto, execVars
  <2>2. o \notin todo
    BY <1>1, <2>1 DEF CopyIsOlder
  <2>3. NewEntry.known
    BY DEF NewEntry
  <2>4. ForgottenIsDead' /\ CopyIsOlder'
    BY <1>1, <2>1, <2>2, <2>3 DEF ForgottenIsDead, CopyIsOlder
  <2>5. SteppingInv'
    BY <1>1, <2>1 DEF SteppingInv, SteppingAt
  <2>6. CompletedInv'
    BY <1>1, <2>1, <2>2 DEF CompletedInv, Ackable, Changing
  <2>7. QED
    BY <2>4, <2>5, <2>6 DEF Consistent
<1>3. CASE Tick
  <2>1. UNCHANGED <<pc, snap, todo>>
    BY <1>3 DEF Tick, objVars, execVars
  <2>2. ASSUME NEW o \in Objects
        PROVE  /\ proc'[o].cur = proc[o].cur /\ proc'[o].next = proc[o].next
               /\ proc'[o].prog = proc[o].prog /\ proc'[o].pid = proc[o].pid
               /\ proc'[o].known = proc[o].known
    <3>1. /\ proc[o] \in Entry
          /\ proc'[o] = [proc[o] EXCEPT !.due = IF @ > -(Limit + 1) THEN @ - 1 ELSE @]
      BY <1>1, <1>3 DEF Tick
    <3>2. QED
      BY <3>1 DEF Entry
  <2>3. ForgottenIsDead' /\ CopyIsOlder'
    BY <1>1, <2>1, <2>2 DEF ForgottenIsDead, CopyIsOlder
  <2>4. SteppingInv'
    BY <1>1, <2>1, <2>2 DEF SteppingInv, SteppingAt
  <2>5. CompletedInv'
    BY <1>1, <2>1, <2>2 DEF CompletedInv, Ackable, Changing
  <2>6. QED
    BY <2>3, <2>4, <2>5 DEF Consistent
<1>4. CASE UNCHANGED <<proc, pc, snap, todo>>
  BY <1>1, <1>4 DEF Consistent, ForgottenIsDead, CopyIsOlder, SteppingInv, SteppingAt,
                    CompletedInv, Ackable, Changing
<1>5. TakeReport \/ (\E o \in Objects : SendOrder(o)) \/ UNCHANGED vars
        => UNCHANGED <<proc, pc, snap, todo>>
  BY DEF TakeReport, SendOrder, vars, objVars, execVars
<1>6. QED
  BY <1>2, <1>3, <1>4, <1>5, ObjectConsistent, ExecConsistent DEF Next, Local

\* the invariant always holds
LEMMA Inductive == Spec => []IInv
<1>1. Init => IInv
  BY InitTypeOK, InitConsistent DEF IInv, Consistent
<1>2. QED
  BY <1>1, NextIInv, PTL DEF Spec

-----------------------------------------------------------------------------
(***************************************************************************)
(* The properties.                                                         *)
(***************************************************************************)
\* exec_background() never forgets an object whose process may be running.
THEOREM ForgottenDead == Spec => []ForgottenIsDead
<1>1. IInv => ForgottenIsDead
  BY DEF IInv
<1>2. QED
  BY <1>1, Inductive, PTL

\* No order that is being carried out is overwritten, but for an object's own abnormal stop.
THEOREM OrdersNotOverwritten == Spec => OrderNotOverwritten
<1>1. ASSUME IInv, [Next]_vars
      PROVE  [\A o \in Objects :
                proc[o].prog # 0 /\ proc[o].known /\ proc'[o].next # proc[o].next
                  => pc[o] = "abort1" /\ proc'[o].next = "ABNSTOP"]_vars
  <2> SUFFICES ASSUME Next, NEW o \in Objects,
                      proc[o].prog # 0, proc[o].known, proc'[o].next # proc[o].next
               PROVE  pc[o] = "abort1" /\ proc'[o].next = "ABNSTOP"
    BY <1>1
  <2>1. /\ proc \in [Objects -> Entry] /\ todo \subseteq Objects /\ orders \in Seq(Order)
        /\ TypeOK /\ SteppingInv
    BY <1>1 DEF IInv, TypeOK
  <2>2. ASSUME NEW other \in Objects, Object(other)
        PROVE  pc[o] = "abort1" /\ proc'[o].next = "ABNSTOP"
    <3>1. PICK q : /\ proc' = [proc EXCEPT ![other] = q]
                   /\ OwnStep(other, proc[other], q)
      BY <2>1, <2>2, ObjectStep
    <3>2. other = o /\ proc'[o] = q
      BY <2>1, <3>1
    <3>3. QED
      BY <3>1, <3>2 DEF OwnStep
  <2>3. CASE exec_incmd_setstatus
    <3> DEFINE c == Head(orders)
    <3>1. PICK due : Upd(c.obj, status_new(proc[c.obj], c.st, due))
      BY <2>3 DEF exec_incmd_setstatus
    <3>2. c.obj = o
      BY <2>1, <3>1 DEF Upd
    <3>3. proc'[o] = proc[o]
      BY <2>1, <3>1, <3>2 DEF Upd, status_new, Idle
    <3>4. QED
      BY <3>3
  <2>4. CASE Background
    <3>1. PICK other \in todo : \/ BackgroundDied(other) \/ BackgroundAck(other)
                                \/ BackgroundTimeout(other) \/ BackgroundSkip(other)
      BY <2>4 DEF Background
    <3>2. proc[other] \in Entry
      BY <2>1, <3>1
    <3>3. \/ Upd(other, [proc[other] EXCEPT !.known = FALSE])
          \/ Upd(other, status_ack(proc[other]))
          \/ UNCHANGED proc
      BY <3>1 DEF BackgroundDied, BackgroundAck, BackgroundTimeout, BackgroundSkip
    <3>4. /\ [proc[other] EXCEPT !.known = FALSE].next = proc[other].next
          /\ status_ack(proc[other]).next = proc[other].next
      BY <3>2, StatusAck DEF Entry
    <3>5. QED
      BY <2>1, <3>1, <3>3, <3>4 DEF Upd
  <2>5. CASE Tick
    <3>1. proc'[o] = [proc[o] EXCEPT !.due = IF @ > -(Limit + 1) THEN @ - 1 ELSE @]
      BY <2>5 DEF Tick
    <3>2. QED
      BY <2>1, <3>1 DEF Entry
  <2>6. ASSUME NEW other \in Objects, Create(other)
        PROVE  pc[o] = "abort1" /\ proc'[o].next = "ABNSTOP"
    BY <2>1, <2>6 DEF Create, Upd
  <2>7. BackgroundStart \/ BackgroundEnd \/ KillReturn \/ TakeReport
          \/ (\E other \in Objects : SendOrder(other)) => UNCHANGED proc
    BY DEF BackgroundStart, BackgroundEnd, KillReturn, TakeReport, SendOrder
  <2>8. QED
    BY <2>2, <2>3, <2>4, <2>5, <2>6, <2>7 DEF Next, Local, Exec
<1>2. QED
  BY <1>1, Inductive, PTL DEF Spec, OrderNotOverwritten

\* SWMAN_STATUSOK(st) is only sent for an object that is in st, or was overtaken by its own
\* abnormal stop.
THEOREM OkReportsTrue == Spec => OkReportIsTrue
<1>1. ASSUME IInv, [Next]_vars
      PROVE  [\A o \in Objects, st \in Statuses :
                Sends([obj |-> o, ok |-> TRUE, st |-> st]) => proc[o].cur \in {st, "ABNSTOP"}]_vars
  <2> SUFFICES ASSUME Next, NEW o \in Objects, NEW st \in Statuses,
                      Sends([obj |-> o, ok |-> TRUE, st |-> st])
               PROVE  proc[o].cur \in {st, "ABNSTOP"}
    BY <1>1
  <2> DEFINE m == [obj |-> o, ok |-> TRUE, st |-> st]
  <2>1. reports \in Seq(Report) /\ CompletedInv
    BY <1>1 DEF IInv, TypeOK
  <2>2. m.obj = o /\ m.ok = TRUE /\ m.st = st
    OBVIOUS
  <2>3. reports' = Append(reports, m)
    BY DEF Sends
  <2> HIDE DEF m
  <2>4. ASSUME NEW n, reports' = Append(reports, n) PROVE n = m
    <3>1. Append(reports, n)[Len(reports) + 1] = n /\ Append(reports, m)[Len(reports) + 1] = m
      BY <2>1
    <3>2. QED
      BY <2>3, <2>4, <3>1
  <2>5. reports' # reports
    BY <2>1, <2>3
  <2>6. ASSUME NEW other, NEW s, exec_statusrep(other, FALSE, s) PROVE FALSE
    <3>1. reports' = Append(reports, [obj |-> other, ok |-> FALSE, st |-> s])
      BY <2>5, <2>6, StatusRepSent
    <3>2. [obj |-> other, ok |-> FALSE, st |-> s] = m
      BY <2>4, <3>1
    <3>3. QED
      BY <2>2, <3>2
  <2>7. CASE Background
    <3>1. PICK other \in todo : BackgroundAck(other) /\ Ackable(proc[other])
      BY <2>5, <2>6, <2>7
         DEF Background, BackgroundDied, BackgroundAck, BackgroundTimeout, BackgroundSkip
    <3>2. exec_statusrep(other, TRUE, snap[other].cur)
      BY <3>1 DEF BackgroundAck
    <3>3. [obj |-> other, ok |-> TRUE, st |-> snap[other].cur] = m
      BY <2>4, <2>5, <3>2, StatusRepSent
    <3>4. other = o /\ snap[o].cur = st
      BY <2>2, <3>3
    <3>5. Ackable(snap[o]) /\ snap[o].cur # "STEP"
      BY <3>1, <3>4 DEF BackgroundAck, Observed
    <3>6. QED
      BY <2>1, <3>1, <3>4, <3>5 DEF CompletedInv
  <2>8. ~TakeReport
    BY <2>1, <2>3 DEF TakeReport
  <2>9. ~exec_incmd_setstatus /\ ~KillReturn
    BY <2>5, <2>6 DEF exec_incmd_setstatus, KillReturn
  <2>10. Tick \/ BackgroundStart \/ BackgroundEnd
           \/ (\E other \in Objects : Object(other) \/ Create(other) \/ SendOrder(other))
           => UNCHANGED reports
    BY DEF Tick, BackgroundStart, BackgroundEnd, Object, Boot, Status, Step, Work, Close, Die,
           Reap, Create, SendOrder
  <2>11. QED
    BY <2>5, <2>7, <2>8, <2>9, <2>10 DEF Next, Local, Exec
<1>2. QED
  BY <1>1, Inductive, PTL DEF Spec, OkReportIsTrue

-----------------------------------------------------------------------------
(***************************************************************************)
(* ProcStatus implements StatusHandshake: the initial state maps to the    *)
(* initial state, and every step to a step of the handshake or to a        *)
(* stutter. The argument needs, besides the inductive invariant IInv, that *)
(* a running process has its pid in the database, that no change is        *)
(* pending in an entry at rest, and that an object which the copy of       *)
(* exec_background() shows as started has started.                         *)
(***************************************************************************)
Resting(p) == p.prog = 0 /\ p.known => ~Changing(p)

RunningHasPid == \A o \in Objects : Alive(o) => proc[o].pid
AtRest        == \A o \in Objects : Resting(proc[o])
CopyStarted   == \A o \in todo : snap[o].cur # None => proc[o].cur # None

HandInv == RunningHasPid /\ AtRest /\ CopyStarted

Stays   == UNCHANGED <<hands, running>>
HandMove == HS!HNext \/ Stays
-----------------------------------------------------------------------------
\* an object that was never created has no status
LEMMA NoneIsNoStatus == None \notin Statuses
  BY DEF None, Statuses, Stopped

\* one call of hwapi_proc_status_get is at most one step of the handshake
LEMMA HandGet ==
  ASSUME NEW p \in Entry, p.known, Resting(p)
  PROVE  /\ Hand(status_get(p)) \in {Hand(p), HS!Told(Hand(p)), HS!Changed(Hand(p))}
         /\ Resting(status_get(p))
         /\ p.cur # None => status_get(p).cur # None
<1> DEFINE q == status_get(p)
<1>1. q \in Entry /\ q.known /\ q.next = p.next
  BY StatusGet
<1>2. /\ HS!Told(Hand(p)) = IF Hand(p).phase = "ordered" /\ p.next # p.cur
                              THEN [Hand(p) EXCEPT !.phase = "told"] ELSE Hand(p)
      /\ HS!Changed(Hand(p)) = IF Hand(p).phase = "told"
                                 THEN [Hand(p) EXCEPT !.phase = "changed", !.status = p.next] ELSE Hand(p)
  BY DEF HS!Told, HS!Changed, Hand
<1>3. CASE Changing(p) /\ p.prog = 2
  <2>1. q.cur = p.next /\ q.prog = 2
    BY <1>3 DEF status_get, Entry
  <2>2. Phase(p) = "told" /\ Phase(q) = "changed"
    BY <1>1, <1>3, <2>1 DEF Phase, Changing
  <2>3. Hand(q) = HS!Changed(Hand(p))
    BY <1>1, <1>2, <2>1, <2>2 DEF Hand
  <2>4. q.cur # None /\ Resting(q)
    BY <2>1, NoneIsNoStatus DEF Entry, Resting
  <2>5. QED
    BY <2>3, <2>4
<1>4. CASE Changing(p) /\ p.prog < 2 /\ Due(p)
  <2>1. q.cur = p.cur /\ q.prog = 2
    BY <1>4 DEF status_get, Entry
  <2>2. p.prog = 1
    BY <1>4 DEF Resting, Entry
  <2>3. Phase(p) = "ordered" /\ Phase(q) = "told"
    BY <1>1, <1>4, <2>1, <2>2 DEF Phase, Changing
  <2>4. Hand(q) = HS!Told(Hand(p))
    BY <1>1, <1>2, <1>4, <2>1, <2>3 DEF Hand, Changing
  <2>5. QED
    BY <2>1, <2>4 DEF Resting
<1>5. CASE q = p
  BY <1>5
<1>6. QED
  BY <1>3, <1>4, <1>5 DEF status_get

\* an order to an entry at rest
LEMMA HandOrder ==
  ASSUME NEW p \in Entry, NEW st \in Statuses, NEW due \in Int, p.known
  PROVE  /\ Hand(Ordered(p, st, due)) = [Hand(p) EXCEPT !.phase = "ordered", !.target = st]
         /\ Resting(Ordered(p, st, due))
<1> DEFINE q == Ordered(p, st, due)
<1>1. q \in Entry /\ q.known /\ q.cur = p.cur /\ q.next = st /\ q.prog = 1
  BY Forced
<1> HIDE DEF q
<1>2. Hand(q) = [phase |-> "ordered", status |-> p.cur, target |-> st] /\ Resting(q)
  BY <1>1 DEF Hand, Phase, Resting
<1> DEFINE h1 == [Hand(p) EXCEPT !.phase = "ordered"]
<1>3. h1 = [phase |-> "ordered", status |-> p.cur, target |-> p.next]
  BY DEF Hand
<1> HIDE DEF h1
<1>4. [h1 EXCEPT !.target = st] = [phase |-> "ordered", status |-> p.cur, target |-> st]
  BY <1>3
<1>5. QED
  BY <1>2, <1>4 DEF q, h1

\* an entry at rest is a settled handshake
LEMMA HandIdle ==
  ASSUME NEW p \in Entry, p.known, Idle(p)
  PROVE  Hand(p).phase = "settled"
  BY DEF Hand, Phase, Idle

\* hwapi_proc_status_ack
LEMMA HandAck ==
  ASSUME NEW p \in Entry, p.known, Ackable(p)
  PROVE  /\ Hand(p).phase = "changed"
         /\ Hand(status_ack(p)) = [Hand(p) EXCEPT !.phase = "settled"]
         /\ Resting(status_ack(p))
<1>1. /\ status_ack(p).known /\ status_ack(p).cur = p.cur /\ status_ack(p).next = p.next
      /\ status_ack(p).prog = 0
  BY DEF Entry, status_ack
<1>2. Phase(p) = "changed" /\ Phase(status_ack(p)) = "settled"
  BY <1>1 DEF Phase, Ackable, Changing
<1>3. QED
  BY <1>1, <1>2 DEF Hand, Resting, Ackable, Changing

\* what a terminated object leaves is its handshake, carried on by at most two steps
LEMMA HandTerminated ==
  ASSUME NEW p \in Entry, p.known, Resting(p), NEW q \in Terminated(p)
  PROVE  /\ Hand(q) \in {Hand(p), HS!Told(Hand(p)), HS!Changed(Hand(p)),
                         HS!Changed(HS!Told(Hand(p)))}
         /\ Resting(q)
         /\ p.cur # None => q.cur # None
<1> DEFINE p1 == status_get(p)
           p2 == status_get(p1)
           p3 == status_get(p2)
           h  == Hand(p)
<1>1. q \in {p, p1, p2, p3}
  BY DEF Terminated
<1>2. /\ p1 \in Entry /\ p1.known /\ Resting(p1) /\ (p.cur # None => p1.cur # None)
      /\ Hand(p1) \in {h, HS!Told(h), HS!Changed(h)}
  BY StatusGet, HandGet
<1> HIDE DEF p1
<1>3. /\ p2 \in Entry /\ p2.known /\ Resting(p2) /\ (p1.cur # None => p2.cur # None)
      /\ Hand(p2) \in {Hand(p1), HS!Told(Hand(p1)), HS!Changed(Hand(p1))}
  BY <1>2, StatusGet, HandGet
<1> HIDE DEF p2
<1>4. /\ Resting(p3) /\ (p2.cur # None => p3.cur # None)
      /\ Hand(p3) \in {Hand(p2), HS!Told(Hand(p2)), HS!Changed(Hand(p2))}
  BY <1>3, HandGet
<1> HIDE DEF p3, h
<1>5. /\ HS!Told(h) # h => h.phase = "ordered" /\ HS!Told(h).phase = "told"
      /\ HS!Changed(h) # h => h.phase = "told" /\ HS!Changed(h).phase = "changed"
      /\ HS!Changed(HS!Told(h)) # HS!Told(h) => HS!Changed(HS!Told(h)).phase = "changed"
  <2>1. h \in [phase : {Phase(p)}, status : {p.cur}, target : {p.next}]
    BY DEF h, Hand
  <2>2. /\ HS!Told(h) # h => h.phase = "ordered" /\ HS!Told(h).phase = "told"
        /\ HS!Changed(h) # h => h.phase = "told" /\ HS!Changed(h).phase = "changed"
    BY <2>1 DEF HS!Told, HS!Changed
  <2>3. HS!Told(h) \in [phase : {Phase(p), "told"}, status : {p.cur}, target : {p.next}]
    BY <2>1 DEF HS!Told
  <2> DEFINE t == HS!Told(h)
  <2> HIDE DEF t
  <2>4. t \in [phase : {Phase(p), "told"}, status : {p.cur}, target : {p.next}]
          => (HS!Changed(t) # t => HS!Changed(t).phase = "changed")
    BY DEF HS!Changed
  <2>5. QED
    BY <2>2, <2>3, <2>4 DEF t
<1>6. \A g : /\ g.phase \notin {"ordered", "told"} => HS!Told(g) = g /\ HS!Changed(g) = g
             /\ g.phase = "told" => HS!Told(g) = g
             /\ g.phase = "ordered" => HS!Changed(g) = g
  BY DEF HS!Told, HS!Changed
<1>7. Hand(p2) \in {h, HS!Told(h), HS!Changed(h), HS!Changed(HS!Told(h))}
  BY <1>2, <1>3, <1>5, <1>6
<1>8. Hand(p3) \in {h, HS!Told(h), HS!Changed(h), HS!Changed(HS!Told(h))}
  BY <1>4, <1>5, <1>6, <1>7
<1>9. QED
  BY <1>1, <1>2, <1>3, <1>4, <1>7, <1>8 DEF h

-----------------------------------------------------------------------------
(***************************************************************************)
(* The steps of an object.                                                 *)
(***************************************************************************)
LEMMA HandUpd ==
  ASSUME proc \in [Objects -> Entry], NEW o \in Objects, NEW q, Upd(o, q)
  PROVE  HS!Becomes(o, Hand(q))
  BY DEF Upd, HS!Becomes, hands

\* a process that goes on is running, one that ends is not
LEMMA RunsOn ==
  ASSUME pc \in [Objects -> ObjPc], NEW o \in Objects, Alive(o), NEW l, Goto(o, l)
  PROVE  /\ o \in running
         /\ l \notin {"none", "zombie", "failed"} => UNCHANGED running
         /\ l = "zombie" => running' = running \ {o}
  BY DEF Goto, running, Alive

\* a handshake that becomes what it is has not moved
LEMMA Unmoved ==
  ASSUME NEW o \in Objects, HS!Becomes(o, hands[o])
  PROVE  UNCHANGED hands
  BY DEF HS!Becomes, hands

\* HandInv looks at the database entry of o and at whether o runs
LEMMA ObjectHandInv ==
  ASSUME TypeOK, HandInv, NEW o \in Objects, NEW q \in Entry, Upd(o, q), UNCHANGED <<snap, todo>>,
         Resting(q), proc[o].cur # None => q.cur # None,
         running' \subseteq running, o \in running' => q.pid
  PROVE  HandInv'
<1>1. proc'[o] = q /\ \A other \in Objects \ {o} : proc'[other] = proc[other]
  BY DEF TypeOK, Upd
<1>2. RunningHasPid' /\ AtRest'
  BY <1>1 DEF HandInv, RunningHasPid, AtRest, running
<1>3. CopyStarted'
  BY <1>1 DEF TypeOK, HandInv, CopyStarted
<1>4. QED
  BY <1>2, <1>3 DEF HandInv

\* one call of hwapi_proc_status_get by a running object
LEMMA GetStep ==
  ASSUME IInv, HandInv, NEW o \in Objects, Alive(o), NEW p \in Entry, Hand(p) = Hand(proc[o]),
         p.cur = proc[o].cur, p.pid = proc[o].pid, p.known = proc[o].known,
         p.prog = proc[o].prog, p.next = proc[o].next,
         Upd(o, status_get(p)), UNCHANGED <<running, snap, todo>>
  PROVE  HandMove /\ HandInv'
<1>1. proc \in [Objects -> Entry] /\ TypeOK /\ ForgottenIsDead
  BY DEF IInv, TypeOK
<1>2. p.pid /\ p.known /\ Resting(p)
  BY <1>1 DEF HandInv, RunningHasPid, ForgottenIsDead, AtRest, Resting, Changing
<1> DEFINE q == status_get(p)
           h == hands[o]
<1>3. /\ q \in Entry /\ q.pid /\ Resting(q) /\ (p.cur # None => q.cur # None)
      /\ Hand(q) \in {h, HS!Told(h), HS!Changed(h)}
  BY <1>2, StatusGet, HandGet DEF hands
<1>4. HS!Becomes(o, Hand(q))
  BY <1>1, HandUpd
<1> HIDE DEF q
<1>5. HandMove
  <2>1. CASE Hand(q) = h
    BY <1>4, <2>1, Unmoved DEF HandMove, Stays
  <2>2. CASE Hand(q) = HS!Told(h) /\ Hand(q) # h
    <3>1. h.phase = "ordered"
      BY <2>2 DEF HS!Told
    <3>2. HS!Tell(o)
      BY <1>4, <2>2, <3>1 DEF HS!Tell, running
    <3>3. QED
      BY <3>2 DEF HandMove, HS!HNext
  <2>3. CASE Hand(q) = HS!Changed(h) /\ Hand(q) # h
    <3>1. h.phase = "told"
      BY <2>3 DEF HS!Changed
    <3>2. HS!Change(o)
      BY <1>4, <2>3, <3>1 DEF HS!Change, running
    <3>3. QED
      BY <3>2 DEF HandMove, HS!HNext
  <2>4. QED
    BY <1>3, <2>1, <2>2, <2>3
<1>6. HandInv'
  BY <1>1, <1>3, ObjectHandInv DEF q
<1>7. QED
  BY <1>5, <1>6

\* EXEC or the object confirms a change
LEMMA AckStep ==
  ASSUME IInv, HandInv, NEW o \in Objects, proc[o].known, Ackable(proc[o]),
         Upd(o, status_ack(proc[o])), UNCHANGED <<running, snap>>, todo' \subseteq todo
  PROVE  HandMove /\ AtRest'
<1>1. proc \in [Objects -> Entry] /\ AtRest
  BY DEF IInv, TypeOK, HandInv
<1> DEFINE q == status_ack(proc[o])
<1>2. HS!Becomes(o, Hand(q)) /\ Resting(q) /\ Hand(proc[o]).phase = "changed"
      /\ Hand(q) = [Hand(proc[o]) EXCEPT !.phase = "settled"]
  BY <1>1, HandUpd, HandAck
<1>3. hands[o] = Hand(proc[o])
  BY DEF hands
<1>4. HS!Confirm(o)
  BY <1>2, <1>3 DEF HS!Confirm
<1>5. AtRest'
  BY <1>1, <1>2 DEF Upd, AtRest
<1>6. QED
  BY <1>4, <1>5 DEF HandMove, HS!HNext

\* a change is ordered
LEMMA OrderHand ==
  ASSUME IInv, HandInv, NEW o \in Objects, proc[o].known, NEW st \in Statuses, NEW due \in Int,
         Upd(o, Ordered(proc[o], st, due))
  PROVE  /\ HS!Becomes(o, [hands[o] EXCEPT !.phase = "ordered", !.target = st])
         /\ AtRest'
         /\ Ordered(proc[o], st, due) \in Entry
         /\ Ordered(proc[o], st, due).pid = proc[o].pid
         /\ Ordered(proc[o], st, due).cur = proc[o].cur
         /\ Resting(Ordered(proc[o], st, due))
<1>1. proc \in [Objects -> Entry] /\ AtRest
  BY DEF IInv, TypeOK, HandInv
<1>2. proc[o] \in Entry
  BY <1>1
<1> DEFINE q == Ordered(proc[o], st, due)
<1>3. Resting(q) /\ Hand(q) = [Hand(proc[o]) EXCEPT !.phase = "ordered", !.target = st]
  BY <1>2, HandOrder
<1>4. hands[o] = Hand(proc[o])
  BY DEF hands
<1>5. HS!Becomes(o, Hand(q))
  BY <1>1, HandUpd
<1>6. q \in Entry /\ q.pid = proc[o].pid /\ q.cur = proc[o].cur
  BY <1>2, Forced
<1> HIDE DEF q
<1>7. AtRest'
  BY <1>1, <1>3 DEF Upd, AtRest, q
<1>8. QED
  BY <1>3, <1>4, <1>5, <1>6, <1>7 DEF q

\* every step of an object is a step of the handshake
LEMMA ObjectHand ==
  ASSUME IInv, HandInv, NEW o \in Objects, Object(o)
  PROVE  HandMove /\ HandInv'
<1> DEFINE p == proc[o]
<1>1. /\ TypeOK /\ proc \in [Objects -> Entry] /\ pc \in [Objects -> ObjPc] /\ p \in Entry
      /\ ForgottenIsDead /\ hands[o] = Hand(p) /\ todo \subseteq Objects
  BY DEF IInv, TypeOK, hands
<1>2. Alive(o) => p.pid /\ p.known /\ o \in running
  BY <1>1 DEF HandInv, RunningHasPid, ForgottenIsDead, running
<1>3. Resting(p)
  BY DEF HandInv, AtRest
<1>4. {"PAUSE", "STOP", "ABNSTOP"} \subseteq Statuses
  BY DEF Statuses, Stopped
<1>5. CASE Boot(o)
  <2> DEFINE p0 == [p EXCEPT !.due = 0]
  <2>1. /\ p0 \in Entry /\ p0.cur = p.cur /\ p0.next = p.next /\ p0.prog = p.prog
        /\ p0.pid = p.pid /\ p0.known = p.known
    BY <1>1 DEF Entry
  <2>2. Upd(o, status_get(p0)) /\ UNCHANGED <<snap, todo>> /\ Goto(o, "status") /\ Alive(o)
    BY <1>5 DEF Boot, execVars, Alive
  <2> HIDE DEF p0
  <2>3. Hand(p0) = Hand(p)
    BY <2>1 DEF Hand, Phase, Changing
  <2>4. UNCHANGED running
    BY <1>1, <2>2, RunsOn
  <2>5. QED
    BY <2>1, <2>2, <2>3, <2>4, GetStep
<1>6. ASSUME Alive(o), Upd(o, status_get(p)), UNCHANGED <<snap, todo>>, NEW l, Goto(o, l),
             l \notin {"none", "zombie", "failed"}
      PROVE  HandMove /\ HandInv'
  <2>1. UNCHANGED running
    BY <1>1, <1>6, RunsOn
  <2>2. QED
    BY <1>1, <1>6, <2>1, GetStep
<1>7. CASE Status(o)
  <2>1. /\ Alive(o) /\ Upd(o, status_get(p)) /\ UNCHANGED <<snap, todo>>
        /\ \E l \in {"work", "close", "step1", "status"} : Goto(o, l)
    BY <1>7 DEF Status, execVars, Alive
  <2>2. QED
    BY <1>6, <2>1
<1>8. CASE Step(o)
  <2>1. Alive(o) /\ UNCHANGED <<snap, todo>>
    BY <1>8 DEF Step, execVars, Alive
  <2>2. CASE Upd(o, status_get(p)) /\ \E l \in {"step2", "work"} : Goto(o, l)
    BY <1>6, <2>1, <2>2
  <2>3. CASE Upd(o, status_ack(p)) /\ Goto(o, "step3")
    <3>1. UNCHANGED running
      BY <1>1, <2>1, <2>3, RunsOn
    <3>2. CASE Ackable(p)
      <4>1. HandMove /\ Resting(status_ack(p))
        BY <1>1, <1>2, <2>1, <2>3, <3>1, <3>2, AckStep, HandAck
      <4>2. status_ack(p) \in Entry /\ status_ack(p).pid /\ status_ack(p).cur = p.cur
        BY <1>1, <1>2, <2>1, StatusAck
      <4>3. HandInv'
        BY <1>1, <2>1, <2>3, <3>1, <4>1, <4>2, ObjectHandInv
      <4>4. QED
        BY <4>1, <4>3
    <3>3. CASE ~Ackable(p)
      <4>1. status_ack(p) = p
        BY <3>3 DEF status_ack
      <4>2. UNCHANGED <<proc, hands>>
        BY <1>1, <2>3, <4>1 DEF Upd, hands
      <4>3. HandInv'
        BY <1>1, <1>2, <1>3, <2>1, <2>3, <3>1, <4>1, ObjectHandInv
      <4>4. QED
        BY <3>1, <4>2, <4>3 DEF HandMove, Stays
    <3>4. QED
      BY <3>2, <3>3
  <2>4. CASE Upd(o, status_new(p, "PAUSE", 0)) /\ Goto(o, "step4")
    <3>1. UNCHANGED running
      BY <1>1, <2>1, <2>4, RunsOn
    <3>2. CASE Idle(p)
      <4> DEFINE q == Ordered(p, "PAUSE", 0)
      <4>1. Upd(o, q)
        BY <2>4, <3>2 DEF status_new
      <4>2. "PAUSE" \in Statuses /\ 0 \in Int /\ p.known /\ p.pid
        BY <1>2, <1>4, <2>1
      <4>3. /\ HS!Becomes(o, [hands[o] EXCEPT !.phase = "ordered", !.target = "PAUSE"])
            /\ q \in Entry /\ q.pid /\ q.cur = p.cur /\ Resting(q)
        BY <4>1, <4>2, OrderHand
      <4>4. HS!OrderChange(o)
        BY <1>1, <1>2, <1>4, <2>1, <3>1, <3>2, <4>3, HandIdle DEF HS!OrderChange
      <4> HIDE DEF q
      <4>5. HandInv'
        BY <1>1, <2>1, <3>1, <4>1, <4>3, ObjectHandInv
      <4>6. QED
        BY <4>4, <4>5 DEF HandMove, HS!HNext
    <3>3. CASE ~Idle(p)
      <4>1. status_new(p, "PAUSE", 0) = p
        BY <3>3 DEF status_new
      <4>2. UNCHANGED <<proc, hands>>
        BY <1>1, <2>4, <4>1 DEF Upd, hands
      <4>3. HandInv'
        BY <1>1, <1>2, <1>3, <2>1, <2>4, <3>1, <4>1, ObjectHandInv
      <4>4. QED
        BY <3>1, <4>2, <4>3 DEF HandMove, Stays
    <3>4. QED
      BY <3>2, <3>3
  <2>5. QED
    BY <1>8, <2>2, <2>3, <2>4 DEF Step
<1>9. CASE Work(o)
  <2>1. /\ Alive(o) /\ UNCHANGED <<proc, snap, todo>>
        /\ \E l \in {"status", "close"} : Goto(o, l)
    BY <1>9 DEF Work, execVars, Alive
  <2>2. UNCHANGED <<running, hands>>
    BY <1>1, <2>1, RunsOn DEF hands
  <2>3. Upd(o, p)
    BY <1>1, <2>1 DEF Upd
  <2>4. HandInv'
    BY <1>1, <1>2, <1>3, <2>1, <2>2, <2>3, ObjectHandInv
  <2>5. QED
    BY <2>2, <2>4 DEF HandMove, Stays
<1>10. CASE Close(o)
  <2>1. Alive(o) /\ UNCHANGED <<snap, todo>>
    BY <1>10 DEF Close, execVars, Alive
  <2>2. CASE Upd(o, status_get(p)) /\ \E l \in {"wait", "abort1", "abort3"} : Goto(o, l)
    BY <1>6, <2>1, <2>2
  <2>3. CASE (\E due \in SinceBoot : Upd(o, Ordered(p, "ABNSTOP", due))) /\ Goto(o, "abort2")
    <3>1. PICK due \in SinceBoot : Upd(o, Ordered(p, "ABNSTOP", due))
      BY <2>3
    <3>2. due \in Int
      BY ConstAssumption DEF SinceBoot
    <3> DEFINE q == Ordered(p, "ABNSTOP", due)
    <3>3. "ABNSTOP" \in Statuses /\ p.known /\ p.pid
      BY <1>2, <1>4, <2>1
    <3>4. /\ HS!Becomes(o, [hands[o] EXCEPT !.phase = "ordered", !.target = "ABNSTOP"])
          /\ q \in Entry /\ q.pid /\ q.cur = p.cur /\ Resting(q)
      BY <3>1, <3>2, <3>3, OrderHand
    <3>5. UNCHANGED running
      BY <1>1, <2>1, <2>3, RunsOn
    <3>6. HS!Abort(o)
      BY <1>2, <2>1, <3>4, <3>5 DEF HS!Abort
    <3> HIDE DEF q
    <3>7. HandInv'
      BY <1>1, <2>1, <3>1, <3>4, <3>5, ObjectHandInv DEF q
    <3>8. QED
      BY <3>6, <3>7 DEF HandMove, HS!HNext
  <2>4. CASE Idle(p) /\ Upd(o, status_new(p, "STOP", 0)) /\ Goto(o, "zombie")
    <3> DEFINE q == Ordered(p, "STOP", 0)
    <3>1. Upd(o, q)
      BY <2>4 DEF status_new
    <3>2. "STOP" \in Statuses /\ 0 \in Int /\ p.known
      BY <1>2, <1>4, <2>1
    <3>3. /\ HS!Becomes(o, [hands[o] EXCEPT !.phase = "ordered", !.target = "STOP"])
          /\ q \in Entry /\ q.cur = p.cur /\ Resting(q)
      BY <3>1, <3>2, OrderHand
    <3>4. running' = running \ {o} /\ hands[o].phase = "settled"
      BY <1>1, <1>2, <2>1, <2>4, RunsOn, HandIdle
    <3>5. HS!Leave(o)
      BY <1>2, <2>1, <3>3, <3>4 DEF HS!Leave
    <3> HIDE DEF q
    <3>6. HandInv'
      BY <1>1, <2>1, <3>1, <3>3, <3>4, ObjectHandInv
    <3>7. QED
      BY <3>5, <3>6 DEF HandMove, HS!HNext
  <2>5. QED
    <3>1. \/ Upd(o, status_get(p)) /\ \E l \in {"wait", "abort1", "abort3"} : Goto(o, l)
          \/ (\E due \in SinceBoot : Upd(o, Ordered(p, "ABNSTOP", due))) /\ Goto(o, "abort2")
          \/ Idle(p) /\ Upd(o, status_new(p, "STOP", 0)) /\ Goto(o, "zombie")
      BY <1>10 DEF Close
    <3>2. QED
      BY <2>2, <2>3, <2>4, <3>1
<1>11. CASE Die(o)
  <2>1. Alive(o) /\ UNCHANGED <<snap, todo>> /\ Goto(o, "zombie")
    BY <1>11 DEF Die, execVars
  <2>2. PICK q \in IF pc[o] = "boot" THEN {p} ELSE Terminated(p) : Upd(o, q)
    BY <1>11 DEF Die
  <2> DEFINE h == hands[o]
  <2>3. /\ q \in Entry /\ Resting(q) /\ (p.cur # None => q.cur # None)
        /\ Hand(q) \in {h, HS!Told(h), HS!Changed(h), HS!Changed(HS!Told(h))}
    <3>1. CASE q \in Terminated(p)
      BY <1>1, <1>2, <1>3, <2>1, <3>1, TerminatedEntry, HandTerminated
    <3>2. CASE q = p
      BY <1>1, <1>3, <3>2
    <3>3. QED
      BY <3>1, <3>2
  <2>4. running' = running \ {o}
    BY <1>1, <2>1, RunsOn
  <2>5. HS!Becomes(o, Hand(q))
    BY <1>1, <2>2, HandUpd
  <2>6. HS!Vanish(o)
    BY <1>2, <2>1, <2>3, <2>4, <2>5 DEF HS!Vanish
  <2>7. HandInv'
    BY <1>1, <2>1, <2>2, <2>3, <2>4, ObjectHandInv
  <2>8. QED
    BY <2>6, <2>7 DEF HandMove, HS!HNext
<1>12. CASE Reap(o)
  <2> DEFINE q == [p EXCEPT !.pid = FALSE]
  <2>1. Upd(o, q) /\ UNCHANGED <<snap, todo>> /\ pc[o] = "zombie" /\ Goto(o, "none")
    BY <1>12 DEF Reap, execVars
  <2>2. q \in Entry /\ q.cur = p.cur /\ q.next = p.next /\ q.prog = p.prog /\ q.known = p.known
    BY <1>1 DEF Entry
  <2> HIDE DEF q
  <2>3. Hand(q) = Hand(p) /\ Resting(q)
    BY <1>3, <2>2 DEF Hand, Phase, Resting, Changing
  <2>4. UNCHANGED hands
    BY <1>1, <2>1, <2>3, HandUpd, Unmoved
  <2>5. UNCHANGED running /\ o \notin running'
    BY <1>1, <2>1 DEF Goto, running, Alive
  <2>6. HandInv'
    BY <1>1, <2>1, <2>2, <2>3, <2>5, ObjectHandInv
  <2>7. QED
    BY <2>4, <2>5, <2>6 DEF HandMove, Stays
<1>13. QED
  BY <1>5, <1>7, <1>8, <1>9, <1>10, <1>11, <1>12 DEF Object

-----------------------------------------------------------------------------
(***************************************************************************)
(* The steps of EXEC and of the environment.                               *)
(***************************************************************************)
LEMMA ExecHand ==
  ASSUME IInv, HandInv, Exec
  PROVE  HandMove /\ HandInv'
<1>1. /\ proc \in [Objects -> Entry] /\ snap \in [Objects -> Entry] /\ pc \in [Objects -> ObjPc]
      /\ todo \subseteq Objects /\ victim \subseteq Objects /\ orders \in Seq(Order)
  BY DEF IInv, TypeOK
<1>2. RunningHasPid /\ AtRest /\ CopyStarted /\ CopyIsOlder
  BY DEF HandInv, IInv
<1>3. ASSUME UNCHANGED <<proc, pc, snap>>, todo' \subseteq todo
      PROVE  HandMove /\ HandInv'
  BY <1>2, <1>3 DEF HandMove, Stays, hands, running, Alive, HandInv, RunningHasPid, AtRest,
                    CopyStarted
<1>4. CASE exec_incmd_setstatus
  <2> DEFINE c == Head(orders)
             p == proc[c.obj]
  <2>1. c.obj \in Objects /\ c.st \in Statuses
    <3>1. c \in Order
      BY <1>1, <1>4 DEF exec_incmd_setstatus
    <3>2. QED
      BY <3>1 DEF Order
  <2>2. UNCHANGED <<pc, snap, todo>>
    BY <1>4 DEF exec_incmd_setstatus, objVars
  <2>3. CASE UNCHANGED proc
    BY <1>3, <2>2, <2>3
  <2>4. CASE /\ p.known /\ Idle(p)
             /\ \E due \in IF c.st = "ABNSTOP" THEN {-1} ELSE Dates :
                  Upd(c.obj, status_new(p, c.st, due))
    <3>1. PICK due \in IF c.st = "ABNSTOP" THEN {-1} ELSE Dates :
                 Upd(c.obj, Ordered(p, c.st, due))
      BY <2>4 DEF status_new
    <3>2. due \in Int
      <4>1. CASE c.st = "ABNSTOP"
        BY <4>1
      <4>2. CASE c.st # "ABNSTOP"
        BY <4>2, ConstAssumption
      <4>3. QED
        BY <4>1, <4>2
    <3> DEFINE q == Ordered(p, c.st, due)
               s == c.st
    <3>3. s \in Statuses /\ p.known /\ p \in Entry /\ Idle(p)
      BY <1>1, <2>1, <2>4
    <3>4. /\ HS!Becomes(c.obj, [hands[c.obj] EXCEPT !.phase = "ordered", !.target = s])
          /\ AtRest' /\ q.pid = p.pid /\ q.cur = p.cur
      BY <2>1, <3>1, <3>2, <3>3, OrderHand
    <3>5. hands[c.obj].phase = "settled"
      BY <2>1, <3>3, HandIdle DEF hands
    <3>6. UNCHANGED running
      BY <2>2 DEF running, Alive
    <3>7. HS!OrderChange(c.obj)
      BY <3>3, <3>4, <3>5, <3>6 DEF HS!OrderChange
    <3> HIDE DEF q
    <3>8. RunningHasPid' /\ CopyStarted'
      BY <1>1, <1>2, <2>1, <2>2, <3>1, <3>4 DEF Upd, RunningHasPid, Alive, CopyStarted, q
    <3>9. QED
      BY <2>1, <3>4, <3>7, <3>8 DEF HandMove, HS!HNext, HandInv
  <2>5. QED
    BY <1>4, <2>3, <2>4 DEF exec_incmd_setstatus
<1>5. CASE BackgroundStart
  BY <1>2, <1>5 DEF BackgroundStart, objVars, HandMove, Stays, hands, running, Alive, HandInv,
                    RunningHasPid, AtRest, CopyStarted
<1>6. CASE Background
  <2>1. UNCHANGED <<pc, snap, running>>
    BY <1>6 DEF Background, objVars, running, Alive
  <2>2. PICK o \in todo : \/ BackgroundDied(o) \/ BackgroundAck(o)
                          \/ BackgroundTimeout(o) \/ BackgroundSkip(o)
    BY <1>6 DEF Background
  <2>3. o \in Objects /\ proc[o].known /\ proc[o] \in Entry
    BY <1>1, <1>2, <2>2 DEF CopyIsOlder
  <2>4. CASE BackgroundDied(o)
    <3> DEFINE q == [proc[o] EXCEPT !.known = FALSE]
    <3>1. /\ Upd(o, q) /\ todo' = todo \ {o} /\ ~snap[o].pid /\ snap[o].cur # None
      BY <2>4 DEF BackgroundDied, Died
    <3>2. /\ q \in Entry /\ q.pid = proc[o].pid /\ q.cur = proc[o].cur /\ q.next = proc[o].next
          /\ q.prog = proc[o].prog /\ ~q.known
      BY <2>3 DEF Entry
    <3> HIDE DEF q
    <3>3. ~proc[o].pid /\ proc[o].cur # None
      BY <1>2, <2>2, <3>1 DEF CopyIsOlder, CopyStarted
    <3>4. Phase(q) = "forgotten"
      BY <3>2, <3>3 DEF Phase
    <3>5. Hand(q) = [hands[o] EXCEPT !.phase = "forgotten"]
      BY <2>3, <3>2, <3>4 DEF Hand, hands
    <3>6. o \notin running
      BY <1>2, <3>3 DEF RunningHasPid, running
    <3>7. HS!Forget(o)
      BY <1>1, <2>1, <2>3, <3>1, <3>5, <3>6, HandUpd DEF HS!Forget
    <3>8. HandInv'
      BY <1>1, <1>2, <2>1, <2>3, <3>1, <3>2
         DEF Upd, HandInv, RunningHasPid, AtRest, CopyStarted, Resting, Alive
    <3>9. QED
      BY <2>3, <3>7, <3>8 DEF HandMove, HS!HNext
  <2>5. CASE BackgroundAck(o) /\ Ackable(proc[o])
    <3>1. Upd(o, status_ack(proc[o])) /\ todo' = todo \ {o}
      BY <2>5 DEF BackgroundAck
    <3>2. HandMove /\ AtRest'
      BY <2>1, <2>3, <2>5, <3>1, AckStep
    <3>3. status_ack(proc[o]).pid = proc[o].pid /\ status_ack(proc[o]).cur = proc[o].cur
      BY <2>3, StatusAck
    <3>4. RunningHasPid' /\ CopyStarted'
      BY <1>1, <1>2, <2>1, <2>3, <3>1, <3>3 DEF Upd, RunningHasPid, CopyStarted, Alive
    <3>5. QED
      BY <3>2, <3>4 DEF HandInv
  <2>6. CASE (BackgroundAck(o) /\ ~Ackable(proc[o])) \/ BackgroundTimeout(o) \/ BackgroundSkip(o)
    <3>1. UNCHANGED proc /\ todo' \subseteq todo
      BY <2>6 DEF BackgroundAck, BackgroundTimeout, BackgroundSkip
    <3>2. QED
      BY <1>3, <2>1, <3>1
  <2>7. QED
    BY <2>2, <2>4, <2>5, <2>6
<1>7. CASE BackgroundEnd
  <2>1. todo' = {} /\ UNCHANGED <<proc, pc>>
    BY <1>7 DEF BackgroundEnd, objVars
  <2>2. QED
    BY <1>2, <2>1 DEF HandMove, Stays, hands, running, Alive, HandInv, RunningHasPid, AtRest,
                      CopyStarted
<1>8. CASE KillReturn
  <2>1. PICK o \in victim : IF Alive(o) THEN Goto(o, "zombie") ELSE UNCHANGED pc
    BY <1>8 DEF KillReturn
  <2>2. UNCHANGED <<proc, snap, todo, hands>> /\ o \in Objects
    BY <1>1, <1>8 DEF KillReturn, hands
  <2>3. CASE UNCHANGED pc
    BY <1>3, <2>2, <2>3
  <2>4. CASE Alive(o) /\ Goto(o, "zombie")
    <3>1. o \in running /\ running' = running \ {o}
      BY <1>1, <2>2, <2>4, RunsOn
    <3>2. HS!Becomes(o, hands[o])
      BY <2>2 DEF HS!Becomes, hands
    <3>3. HS!Vanish(o)
      BY <3>1, <3>2 DEF HS!Vanish
    <3>4. HandInv'
      BY <1>1, <1>2, <2>2, <3>1 DEF HandInv, RunningHasPid, AtRest, CopyStarted, running
    <3>5. QED
      BY <2>2, <3>3, <3>4 DEF HandMove, HS!HNext
  <2>5. QED
    BY <2>1, <2>3, <2>4
<1>9. QED
  BY <1>4, <1>5, <1>6, <1>7, <1>8 DEF Exec

\* the creation of an object is a step of the handshake
LEMMA CreateHand ==
  ASSUME IInv, HandInv, NEW o \in Objects, Create(o)
  PROVE  HandMove /\ HandInv'
<1>1. /\ proc \in [Objects -> Entry] /\ pc \in [Objects -> ObjPc] /\ todo \subseteq Objects
      /\ CopyIsOlder /\ RunningHasPid /\ AtRest /\ CopyStarted
  BY DEF IInv, TypeOK, HandInv
<1>2. /\ Upd(o, NewEntry) /\ Goto(o, "boot") /\ UNCHANGED <<snap, todo>>
      /\ ~proc[o].known /\ proc[o].cur = None
  BY DEF Create, execVars
<1>3. /\ NewEntry.cur = None /\ NewEntry.next = "STARTED" /\ NewEntry.prog = 1 /\ NewEntry.pid
      /\ NewEntry.known
  BY DEF NewEntry
<1>4. Hand(NewEntry) = [phase |-> "ordered", status |-> None, target |-> "STARTED"]
  BY <1>3 DEF Hand, Phase
<1>5. hands[o] = [phase |-> "absent", status |-> None, target |-> proc[o].next]
  BY <1>2 DEF hands, Hand, Phase
<1>6. HS!Becomes(o, Hand(NewEntry))
  BY <1>1, <1>2, HandUpd
<1>7. running' = running \cup {o}
  BY <1>1, <1>2 DEF Goto, running, Alive
<1>8. HS!Register(o)
  <2> DEFINE h1 == [hands[o] EXCEPT !.phase = "ordered"]
  <2>1. h1 = [phase |-> "ordered", status |-> None, target |-> proc[o].next]
    BY <1>5
  <2> HIDE DEF h1
  <2>2. Hand(NewEntry) = [h1 EXCEPT !.target = "STARTED"]
    BY <1>4, <2>1
  <2>3. QED
    BY <1>5, <1>6, <1>7, <2>2 DEF HS!Register, h1
<1>9. o \notin todo
  BY <1>1, <1>2 DEF CopyIsOlder
<1>10. RunningHasPid' /\ AtRest' /\ CopyStarted'
  BY <1>1, <1>2, <1>3, <1>9
     DEF Upd, Goto, RunningHasPid, Alive, AtRest, Resting, CopyStarted
<1>11. QED
  BY <1>8, <1>10 DEF HandMove, HS!HNext, HandInv

\* time is no step of the handshake
LEMMA TickHand ==
  ASSUME IInv, HandInv, Tick
  PROVE  HandMove /\ HandInv'
<1>1. /\ proc \in [Objects -> Entry] /\ todo \subseteq Objects
      /\ RunningHasPid /\ AtRest /\ CopyStarted
  BY DEF IInv, TypeOK, HandInv
<1>2. UNCHANGED <<pc, snap, todo, running>>
  BY DEF Tick, objVars, execVars, running, Alive
<1>3. ASSUME NEW o \in Objects
      PROVE  /\ proc'[o].cur = proc[o].cur /\ proc'[o].next = proc[o].next
             /\ proc'[o].prog = proc[o].prog /\ proc'[o].pid = proc[o].pid
             /\ proc'[o].known = proc[o].known
  <2>1. /\ proc[o] \in Entry
        /\ proc'[o] = [proc[o] EXCEPT !.due = IF @ > -(Limit + 1) THEN @ - 1 ELSE @]
    BY <1>1 DEF Tick
  <2>2. QED
    BY <2>1 DEF Entry
<1>4. \A o \in Objects : Hand(proc'[o]) = Hand(proc[o])
  BY <1>3 DEF Hand, Phase, Changing
<1>5. UNCHANGED hands
  BY <1>4 DEF hands
<1>6. HandInv'
  BY <1>1, <1>2, <1>3 DEF HandInv, RunningHasPid, AtRest, CopyStarted, Resting, Changing, Alive
<1>7. QED
  BY <1>2, <1>5, <1>6 DEF HandMove, Stays

\* every step is a step of the handshake or none
LEMMA NextHand ==
  ASSUME IInv, HandInv, [Next]_vars
  PROVE  HandMove /\ HandInv'
<1>1. CASE TakeReport \/ (\E o \in Objects : SendOrder(o)) \/ UNCHANGED vars
  <2>1. UNCHANGED <<proc, pc, snap, todo>>
    BY <1>1 DEF TakeReport, SendOrder, vars, objVars, execVars
  <2>2. QED
    BY <2>1 DEF HandMove, Stays, hands, running, Alive, HandInv, RunningHasPid, AtRest,
                CopyStarted
<1>2. QED
  BY <1>1, ObjectHand, ExecHand, CreateHand, TickHand DEF Next, Local

-----------------------------------------------------------------------------
\* ProcStatus implements StatusHandshake: whatever EXEC, the objects, the kernel and SWMAN do,
\* every change of an object's status is ordered, told, made and confirmed, in this order.
THEOREM StatusChangesAreHandshakes == Spec => ImplementsHandshake
<1>1. Init => HandInv
  BY DEF Init, HandInv, RunningHasPid, AtRest, CopyStarted, Resting, Alive, EmptyEntry
<1>2. Init => HS!HInit
  <2> SUFFICES ASSUME Init PROVE HS!HInit
    OBVIOUS
  <2>1. running = {}
    BY DEF Init, running, Alive
  <2>2. Hand(EmptyEntry) = [phase |-> "absent", status |-> None, target |-> "STARTED"]
    BY DEF Hand, Phase, EmptyEntry
  <2>3. hands = [o \in Objects |-> Hand(EmptyEntry)]
    BY DEF Init, hands
  <2>4. QED
    BY <2>1, <2>2, <2>3 DEF HS!HInit
<1>3. IInv /\ HandInv /\ [Next]_vars => HandInv' /\ [HS!HNext]_(HS!hvars)
  BY NextHand DEF HandMove, Stays, HS!hvars
<1>4. QED
  BY <1>1, <1>2, <1>3, Inductive, PTL DEF Spec, ImplementsHandshake, HS!Handshake
=============================================================================
