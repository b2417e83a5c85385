--------------------------- MODULE StatusHandshake ---------------------------
(***************************************************************************)
(* What the process database promises: every change of an object's status  *)
(* is a handshake. It is ordered, the object is told, the object changes,  *)
(* the change is confirmed; only then may the next one be ordered. An      *)
(* object can cut the handshake short only to abort itself, and it is      *)
(* forgotten only when it is dead.                                         *)
(*                                                                         *)
(* Queues, copies, polling and time are left out: ProcStatus implements    *)
(* this specification.                                                     *)
(***************************************************************************)
CONSTANTS Objects, Statuses, None

VARIABLES
  hand,   \* per object: the phase of its handshake, its status, the status it is to take
  alive   \* the objects whose process runs

hvars == <<hand, alive>>

Phases == {"absent", "ordered", "told", "changed", "settled", "forgotten"}

HInit ==
  /\ hand = [o \in Objects |-> [phase |-> "absent", status |-> None, target |-> "STARTED"]]
  /\ alive = {}

Becomes(o, h) == hand' = [hand EXCEPT ![o] = h]

Register(o) ==
  /\ hand[o].phase = "absent"
  /\ Becomes(o, [hand[o] EXCEPT !.phase = "ordered", !.target = "STARTED"])
  /\ alive' = alive \cup {o}

OrderChange(o) ==
  /\ hand[o].phase = "settled"
  /\ \E st \in Statuses : Becomes(o, [hand[o] EXCEPT !.phase = "ordered", !.target = st])
  /\ UNCHANGED alive

\* only an order for another status is told to the object
Told(h) ==
  IF h.phase = "ordered" /\ h.target # h.status THEN [h EXCEPT !.phase = "told"] ELSE h
Changed(h) ==
  IF h.phase = "told" THEN [h EXCEPT !.phase = "changed", !.status = h.target] ELSE h

\* the running object takes one step of its handshake
Tell(o) ==
  /\ o \in alive /\ hand[o].phase = "ordered"
  /\ Becomes(o, Told(hand[o]))
  /\ UNCHANGED alive
Change(o) ==
  /\ o \in alive /\ hand[o].phase = "told"
  /\ Becomes(o, Changed(hand[o]))
  /\ UNCHANGED alive

Confirm(o) ==
  /\ hand[o].phase = "changed"
  /\ Becomes(o, [hand[o] EXCEPT !.phase = "settled"])
  /\ UNCHANGED alive

\* the running object orders its own abnormal stop, over whatever was going on
Abort(o) ==
  /\ o \in alive
  /\ Becomes(o, [hand[o] EXCEPT !.phase = "ordered", !.target = "ABNSTOP"])
  /\ UNCHANGED alive

\* the process dies: its handshake stays as it is, or is carried on first
Vanish(o) ==
  /\ o \in alive
  /\ \E h \in {hand[o], Told(hand[o]), Changed(hand[o]), Changed(Told(hand[o]))} : Becomes(o, h)
  /\ alive' = alive \ {o}

\* it orders itself STOP and exits
Leave(o) ==
  /\ o \in alive /\ hand[o].phase = "settled"
  /\ Becomes(o, [hand[o] EXCEPT !.phase = "ordered", !.target = "STOP"])
  /\ alive' = alive \ {o}

Forget(o) ==
  /\ o \notin alive
  /\ Becomes(o, [hand[o] EXCEPT !.phase = "forgotten"])
  /\ UNCHANGED alive

HNext ==
  \E o \in Objects : \/ Register(o) \/ OrderChange(o) \/ Tell(o) \/ Change(o) \/ Confirm(o)
                     \/ Abort(o) \/ Vanish(o) \/ Leave(o) \/ Forget(o)

Handshake == HInit /\ [][HNext]_hvars
=============================================================================
