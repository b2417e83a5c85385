------------------------------ MODULE DataItf -------------------------------
(***************************************************************************)
(* A data interface between two objects: a queue of messages that carry    *)
(* the turn of the reader in which they are due. If the objects run on     *)
(* different PEs, the BRIDGE of the writer's PE forwards what is in the    *)
(* writer's queue to the network, and the BRIDGE of the reader's PE        *)
(* forwards what arrives to the reader's queue.                            *)
(*                                                                         *)
(* A BRIDGE does not poll. Every message that is put in a queue it reads   *)
(* sends it a signal; a signal makes it read until the queue is empty. The *)
(* queue towards the network, the socket and the queue behind it are one   *)
(* channel here ("wire").                                                  *)
(***************************************************************************)
EXTENDS Integers, Sequences, FiniteSets

CONSTANTS
  Delay,         \* int_obj_delay, or the delay set for the interface
  ExternalDelay, \* ext_obj_delay
  Rate,          \* bound: packets written in a turn
  MaxTurn,       \* bound: turns
  Environments   \* records: path, "local", "tcp" or "udp"; room, the messages a queue holds; calm,
                 \* whether the objects have their turn in every slot, the reader reads all that is
                 \* due and the BRIDGEs are done by the end of the slot

ASSUME DataItfAssumption ==
  /\ Delay \in Nat \ {0} /\ ExternalDelay \in Nat /\ Rate \in Nat /\ MaxTurn \in Nat
  /\ Environments \subseteq [path : {"local", "tcp", "udp"}, room : Nat \ {0}, calm : BOOLEAN]

VARIABLES
  env,    \* the environment of this run; never changes
  tw, tr, \* obj_tstamp of writer and reader: the turns they have had in status RUN
  due,    \* objects that have not had their turn in this slot
  in,     \* objects that are in their turn
  wrote,  \* packets written in the writer's turn
  q,      \* the queues: "writer", "wire", "reader"
  signals,\* signals that wait for the BRIDGE that reads a queue
  busy,   \* queues a BRIDGE is emptying
  lost,   \* whether a packet was lost
  got     \* the turn the last packet read was written in

dvars == <<env, tw, tr, due, in, wrote, q, signals, busy, lost, got>>

Objects == {"writer", "reader"}
Bridged == {"writer", "wire"}    \* the queues BRIDGEs read, if the objects are on different PEs
Local   == env.path = "local"
Entry   == IF Local THEN "reader" ELSE "writer"
Next(k) == IF k = "writer" THEN "wire" ELSE "reader"

\* turn: the turn of the writer (history); dst: the type the message is received by; tstamp: the
\* time stamp in its header
Message == [turn : Nat, dst : Nat, tstamp : Nat]

DTypeOK ==
  /\ env \in Environments
  /\ tw \in Nat /\ tr \in Nat /\ wrote \in Nat
  /\ due \subseteq Objects /\ in \subseteq Objects
  /\ q \in [Bridged \cup {"reader"} -> Seq(Message)]
  /\ \A k \in DOMAIN q : Len(q[k]) <= env.room
  /\ signals \in [Bridged -> Nat] /\ busy \subseteq Bridged
  /\ lost \in BOOLEAN /\ got \in Nat

DInit ==
  /\ env \in Environments
  /\ tw = 0 /\ tr = 0 /\ wrote = 0
  /\ due = Objects /\ in = {}
  /\ q = [k \in Bridged \cup {"reader"} |-> <<>>]
  /\ signals = [k \in Bridged |-> 0] /\ busy = {}
  /\ lost = FALSE /\ got = 0

-----------------------------------------------------------------------------
\* msgsndcallback with IPC_NOWAIT: a message that does not fit is lost; one that fits is signalled
\* to the BRIDGE that reads the queue
Fits(Q, k) == Len(Q[k]) < env.room
MutantSignal(Q, k) == IF Fits(Q, k) /\ k \in Bridged /\ Q[k] = <<>>
                      THEN [signals EXCEPT ![k] = @ + 1] ELSE signals
Signal(Q, k) == IF Fits(Q, k) /\ k \in Bridged THEN [signals EXCEPT ![k] = @ + 1] ELSE signals
MutantPut(Q, k, m) == [Q EXCEPT ![k] = Append(@, m)]
Put(Q, k, m) == IF Fits(Q, k) THEN [Q EXCEPT ![k] = Append(@, m)] ELSE Q

\* hwapi_itf_snd_ by an object
MutantSent(t) == [turn |-> t, dst |-> t, tstamp |-> t]
Sent(t) == [turn |-> t, tstamp |-> t + Delay,
            dst |-> t + Delay + IF Local THEN 0 ELSE ExternalDelay]
hwapi_itf_snd ==
  /\ "writer" \in in /\ wrote < Rate
  /\ wrote' = wrote + 1
  /\ q' = Put(q, Entry, Sent(tw)) /\ signals' = Signal(q, Entry)
  /\ lost' = (lost \/ ~Fits(q, Entry))
  /\ UNCHANGED <<env, tw, tr, due, in, busy, got>>

\* hwapi_itf_rcv__ by an object: msgrcv of type -tstamp, the first message of the lowest type that
\* is not beyond it (of any type in turn 0)
Without(s, n) == SubSeq(s, 1, n - 1) \o SubSeq(s, n + 1, Len(s))
MutantReceivable(s, t) == {n \in DOMAIN s : s[n].dst = t /\ \A j \in 1..n - 1 : s[j].dst # t}
Receivable(s, t) ==
  {n \in DOMAIN s : /\ s[n].dst <= t
                    /\ \A j \in DOMAIN s : s[j].dst >= s[n].dst /\ (s[j].dst = s[n].dst => j >= n)}
hwapi_itf_rcv ==
  /\ "reader" \in in
  /\ \E n \in Receivable(q["reader"], tr) :
       q' = [q EXCEPT !["reader"] = Without(@, n)] /\ got' = q["reader"][n].turn
  /\ UNCHANGED <<env, tw, tr, due, in, wrote, signals, busy, lost>>

\* Status, in status RUN, and the end of the turn
Begin(o) ==
  /\ o \in due /\ due' = due \ {o} /\ in' = in \cup {o}
  /\ IF o = "writer" THEN tw' = tw + 1 /\ wrote' = 0 /\ UNCHANGED tr
                     ELSE tr' = tr + 1 /\ UNCHANGED <<tw, wrote>>
  /\ UNCHANGED <<env, q, signals, busy, lost, got>>
End(o) ==
  /\ o \in in /\ in' = in \ {o}
  /\ env.calm /\ o = "reader" => Receivable(q["reader"], tr) = {}
  /\ UNCHANGED <<env, tw, tr, due, wrote, q, signals, busy, lost, got>>

\* the next slot
Idle == \A k \in Bridged : signals[k] = 0 /\ k \notin busy
syncTslot ==
  /\ env.calm => due = {} /\ in = {} /\ Idle
  /\ in = {} /\ due # Objects /\ tw < MaxTurn /\ tr < MaxTurn
  /\ due' = Objects
  /\ UNCHANGED <<env, tw, tr, in, wrote, q, signals, busy, lost, got>>

-----------------------------------------------------------------------------
\* hwapi_idle: a BRIDGE takes a signal
Wake(k) ==
  /\ k \notin busy /\ signals[k] > 0
  /\ signals' = [signals EXCEPT ![k] = @ - 1] /\ busy' = busy \cup {k}
  /\ UNCHANGED <<env, tw, tr, due, in, wrote, q, lost, got>>

\* what packet_out sends (to be received by a daemon: of any type), and packet_in: due in the turn
\* the header says
MutantForwarded(k, m) == m
Forwarded(k, m) == [m EXCEPT !.dst = IF k = "writer" THEN 1 ELSE m.tstamp]

\* itf_rcv of BRIDGE: the next message, until there is none or one does not fit
itf_rcv(k) ==
  /\ k \in busy
  /\ IF q[k] = <<>>
     THEN busy' = busy \ {k} /\ UNCHANGED <<q, signals, lost>>
     ELSE LET Q == [q EXCEPT ![k] = Tail(@)] IN
          /\ q' = Put(Q, Next(k), Forwarded(k, Head(q[k])))
          /\ signals' = Signal(q, Next(k))
          /\ busy' = IF Fits(q, Next(k)) THEN busy ELSE busy \ {k}
          /\ lost' = (lost \/ ~Fits(q, Next(k)))
  /\ UNCHANGED <<env, tw, tr, due, in, wrote, got>>

\* datagrams may arrive in another order
Reorder ==
  /\ env.path = "udp"
  /\ \E n \in 1..Len(q["wire"]) - 1 :
       q' = [q EXCEPT !["wire"] = [@ EXCEPT ![n] = q["wire"][n + 1], ![n + 1] = q["wire"][n]]]
  /\ UNCHANGED <<env, tw, tr, due, in, wrote, signals, busy, lost, got>>

DNext ==
  \/ hwapi_itf_snd \/ hwapi_itf_rcv \/ syncTslot \/ Reorder
  \/ \E o \in Objects : Begin(o) \/ End(o)
  \/ \E k \in Bridged : Wake(k) \/ itf_rcv(k)

DSpec == DInit /\ [][DNext]_dvars

-----------------------------------------------------------------------------
\* A packet is never read before the reader's turn in which it is due, on whatever way it came and
\* however far the objects are apart.
NeverEarly == [][\A n \in Receivable(q["reader"], tr) :
                   hwapi_itf_rcv => q["reader"][n].turn + Delay <= tr]_dvars

\* In the calm environment objects on one PE and on different PEs see the same: what is written in
\* turn t is read in turn t + Delay, neither before nor after, in whichever order the objects have
\* their turns in a slot, and whatever the network does to the order. At the end of a slot just
\* the packets of the last Delay turns are under way, and none was lost, if the queues have room
\* for the packets of Delay + 1 turns.
EnoughRoom == env.room >= Rate * (Delay + 1)
Synchronous ==
  env.calm /\ EnoughRoom =>
    /\ ~lost
    /\ due = {} /\ in = {} /\ Idle =>
         \A k \in DOMAIN q : \A n \in DOMAIN q[k] : q[k][n].turn + Delay > tr

\* A BRIDGE never sleeps on a message: what is in a queue is signalled, or is being read, also after
\* a full queue made the BRIDGE give up in the middle.
NotStranded == ~Local => \A k \in Bridged : Len(q[k]) > 0 => signals[k] > 0 \/ k \in busy

\* Wherever they run, the objects see a delay line (but for the order of datagrams).
Under == LET all == q["reader"] \o q["wire"] \o q["writer"] IN [n \in DOMAIN all |-> all[n].turn]
Line == INSTANCE DelayLine WITH line <- Under
ImplementsLine ==
  Line!LineInit /\ [][env.path = "udp" \/ Line!LineNext]_<<Under, tw, tr, got>>
=============================================================================
