--------------------------- MODULE DataItfProofs ---------------------------
(***************************************************************************)
(* Proofs about DataItf, for every delay, rate, bound and environment. The *)
(* inductive invariant says what travels in each queue (whatever the       *)
(* BRIDGEs do to the type a message is received by, its header keeps the   *)
(* turn it is due in, and what has reached the reader's queue is typed by  *)
(* it), and that a BRIDGE is owed a signal for every message it has not    *)
(* read: a stronger fact than NotStranded, which a BRIDGE that gives up at *)
(* a full queue would break by itself. On it rest two further invariants:  *)
(* LineInv, that what is under way is sorted, for the refinement of        *)
(* DelayLine, and SyncInv, that it never outgrows the queues, for the calm *)
(* environment.                                                            *)
(***************************************************************************)
EXTENDS DataItf, Counting, SequenceTheorems, TLAPS

Places == Bridged \cup {"reader"}

Stamped == {m \in Message : m.tstamp = m.turn + Delay}
Timed   == {m \in Stamped : m.dst = m.turn + Delay}
Contents(k) == IF k = "reader" THEN Timed ELSE Stamped

Carries(Q) ==
  /\ Q \in [Places -> Seq(Message)]
  /\ \A k \in Places : Q[k] \in Seq(Contents(k)) /\ Len(Q[k]) <= env.room

\* signals a queue's BRIDGE will still act on
Wakeups(k) == signals[k] + IF k \in busy THEN 1 ELSE 0
Owed == \A k \in Bridged : Len(q[k]) <= Wakeups(k)

\* DTypeOK but for the queues
Scalars ==
  /\ env \in Environments
  /\ tw \in Nat /\ tr \in Nat /\ wrote \in Nat
  /\ due \subseteq Objects /\ in \subseteq Objects
  /\ signals \in [Bridged -> Nat] /\ busy \subseteq Bridged
  /\ lost \in BOOLEAN /\ got \in Nat

IInv == Scalars /\ Carries(q) /\ Owed
-----------------------------------------------------------------------------
\* a queue has room for a number of packets
LEMMA Rooms == ASSUME Scalars PROVE env.room \in Nat
  BY DataItfAssumption DEF Scalars

\* whatever a place may hold is a message
LEMMA Kinds == Timed \subseteq Message /\ Stamped \subseteq Message /\ \A k : Contents(k) \subseteq Message
  BY DEF Timed, Stamped, Contents

\* sequences over a smaller set
LEMMA SeqOfMore ==
  ASSUME NEW S, NEW T, S \subseteq T, NEW s \in Seq(S)
  PROVE  s \in Seq(T)
  OBVIOUS

\* a message put into a queue is at its end, or lost when the queue is full
LEMMA PutCarries ==
  ASSUME NEW Q, Carries(Q), NEW k \in Places, NEW m \in Contents(k), env.room \in Nat
  PROVE  /\ Carries(Put(Q, k, m))
         /\ \A j \in Places : Put(Q, k, m)[j] = IF j = k /\ Fits(Q, k) THEN Append(Q[k], m) ELSE Q[j]
         /\ Len(Put(Q, k, m)[k]) = Len(Q[k]) + IF Fits(Q, k) THEN 1 ELSE 0
<1>1. m \in Message
  BY Kinds
<1>2. CASE Fits(Q, k)
  <2>1. Put(Q, k, m) = [Q EXCEPT ![k] = Append(Q[k], m)]
    BY <1>2 DEF Put
  <2>2. Append(Q[k], m) \in Seq(Message) /\ Append(Q[k], m) \in Seq(Contents(k))
    BY <1>1 DEF Carries
  <2>3. Len(Append(Q[k], m)) = Len(Q[k]) + 1 /\ Len(Q[k]) \in Nat
    BY DEF Carries
  <2>4. Len(Q[k]) + 1 <= env.room
    BY <1>2, <2>3 DEF Fits
  <2>5. QED
    BY <1>2, <2>1, <2>2, <2>3, <2>4 DEF Carries
<1>3. CASE ~Fits(Q, k)
  BY <1>3 DEF Put, Carries
<1>4. QED
  BY <1>2, <1>3

\* a message taken from a queue was what the queue may hold
LEMMA TailCarries ==
  ASSUME NEW Q, Carries(Q), NEW k \in Places, Q[k] # <<>>, env.room \in Nat
  PROVE  /\ Carries([Q EXCEPT ![k] = Tail(@)])
         /\ Len([Q EXCEPT ![k] = Tail(@)][k]) = Len(Q[k]) - 1
         /\ Head(Q[k]) \in Contents(k)
<1>1. Q[k] \in Seq(Message) /\ Q[k] \in Seq(Contents(k)) /\ Len(Q[k]) <= env.room
  BY DEF Carries
<1>2. /\ Tail(Q[k]) \in Seq(Message) /\ Tail(Q[k]) \in Seq(Contents(k))
      /\ Len(Tail(Q[k])) = Len(Q[k]) - 1 /\ Head(Q[k]) \in Contents(k)
  BY <1>1
<1>3. QED
  BY <1>1, <1>2 DEF Carries

\* a message read from anywhere in a queue leaves one less
LEMMA WithoutSeq ==
  ASSUME NEW S, NEW s \in Seq(S), NEW n \in DOMAIN s
  PROVE  Without(s, n) \in Seq(S) /\ Len(Without(s, n)) = Len(s) - 1
<1>1. n \in 1..Len(s) /\ Len(s) \in Nat
  OBVIOUS
<1>2. SubSeq(s, 1, n - 1) \in Seq(S) /\ Len(SubSeq(s, 1, n - 1)) = n - 1
  BY <1>1
<1>3. SubSeq(s, n + 1, Len(s)) \in Seq(S) /\ Len(SubSeq(s, n + 1, Len(s))) = Len(s) - n
  BY <1>1
<1> DEFINE a == SubSeq(s, 1, n - 1)
           b == SubSeq(s, n + 1, Len(s))
<1>4. a \o b \in Seq(S) /\ Len(a \o b) = Len(a) + Len(b)
  BY <1>2, <1>3
<1>5. (n - 1) + (Len(s) - n) = Len(s) - 1
  BY <1>1
<1>6. QED
  BY <1>2, <1>3, <1>4, <1>5 DEF Without

\* the invariant holds at the start
LEMMA InitInv == DInit => IInv
<1> SUFFICES ASSUME DInit PROVE IInv
  OBVIOUS
<1>1. Scalars
  BY DEF DInit, Scalars
<1>2. q = [k \in Places |-> <<>>] /\ env.room \in Nat
  BY <1>1, Rooms DEF DInit, Places
<1>3. Carries(q)
  BY <1>2 DEF Carries
<1>4. \A k \in Bridged : Len(q[k]) = 0 /\ Wakeups(k) = 0
  BY <1>2 DEF DInit, Wakeups, Places
<1>5. QED
  BY <1>1, <1>3, <1>4 DEF IInv, Owed
-----------------------------------------------------------------------------
(***************************************************************************)
(* Every step preserves the invariant.                                     *)
(***************************************************************************)
Owing(Q, sig, B) == \A k \in Bridged : Len(Q[k]) <= sig[k] + IF k \in B THEN 1 ELSE 0

\* a message that is put in a queue is signalled just if it is there
LEMMA PutOwed ==
  ASSUME Scalars, NEW Q, Carries(Q), NEW p \in Places, NEW m \in Contents(p), NEW B,
         Owing(Q, signals, B)
  PROVE  Signal(Q, p) \in [Bridged -> Nat] /\ Owing(Put(Q, p, m), Signal(Q, p), B)
<1>1. /\ Len(Put(Q, p, m)[p]) = Len(Q[p]) + IF Fits(Q, p) THEN 1 ELSE 0
      /\ \A k \in Places : k # p => Put(Q, p, m)[k] = Q[k]
  BY PutCarries, Rooms
<1>2. signals \in [Bridged -> Nat] /\ Bridged \subseteq Places
  BY DEF Scalars, Places
<1>3. \A k \in Bridged : Len(Q[k]) \in Nat
  BY <1>2 DEF Carries
<1>4. CASE Fits(Q, p) /\ p \in Bridged
  <2>1. Signal(Q, p) = [signals EXCEPT ![p] = signals[p] + 1]
    BY <1>4 DEF Signal
  <2>2. Signal(Q, p) \in [Bridged -> Nat]
    BY <1>2, <1>4, <2>1
  <2>3. ASSUME NEW k \in Bridged
        PROVE  Len(Put(Q, p, m)[k]) <= Signal(Q, p)[k] + IF k \in B THEN 1 ELSE 0
    BY <1>1, <1>2, <1>3, <1>4, <2>1, <2>3 DEF Owing
  <2>4. QED
    BY <2>2, <2>3 DEF Owing
<1>5. CASE ~(Fits(Q, p) /\ p \in Bridged)
  <2>1. Signal(Q, p) = signals
    BY <1>5 DEF Signal
  <2>2. \A k \in Bridged : Len(Put(Q, p, m)[k]) = Len(Q[k])
    <3>1. ASSUME NEW k \in Bridged, k = p PROVE Len(Put(Q, p, m)[k]) = Len(Q[k])
      <4>1. ~Fits(Q, p) /\ Len(Q[p]) \in Nat
        BY <1>3, <1>5, <3>1
      <4>2. Len(Put(Q, p, m)[p]) = Len(Q[p]) + 0
        BY <1>1, <4>1
      <4>3. QED
        BY <3>1, <4>1, <4>2
    <3>2. ASSUME NEW k \in Bridged, k # p PROVE Len(Put(Q, p, m)[k]) = Len(Q[k])
      BY <1>1, <1>2, <3>2
    <3>3. QED
      BY <3>1, <3>2
  <2>3. QED
    BY <1>2, <2>1, <2>2 DEF Owing
<1>6. QED
  BY <1>4, <1>5

\* what an object writes is stamped with its turn
LEMMA SentIsTimed == ASSUME NEW t \in Nat PROVE Sent(t) \in Contents(Entry) /\ Entry \in Places
<1>1. Delay \in Nat /\ ExternalDelay \in Nat
  BY DataItfAssumption
<1>2. CASE Local
  BY <1>1, <1>2 DEF Sent, Contents, Entry, Timed, Stamped, Message, Places
<1>3. CASE ~Local
  BY <1>1, <1>3 DEF Sent, Contents, Entry, Stamped, Message, Places, Bridged
<1>4. QED
  BY <1>2, <1>3

\* an object writes
LEMMA SndStep == ASSUME IInv, hwapi_itf_snd PROVE IInv'
<1>1. Scalars /\ Carries(q) /\ Owing(q, signals, busy)
  BY DEF IInv, Owed, Owing, Wakeups
<1>2. tw \in Nat /\ env' = env /\ busy' = busy
  BY <1>1 DEF hwapi_itf_snd, Scalars
<1>3. q' = Put(q, Entry, Sent(tw)) /\ signals' = Signal(q, Entry)
  BY DEF hwapi_itf_snd
<1>4. Carries(q')
  BY <1>1, <1>2, <1>3, SentIsTimed, PutCarries, Rooms
<1>5. signals' \in [Bridged -> Nat] /\ Owing(q', signals', busy)
  BY <1>1, <1>2, <1>3, SentIsTimed, PutOwed
<1>6. Scalars'
  BY <1>1, <1>5 DEF Scalars, hwapi_itf_snd
<1>7. QED
  BY <1>2, <1>4, <1>5, <1>6 DEF IInv, Owed, Owing, Wakeups, Carries, Contents

\* an object reads
LEMMA RcvStep == ASSUME IInv, hwapi_itf_rcv PROVE IInv'
<1>1. Scalars /\ Carries(q) /\ Owed /\ env.room \in Nat
  BY Rooms DEF IInv
<1>2. PICK n \in Receivable(q["reader"], tr) :
        q' = [q EXCEPT !["reader"] = Without(@, n)] /\ got' = q["reader"][n].turn
  BY DEF hwapi_itf_rcv
<1>3. /\ q["reader"] \in Seq(Message) /\ q["reader"] \in Seq(Contents("reader"))
      /\ n \in DOMAIN q["reader"] /\ Len(q["reader"]) <= env.room
  BY <1>1, <1>2 DEF Carries, Places, Receivable
<1>4. /\ Without(q["reader"], n) \in Seq(Message)
      /\ Without(q["reader"], n) \in Seq(Contents("reader"))
      /\ Len(Without(q["reader"], n)) = Len(q["reader"]) - 1
  BY <1>3, WithoutSeq
<1>5. Carries(q')
  BY <1>1, <1>2, <1>3, <1>4 DEF Carries, Places
<1>6. got' \in Nat
  <2>1. q["reader"][n] \in Message
    BY <1>3
  <2>2. QED
    BY <1>2, <2>1 DEF Message
<1>7. env' = env /\ signals' = signals /\ busy' = busy /\ \A k \in Bridged : q'[k] = q[k]
  BY <1>1, <1>2 DEF hwapi_itf_rcv, Carries, Places, Bridged
<1>8. Scalars'
  BY <1>1, <1>6, <1>7 DEF Scalars, hwapi_itf_rcv
<1>9. QED
  BY <1>1, <1>5, <1>7, <1>8 DEF IInv, Owed, Wakeups, Carries, Contents

\* a turn begins or ends, or the slot
LEMMA TurnStep ==
  ASSUME IInv, NEW o \in Objects, Begin(o) \/ End(o) \/ syncTslot
  PROVE  IInv'
<1>1. UNCHANGED <<env, q, signals, busy, lost, got>>
  BY DEF Begin, End, syncTslot
<1>2. /\ tw' \in Nat /\ tr' \in Nat /\ wrote' \in Nat
      /\ due' \subseteq Objects /\ in' \subseteq Objects
  BY DEF Begin, End, syncTslot, IInv, Scalars
<1>3. QED
  BY <1>1, <1>2 DEF IInv, Scalars, Carries, Owed, Wakeups, Contents

\* the kernel's signal wakes a BRIDGE
LEMMA WakeStep == ASSUME IInv, NEW k \in Bridged, Wake(k) PROVE IInv'
<1>1. Scalars /\ Carries(q) /\ Owed
  BY DEF IInv
<1>2. /\ UNCHANGED <<env, tw, tr, due, in, wrote, q, lost, got>>
      /\ k \notin busy /\ signals[k] > 0 /\ busy' = busy \cup {k}
      /\ signals' = [signals EXCEPT ![k] = signals[k] - 1]
  BY DEF Wake
<1>3. signals' \in [Bridged -> Nat]
  BY <1>1, <1>2 DEF Scalars
<1>4. \A j \in Bridged : Wakeups(j)' = Wakeups(j)
  BY <1>1, <1>2 DEF Wakeups, Scalars
<1>5. QED
  BY <1>1, <1>2, <1>3, <1>4 DEF IInv, Scalars, Carries, Owed, Contents

\* what is forwarded fits its next queue
LEMMA ForwardedContents ==
  ASSUME NEW k \in Bridged, NEW m \in Stamped
  PROVE  Forwarded(k, m) \in Contents(Next(k)) /\ Next(k) \in Places \ {k}
<1>1. Delay \in Nat
  BY DataItfAssumption
<1>2. m \in Message /\ m.tstamp = m.turn + Delay
  BY DEF Stamped
<1>3. CASE k = "writer"
  BY <1>2, <1>3 DEF Forwarded, Next, Contents, Places, Bridged, Stamped, Message
<1>4. CASE k = "wire"
  BY <1>1, <1>2, <1>4 DEF Forwarded, Next, Contents, Places, Bridged, Timed, Stamped, Message
<1>5. QED
  BY <1>3, <1>4 DEF Bridged

\* a BRIDGE passes a message on, or finds none
LEMMA BridgeStep == ASSUME IInv, NEW k \in Bridged, itf_rcv(k) PROVE IInv'
<1>1. Scalars /\ Carries(q) /\ Owed /\ env.room \in Nat /\ k \in Places
  BY Rooms DEF IInv, Places
<1>2. UNCHANGED <<env, tw, tr, due, in, wrote, got>> /\ k \in busy
  BY DEF itf_rcv
<1>3. CASE q[k] = <<>>
  <2>1. busy' = busy \ {k} /\ UNCHANGED <<q, signals, lost>>
    BY <1>3 DEF itf_rcv
  <2>2. \A j \in Bridged : Len(q[j]) <= Wakeups(j)'
    BY <1>1, <1>3, <2>1 DEF Owed, Wakeups, Scalars
  <2>3. QED
    BY <1>1, <1>2, <2>1, <2>2 DEF IInv, Scalars, Carries, Owed, Contents
<1>4. CASE q[k] # <<>>
  <2> DEFINE Q == [q EXCEPT ![k] = Tail(@)]
             p == Next(k)
             m == Forwarded(k, Head(q[k]))
  <2>1. /\ q' = Put(Q, p, m) /\ signals' = Signal(q, p)
        /\ busy' = IF Fits(q, p) THEN busy ELSE busy \ {k}
        /\ lost' = (lost \/ ~Fits(q, p))
    BY <1>4 DEF itf_rcv
  <2>2. Carries(Q) /\ Len(Q[k]) = Len(q[k]) - 1 /\ Head(q[k]) \in Stamped
    BY <1>1, <1>4, TailCarries DEF Contents, Bridged
  <2>3. m \in Contents(p) /\ p \in Places \ {k}
    BY <2>2, ForwardedContents
  <2>4. Carries(q')
    BY <1>1, <2>1, <2>2, <2>3, PutCarries
  <2>5. q \in [Places -> Seq(Message)] /\ Bridged \subseteq Places /\ \A j \in Places : j # k => Q[j] = q[j]
    BY <1>1 DEF Carries, Places
  <2>6. Signal(q, p) = Signal(Q, p)
    BY <2>3, <2>5 DEF Signal, Fits
  <2>7. Owing(Q, signals, busy')
    <3>1. ASSUME NEW j \in Bridged, j # k
          PROVE  Len(Q[j]) <= signals[j] + IF j \in busy' THEN 1 ELSE 0
      BY <1>1, <2>1, <2>5, <3>1 DEF Owed, Wakeups
    <3>2. Len(q[k]) <= signals[k] + 1 /\ signals[k] \in Nat /\ Len(q[k]) \in Nat
      BY <1>1, <1>2, <2>5 DEF Owed, Wakeups, Scalars
    <3>3. Len(Q[k]) <= signals[k] + IF k \in busy' THEN 1 ELSE 0
      BY <2>2, <3>2
    <3>4. QED
      BY <3>1, <3>3 DEF Owing
  <2>8. signals' \in [Bridged -> Nat] /\ Owing(q', signals', busy')
    BY <1>1, <2>1, <2>2, <2>3, <2>6, <2>7, PutOwed
  <2>9. busy' \subseteq Bridged /\ lost' \in BOOLEAN
    BY <1>1, <2>1 DEF Scalars
  <2>10. Scalars'
    BY <1>1, <1>2, <2>8, <2>9 DEF Scalars
  <2>11. QED
    BY <1>2, <2>4, <2>8, <2>10 DEF IInv, Owed, Owing, Wakeups, Carries, Contents
<1>5. QED
  BY <1>3, <1>4

\* a datagram overtakes another
LEMMA ReorderStep == ASSUME IInv, Reorder PROVE IInv'
<1>1. Scalars /\ Carries(q) /\ Owed /\ q["wire"] \in Seq(Message) /\ q["wire"] \in Seq(Stamped)
  BY DEF IInv, Carries, Places, Bridged, Contents
<1>2. PICK n \in 1..Len(q["wire"]) - 1 :
        q' = [q EXCEPT !["wire"] = [@ EXCEPT ![n] = q["wire"][n + 1], ![n + 1] = q["wire"][n]]]
  BY DEF Reorder
<1> DEFINE w == q["wire"]
           v == [w EXCEPT ![n] = w[n + 1], ![n + 1] = w[n]]
<1>3. n \in 1..Len(w) /\ n + 1 \in 1..Len(w) /\ Len(w) \in Nat
  BY <1>1, <1>2
<1>4. v \in Seq(Message) /\ v \in Seq(Stamped) /\ Len(v) = Len(w)
  BY <1>1, <1>3
<1>5. q' = [q EXCEPT !["wire"] = v]
  BY <1>2
<1>6. UNCHANGED <<env, tw, tr, due, in, wrote, signals, busy, lost, got>>
  BY DEF Reorder
<1>7. Carries(q') /\ \A k \in Bridged : Len(q'[k]) = Len(q[k])
  BY <1>1, <1>4, <1>5 DEF Carries, Places, Bridged, Contents
<1>8. QED
  BY <1>1, <1>6, <1>7 DEF IInv, Scalars, Owed, Wakeups, Carries, Contents

\* every step keeps the invariant
LEMMA NextInv == IInv /\ [DNext]_dvars => IInv'
<1> SUFFICES ASSUME IInv, [DNext]_dvars PROVE IInv'
  OBVIOUS
<1>1. CASE hwapi_itf_snd
  BY <1>1, SndStep
<1>2. CASE hwapi_itf_rcv
  BY <1>2, RcvStep
<1>3. CASE syncTslot
  BY <1>3, TurnStep DEF Objects
<1>4. CASE Reorder
  BY <1>4, ReorderStep
<1>5. ASSUME NEW o \in Objects, Begin(o) \/ End(o) PROVE IInv'
  BY <1>5, TurnStep
<1>6. ASSUME NEW k \in Bridged, Wake(k) \/ itf_rcv(k) PROVE IInv'
  BY <1>6, WakeStep, BridgeStep
<1>7. CASE UNCHANGED dvars
  BY <1>7 DEF dvars, IInv, Scalars, Owed, Wakeups, Carries, Contents
<1>8. QED
  BY <1>1, <1>2, <1>3, <1>4, <1>5, <1>6, <1>7 DEF DNext

\* the invariant always holds
LEMMA Inductive == DSpec => []IInv
  BY InitInv, NextInv, PTL DEF DSpec
-----------------------------------------------------------------------------
\* The variables have their types and no queue holds more than it can, whatever the delay, the
\* rate and the room are (hwapi_itf_snd_, itf_rcv of BRIDGE).
THEOREM TypeCorrect == DSpec => []DTypeOK
<1>1. IInv => DTypeOK
  BY DEF IInv, Scalars, Carries, Places, DTypeOK
<1>2. QED
  BY <1>1, Inductive, PTL

\* A BRIDGE never sleeps on a message (itf_rcv of BRIDGE, msgsndcallback): it is owed one signal
\* for every message, so that giving up at a full queue leaves the signals of the others.
THEOREM NeverStranded == DSpec => []NotStranded
<1>1. IInv => NotStranded
  BY DEF IInv, Scalars, Carries, Places, Owed, Wakeups, NotStranded
<1>2. QED
  BY <1>1, Inductive, PTL

\* Nothing is read before the turn it is due in, on whatever way it came (hwapi_itf_rcv__,
\* packet_in and packet_out).
THEOREM ReadWhenDue == DSpec => NeverEarly
<1>1. IInv /\ [DNext]_dvars =>
        [\A n \in Receivable(q["reader"], tr) :
           hwapi_itf_rcv => q["reader"][n].turn + Delay <= tr]_dvars
  <2> SUFFICES ASSUME IInv, NEW n \in Receivable(q["reader"], tr)
               PROVE  q["reader"][n].turn + Delay <= tr
    OBVIOUS
  <2>1. q["reader"] \in Seq(Timed) /\ tr \in Nat
    BY DEF IInv, Scalars, Carries, Places, Contents
  <2>2. n \in DOMAIN q["reader"] /\ q["reader"][n].dst <= tr
    BY DEF Receivable
  <2>3. q["reader"][n] \in Timed
    BY <2>1, <2>2
  <2>4. QED
    BY <2>1, <2>2, <2>3, DataItfAssumption DEF Timed, Stamped, Message
<1>2. QED
  BY <1>1, Inductive, PTL DEF DSpec, NeverEarly
-----------------------------------------------------------------------------
(***************************************************************************)
(* The refinement: the three queues, read from the reader back to the      *)
(* writer, are one line. A step of a BRIDGE moves a packet over a border   *)
(* the line does not know, or loses it; what the reader receives is the    *)
(* head, because the line is sorted by turn and the types in the reader's  *)
(* queue follow the turns. That the line is sorted is an invariant of the  *)
(* abstract specification, so it is preserved by whatever maps to it.      *)
(***************************************************************************)
Turns(s) == [n \in DOMAIN s |-> s[n].turn]

Sorted(L, t) ==
  /\ \A i, j \in 1..Len(L) : i <= j => L[i] <= L[j]
  /\ \A i \in 1..Len(L) : L[i] <= t

\* between objects on one PE nothing goes through the BRIDGEs
Direct == Local => q["writer"] = <<>> /\ q["wire"] = <<>>

LineInv == env.path # "udp" => Direct /\ Sorted(Under, tw)

\* the turns of a queue's messages, one by one
LEMMA TurnsSeq ==
  ASSUME NEW s \in Seq(Message)
  PROVE  /\ Turns(s) \in Seq(Nat) /\ Len(Turns(s)) = Len(s)
         /\ \A i \in 1..Len(s) : Turns(s)[i] = s[i].turn
         /\ s = <<>> => Turns(s) = <<>>
<1>1. Len(s) \in Nat /\ DOMAIN s = 1..Len(s) /\ \A i \in 1..Len(s) : s[i] \in Message
  OBVIOUS
<1>2. \A i \in 1..Len(s) : s[i].turn \in Nat
  BY <1>1 DEF Message
<1>3. Turns(s) = [i \in 1..Len(s) |-> s[i].turn]
  BY <1>1 DEF Turns
<1>4. Turns(s) \in Seq(Nat) /\ Len(Turns(s)) = Len(s)
  BY <1>1, <1>2, <1>3
<1>5. QED
  BY <1>3, <1>4, EmptySeq

\* the turns of a longer queue
LEMMA TurnsAppend ==
  ASSUME NEW s \in Seq(Message), NEW m \in Message
  PROVE  Turns(Append(s, m)) = Append(Turns(s), m.turn) /\ m.turn \in Nat
<1>1. m.turn \in Nat
  BY DEF Message
<1>2. /\ Append(s, m) \in Seq(Message) /\ Len(Append(s, m)) = Len(s) + 1
      /\ \A i \in 1..Len(s) : Append(s, m)[i] = s[i]
      /\ Append(s, m)[Len(s) + 1] = m
  BY AppendProperties
<1>3. /\ Turns(s) \in Seq(Nat) /\ Len(Turns(s)) = Len(s)
      /\ \A i \in 1..Len(s) : Turns(s)[i] = s[i].turn
  BY TurnsSeq
<1>4. /\ Turns(Append(s, m)) \in Seq(Nat) /\ Len(Turns(Append(s, m))) = Len(s) + 1
      /\ \A i \in 1..Len(s) + 1 : Turns(Append(s, m))[i] = Append(s, m)[i].turn
  BY <1>2, TurnsSeq
<1>5. /\ Append(Turns(s), m.turn) \in Seq(Nat) /\ Len(Append(Turns(s), m.turn)) = Len(s) + 1
      /\ \A i \in 1..Len(s) : Append(Turns(s), m.turn)[i] = Turns(s)[i]
      /\ Append(Turns(s), m.turn)[Len(s) + 1] = m.turn
  BY <1>1, <1>3, AppendProperties
<1>6. \A i \in 1..Len(s) + 1 : i \in 1..Len(s) \/ i = Len(s) + 1
  OBVIOUS
<1>7. \A i \in 1..Len(s) + 1 : Turns(Append(s, m))[i] = Append(Turns(s), m.turn)[i]
  BY <1>2, <1>3, <1>4, <1>5, <1>6
<1>8. QED
  BY <1>1, <1>4, <1>5, <1>7, SeqEqual

\* the turns of a shorter queue
LEMMA TurnsTail ==
  ASSUME NEW s \in Seq(Message), s # <<>>
  PROVE  /\ Turns(s) # <<>> /\ Turns(Tail(s)) = Tail(Turns(s))
         /\ Head(Turns(s)) = Head(s).turn
<1>1. /\ Tail(s) \in Seq(Message) /\ Len(Tail(s)) = Len(s) - 1 /\ Len(s) \in Nat \ {0}
      /\ \A i \in 1..Len(s) - 1 : Tail(s)[i] = s[i + 1]
  BY EmptySeq, HeadTailProperties
<1>2. /\ Turns(s) \in Seq(Nat) /\ Len(Turns(s)) = Len(s)
      /\ \A i \in 1..Len(s) : Turns(s)[i] = s[i].turn
  BY TurnsSeq
<1>3. Turns(s) # <<>>
  BY <1>1, <1>2, EmptySeq
<1>4. /\ Tail(Turns(s)) \in Seq(Nat) /\ Len(Tail(Turns(s))) = Len(s) - 1
      /\ \A i \in 1..Len(s) - 1 : Tail(Turns(s))[i] = Turns(s)[i + 1]
  BY <1>2, <1>3, HeadTailProperties
<1>5. /\ Turns(Tail(s)) \in Seq(Nat) /\ Len(Turns(Tail(s))) = Len(s) - 1
      /\ \A i \in 1..Len(s) - 1 : Turns(Tail(s))[i] = Tail(s)[i].turn
  BY <1>1, TurnsSeq
<1>6. \A i \in 1..Len(s) - 1 : Turns(Tail(s))[i] = Tail(Turns(s))[i]
  BY <1>1, <1>2, <1>4, <1>5
<1>7. Turns(Tail(s)) = Tail(Turns(s))
  BY <1>4, <1>5, <1>6, SeqEqual
<1>8. Head(Turns(s)) = Head(s).turn
  BY <1>1, <1>2, <1>3
<1>9. QED
  BY <1>3, <1>7, <1>8

\* the head of a concatenation, and the line without what is behind a prefix
LEMMA TailConcat ==
  ASSUME NEW s \in Seq(Nat), NEW t \in Seq(Nat), s # <<>>
  PROVE  /\ s \o t # <<>> /\ Tail(s \o t) = Tail(s) \o t /\ Head(s \o t) = Head(s)
<1>1. /\ s \o t \in Seq(Nat) /\ Len(s \o t) = Len(s) + Len(t)
      /\ \A i \in 1..Len(s) + Len(t) : (s \o t)[i] = IF i <= Len(s) THEN s[i] ELSE t[i - Len(s)]
  BY ConcatProperties
<1>2. Len(s) \in Nat \ {0} /\ Len(t) \in Nat
  BY EmptySeq
<1>3. s \o t # <<>>
  BY <1>1, <1>2, EmptySeq
<1>4. /\ Tail(s \o t) \in Seq(Nat) /\ Len(Tail(s \o t)) = Len(s) + Len(t) - 1
      /\ \A i \in 1..Len(s) + Len(t) - 1 : Tail(s \o t)[i] = (s \o t)[i + 1]
  BY <1>1, <1>3, HeadTailProperties
<1>5. /\ Tail(s) \in Seq(Nat) /\ Len(Tail(s)) = Len(s) - 1
      /\ \A i \in 1..Len(s) - 1 : Tail(s)[i] = s[i + 1]
  BY HeadTailProperties
<1>6. /\ Tail(s) \o t \in Seq(Nat) /\ Len(Tail(s) \o t) = Len(s) - 1 + Len(t)
      /\ \A i \in 1..Len(s) - 1 + Len(t) :
           (Tail(s) \o t)[i] = IF i <= Len(s) - 1 THEN Tail(s)[i] ELSE t[i - (Len(s) - 1)]
  BY <1>5, ConcatProperties
<1>7. ASSUME NEW i \in 1..Len(s) + Len(t) - 1 PROVE Tail(s \o t)[i] = (Tail(s) \o t)[i]
  <2>1. CASE i <= Len(s) - 1
    BY <1>1, <1>2, <1>4, <1>5, <1>6, <2>1
  <2>2. CASE ~(i <= Len(s) - 1)
    <3>1. /\ i + 1 \in 1..Len(s) + Len(t) /\ ~(i + 1 <= Len(s)) /\ i + 1 - Len(s) = i - (Len(s) - 1)
          /\ i \in 1..Len(s) - 1 + Len(t)
      BY <1>2, <2>2
    <3>2. QED
      BY <1>1, <1>4, <1>6, <2>2, <3>1
  <2>3. QED
    BY <2>1, <2>2
<1>8. Tail(s \o t) = Tail(s) \o t
  <2>1. Len(Tail(s \o t)) = Len(Tail(s) \o t)
    BY <1>2, <1>4, <1>6
  <2>2. QED
    BY <1>4, <1>6, <1>7, <2>1, SeqEqual
<1>9. Head(s \o t) = Head(s)
  BY <1>1, <1>2, <1>3
<1>10. QED
  BY <1>3, <1>8, <1>9

\* the first of the second part of a line is taken out of the whole
LEMMA RemoveBehind ==
  ASSUME NEW s \in Seq(Nat), NEW t \in Seq(Nat), t # <<>>
  PROVE  /\ Len(s) + 1 \in DOMAIN (s \o t)
         /\ Line!RemoveAt(s \o t, Len(s) + 1) = s \o Tail(t)
<1> DEFINE L == s \o t
           n == Len(s) + 1
<1>1. /\ L \in Seq(Nat) /\ Len(L) = Len(s) + Len(t)
      /\ \A i \in 1..Len(s) + Len(t) : L[i] = IF i <= Len(s) THEN s[i] ELSE t[i - Len(s)]
  BY ConcatProperties
<1>2. Len(s) \in Nat /\ Len(t) \in Nat \ {0}
  BY EmptySeq
<1> HIDE DEF L
<1>3. n \in 1..Len(L)
  BY <1>1, <1>2
<1>4. SubSeq(L, 1, n - 1) = s
  <2>1. n - 1 = Len(s)
    BY <1>2
  <2>2. CASE Len(s) = 0
    <3>1. s = <<>>
      BY <2>2, EmptySeq
    <3>2. QED
      BY <1>2, <2>1, <2>2, <3>1, SubSeqEmpty
  <2>3. CASE Len(s) # 0
    <3>1. 1 \in 1..Len(s) /\ Len(s) \in 1..Len(s)
      BY <1>2, <2>3
    <3>2. SubSeq(L, 1, Len(s)) = SubSeq(s, 1, Len(s))
      BY <3>1, SubSeqOfConcat1 DEF L
    <3>3. QED
      BY <2>1, <3>2, SubSeqFull
  <2>4. QED
    BY <2>2, <2>3
<1>5. SubSeq(L, n + 1, Len(L)) = Tail(t)
  <2>1. Tail(t) = SubSeq(t, 2, Len(t))
    BY TailIsSubSeq
  <2>2. CASE Len(t) = 1
    <3>1. SubSeq(t, 2, Len(t)) = <<>>
      BY <2>2, SubSeqEmpty
    <3>2. n + 1 \in Int /\ Len(L) \in Int /\ Len(L) < n + 1
      BY <1>1, <1>2, <2>2
    <3>3. SubSeq(L, n + 1, Len(L)) = <<>>
      BY <3>2, SubSeqEmpty
    <3>4. QED
      BY <2>1, <3>1, <3>3
  <2>3. CASE Len(t) # 1
    <3>0. Len(L) = Len(s) + Len(t) /\ Len(t) >= 2
      <4>1. \A l \in Nat \ {0} : l # 1 => l >= 2
        OBVIOUS
      <4>2. QED
        BY <1>1, <1>2, <2>3, <4>1
    <3>1. /\ n + 1 \in Len(s) + 1..Len(s) + Len(t) /\ Len(L) \in Len(s) + 1..Len(s) + Len(t)
          /\ n + 1 - Len(s) = 2 /\ Len(L) - Len(s) = Len(t)
      BY <1>2, <3>0
    <3>2. SubSeq(L, n + 1, Len(L)) = SubSeq(t, n + 1 - Len(s), Len(L) - Len(s))
      BY <3>1, SubSeqOfConcat2 DEF L
    <3>3. QED
      BY <2>1, <3>1, <3>2
  <2>4. QED
    BY <2>2, <2>3
<1>6. DOMAIN L = 1..Len(L)
  BY <1>1
<1>7. QED
  BY <1>3, <1>4, <1>5, <1>6 DEF Line!RemoveAt, L

\* concatenation is associative
LEMMA Regroup ==
  ASSUME NEW s \in Seq(Nat), NEW t \in Seq(Nat), NEW v \in Seq(Nat),
         NEW a \in Seq(Nat), NEW b \in Seq(Nat), a = s \o t, b = t \o v
  PROVE  a \o v = s \o b
<1>0. Len(s) \in Nat /\ Len(t) \in Nat /\ Len(v) \in Nat
  OBVIOUS
<1>1. /\ Len(a) = Len(s) + Len(t)
      /\ \A i \in 1..Len(s) + Len(t) : a[i] = IF i <= Len(s) THEN s[i] ELSE t[i - Len(s)]
  BY ConcatProperties
<1>2. /\ Len(b) = Len(t) + Len(v)
      /\ \A i \in 1..Len(t) + Len(v) : b[i] = IF i <= Len(t) THEN t[i] ELSE v[i - Len(t)]
  BY ConcatProperties
<1>3. /\ a \o v \in Seq(Nat) /\ Len(a \o v) = Len(a) + Len(v)
      /\ \A i \in 1..Len(a) + Len(v) : (a \o v)[i] = IF i <= Len(a) THEN a[i] ELSE v[i - Len(a)]
  BY ConcatProperties
<1>4. /\ s \o b \in Seq(Nat) /\ Len(s \o b) = Len(s) + Len(b)
      /\ \A i \in 1..Len(s) + Len(b) : (s \o b)[i] = IF i <= Len(s) THEN s[i] ELSE b[i - Len(s)]
  BY ConcatProperties
<1>5. ASSUME NEW i \in 1..Len(s) + Len(t) + Len(v) PROVE (a \o v)[i] = (s \o b)[i]
  <2>1. CASE i <= Len(s)
    BY <1>0, <1>1, <1>2, <1>3, <1>4, <2>1
  <2>2. CASE Len(s) < i /\ i <= Len(s) + Len(t)
    BY <1>0, <1>1, <1>2, <1>3, <1>4, <2>2
  <2>3. CASE Len(s) + Len(t) < i
    BY <1>0, <1>1, <1>2, <1>3, <1>4, <2>3
  <2>4. QED
    BY <1>0, <2>1, <2>2, <2>3
<1>6. Len(a \o v) = Len(s) + Len(t) + Len(v) /\ Len(s \o b) = Len(s) + Len(t) + Len(v)
  BY <1>0, <1>1, <1>2, <1>3, <1>4
<1>7. QED
  BY <1>3, <1>4, <1>5, <1>6, SeqEqual

\* parts of a line can be put together in any order
LEMMA Associative == \A s, t, v \in Seq(Nat) : (s \o t) \o v = s \o (t \o v)
<1> SUFFICES ASSUME NEW s \in Seq(Nat), NEW t \in Seq(Nat), NEW v \in Seq(Nat)
             PROVE  (s \o t) \o v = s \o (t \o v)
  OBVIOUS
<1>1. PICK a \in Seq(Nat) : a = s \o t
  BY ConcatProperties
<1>2. PICK b \in Seq(Nat) : b = t \o v
  BY ConcatProperties
<1>3. a \o v = s \o b
  BY <1>1, <1>2, Regroup
<1>4. QED
  BY <1>1, <1>2, <1>3

\* what the proofs need of concatenation
LEMMA Lines ==
  /\ \A s, t \in Seq(Nat) : s \o t \in Seq(Nat)
  /\ \A s, t, v \in Seq(Nat) : (s \o t) \o v = s \o (t \o v)
  /\ \A s \in Seq(Nat) : <<>> \o s = s /\ s \o <<>> = s
  /\ <<>> \in Seq(Nat) /\ \A x \in Nat : <<x>> \in Seq(Nat) /\ <<x>> # <<>>
<1>1. \A s, t \in Seq(Nat) : s \o t \in Seq(Nat)
  BY ConcatProperties
<1>2. \A s, t, v \in Seq(Nat) : (s \o t) \o v = s \o (t \o v)
  BY Associative, Zenon
<1>3. \A s \in Seq(Nat) : <<>> \o s = s /\ s \o <<>> = s
  BY ConcatEmptySeq
<1>4. <<>> \in Seq(Nat) /\ \A x \in Nat : <<x>> \in Seq(Nat) /\ <<x>> # <<>>
  OBVIOUS
<1>5. QED
  BY <1>1, <1>2, <1>3, <1>4

\* the turns of two queues one behind the other
LEMMA TurnsConcat ==
  ASSUME NEW s \in Seq(Message), NEW t \in Seq(Message)
  PROVE  s \o t \in Seq(Message) /\ Turns(s \o t) = Turns(s) \o Turns(t)
<1> DEFINE r == Turns(s)
           w == Turns(t)
<1>1. /\ s \o t \in Seq(Message) /\ Len(s \o t) = Len(s) + Len(t)
      /\ \A i \in 1..Len(s) + Len(t) : (s \o t)[i] = IF i <= Len(s) THEN s[i] ELSE t[i - Len(s)]
  BY ConcatProperties
<1>2. /\ r \in Seq(Nat) /\ Len(r) = Len(s) /\ Len(s) \in Nat
      /\ \A i \in 1..Len(s) : r[i] = s[i].turn
  BY TurnsSeq
<1>3. /\ w \in Seq(Nat) /\ Len(w) = Len(t) /\ Len(t) \in Nat
      /\ \A i \in 1..Len(t) : w[i] = t[i].turn
  BY TurnsSeq
<1>4. /\ Turns(s \o t) \in Seq(Nat) /\ Len(Turns(s \o t)) = Len(s) + Len(t)
      /\ \A i \in 1..Len(s) + Len(t) : Turns(s \o t)[i] = (s \o t)[i].turn
  BY <1>1, TurnsSeq
<1> HIDE DEF r, w
<1>5. /\ r \o w \in Seq(Nat) /\ Len(r \o w) = Len(r) + Len(w)
      /\ \A i \in 1..Len(r) + Len(w) : (r \o w)[i] = IF i <= Len(r) THEN r[i] ELSE w[i - Len(r)]
  BY <1>2, <1>3, ConcatProperties
<1>6. ASSUME NEW i \in 1..Len(s) + Len(t) PROVE Turns(s \o t)[i] = (r \o w)[i]
  <2>1. CASE i <= Len(s)
    <3>1. i \in 1..Len(s)
      BY <1>2, <1>3, <2>1
    <3>2. QED
      BY <1>1, <1>2, <1>3, <1>4, <1>5, <2>1, <3>1
  <2>2. CASE ~(i <= Len(s))
    <3>1. i - Len(s) \in 1..Len(t)
      BY <1>2, <1>3, <2>2
    <3>2. QED
      BY <1>1, <1>2, <1>3, <1>4, <1>5, <2>2, <3>1
  <2>3. QED
    BY <2>1, <2>2
<1>7. Turns(s \o t) = r \o w
  <2>1. Len(Turns(s \o t)) = Len(r \o w)
    BY <1>2, <1>3, <1>4, <1>5
  <2>2. \A i \in 1..Len(Turns(s \o t)) : Turns(s \o t)[i] = (r \o w)[i]
    BY <1>4, <1>6
  <2>3. QED
    BY <1>4, <1>5, <2>1, <2>2, SeqEqual
<1>8. QED
  BY <1>1, <1>7 DEF r, w

\* the line is the three queues one behind the other
LEMMA UnderIsLine ==
  ASSUME NEW Q, Q \in [Places -> Seq(Message)]
  PROVE  /\ Turns(Q["reader"]) \in Seq(Nat) /\ Turns(Q["wire"]) \in Seq(Nat)
         /\ Turns(Q["writer"]) \in Seq(Nat)
         /\ Turns(Q["reader"] \o Q["wire"] \o Q["writer"])
              = (Turns(Q["reader"]) \o Turns(Q["wire"])) \o Turns(Q["writer"])
<1>2. Q["reader"] \in Seq(Message) /\ Q["wire"] \in Seq(Message) /\ Q["writer"] \in Seq(Message)
  BY DEF Places, Bridged
<1>3. /\ Q["reader"] \o Q["wire"] \in Seq(Message)
      /\ Turns(Q["reader"] \o Q["wire"]) = Turns(Q["reader"]) \o Turns(Q["wire"])
  BY <1>2, TurnsConcat
<1>4. Turns(Q["reader"] \o Q["wire"] \o Q["writer"])
        = Turns(Q["reader"] \o Q["wire"]) \o Turns(Q["writer"])
  BY <1>2, <1>3, TurnsConcat
<1>5. QED
  BY <1>2, <1>3, <1>4, TurnsSeq

\* one of the queues grows, hands over its head, or loses it
LEMMA LineGrows ==
  ASSUME NEW Q \in [Places -> Seq(Message)], NEW P \in [Places -> Seq(Message)],
         NEW k \in Places, NEW m \in Message,
         P[k] = Append(Q[k], m), \A j \in Places \ {k} : P[j] = Q[j],
         k = "writer" \/ (k = "reader" /\ Q["wire"] = <<>> /\ Q["writer"] = <<>>)
  PROVE  Turns(P["reader"] \o P["wire"] \o P["writer"])
           = Append(Turns(Q["reader"] \o Q["wire"] \o Q["writer"]), m.turn)
<1> DEFINE r == Turns(Q["reader"])
           u == Turns(Q["wire"])
           w == Turns(Q["writer"])
           x == m.turn
<1>1. /\ r \in Seq(Nat) /\ u \in Seq(Nat) /\ w \in Seq(Nat)
      /\ Turns(Q["reader"] \o Q["wire"] \o Q["writer"]) = (r \o u) \o w
      /\ Turns(P["reader"] \o P["wire"] \o P["writer"])
           = (Turns(P["reader"]) \o Turns(P["wire"])) \o Turns(P["writer"])
  BY UnderIsLine
<1>2. x \in Nat /\ Turns(P[k]) = Append(Turns(Q[k]), x)
  BY TurnsAppend
<1>3. /\ r \o u \in Seq(Nat) /\ w \in Seq(Nat) /\ (r \o u) \o w \in Seq(Nat)
      /\ <<x>> \in Seq(Nat)
  BY <1>1, <1>2, ConcatProperties
<1>4. CASE k = "writer"
  <2>1. Turns(P["reader"]) = r /\ Turns(P["wire"]) = u /\ Turns(P["writer"]) = Append(w, x)
    BY <1>2, <1>4 DEF Places, Bridged
  <2> HIDE DEF r, u, w, x
  <2>2. Append(w, x) = w \o <<x>>
    BY <1>1, <1>2, AppendIsConcat
  <2>3. Append((r \o u) \o w, x) = ((r \o u) \o w) \o <<x>>
    BY <1>2, <1>3, AppendIsConcat
  <2>4. ((r \o u) \o w) \o <<x>> = (r \o u) \o (w \o <<x>>)
    BY <1>3, Lines, Zenon
  <2>5. QED
    BY <1>1, <2>1, <2>2, <2>3, <2>4 DEF x
<1>5. CASE k = "reader" /\ Q["wire"] = <<>> /\ Q["writer"] = <<>>
  <2>1. u = <<>> /\ w = <<>>
    BY <1>5, TurnsSeq DEF Places, Bridged
  <2>2. Turns(P["reader"]) = Append(r, x) /\ Turns(P["wire"]) = u /\ Turns(P["writer"]) = w
    BY <1>2, <1>5 DEF Places, Bridged
  <2>3. Append(r, x) \in Seq(Nat)
    BY <1>1, <1>2, AppendProperties
  <2> HIDE DEF r, u, w, x
  <2>4. (r \o u) \o w = r /\ (Append(r, x) \o u) \o w = Append(r, x)
    BY <1>1, <2>1, <2>3, ConcatEmptySeq
  <2>5. QED
    BY <1>1, <2>2, <2>4 DEF x
<1>6. QED
  BY <1>4, <1>5

\* a message that moves on to the next queue keeps its place on the line
LEMMA LineMoves ==
  ASSUME NEW Q \in [Places -> Seq(Message)], NEW P \in [Places -> Seq(Message)],
         NEW k \in Bridged, NEW m \in Message, Q[k] # <<>>, m.turn = Head(Q[k]).turn,
         P[k] = Tail(Q[k]), P[Next(k)] = Append(Q[Next(k)], m),
         \A j \in Places \ {k, Next(k)} : P[j] = Q[j]
  PROVE  Turns(P["reader"] \o P["wire"] \o P["writer"])
           = Turns(Q["reader"] \o Q["wire"] \o Q["writer"])
<1> DEFINE r == Turns(Q["reader"])
           u == Turns(Q["wire"])
           w == Turns(Q["writer"])
           x == m.turn
<1>1. /\ r \in Seq(Nat) /\ u \in Seq(Nat) /\ w \in Seq(Nat)
      /\ Turns(Q["reader"] \o Q["wire"] \o Q["writer"]) = (r \o u) \o w
      /\ Turns(P["reader"] \o P["wire"] \o P["writer"])
           = (Turns(P["reader"]) \o Turns(P["wire"])) \o Turns(P["writer"])
  BY UnderIsLine
<1>2. /\ x \in Nat /\ Turns(P[Next(k)]) = Append(Turns(Q[Next(k)]), x)
      /\ Turns(Q[k]) # <<>> /\ Turns(P[k]) = Tail(Turns(Q[k])) /\ Head(Turns(Q[k])) = x
  BY TurnsAppend, TurnsTail DEF Places, Bridged, Next
<1>3. \A s, t \in Seq(Nat) : t # <<>> /\ Head(t) = x => Append(s, x) \o Tail(t) = s \o t
  <2> HIDE DEF x
  <2> SUFFICES ASSUME NEW s \in Seq(Nat), NEW t \in Seq(Nat), t # <<>>, Head(t) = x
               PROVE  Append(s, x) \o Tail(t) = s \o t
    OBVIOUS
  <2>1. Append(s, x) = s \o <<x>> /\ <<x>> \in Seq(Nat) /\ <<x>> # <<>>
    BY <1>2, AppendIsConcat
  <2>2. Tail(t) \in Seq(Nat)
    BY HeadTailProperties
  <2>3. (s \o <<x>>) \o Tail(t) = s \o (<<x>> \o Tail(t))
    <3> DEFINE a == <<x>>
               b == Tail(t)
    <3>1. a \in Seq(Nat) /\ b \in Seq(Nat)
      BY <2>1, <2>2
    <3> HIDE DEF a, b
    <3>2. (s \o a) \o b = s \o (a \o b)
      BY <3>1, Associative, Zenon
    <3>3. QED
      BY <3>2 DEF a, b
  <2>4. <<x>> \o Tail(t) = t
    <3>1. /\ <<x>> \o Tail(t) \in Seq(Nat) /\ Len(<<x>> \o Tail(t)) = 1 + Len(Tail(t))
          /\ \A i \in 1..1 + Len(Tail(t)) :
               (<<x>> \o Tail(t))[i] = IF i <= 1 THEN <<x>>[i] ELSE Tail(t)[i - 1]
      BY <2>1, <2>2, ConcatProperties
    <3>2. /\ Len(Tail(t)) = Len(t) - 1 /\ Len(t) \in Nat \ {0}
          /\ \A i \in 1..Len(t) - 1 : Tail(t)[i] = t[i + 1]
      BY EmptySeq, HeadTailProperties
    <3>3. t[1] = x
      BY <3>2
    <3>4. \A i \in 1..Len(t) : (<<x>> \o Tail(t))[i] = t[i]
      BY <3>1, <3>2, <3>3
    <3>5. QED
      BY <3>1, <3>2, <3>4, SeqEqual
  <2>5. QED
    BY <2>1, <2>3, <2>4
<1>4. CASE k = "writer"
  <2>1. /\ Turns(P["reader"]) = r /\ Turns(P["wire"]) = Append(u, x)
        /\ Turns(P["writer"]) = Tail(w) /\ w # <<>> /\ Head(w) = x
    BY <1>2, <1>4 DEF Places, Bridged, Next
  <2>2. r \in Seq(Nat) /\ Append(u, x) \in Seq(Nat) /\ Tail(w) \in Seq(Nat)
    BY <1>1, <1>2, <2>1, AppendProperties, HeadTailProperties
  <2> HIDE DEF r, u, w, x
  <2>3. (r \o Append(u, x)) \o Tail(w) = r \o (Append(u, x) \o Tail(w))
    BY <2>2, Associative, Zenon
  <2>4. Append(u, x) \o Tail(w) = u \o w
    BY <1>1, <1>3, <2>1
  <2>5. r \o (u \o w) = (r \o u) \o w
    BY <1>1, Associative, Zenon
  <2>6. QED
    BY <1>1, <2>1, <2>3, <2>4, <2>5
<1>5. CASE k = "wire"
  <2>1. /\ Turns(P["reader"]) = Append(r, x) /\ Turns(P["wire"]) = Tail(u)
        /\ Turns(P["writer"]) = w /\ u # <<>> /\ Head(u) = x
    BY <1>2, <1>5 DEF Places, Bridged, Next
  <2> HIDE DEF r, u, w, x
  <2>2. Append(r, x) \o Tail(u) = r \o u
    BY <1>1, <1>3, <2>1
  <2>3. QED
    BY <1>1, <2>1, <2>2
<1>6. QED
  BY <1>4, <1>5 DEF Bridged

\* a message that leaves a queue leaves the line, from its head if it is read
LEMMA LineShrinks ==
  ASSUME NEW Q \in [Places -> Seq(Message)], NEW P \in [Places -> Seq(Message)],
         NEW k \in Places, Q[k] # <<>>,
         P[k] = Tail(Q[k]), \A j \in Places \ {k} : P[j] = Q[j]
  PROVE  LET L == Turns(Q["reader"] \o Q["wire"] \o Q["writer"])
             K == Turns(P["reader"] \o P["wire"] \o P["writer"])
         IN  /\ L # <<>> /\ \E n \in DOMAIN L : K = Line!RemoveAt(L, n)
             /\ k = "reader" => K = Tail(L) /\ Head(L) = Head(Q["reader"]).turn
<1> DEFINE r == Turns(Q["reader"])
           u == Turns(Q["wire"])
           w == Turns(Q["writer"])
           L == Turns(Q["reader"] \o Q["wire"] \o Q["writer"])
           K == Turns(P["reader"] \o P["wire"] \o P["writer"])
<1>1. /\ r \in Seq(Nat) /\ u \in Seq(Nat) /\ w \in Seq(Nat)
      /\ L = (r \o u) \o w
      /\ K = (Turns(P["reader"]) \o Turns(P["wire"])) \o Turns(P["writer"])
  BY UnderIsLine
<1>2. /\ Turns(Q[k]) # <<>> /\ Turns(P[k]) = Tail(Turns(Q[k]))
      /\ Head(Turns(Q[k])) = Head(Q[k]).turn
  BY TurnsTail
<1>3. /\ r \in Seq(Nat) /\ u \in Seq(Nat) /\ w \in Seq(Nat)
      /\ r \o u \in Seq(Nat) /\ u \o w \in Seq(Nat)
  BY <1>1, ConcatProperties
<1>4. \A t \in Seq(Nat) : <<>> \o t = t /\ t \o <<>> = t /\ <<>> \in Seq(Nat)
  BY Lines
<1>5. CASE k = "writer"
  <2>1. /\ Turns(P["reader"]) = r /\ Turns(P["wire"]) = u
        /\ Turns(P["writer"]) = Tail(w) /\ w # <<>>
    BY <1>2, <1>5 DEF Places, Bridged
  <2> HIDE DEF r, u, w, L, K
  <2>2. /\ Len(r \o u) + 1 \in DOMAIN ((r \o u) \o w)
        /\ Line!RemoveAt((r \o u) \o w, Len(r \o u) + 1) = (r \o u) \o Tail(w)
    BY <1>3, <2>1, RemoveBehind
  <2>5. Len(r \o u) + 1 \in DOMAIN L /\ Line!RemoveAt(L, Len(r \o u) + 1) = K
    BY <1>1, <2>1, <2>2
  <2>3. L # <<>>
    BY <2>5
  <2>6. QED
    BY <1>5, <2>3, <2>5 DEF L, K
<1>6. CASE k = "wire"
  <2>1. /\ Turns(P["reader"]) = r /\ Turns(P["wire"]) = Tail(u)
        /\ Turns(P["writer"]) = w /\ u # <<>>
    BY <1>2, <1>6 DEF Places, Bridged
  <2>2. Tail(u) \in Seq(Nat)
    BY <1>1, <2>1, HeadTailProperties
  <2> HIDE DEF r, u, w, L, K
  <2>3. L = r \o (u \o w) /\ K = r \o (Tail(u) \o w)
    <3>1. r \in Seq(Nat) /\ w \in Seq(Nat)
      BY <1>3
    <3>2. ASSUME NEW s \in Seq(Nat) PROVE (r \o s) \o w = r \o (s \o w)
      <4>1. PICK a \in Seq(Nat) : a = r \o s
        BY <3>1, Lines
      <4>2. PICK b \in Seq(Nat) : b = s \o w
        BY <3>1, Lines
      <4>3. a \o w = r \o b
        BY <3>1, <4>1, <4>2, Regroup
      <4>4. QED
        BY <4>1, <4>2, <4>3
    <3>3. QED
      BY <1>1, <1>3, <2>1, <2>2, <3>2
  <2>4. u \o w # <<>> /\ Tail(u \o w) = Tail(u) \o w
    BY <1>1, <2>1, TailConcat
  <2>5. Len(r) + 1 \in DOMAIN L /\ Line!RemoveAt(L, Len(r) + 1) = K
    BY <1>1, <1>3, <2>3, <2>4, RemoveBehind
  <2>6. L # <<>>
    BY <2>5
  <2>7. QED
    BY <1>6, <2>5, <2>6 DEF L, K
<1>7. CASE k = "reader"
  <2>1. /\ Turns(P["reader"]) = Tail(r) /\ Turns(P["wire"]) = u
        /\ Turns(P["writer"]) = w /\ r # <<>> /\ Head(r) = Head(Q["reader"]).turn
    BY <1>2, <1>7 DEF Places, Bridged
  <2> HIDE DEF r, u, w, L, K
  <2>2. r \o u # <<>> /\ Tail(r \o u) = Tail(r) \o u /\ Head(r \o u) = Head(r)
    BY <1>1, <2>1, TailConcat
  <2>3. L # <<>> /\ Tail(L) = (Tail(r) \o u) \o w /\ Head(L) = Head(r)
    <3>1. /\ (r \o u) \o w # <<>> /\ Tail((r \o u) \o w) = Tail(r \o u) \o w
          /\ Head((r \o u) \o w) = Head(r \o u)
      BY <1>3, <2>2, TailConcat
    <3>2. QED
      BY <1>1, <2>2, <3>1
  <2>4. L \in Seq(Nat)
    BY <1>1, <1>3, ConcatProperties
  <2>5. Len(<<>>) + 1 \in DOMAIN (<<>> \o L) /\ Line!RemoveAt(<<>> \o L, Len(<<>>) + 1) = <<>> \o Tail(L)
    BY <1>4, <2>3, <2>4, RemoveBehind
  <2>6. <<>> \o L = L /\ <<>> \o Tail(L) = Tail(L)
    BY <1>4, <2>3, <2>4, HeadTailProperties
  <2>7. QED
    BY <1>1, <2>1, <2>3, <2>5, <2>6 DEF L, K
<1>8. QED
  BY <1>5, <1>6, <1>7 DEF Places, Bridged

\* what is removed from a line, place by place
LEMMA Removed ==
  ASSUME NEW S, NEW s \in Seq(S), NEW n \in 1..Len(s)
  PROVE  /\ Without(s, n) \in Seq(S) /\ Len(Without(s, n)) = Len(s) - 1
         /\ \A i \in 1..Len(s) - 1 : Without(s, n)[i] = IF i < n THEN s[i] ELSE s[i + 1]
<1> DEFINE a == SubSeq(s, 1, n - 1)
           b == SubSeq(s, n + 1, Len(s))
<1>0. Len(s) \in Nat /\ \A i \in 1..Len(s) : s[i] \in S
  OBVIOUS
<1>1. /\ a \in Seq(S) /\ Len(a) = n - 1
      /\ \A i \in 1..n - 1 : a[i] = s[i]
  <2>1. n - 1 \in Int /\ 1 \in Int /\ \A i \in 1..n - 1 : s[i] \in S
    BY <1>0
  <2>2. /\ a \in Seq(S) /\ Len(a) = IF 1 <= n - 1 THEN n - 1 - 1 + 1 ELSE 0
        /\ \A i \in 1..n - 1 - 1 + 1 : a[i] = s[1 + i - 1]
    BY <2>1, SubSeqProperties
  <2>3. QED
    BY <1>0, <2>2
<1>2. /\ b \in Seq(S) /\ Len(b) = Len(s) - n
      /\ \A i \in 1..Len(s) - n : b[i] = s[n + i]
  <2>1. n + 1 \in Int /\ Len(s) \in Int /\ \A i \in n + 1..Len(s) : s[i] \in S
    BY <1>0
  <2>2. /\ b \in Seq(S) /\ Len(b) = IF n + 1 <= Len(s) THEN Len(s) - (n + 1) + 1 ELSE 0
        /\ \A i \in 1..Len(s) - (n + 1) + 1 : b[i] = s[(n + 1) + i - 1]
    BY <2>1, SubSeqProperties
  <2>3. QED
    BY <1>0, <2>2
<1> HIDE DEF a, b
<1>3. /\ a \o b \in Seq(S) /\ Len(a \o b) = Len(a) + Len(b)
      /\ \A i \in 1..Len(a) + Len(b) : (a \o b)[i] = IF i <= Len(a) THEN a[i] ELSE b[i - Len(a)]
  BY <1>1, <1>2, ConcatProperties
<1>4. ASSUME NEW i \in 1..Len(s) - 1
      PROVE  (a \o b)[i] = IF i < n THEN s[i] ELSE s[i + 1]
  <2>1. CASE i < n
    BY <1>0, <1>1, <1>2, <1>3, <2>1
  <2>2. CASE ~(i < n)
    <3>1. i - (n - 1) \in 1..Len(s) - n /\ n + (i - (n - 1)) = i + 1
      BY <1>0, <2>2
    <3>2. (a \o b)[i] = b[i - (n - 1)]
      BY <1>0, <1>1, <1>2, <1>3, <2>2
    <3>3. QED
      BY <1>2, <2>2, <3>1, <3>2
  <2>3. QED
    BY <2>1, <2>2
<1>5. Without(s, n) = a \o b
  BY DEF Without, a, b
<1>6. Len(a) + Len(b) = Len(s) - 1
  BY <1>0, <1>1, <1>2
<1>7. QED
  BY <1>3, <1>4, <1>5, <1>6

\* the line keeps sorted, whatever happens to it
LEMMA LineSorted ==
  ASSUME Under \in Seq(Nat), tw \in Nat, Sorted(Under, tw),
         [Line!LineNext]_<<Under, tw, tr, got>>
  PROVE  Sorted(Under', tw')
<1> DEFINE L == Under
<1>0. /\ Len(L) \in Nat /\ \A i \in 1..Len(L) : L[i] \in Nat /\ L[i] <= tw
      /\ \A i, j \in 1..Len(L) : i <= j => L[i] <= L[j]
  BY DEF Sorted
<1> HIDE DEF L
<1>1. CASE Line!Turn
  <2>1. Under' = L /\ tw' \in Nat /\ tw <= tw'
    BY <1>1 DEF Line!Turn, L
  <2>2. QED
    BY <1>0, <2>1 DEF Sorted
<1>2. CASE Line!Write
  <2>1. Under' = Append(L, tw) /\ tw' = tw /\ L \in Seq(Nat)
    BY <1>2 DEF Line!Write, L
  <2>2. /\ Len(Under') = Len(L) + 1 /\ Under'[Len(L) + 1] = tw
        /\ \A i \in 1..Len(L) : Under'[i] = L[i]
    BY <2>1, AppendProperties
  <2>3. \A i \in 1..Len(L) + 1 : i \in 1..Len(L) \/ i = Len(L) + 1
    BY <1>0
  <2>4. ASSUME NEW i \in 1..Len(Under') PROVE Under'[i] <= tw'
    BY <1>0, <2>1, <2>2, <2>3
  <2>5. ASSUME NEW i \in 1..Len(Under'), NEW j \in 1..Len(Under'), i <= j
        PROVE  Under'[i] <= Under'[j]
    <3>1. CASE j = Len(L) + 1
      BY <2>1, <2>2, <2>4, <3>1
    <3>2. CASE j # Len(L) + 1
      BY <1>0, <2>2, <2>3, <2>5, <3>2
    <3>3. QED
      BY <3>1, <3>2
  <2>6. QED
    BY <2>4, <2>5 DEF Sorted
<1>3. CASE Line!Read
  <2>1. Under' = Tail(L) /\ tw' = tw /\ L # <<>> /\ L \in Seq(Nat)
    BY <1>3 DEF Line!Read, L
  <2>2. Len(Under') = Len(L) - 1 /\ \A i \in 1..Len(L) - 1 : Under'[i] = L[i + 1]
    BY <2>1, HeadTailProperties
  <2>3. QED
    BY <1>0, <2>1, <2>2 DEF Sorted
<1>4. CASE Line!Lose
  <2>1. PICK n \in 1..Len(L) : Under' = Without(L, n)
    <3>1. \A n : Line!RemoveAt(L, n) = Without(L, n)
      BY DEF Line!RemoveAt, Without
    <3>2. DOMAIN L = 1..Len(L)
      BY DEF L
    <3>3. \E n \in DOMAIN L : Under' = Line!RemoveAt(L, n)
      BY <1>4 DEF Line!Lose, L
    <3>4. QED
      BY <3>1, <3>2, <3>3
  <2>2. tw' = tw
    BY <1>4 DEF Line!Lose
  <2>3. /\ Len(Under') = Len(L) - 1
        /\ \A i \in 1..Len(L) - 1 : Under'[i] = IF i < n THEN L[i] ELSE L[i + 1]
    BY <2>1, Removed DEF L
  <2>4. ASSUME NEW i \in 1..Len(Under') PROVE Under'[i] <= tw'
    <3>1. i \in 1..Len(L) - 1 /\ i \in 1..Len(L) /\ i + 1 \in 1..Len(L)
      BY <1>0, <2>3
    <3>2. QED
      BY <1>0, <2>2, <2>3, <3>1
  <2>5. ASSUME NEW i \in 1..Len(Under'), NEW j \in 1..Len(Under'), i <= j
        PROVE  Under'[i] <= Under'[j]
    BY <1>0, <2>3, <2>5
  <2>6. QED
    BY <2>4, <2>5 DEF Sorted
<1>5. CASE UNCHANGED <<Under, tw, tr, got>>
  BY <1>0, <1>5 DEF Sorted, L
<1>6. QED
  BY <1>1, <1>2, <1>3, <1>4, <1>5 DEF Line!LineNext

\* every step of the interface is one of the line, or none
LEMMA LineStep ==
  ASSUME IInv, LineInv, DNext, env.path # "udp"
  PROVE  Direct' /\ [Line!LineNext]_<<Under, tw, tr, got>>
<1> DEFINE r == q["reader"]
<1>1. /\ Carries(q) /\ Scalars /\ tw \in Nat /\ tr \in Nat /\ env' = env
      /\ q \in [Places -> Seq(Message)] /\ Sorted(Under, tw) /\ Direct
  <2>1. env' = env
    BY DEF DNext, hwapi_itf_snd, hwapi_itf_rcv, syncTslot, Reorder, Begin, End, Wake, itf_rcv
  <2>2. QED
    BY <2>1 DEF IInv, Scalars, Carries, LineInv
<1>2. q' \in [Places -> Seq(Message)]
  BY NextInv DEF IInv, Carries
<1>3. /\ Under = Turns(q["reader"] \o q["wire"] \o q["writer"])
      /\ Under' = Turns(q'["reader"] \o q'["wire"] \o q'["writer"])
  BY DEF Under, Turns
<1>4. CASE hwapi_itf_snd
  <2>1. q' = Put(q, Entry, Sent(tw)) /\ tw' = tw /\ tr' = tr /\ got' = got
    BY <1>4 DEF hwapi_itf_snd
  <2>2. CASE Fits(q, Entry)
    <3>1. q' = [q EXCEPT ![Entry] = Append(q[Entry], Sent(tw))] /\ Entry \in Places
      BY <2>1, <2>2 DEF Put, Entry, Places, Bridged
    <3>2. Sent(tw) \in Message /\ Sent(tw).turn = tw
      BY <1>1, SentIsTimed, Kinds DEF Sent
    <3>3. q'[Entry] = Append(q[Entry], Sent(tw)) /\ \A j \in Places \ {Entry} : q'[j] = q[j]
      BY <1>1, <3>1
    <3>4. Entry = "writer" \/ (Entry = "reader" /\ q["wire"] = <<>> /\ q["writer"] = <<>>)
      BY <1>1 DEF Entry, Direct
    <3>5. Under' = Append(Under, tw)
      <4>1. Turns(q'["reader"] \o q'["wire"] \o q'["writer"])
              = Append(Turns(q["reader"] \o q["wire"] \o q["writer"]), Sent(tw).turn)
        <5>1. q \in [Places -> Seq(Message)]
          BY <1>1
        <5>2. Entry \in Places /\ Sent(tw) \in Message
          BY <3>1, <3>2
        <5>3. QED
          BY <1>2, <3>3, <3>4, <5>1, <5>2, LineGrows
      <4>2. QED
        BY <1>3, <3>2, <4>1
    <3>6. Direct'
      <4>1. ASSUME Local PROVE q'["writer"] = <<>> /\ q'["wire"] = <<>>
        BY <1>1, <3>3, <4>1 DEF Direct, Entry, Places, Bridged
      <4>2. QED
        BY <1>1, <4>1 DEF Direct, Local
    <3>7. QED
      BY <2>1, <3>5, <3>6 DEF Line!LineNext, Line!Write
  <2>3. CASE ~Fits(q, Entry)
    <3>1. q' = q
      BY <2>1, <2>3 DEF Put
    <3>2. QED
      BY <1>1, <1>3, <2>1, <3>1 DEF Direct, Local
  <2>4. QED
    BY <2>2, <2>3
<1>5. CASE hwapi_itf_rcv
  <2>1. PICK n \in Receivable(r, tr) : q' = [q EXCEPT !["reader"] = Without(r, n)] /\ got' = r[n].turn
    BY <1>5 DEF hwapi_itf_rcv
  <2>2. tw' = tw /\ tr' = tr
    BY <1>5 DEF hwapi_itf_rcv
  <2>3. r \in Seq(Message) /\ r \in Seq(Timed) /\ Len(r) \in Nat
    BY <1>1 DEF Carries, Places, Contents
  <2> HIDE DEF r
  <2>4. n \in 1..Len(r) /\ 1 \in 1..Len(r)
    BY <2>1, <2>3 DEF Receivable
  <2>5. \A i \in 1..Len(r) : Under[i] = r[i].turn /\ i \in 1..Len(Under)
    <3>1. /\ q["wire"] \o q["writer"] \in Seq(Message) /\ Len(q["wire"] \o q["writer"]) \in Nat
          /\ q["wire"] \in Seq(Message) /\ q["writer"] \in Seq(Message)
      BY <1>1, ConcatProperties DEF Places, Bridged
    <3>2. /\ r \o q["wire"] \in Seq(Message) /\ Len(r \o q["wire"]) = Len(r) + Len(q["wire"])
          /\ Len(q["wire"]) \in Nat
          /\ \A i \in 1..Len(r) + Len(q["wire"]) :
               (r \o q["wire"])[i] = IF i <= Len(r) THEN r[i] ELSE q["wire"][i - Len(r)]
      BY <2>3, <3>1, ConcatProperties
    <3> DEFINE s == r \o q["wire"]
               all == s \o q["writer"]
    <3>3. /\ s \in Seq(Message) /\ Len(s) \in Nat /\ Len(r) <= Len(s) /\ Len(q["writer"]) \in Nat
          /\ \A i \in 1..Len(r) : s[i] = r[i]
      BY <2>3, <3>1, <3>2
    <3> HIDE DEF s
    <3>4. /\ all \in Seq(Message) /\ Len(all) = Len(s) + Len(q["writer"])
          /\ \A i \in 1..Len(s) + Len(q["writer"]) :
               all[i] = IF i <= Len(s) THEN s[i] ELSE q["writer"][i - Len(s)]
      BY <3>1, <3>3, ConcatProperties
    <3>5. Under = Turns(all)
      BY <1>3 DEF s, r
    <3> HIDE DEF all
    <3>6. Len(Under) = Len(all) /\ \A i \in 1..Len(all) : Under[i] = all[i].turn
      BY <3>4, <3>5, TurnsSeq
    <3>7. \A i \in 1..Len(r) : i \in 1..Len(s) + Len(q["writer"]) /\ i <= Len(s)
      BY <2>3, <3>3
    <3>8. QED
      BY <3>3, <3>4, <3>6, <3>7
  <2>6. \A i \in 1..Len(r) : r[i].turn \in Nat /\ r[i].dst = r[i].turn + Delay
    <3>1. \A i \in 1..Len(r) : r[i] \in Timed
      BY <2>3
    <3>2. QED
      BY <3>1 DEF Timed, Stamped, Message
  <2>7. n = 1 /\ r[1].dst <= tr
    <3>1. r[1].turn <= r[n].turn
      BY <1>1, <2>4, <2>5 DEF Sorted
    <3>2. /\ r[n].dst <= tr
          /\ r[1].dst >= r[n].dst /\ (r[1].dst = r[n].dst => 1 >= n)
      BY <2>1, <2>3, <2>4 DEF Receivable
    <3>3. Delay \in Nat
      BY DataItfAssumption
    <3>4. r[1].dst = r[n].dst
      BY <2>4, <2>6, <3>1, <3>2, <3>3
    <3>5. QED
      BY <2>4, <3>2, <3>4
  <2>8. Without(r, 1) = Tail(r) /\ r # <<>> /\ r[1] = Head(r)
    <3>1. r # <<>>
      BY <2>4
    <3>2. /\ Tail(r) \in Seq(Message) /\ Len(Tail(r)) = Len(r) - 1
          /\ \A i \in 1..Len(r) - 1 : Tail(r)[i] = r[i + 1]
      BY <2>3, <3>1, HeadTailProperties
    <3>3. /\ Without(r, 1) \in Seq(Message) /\ Len(Without(r, 1)) = Len(r) - 1
          /\ \A i \in 1..Len(r) - 1 : Without(r, 1)[i] = IF i < 1 THEN r[i] ELSE r[i + 1]
      BY <2>3, <2>4, Removed
    <3>4. \A i \in 1..Len(r) - 1 : Without(r, 1)[i] = Tail(r)[i]
      BY <3>2, <3>3
    <3>5. Without(r, 1) = Tail(r)
      BY <3>2, <3>3, <3>4, SeqEqual
    <3>6. QED
      BY <2>3, <3>1, <3>5
  <2>9. q'["reader"] = Tail(q["reader"]) /\ \A j \in Places \ {"reader"} : q'[j] = q[j]
    BY <1>1, <2>1, <2>7, <2>8 DEF Places, r
  <2>10. Under # <<>> /\ Under' = Tail(Under) /\ Head(Under) = Head(r).turn
    BY <1>1, <1>2, <1>3, <2>8, <2>9, LineShrinks DEF Places, r
  <2>11. Head(Under) + Delay <= tr /\ got' = Head(Under)
    BY <2>1, <2>4, <2>6, <2>7, <2>8, <2>10
  <2>12. Direct'
    BY <1>1, <2>9 DEF Direct, Local, Places, Bridged
  <2>13. QED
    BY <2>2, <2>10, <2>11, <2>12 DEF Line!LineNext, Line!Read
<1>6. ASSUME NEW k \in Bridged, itf_rcv(k)
      PROVE  Direct' /\ [Line!LineNext]_<<Under, tw, tr, got>>
  <2>1. tw' = tw /\ tr' = tr /\ got' = got
    BY <1>6 DEF itf_rcv
  <2>2. CASE q[k] = <<>>
    <3>1. q' = q
      BY <1>6, <2>2 DEF itf_rcv
    <3>2. QED
      BY <1>1, <1>3, <2>1, <3>1 DEF Direct, Local
  <2>3. CASE q[k] # <<>>
    <3> DEFINE Q == [q EXCEPT ![k] = Tail(@)]
               p == Next(k)
               m == Forwarded(k, Head(q[k]))
    <3>1. q' = Put(Q, p, m)
      BY <1>6, <2>3 DEF itf_rcv
    <3>2. k \in Places /\ p \in Places /\ p # k /\ q[k] \in Seq(Message) /\ q[k] \in Seq(Stamped)
      BY <1>1 DEF Places, Bridged, Next, Carries, Contents
    <3>3. Head(q[k]) \in Stamped
      BY <2>3, <3>2
    <3>4. m \in Message /\ m.turn = Head(q[k]).turn
      BY <3>3, ForwardedContents, Kinds DEF Forwarded, Stamped, Message
    <3>5. ~Local
      BY <1>1, <2>3 DEF Direct, Bridged
    <3>6. Direct'
      BY <1>1, <3>5 DEF Direct, Local
    <3>7. Q[k] = Tail(q[k]) /\ \A j \in Places \ {k} : Q[j] = q[j]
      BY <1>1, <3>2
    <3>8. DOMAIN Q = Places
      BY <1>1
    <3> HIDE DEF p, m, Q
    <3>9. CASE Fits(Q, p)
      <4>1. q' = [Q EXCEPT ![p] = Append(Q[p], m)]
        BY <3>1, <3>9 DEF Put
      <4>2. /\ q'[k] = Tail(q[k]) /\ q'[p] = Append(q[p], m)
            /\ \A j \in Places \ {k, p} : q'[j] = q[j]
        BY <3>2, <3>7, <3>8, <4>1
      <4>3. Under' = Under
        BY <1>1, <1>2, <1>3, <2>3, <3>2, <3>4, <4>2, LineMoves DEF p
      <4>4. QED
        BY <2>1, <3>6, <4>3
    <3>10. CASE ~Fits(Q, p)
      <4>1. q' = Q
        BY <3>1, <3>10 DEF Put
      <4>2. \E n \in DOMAIN Under : Under' = Line!RemoveAt(Under, n)
        BY <1>1, <1>2, <1>3, <2>3, <3>2, <3>7, <4>1, LineShrinks
      <4>3. QED
        BY <2>1, <3>6, <4>2 DEF Line!LineNext, Line!Lose
    <3>11. QED
      BY <3>9, <3>10
  <2>4. QED
    BY <2>2, <2>3
<1>7. ASSUME NEW o \in Objects, Begin(o)
      PROVE  Direct' /\ [Line!LineNext]_<<Under, tw, tr, got>>
  <2>1. q' = q /\ got' = got /\ ((tw' = tw + 1 /\ tr' = tr) \/ (tr' = tr + 1 /\ tw' = tw))
    BY <1>7 DEF Begin
  <2>2. Under' = Under /\ Direct'
    BY <1>1, <1>3, <2>1 DEF Direct, Local
  <2>3. QED
    BY <2>1, <2>2 DEF Line!LineNext, Line!Turn
<1>8. ASSUME syncTslot \/ (\E o \in Objects : End(o)) \/ (\E k \in Bridged : Wake(k))
      PROVE  Direct' /\ [Line!LineNext]_<<Under, tw, tr, got>>
  <2>1. q' = q /\ tw' = tw /\ tr' = tr /\ got' = got
    BY <1>8 DEF syncTslot, End, Wake
  <2>2. QED
    BY <1>1, <1>3, <2>1 DEF Direct, Local
<1>9. ~Reorder
  BY DEF Reorder
<1>10. QED
  BY <1>4, <1>5, <1>6, <1>7, <1>8, <1>9 DEF DNext

\* what is under way is a line of turns
LEMMA UnderType == IInv => Under \in Seq(Nat)
<1> SUFFICES ASSUME IInv PROVE Under \in Seq(Nat)
  OBVIOUS
<1>1. q["reader"] \in Seq(Message) /\ q["wire"] \in Seq(Message) /\ q["writer"] \in Seq(Message)
  BY DEF IInv, Carries, Places, Bridged
<1>2. q["reader"] \o q["wire"] \in Seq(Message)
  BY <1>1, ConcatProperties
<1>3. (q["reader"] \o q["wire"]) \o q["writer"] \in Seq(Message)
  BY <1>1, <1>2, ConcatProperties
<1>4. QED
  BY <1>3, TurnsSeq DEF Under, Turns

\* at the start nothing is under way
LEMMA LineInit ==
  ASSUME DInit
  PROVE  Under = <<>> /\ Direct
<1>1. q["reader"] = <<>> /\ q["wire"] = <<>> /\ q["writer"] = <<>>
  BY DEF DInit, Bridged
<1>2. (<<>> \o <<>>) \o <<>> = <<>>
  BY Lines
<1>3. Under = Turns(<<>>)
  BY <1>1, <1>2 DEF Under, Turns
<1>4. <<>> \in Seq(Message)
  OBVIOUS
<1>5. QED
  BY <1>1, <1>3, <1>4, TurnsSeq DEF Direct

\* what is under way is always sorted
LEMMA LineInductive == DSpec => [](IInv /\ LineInv)
<1>1. DInit => IInv /\ LineInv
  <2> SUFFICES ASSUME DInit PROVE LineInv
    BY InitInv
  <2>1. Under = <<>> /\ Direct
    BY LineInit
  <2>2. Len(Under) = 0
    BY <2>1
  <2>3. QED
    BY <2>1, <2>2 DEF LineInv, Sorted
<1>2. IInv /\ LineInv /\ [DNext]_dvars => (IInv /\ LineInv)'
  <2> SUFFICES ASSUME IInv, LineInv, [DNext]_dvars PROVE IInv' /\ LineInv'
    OBVIOUS
  <2>1. IInv'
    BY NextInv
  <2>2. CASE DNext
    <3>1. env' = env
      BY <2>2 DEF DNext, hwapi_itf_snd, hwapi_itf_rcv, syncTslot, Reorder, Begin, End, Wake, itf_rcv
    <3> SUFFICES ASSUME env.path # "udp" PROVE Direct' /\ Sorted(Under, tw)'
      BY <2>1, <3>1 DEF LineInv
    <3>2. Direct' /\ [Line!LineNext]_<<Under, tw, tr, got>>
      BY <2>2, LineStep
    <3>3. Sorted(Under', tw')
      BY <3>2, UnderType, LineSorted DEF LineInv, IInv, Scalars
    <3>4. QED
      BY <3>2, <3>3 DEF Sorted
  <2>3. CASE UNCHANGED dvars
    <3>1. UNCHANGED <<env, q, tw>>
      BY <2>3 DEF dvars
    <3>2. Under' = Under
      BY <3>1 DEF Under
    <3>3. QED
      BY <2>1, <3>1, <3>2 DEF LineInv, Direct, Local, Sorted
  <2>4. QED
    BY <2>1, <2>2, <2>3
<1>3. QED
  BY <1>1, <1>2, PTL DEF DSpec
-----------------------------------------------------------------------------
\* Wherever the objects run, what they see is a delay line (but for the order of datagrams): the
\* abstract specification is implemented, whatever the BRIDGEs lose, however they interleave, for
\* every delay, rate and room of the queues.
THEOREM Implements == DSpec => ImplementsLine
<1>1. DInit => Line!LineInit
  BY LineInit DEF DInit, Line!LineInit
<1>2. IInv /\ LineInv /\ [DNext]_dvars =>
        [env.path = "udp" \/ Line!LineNext]_<<Under, tw, tr, got>>
  <2> SUFFICES ASSUME IInv, LineInv, [DNext]_dvars, env.path # "udp"
               PROVE  [Line!LineNext]_<<Under, tw, tr, got>>
    OBVIOUS
  <2>1. CASE DNext
    BY <2>1, LineStep
  <2>2. CASE UNCHANGED dvars
    BY <2>2 DEF dvars, Under
  <2>3. QED
    BY <2>1, <2>2
<1>3. QED
  BY <1>1, <1>2, LineInductive, PTL DEF DSpec, ImplementsLine
-----------------------------------------------------------------------------
(***************************************************************************)
(* The calm environment: what is under way never outgrows the queues. The  *)
(* argument counts the packets of the turns after any x: there are at most *)
(* Rate of each turn. Nothing older than Delay turns is left when a slot   *)
(* begins, so at most Delay + 1 turns are ever under way together.         *)
(***************************************************************************)
Newer(s, x) == Cardinality({n \in 1..Len(s) : s[n].turn > x})
Total(Q, x) == Newer(Q["reader"], x) + Newer(Q["wire"], x) + Newer(Q["writer"], x)

Allowed(x) == IF x < tw THEN Rate * (tw - x - 1) + wrote ELSE 0
Counted    == wrote <= Rate /\ \A x \in Int : Total(q, x) <= Allowed(x)

\* the turn all objects are in, or will be in next, in this slot
Slot  == tr + IF "reader" \in due THEN 1 ELSE 0
Clock == Slot = (tw + IF "writer" \in due THEN 1 ELSE 0) /\ in \cap due = {}

\* what waits for a BRIDGE was written in this slot, and the rest is not overdue
Fresh(Q) ==
  \A k \in Places : \A n \in 1..Len(Q[k]) :
    /\ Q[k][n].turn + Delay >= Slot
    /\ k # "reader" => Q[k][n].turn >= Slot
    /\ "reader" \notin due \cup in => Q[k][n].turn + Delay > tr

CalmInv == env.calm => Clock /\ Fresh(q) /\ (EnoughRoom => ~lost)

SyncInv == Counted /\ CalmInv

\* the first k positions are k
LEMMA Interval == \A k \in Nat : IsFiniteSet(1..k) /\ Cardinality(1..k) = k
<1> SUFFICES ASSUME NEW k \in Nat PROVE IsFiniteSet(1..k) /\ Cardinality(1..k) = k
  OBVIOUS
<1>1. QED
  BY FS_Interval

\* the packets of later turns can be counted
LEMMA NewerFinite ==
  ASSUME NEW s \in Seq(Message), NEW x \in Int
  PROVE  /\ IsFiniteSet({n \in 1..Len(s) : s[n].turn > x}) /\ Newer(s, x) \in Nat
         /\ (\A n \in 1..Len(s) : s[n].turn > x) => Newer(s, x) = Len(s)
<1>1. Len(s) \in Nat
  OBVIOUS
<1>2. IsFiniteSet(1..Len(s)) /\ Cardinality(1..Len(s)) = Len(s)
  BY <1>1, Interval
<1>3. {n \in 1..Len(s) : s[n].turn > x} \subseteq 1..Len(s)
  OBVIOUS
<1>4. IsFiniteSet({n \in 1..Len(s) : s[n].turn > x})
  BY <1>2, <1>3, FS_Subset
<1>5. Newer(s, x) \in Nat
  BY <1>4, FS_CardinalityType DEF Newer
<1>6. ASSUME \A n \in 1..Len(s) : s[n].turn > x PROVE Newer(s, x) = Len(s)
  <2>1. {n \in 1..Len(s) : s[n].turn > x} = 1..Len(s)
    BY <1>6
  <2>2. QED
    BY <1>2, <2>1 DEF Newer
<1>7. QED
  BY <1>4, <1>5, <1>6

\* one more in a queue counts if its turn is later
LEMMA NewerAppend ==
  ASSUME NEW s \in Seq(Message), NEW m \in Message, NEW x \in Int
  PROVE  Newer(Append(s, m), x) = Newer(s, x) + IF m.turn > x THEN 1 ELSE 0
<1> DEFINE A == {n \in 1..Len(s) : s[n].turn > x}
           B == {n \in 1..Len(Append(s, m)) : Append(s, m)[n].turn > x}
<1>1. /\ Len(s) \in Nat /\ Len(Append(s, m)) = Len(s) + 1 /\ Append(s, m)[Len(s) + 1] = m
      /\ \A n \in 1..Len(s) : Append(s, m)[n] = s[n]
  BY AppendProperties
<1>2. /\ IsFiniteSet(A) /\ Newer(s, x) \in Nat
      /\ Newer(s, x) = Cardinality(A) /\ Newer(Append(s, m), x) = Cardinality(B)
  BY NewerFinite DEF Newer
<1>3. Len(s) + 1 \notin A /\ \A n : n \in 1..Len(s) + 1 <=> n \in 1..Len(s) \/ n = Len(s) + 1
  BY <1>1
<1>4. CASE m.turn > x
  <2>1. B = A \cup {Len(s) + 1}
    BY <1>1, <1>3, <1>4
  <2> HIDE DEF A, B
  <2>2. Cardinality(A \cup {Len(s) + 1}) = Cardinality(A) + 1
    BY <1>2, <1>3, FS_AddElement
  <2>3. QED
    BY <1>2, <1>4, <2>1, <2>2
<1>5. CASE ~(m.turn > x)
  <2>1. B = A
    BY <1>1, <1>3, <1>5
  <2> HIDE DEF A, B
  <2>2. QED
    BY <1>2, <1>5, <2>1
<1>6. QED
  BY <1>4, <1>5

\* a queue whose packets are among those of another one, all or all but one
LEMMA NewerOfFewer ==
  ASSUME NEW s \in Seq(Message), NEW t \in Seq(Message), NEW x \in Int, NEW f,
         f \in [1..Len(s) -> 1..Len(t)],
         \A i, j \in 1..Len(s) : f[i] = f[j] => i = j,
         \A i \in 1..Len(s) : s[i] = t[f[i]]
  PROVE  /\ Newer(s, x) <= Newer(t, x)
         /\ \A j \in 1..Len(t) : t[j].turn > x /\ (\A i \in 1..Len(s) : f[i] # j)
                                   => Newer(s, x) <= Newer(t, x) - 1
<1> DEFINE A == {n \in 1..Len(s) : s[n].turn > x}
           B == {n \in 1..Len(t) : t[n].turn > x}
           g == [n \in A |-> f[n]]
<1>1. /\ IsFiniteSet(B) /\ IsFiniteSet(A) /\ Newer(s, x) \in Nat /\ Newer(t, x) \in Nat
      /\ Newer(s, x) = Cardinality(A) /\ Newer(t, x) = Cardinality(B)
  BY NewerFinite DEF Newer
<1>2. g \in [A -> B] /\ \A i, j \in A : g[i] = g[j] => i = j
  OBVIOUS
<1>3. ASSUME NEW C, IsFiniteSet(C), g \in [A -> C] PROVE Cardinality(A) <= Cardinality(C)
  <2> HIDE DEF A, B, g
  <2>1. g \in Injection(A, C)
    BY <1>2, <1>3 DEF Injection, IsInjective
  <2>2. QED
    BY <1>3, <2>1, FS_Injection
<1>4. ASSUME NEW j \in 1..Len(t), t[j].turn > x, \A i \in 1..Len(s) : f[i] # j
      PROVE  Newer(s, x) <= Newer(t, x) - 1
  <2>1. j \in B /\ g \in [A -> B \ {j}]
    BY <1>2, <1>4
  <2> HIDE DEF A, B, g
  <2>2. IsFiniteSet(B \ {j}) /\ Cardinality(B \ {j}) = Cardinality(B) - 1
    BY <1>1, <2>1, FS_RemoveElement
  <2>3. QED
    BY <1>1, <1>3, <2>1, <2>2
<1>5. Newer(s, x) <= Newer(t, x)
  <2> HIDE DEF A, B, g
  <2>1. QED
    BY <1>1, <1>2, <1>3
<1>6. QED
  BY <1>4, <1>5

\* one less in a queue counts if its turn was later
LEMMA NewerTail ==
  ASSUME NEW s \in Seq(Message), s # <<>>, NEW x \in Int
  PROVE  Newer(Tail(s), x) <= Newer(s, x) - IF Head(s).turn > x THEN 1 ELSE 0
<1> DEFINE f == [i \in 1..Len(Tail(s)) |-> i + 1]
<1>1. /\ Tail(s) \in Seq(Message) /\ Len(Tail(s)) = Len(s) - 1 /\ Len(s) \in Nat \ {0}
      /\ \A i \in 1..Len(s) - 1 : Tail(s)[i] = s[i + 1]
  BY EmptySeq, HeadTailProperties
<1>2. Head(s) = s[1] /\ 1 \in 1..Len(s)
  BY <1>1
<1>3. /\ f \in [1..Len(Tail(s)) -> 1..Len(s)]
      /\ \A i, j \in 1..Len(Tail(s)) : f[i] = f[j] => i = j
      /\ \A i \in 1..Len(Tail(s)) : Tail(s)[i] = s[f[i]] /\ f[i] # 1
  BY <1>1
<1> HIDE DEF f
<1>4. ASSUME NEW S, S \in Seq(Message), S = Tail(s)
      PROVE  /\ Newer(S, x) <= Newer(s, x)
             /\ s[1].turn > x => Newer(S, x) <= Newer(s, x) - 1
  <2>1. /\ f \in [1..Len(S) -> 1..Len(s)]
        /\ \A i, j \in 1..Len(S) : f[i] = f[j] => i = j
        /\ \A i \in 1..Len(S) : S[i] = s[f[i]]
    BY <1>3, <1>4
  <2>2. \A i \in 1..Len(S) : f[i] # 1
    BY <1>3, <1>4
  <2>3. S \in Seq(Message) /\ 1 \in 1..Len(s)
    BY <1>2, <1>4
  <2>4. Newer(S, x) <= Newer(s, x)
    BY <2>1, <2>3, NewerOfFewer
  <2>5. ASSUME s[1].turn > x PROVE Newer(S, x) <= Newer(s, x) - 1
    BY <2>1, <2>2, <2>3, <2>5, NewerOfFewer
  <2>6. QED
    BY <2>4, <2>5
<1>5. Newer(s, x) \in Nat /\ Newer(Tail(s), x) \in Nat
  BY <1>1, NewerFinite
<1>6. /\ Newer(Tail(s), x) <= Newer(s, x)
      /\ s[1].turn > x => Newer(Tail(s), x) <= Newer(s, x) - 1
  <2>1. Tail(s) \in Seq(Message)
    BY <1>1
  <2>2. QED
    BY <2>1, <1>4
<1>7. CASE s[1].turn > x
  BY <1>2, <1>5, <1>6, <1>7
<1>8. CASE ~(s[1].turn > x)
  BY <1>2, <1>5, <1>6, <1>8
<1>9. QED
  BY <1>7, <1>8

\* a message read from anywhere in a queue adds none
LEMMA NewerWithout ==
  ASSUME NEW s \in Seq(Message), NEW n \in 1..Len(s), NEW x \in Int
  PROVE  /\ Without(s, n) \in Seq(Message) /\ Newer(Without(s, n), x) <= Newer(s, x)
         /\ \A i \in 1..Len(Without(s, n)) : \E j \in 1..Len(s) : Without(s, n)[i] = s[j]
<1> DEFINE w == Without(s, n)
           f == [i \in 1..Len(w) |-> IF i < n THEN i ELSE i + 1]
<1>1. /\ w \in Seq(Message) /\ Len(w) = Len(s) - 1 /\ Len(s) \in Nat
      /\ \A i \in 1..Len(s) - 1 : w[i] = IF i < n THEN s[i] ELSE s[i + 1]
  BY Removed
<1> HIDE DEF w
<1>2. /\ f \in [1..Len(w) -> 1..Len(s)]
      /\ \A i, j \in 1..Len(w) : f[i] = f[j] => i = j
      /\ \A i \in 1..Len(w) : w[i] = s[f[i]]
  BY <1>1
<1> HIDE DEF f
<1>3. Newer(w, x) <= Newer(s, x)
  BY <1>1, <1>2, NewerOfFewer
<1>4. \A i \in 1..Len(w) : \E j \in 1..Len(s) : w[i] = s[j]
  BY <1>2
<1>5. QED
  BY <1>1, <1>3, <1>4 DEF w

Swapped(s, n) == [s EXCEPT ![n] = s[n + 1], ![n + 1] = s[n]]
\* datagrams that change places add none
LEMMA NewerSwapped ==
  ASSUME NEW s \in Seq(Message), NEW n \in 1..Len(s) - 1
  PROVE  LET w == Swapped(s, n) IN
         /\ w \in Seq(Message) /\ \A x \in Int : Newer(w, x) <= Newer(s, x)
         /\ \A i \in 1..Len(w) : \E j \in 1..Len(s) : w[i] = s[j]
<1> DEFINE w == Swapped(s, n)
<1> DEFINE f == [i \in 1..Len(w) |-> IF i = n THEN n + 1 ELSE IF i = n + 1 THEN n ELSE i]
<1>1. n \in 1..Len(s) /\ n + 1 \in 1..Len(s) /\ Len(s) \in Nat
  OBVIOUS
<1>2. \A i \in 1..Len(s) : s[i] \in Message
  OBVIOUS
<1>3. w \in Seq(Message) /\ Len(w) = Len(s)
  BY <1>1, <1>2 DEF Swapped
<1>4. \A i \in 1..Len(s) : w[i] = IF i = n THEN s[n + 1] ELSE IF i = n + 1 THEN s[n] ELSE s[i]
  BY <1>1 DEF Swapped
<1> HIDE DEF w
<1>5. /\ f \in [1..Len(w) -> 1..Len(s)]
      /\ \A i, j \in 1..Len(w) : f[i] = f[j] => i = j
      /\ \A i \in 1..Len(w) : w[i] = s[f[i]]
  BY <1>1, <1>3, <1>4
<1> HIDE DEF f
<1>6. ASSUME NEW x \in Int PROVE Newer(w, x) <= Newer(s, x)
  BY <1>3, <1>5, NewerOfFewer
<1>7. QED
  BY <1>3, <1>5, <1>6 DEF w

\* the packets under way can be counted
LEMMA TotalNat ==
  ASSUME NEW Q \in [Places -> Seq(Message)], NEW x \in Int
  PROVE  /\ Total(Q, x) \in Nat /\ \A k \in Places : Newer(Q[k], x) \in Nat
<1>1. \A k \in Places : Newer(Q[k], x) \in Nat
  BY NewerFinite
<1>2. QED
  BY <1>1 DEF Total, Places, Bridged

\* one queue changes
LEMMA TotalChange ==
  ASSUME NEW Q \in [Places -> Seq(Message)], NEW P \in [Places -> Seq(Message)], NEW x \in Int,
         NEW k \in Places, NEW d \in Int, Newer(P[k], x) <= Newer(Q[k], x) + d,
         \A j \in Places \ {k} : P[j] = Q[j]
  PROVE  Total(P, x) <= Total(Q, x) + d
<1>1. \A j \in Places : Newer(Q[j], x) \in Nat /\ Newer(P[j], x) \in Nat
  BY TotalNat
<1>2. \A j \in Places \ {k} : Newer(P[j], x) = Newer(Q[j], x)
  OBVIOUS
<1>3. /\ "reader" \in Places /\ "wire" \in Places /\ "writer" \in Places
      /\ "reader" # "wire" /\ "reader" # "writer" /\ "wire" # "writer"
      /\ k = "reader" \/ k = "wire" \/ k = "writer"
  BY DEF Places, Bridged
<1>4. CASE k = "reader"
  BY <1>1, <1>2, <1>3, <1>4 DEF Total
<1>5. CASE k = "wire"
  BY <1>1, <1>2, <1>3, <1>5 DEF Total
<1>6. CASE k = "writer"
  BY <1>1, <1>2, <1>3, <1>6 DEF Total
<1>7. QED
  BY <1>3, <1>4, <1>5, <1>6

\* a message that is put in a queue, and one that is taken from it first
LEMMA TotalPut ==
  ASSUME NEW Q \in [Places -> Seq(Message)], NEW k \in Places, NEW m \in Message, NEW x \in Int
  PROVE  /\ Put(Q, k, m) \in [Places -> Seq(Message)]
         /\ Total(Put(Q, k, m), x) <= Total(Q, x) + IF m.turn > x THEN 1 ELSE 0
<1> DEFINE P == Put(Q, k, m)
           d == IF m.turn > x THEN 1 ELSE 0
<1>1. Q[k] \in Seq(Message) /\ Append(Q[k], m) \in Seq(Message) /\ m.turn \in Nat /\ d \in Int
  BY DEF Message
<1>2. Total(Q, x) \in Nat /\ Newer(Q[k], x) \in Nat
  BY TotalNat
<1>3. CASE Fits(Q, k)
  <2>1. P = [Q EXCEPT ![k] = Append(Q[k], m)]
    BY <1>3 DEF Put
  <2> HIDE DEF P
  <2>2. /\ P \in [Places -> Seq(Message)] /\ P[k] = Append(Q[k], m)
        /\ \A j \in Places \ {k} : P[j] = Q[j]
    BY <1>1, <2>1
  <2>3. Newer(P[k], x) = Newer(Q[k], x) + d
    BY <1>1, <2>2, NewerAppend
  <2> HIDE DEF d
  <2>4. Newer(P[k], x) <= Newer(Q[k], x) + d
    BY <1>1, <1>2, <2>3
  <2>5. Total(P, x) <= Total(Q, x) + d
    BY <1>1, <2>2, <2>4, TotalChange
  <2>6. QED
    BY <2>2, <2>5 DEF P, d
<1>4. CASE ~Fits(Q, k)
  <2>1. P = Q
    BY <1>4 DEF Put
  <2>2. QED
    BY <1>1, <1>2, <2>1
<1>5. QED
  BY <1>3, <1>4

Popped(Q, k) == [Q EXCEPT ![k] = Tail(@)]

\* a packet that leaves a queue is no longer counted
LEMMA TotalTail ==
  ASSUME NEW Q \in [Places -> Seq(Message)], NEW k \in Places, Q[k] # <<>>, NEW x \in Int
  PROVE  LET P == Popped(Q, k) IN
         /\ P \in [Places -> Seq(Message)] /\ Head(Q[k]) \in Message
         /\ Total(P, x) <= Total(Q, x) - IF Head(Q[k]).turn > x THEN 1 ELSE 0
<1> DEFINE P == Popped(Q, k)
           d == IF Head(Q[k]).turn > x THEN 0 - 1 ELSE 0
<1>0. Q[k] \in Seq(Message) /\ Tail(Q[k]) \in Seq(Message) /\ Head(Q[k]) \in Message
  OBVIOUS
<1>1. /\ Q[k] \in Seq(Message) /\ Tail(Q[k]) \in Seq(Message) /\ Head(Q[k]) \in Message
      /\ Head(Q[k]).turn \in Nat
  BY <1>0 DEF Message
<1>2. /\ P \in [Places -> Seq(Message)] /\ P[k] = Tail(Q[k])
      /\ \A j \in Places \ {k} : P[j] = Q[j]
  BY <1>1 DEF Popped
<1>3. Total(Q, x) \in Nat /\ Newer(Q[k], x) \in Nat
  BY TotalNat
<1> HIDE DEF P
<1>4. Newer(P[k], x) <= Newer(Q[k], x) - IF Head(Q[k]).turn > x THEN 1 ELSE 0
  BY <1>1, <1>2, NewerTail
<1>5. Newer(P[k], x) <= Newer(Q[k], x) + d /\ d \in Int
  <2>1. Newer(P[k], x) \in Nat
    BY <1>2, TotalNat
  <2>2. QED
    BY <1>1, <1>3, <1>4, <2>1
<1>6. Total(P, x) <= Total(Q, x) + d
  <2> HIDE DEF d
  <2>1. QED
    BY <1>2, <1>5, TotalChange
<1>7. Total(P, x) \in Nat
  BY <1>2, TotalNat
<1>8. Total(P, x) <= Total(Q, x) - IF Head(Q[k]).turn > x THEN 1 ELSE 0
  BY <1>1, <1>3, <1>6, <1>7
<1>9. QED
  BY <1>1, <1>2, <1>8 DEF P

\* one packet more in the writer's turn; a turn more
LEMMA CountedStep ==
  ASSUME Scalars, Counted, NEW Q, wrote < Rate, wrote' = wrote + 1, tw' = tw,
         q' = Q, \A x \in Int : Total(Q, x) \in Nat /\ Total(q, x) \in Nat
                                /\ Total(Q, x) <= Total(q, x) + IF tw > x THEN 1 ELSE 0
  PROVE  Counted'
<1>1. Rate \in Nat /\ tw \in Nat /\ wrote \in Nat
  BY DataItfAssumption DEF Scalars
<1>2. ASSUME NEW x \in Int PROVE Total(q', x) <= Allowed(x)'
  <2> DEFINE c == Rate * (tw - x - 1)
  <2>1. c \in Int /\ Allowed(x) = (IF x < tw THEN c + wrote ELSE 0)
        /\ Allowed(x)' = (IF x < tw THEN c + (wrote + 1) ELSE 0)
    BY <1>1 DEF Allowed
  <2> HIDE DEF c
  <2>2. Total(q, x) <= Allowed(x)
    BY DEF Counted
  <2>3. QED
    BY <1>1, <2>1, <2>2
<1>3. QED
  BY <1>1, <1>2 DEF Counted

\* a new turn of the writer may write what the rate allows once more
LEMMA CountedTurn ==
  ASSUME Scalars, Counted, wrote' = 0, tw' = tw + 1, q' = q, \A x \in Int : Total(q, x) \in Nat
  PROVE  Counted'
<1>1. Rate \in Nat /\ tw \in Nat /\ wrote \in Nat /\ wrote <= Rate
  BY DataItfAssumption DEF Scalars, Counted
<1>2. ASSUME NEW x \in Int PROVE Total(q', x) <= Allowed(x)'
  <2> DEFINE c == Rate * (tw - x - 1)
  <2>1. c \in Int /\ Rate * (tw + 1 - x - 1) = c + Rate
    BY <1>1
  <2>2. /\ Allowed(x) = (IF x < tw THEN c + wrote ELSE 0)
        /\ Allowed(x)' = (IF x < tw + 1 THEN c + Rate + 0 ELSE 0)
    BY <1>1, <2>1 DEF Allowed
  <2>3. x = tw => c + Rate = 0
    BY <1>1, <2>1
  <2> HIDE DEF c
  <2>4. Total(q, x) <= Allowed(x)
    BY DEF Counted
  <2>5. QED
    BY <1>1, <2>1, <2>2, <2>3, <2>4
<1>3. QED
  BY <1>1, <1>2 DEF Counted

\* a step that adds nothing
LEMMA CountedLess ==
  ASSUME Scalars, Counted, UNCHANGED <<wrote, tw>>,
         \A x \in Int : Total(q', x) \in Nat /\ Total(q, x) \in Nat /\ Total(q', x) <= Total(q, x)
  PROVE  Counted'
<1>1. ASSUME NEW x \in Int PROVE Total(q', x) <= Allowed(x)'
  <2>1. Allowed(x)' = Allowed(x)
    BY DEF Allowed
  <2>2. Total(q, x) <= Allowed(x) /\ Allowed(x) \in Int
    BY DataItfAssumption DEF Counted, Allowed, Scalars
  <2>3. QED
    BY <2>1, <2>2
<1>2. QED
  BY <1>1 DEF Counted

\* the turn of a packet under way is a number
LEMMA TurnNat ==
  ASSUME NEW Q \in [Places -> Seq(Message)], NEW k \in Places
  PROVE  /\ Q[k] \in Seq(Message) /\ Len(Q[k]) \in Nat
         /\ \A n \in 1..Len(Q[k]) : Q[k][n] \in Message /\ Q[k][n].turn \in Nat
<1>1. Q[k] \in Seq(Message) /\ Len(Q[k]) \in Nat
  OBVIOUS
<1>2. \A n \in 1..Len(Q[k]) : Q[k][n] \in Message
  BY <1>1
<1>3. \A m \in Message : m.turn \in Nat
  BY DEF Message
<1>4. QED
  BY <1>1, <1>2, <1>3

\* the packets of at most Delay + 1 turns are under way
LEMMA UnderWay ==
  ASSUME Scalars, q \in [Places -> Seq(Message)], Counted, Clock, Fresh(q)
  PROVE  Len(q["reader"]) + Len(q["wire"]) + Len(q["writer"]) <= Rate * Delay + wrote
<1> DEFINE x == Slot - Delay - 1
<1>1. /\ tw \in Nat /\ tr \in Nat /\ wrote \in Nat /\ Rate \in Nat /\ Delay \in Nat /\ Delay > 0
      /\ Slot \in Nat /\ (tw = Slot \/ tw = Slot - 1)
  BY DataItfAssumption DEF Scalars, Clock, Slot
<1> HIDE DEF Slot
<1>2. x \in Int /\ x < tw
  BY <1>1
<1>3. ASSUME NEW k \in Places PROVE Newer(q[k], x) = Len(q[k])
  <2>1. q[k] \in Seq(Message)
    OBVIOUS
  <2>2. \A n \in 1..Len(q[k]) : q[k][n].turn \in Nat
    BY TurnNat
  <2>3. \A n \in 1..Len(q[k]) : q[k][n].turn > x
    BY <1>1, <2>2 DEF Fresh
  <2> HIDE DEF x
  <2>4. QED
    BY <1>2, <2>1, <2>3, NewerFinite
<1>4. Total(q, x) = Len(q["reader"]) + Len(q["wire"]) + Len(q["writer"])
  <2>1. "reader" \in Places /\ "wire" \in Places /\ "writer" \in Places
    BY DEF Places, Bridged
  <2> HIDE DEF x
  <2>2. QED
    BY <1>3, <2>1 DEF Total
<1>5. Total(q, x) <= Rate * (tw - x - 1) + wrote
  BY <1>2 DEF Counted, Allowed
<1>6. Rate * (tw - x - 1) <= Rate * Delay
  <2>1. CASE tw = Slot
    <3>1. tw - x - 1 = Delay
      BY <1>1, <2>1
    <3>2. QED
      BY <1>1, <3>1
  <2>2. CASE tw = Slot - 1
    <3>1. tw - x - 1 = Delay - 1
      BY <1>1, <2>2
    <3>2. Rate * (Delay - 1) = Rate * Delay - Rate
      BY <1>1
    <3>3. QED
      BY <1>1, <3>1, <3>2
  <2>3. QED
    BY <1>1, <2>1, <2>2
<1>7. Total(q, x) \in Nat
  BY <1>2, TotalNat
<1> DEFINE c == Rate * (tw - x - 1)
           d == Rate * Delay
           l == Len(q["reader"]) + Len(q["wire"]) + Len(q["writer"])
<1>8. c \in Int /\ d \in Int
  BY <1>1, <1>2
<1>9. Total(q, x) = l /\ l <= c + wrote /\ c <= d
  BY <1>4, <1>5, <1>6
<1> HIDE DEF c, d, l
<1>10. l <= d + wrote
  BY <1>1, <1>7, <1>8, <1>9
<1>11. QED
  BY <1>10 DEF l, d

\* whatever is under way was before, or was written in this slot
LEMMA FreshStep ==
  ASSUME Scalars, q \in [Places -> Seq(Message)], q' \in [Places -> Seq(Message)],
         Fresh(q), UNCHANGED <<tr, due, in>>,
         \A k \in Places : \A i \in 1..Len(q'[k]) :
           \/ \E j \in 1..Len(q[k]) : q'[k][i] = q[k][j]
           \/ q'[k][i].turn >= Slot
  PROVE  Fresh(q)'
<1>1. /\ Slot' = Slot /\ Slot \in Nat /\ tr \in Nat /\ Slot >= tr /\ tr' = tr
      /\ Delay \in Nat /\ Delay > 0
  BY DataItfAssumption DEF Slot, Scalars
<1>2. ASSUME NEW k \in Places, NEW i \in 1..Len(q'[k])
      PROVE  /\ q'[k][i].turn + Delay >= Slot
             /\ k # "reader" => q'[k][i].turn >= Slot
             /\ "reader" \notin due \cup in => q'[k][i].turn + Delay > tr
  <2>1. CASE \E j \in 1..Len(q[k]) : q'[k][i] = q[k][j]
    BY <2>1 DEF Fresh
  <2>2. CASE q'[k][i].turn >= Slot
    <3>1. q'[k][i].turn \in Nat
      BY TurnNat
    <3>2. QED
      BY <1>1, <2>2, <3>1
  <2>3. QED
    BY <2>1, <2>2
<1>3. QED
  BY <1>1, <1>2 DEF Fresh

\* what is in a queue after a put was there, or was put
LEMMA PutFrom ==
  ASSUME NEW Q \in [Places -> Seq(Message)], NEW k \in Places, NEW m \in Message
  PROVE  \A j \in Places : \A i \in 1..Len(Put(Q, k, m)[j]) :
           (\E n \in 1..Len(Q[j]) : Put(Q, k, m)[j][i] = Q[j][n]) \/ Put(Q, k, m)[j][i] = m
<1>1. CASE Fits(Q, k)
  <2>1. /\ Put(Q, k, m)[k] = Append(Q[k], m)
        /\ \A j \in Places \ {k} : Put(Q, k, m)[j] = Q[j]
    BY <1>1 DEF Put
  <2>2. /\ Q[k] \in Seq(Message) /\ Len(Q[k]) \in Nat /\ Len(Append(Q[k], m)) = Len(Q[k]) + 1
        /\ \A i \in 1..Len(Q[k]) : Append(Q[k], m)[i] = Q[k][i]
        /\ Append(Q[k], m)[Len(Q[k]) + 1] = m
    OBVIOUS
  <2>3. \A i \in 1..Len(Q[k]) + 1 : i \in 1..Len(Q[k]) \/ i = Len(Q[k]) + 1
    BY <2>2
  <2>4. QED
    BY <2>1, <2>2, <2>3
<1>2. CASE ~Fits(Q, k)
  BY <1>2 DEF Put
<1>3. QED
  BY <1>1, <1>2

\* what is in a queue after a read was there
LEMMA TailFrom ==
  ASSUME NEW Q \in [Places -> Seq(Message)], NEW k \in Places, Q[k] # <<>>
  PROVE  /\ \A j \in Places : \A i \in 1..Len(Popped(Q, k)[j]) :
              \E n \in 1..Len(Q[j]) : Popped(Q, k)[j][i] = Q[j][n]
         /\ 1 \in 1..Len(Q[k]) /\ Head(Q[k]) = Q[k][1]
<1> DEFINE P == Popped(Q, k)
<1>1. /\ Q[k] \in Seq(Message) /\ Len(Q[k]) \in Nat \ {0} /\ Len(Tail(Q[k])) = Len(Q[k]) - 1
      /\ \A i \in 1..Len(Q[k]) - 1 : Tail(Q[k])[i] = Q[k][i + 1]
  BY EmptySeq, HeadTailProperties
<1>2. P[k] = Tail(Q[k]) /\ \A j \in Places \ {k} : P[j] = Q[j]
  BY DEF Popped
<1> HIDE DEF P
<1>3. \A i \in 1..Len(P[k]) : i + 1 \in 1..Len(Q[k]) /\ P[k][i] = Q[k][i + 1]
  BY <1>1, <1>2
<1>4. \A j \in Places : \A i \in 1..Len(P[j]) : \E n \in 1..Len(Q[j]) : P[j][i] = Q[j][n]
  BY <1>2, <1>3
<1>5. QED
  BY <1>1, <1>4 DEF P
-----------------------------------------------------------------------------
(***************************************************************************)
(* Every step preserves SyncInv.                                           *)
(***************************************************************************)
LEMMA Bounds ==
  ASSUME IInv, SyncInv
  PROVE  /\ tw \in Nat /\ tr \in Nat /\ wrote \in Nat /\ Rate \in Nat /\ Delay \in Nat /\ Delay > 0
         /\ Slot \in Nat /\ Slot >= tr /\ env.room \in Nat
         /\ q \in [Places -> Seq(Message)] /\ Scalars /\ Counted
         /\ "reader" \in Places /\ "wire" \in Places /\ "writer" \in Places
         /\ \A k \in Places : Len(q[k]) \in Nat
         /\ env.calm => /\ Clock /\ Fresh(q) /\ (EnoughRoom => ~lost)
                        /\ Len(q["reader"]) + Len(q["wire"]) + Len(q["writer"]) <= Rate * Delay + wrote
<1>1. /\ q \in [Places -> Seq(Message)] /\ Scalars /\ Counted
      /\ env.calm => Clock /\ Fresh(q) /\ (EnoughRoom => ~lost)
  BY DEF IInv, SyncInv, CalmInv, Carries
<1>2. /\ tw \in Nat /\ tr \in Nat /\ wrote \in Nat /\ Rate \in Nat /\ Delay \in Nat /\ Delay > 0
      /\ Slot \in Nat /\ Slot >= tr /\ env.room \in Nat
  BY <1>1, Rooms, DataItfAssumption DEF Scalars, Slot
<1>3. \A k \in Places : Len(q[k]) \in Nat
  BY <1>1, TurnNat
<1>4. env.calm => Len(q["reader"]) + Len(q["wire"]) + Len(q["writer"]) <= Rate * Delay + wrote
  BY <1>1, UnderWay
<1>5. "reader" \in Places /\ "wire" \in Places /\ "writer" \in Places
  BY DEF Places, Bridged
<1>6. QED
  BY <1>1, <1>2, <1>3, <1>4, <1>5

\* an object writes: there is room
LEMMA SyncSnd ==
  ASSUME IInv, SyncInv, hwapi_itf_snd
  PROVE  SyncInv'
<1> DEFINE m == Sent(tw)
           P == Put(q, Entry, m)
<1>1. /\ "writer" \in in /\ wrote < Rate /\ wrote' = wrote + 1 /\ q' = P
      /\ lost' = (lost \/ ~Fits(q, Entry)) /\ env' = env
      /\ tw' = tw /\ tr' = tr /\ due' = due /\ in' = in
  BY DEF hwapi_itf_snd
<1>2. Entry \in Places /\ m \in Message /\ m.turn = tw
  <2>1. tw \in Nat
    BY Bounds
  <2>2. QED
    BY <2>1, SentIsTimed, Kinds DEF Entry, Places, Bridged, Sent
<1> HIDE DEF m, P
<1>3. /\ q \in [Places -> Seq(Message)] /\ P \in [Places -> Seq(Message)]
      /\ \A x \in Int : Total(P, x) \in Nat /\ Total(q, x) \in Nat
                        /\ Total(P, x) <= Total(q, x) + IF tw > x THEN 1 ELSE 0
  <2>1. q \in [Places -> Seq(Message)]
    BY Bounds
  <2>2. P \in [Places -> Seq(Message)]
        /\ \A x \in Int : Total(P, x) <= Total(q, x) + IF tw > x THEN 1 ELSE 0
    BY <1>2, <2>1, TotalPut DEF P
  <2>3. QED
    BY <2>1, <2>2, TotalNat
<1>4. Counted'
  <2>1. Scalars /\ Counted
    BY Bounds
  <2>2. QED
    BY <1>1, <1>3, <2>1, CountedStep
<1>5. ASSUME env.calm
      PROVE  Clock' /\ Fresh(q)' /\ (EnoughRoom' => ~lost')
  <2>1. Clock /\ Fresh(q) /\ (EnoughRoom => ~lost)
    BY <1>5, Bounds
  <2>2. Clock' /\ Slot = tw
    <3>1. "writer" \notin due /\ tw \in Nat
      BY <1>1, <2>1, Bounds DEF Clock
    <3>2. Slot = tw
      BY <2>1, <3>1 DEF Clock
    <3>3. QED
      BY <1>1, <2>1, <3>2 DEF Clock, Slot
  <2>3. Fresh(q)'
    <3>1. \A k \in Places : \A i \in 1..Len(P[k]) :
            (\E j \in 1..Len(q[k]) : P[k][i] = q[k][j]) \/ P[k][i] = m
      BY <1>2, <1>3, PutFrom DEF P
    <3>2. m.turn >= Slot
      BY <1>2, <2>2, Bounds
    <3>3. \A k \in Places : \A i \in 1..Len(q'[k]) :
            (\E j \in 1..Len(q[k]) : q'[k][i] = q[k][j]) \/ q'[k][i].turn >= Slot
      BY <1>1, <3>1, <3>2
    <3>4. Scalars /\ q' \in [Places -> Seq(Message)]
      BY <1>1, <1>3, Bounds
    <3>5. QED
      BY <1>1, <1>3, <2>1, <3>3, <3>4, FreshStep
  <2>4. ASSUME EnoughRoom PROVE Fits(q, Entry)
    <3>1. Len(q[Entry]) <= Rate * Delay + wrote
      <4>1. Entry = "reader" \/ Entry = "writer"
        BY DEF Entry
      <4>2. QED
        BY <1>5, <4>1, Bounds
    <3>2. Rate * (Delay + 1) = Rate * Delay + Rate /\ Rate * Delay \in Nat
      BY Bounds
    <3>3. env.room >= Rate * Delay + Rate
      BY <2>4, <3>2 DEF EnoughRoom
    <3> DEFINE c == Rate * Delay
    <3>4. Len(q[Entry]) <= c + wrote /\ env.room >= c + Rate /\ c \in Nat
      BY <3>1, <3>2, <3>3
    <3> HIDE DEF c
    <3>5. Len(q[Entry]) \in Nat /\ env.room \in Nat /\ wrote \in Nat /\ Rate \in Nat
      BY <1>2, Bounds
    <3>6. QED
      BY <1>1, <3>4, <3>5 DEF Fits
  <2>5. QED
    BY <1>1, <2>1, <2>2, <2>3, <2>4 DEF EnoughRoom
<1>6. QED
  BY <1>1, <1>4, <1>5 DEF SyncInv, CalmInv

\* a queue loses a packet, or datagrams change places
LEMMA SyncLess ==
  ASSUME IInv, SyncInv, UNCHANGED <<env, tw, tr, due, in, wrote, lost>>,
         NEW k \in Places, NEW s \in Seq(Message), q' = [q EXCEPT ![k] = s],
         \A x \in Int : Newer(s, x) <= Newer(q[k], x),
         \A i \in 1..Len(s) : \E j \in 1..Len(q[k]) : s[i] = q[k][j]
  PROVE  SyncInv'
<1>1. q \in [Places -> Seq(Message)] /\ Scalars /\ Counted
  BY Bounds
<1>2. /\ q' \in [Places -> Seq(Message)] /\ q'[k] = s
      /\ \A j \in Places \ {k} : q'[j] = q[j]
  BY <1>1
<1>3. ASSUME NEW x \in Int
      PROVE  Total(q', x) \in Nat /\ Total(q, x) \in Nat /\ Total(q', x) <= Total(q, x)
  <2>0. PICK d \in Int : d = 0
    OBVIOUS
  <2>1. Newer(q'[k], x) <= Newer(q[k], x) + d
    BY <1>1, <1>2, <2>0, TotalNat
  <2>2. Total(q', x) <= Total(q, x) + d
    BY <1>1, <1>2, <2>1, TotalChange
  <2>3. Total(q', x) \in Nat /\ Total(q, x) \in Nat
    BY <1>1, <1>2, TotalNat
  <2>4. QED
    BY <2>0, <2>2, <2>3
<1>4. Counted'
  BY <1>1, <1>3, CountedLess
<1>5. ASSUME env.calm PROVE Clock' /\ Fresh(q)' /\ (EnoughRoom' => ~lost')
  <2>1. Clock /\ Fresh(q) /\ (EnoughRoom => ~lost)
    BY <1>5, Bounds
  <2>2. \A p \in Places : \A i \in 1..Len(q'[p]) : \E j \in 1..Len(q[p]) : q'[p][i] = q[p][j]
    BY <1>2
  <2>3. Fresh(q)'
    BY <1>1, <1>2, <2>1, <2>2, FreshStep
  <2>4. QED
    BY <2>1, <2>3 DEF Clock, Slot, EnoughRoom
<1>6. QED
  BY <1>4, <1>5 DEF SyncInv, CalmInv

\* an object reads: what it leaves is not due
LEMMA SyncRcv ==
  ASSUME IInv, SyncInv, hwapi_itf_rcv
  PROVE  SyncInv'
<1>1. PICK n \in Receivable(q["reader"], tr) : q' = [q EXCEPT !["reader"] = Without(@, n)]
  BY DEF hwapi_itf_rcv
<1>2. UNCHANGED <<env, tw, tr, due, in, wrote, lost>>
  BY DEF hwapi_itf_rcv
<1>3. q \in [Places -> Seq(Message)] /\ "reader" \in Places
  BY Bounds
<1> DEFINE r == q["reader"]
           s == Without(r, n)
<1>4. r \in Seq(Message) /\ q' = [q EXCEPT !["reader"] = s]
  BY <1>1, <1>3
<1>5. n \in 1..Len(r)
  BY <1>1, <1>4 DEF Receivable
<1> HIDE DEF r
<1>6. s \in Seq(Message)
  BY <1>4, <1>5, Removed
<1>7. /\ \A x \in Int : Newer(s, x) <= Newer(r, x)
      /\ \A i \in 1..Len(s) : \E j \in 1..Len(r) : s[i] = r[j]
  BY <1>4, <1>5, NewerWithout
<1> HIDE DEF s
<1>8. QED
  BY <1>2, <1>3, <1>4, <1>6, <1>7, SyncLess DEF r

\* a datagram overtakes another: nothing is added to what is under way
LEMMA SyncReorder ==
  ASSUME IInv, SyncInv, Reorder
  PROVE  SyncInv'
<1> DEFINE r == q["wire"]
<1>1. PICK n \in 1..Len(r) - 1 :
        q' = [q EXCEPT !["wire"] = [@ EXCEPT ![n] = r[n + 1], ![n + 1] = r[n]]]
  BY DEF Reorder
<1>2. UNCHANGED <<env, tw, tr, due, in, wrote, lost>>
  BY DEF Reorder
<1>3. q \in [Places -> Seq(Message)] /\ "wire" \in Places
  BY Bounds
<1> DEFINE s == Swapped(r, n)
<1>4. r \in Seq(Message) /\ q' = [q EXCEPT !["wire"] = s]
  BY <1>1, <1>3 DEF Swapped
<1> HIDE DEF r
<1>5. /\ s \in Seq(Message) /\ \A x \in Int : Newer(s, x) <= Newer(r, x)
      /\ \A i \in 1..Len(s) : \E j \in 1..Len(r) : s[i] = r[j]
  <2>1. r \in Seq(Message)
    BY <1>4
  <2>2. QED
    BY <1>1, <2>1, NewerSwapped
<1> HIDE DEF s
<1>6. QED
  BY <1>2, <1>3, <1>4, <1>5, SyncLess DEF r

\* a BRIDGE passes a message on: there is room
LEMMA SyncBridge ==
  ASSUME IInv, SyncInv, NEW k \in Bridged, itf_rcv(k), q[k] # <<>>
  PROVE  SyncInv'
<1> DEFINE Q == Popped(q, k)
           p == Next(k)
           m == Forwarded(k, Head(q[k]))
           P == Put(Q, p, m)
<1>1. /\ q' = P /\ lost' = (lost \/ ~Fits(q, p))
      /\ UNCHANGED <<env, tw, tr, due, in, wrote>>
  <2>1. q' = P
    BY DEF itf_rcv, Popped
  <2>2. lost' = (lost \/ ~Fits(q, p))
    BY Zenon DEF itf_rcv
  <2>3. UNCHANGED <<env, tw, tr, due, in, wrote>>
    BY DEF itf_rcv
  <2>4. QED
    BY <2>1, <2>2, <2>3
<1>2. q \in [Places -> Seq(Message)] /\ Carries(q) /\ k \in Places /\ k # "reader"
  BY Bounds DEF IInv, Places, Bridged
<1>3. /\ p \in Places /\ p # k /\ m \in Message
      /\ Head(q[k]) \in Message /\ m.turn = Head(q[k]).turn
  <2>1. Head(q[k]) \in Stamped
    <3>1. q[k] \in Seq(Stamped)
      BY <1>2 DEF Carries, Contents
    <3>2. QED
      BY <3>1
  <2>2. m \in Message /\ p \in Places \ {k} /\ Head(q[k]) \in Message
    BY <2>1, ForwardedContents, Kinds
  <2>3. m.turn = Head(q[k]).turn
    BY <2>2 DEF Forwarded, Message
  <2>4. QED
    BY <2>2, <2>3
<1>4. /\ Q \in [Places -> Seq(Message)] /\ Q[p] = q[p]
      /\ \A x \in Int : Total(Q, x) <= Total(q, x) - IF Head(q[k]).turn > x THEN 1 ELSE 0
      /\ \A j \in Places : \A i \in 1..Len(Q[j]) : \E n \in 1..Len(q[j]) : Q[j][i] = q[j][n]
      /\ 1 \in 1..Len(q[k]) /\ Head(q[k]) = q[k][1]
  <2>1. /\ Q \in [Places -> Seq(Message)]
        /\ \A x \in Int : Total(Q, x) <= Total(q, x) - IF Head(q[k]).turn > x THEN 1 ELSE 0
    BY <1>2, TotalTail
  <2>2. /\ \A j \in Places : \A i \in 1..Len(Q[j]) : \E n \in 1..Len(q[j]) : Q[j][i] = q[j][n]
        /\ 1 \in 1..Len(q[k]) /\ Head(q[k]) = q[k][1]
    BY <1>2, TailFrom
  <2>3. Q[p] = q[p]
    BY <1>2, <1>3 DEF Popped
  <2>4. QED
    BY <2>1, <2>2, <2>3
<1> HIDE DEF Q, p, m
<1>5. /\ P \in [Places -> Seq(Message)]
      /\ \A x \in Int : Total(P, x) <= Total(Q, x) + IF m.turn > x THEN 1 ELSE 0
      /\ \A j \in Places : \A i \in 1..Len(P[j]) :
           (\E n \in 1..Len(Q[j]) : P[j][i] = Q[j][n]) \/ P[j][i] = m
  <2>1. Q \in [Places -> Seq(Message)] /\ p \in Places /\ m \in Message
    BY <1>3, <1>4
  <2>2. P \in [Places -> Seq(Message)]
        /\ \A x \in Int : Total(P, x) <= Total(Q, x) + IF m.turn > x THEN 1 ELSE 0
    BY <2>1, TotalPut
  <2>3. \A j \in Places : \A i \in 1..Len(P[j]) :
           (\E n \in 1..Len(Q[j]) : P[j][i] = Q[j][n]) \/ P[j][i] = m
    BY <2>1, PutFrom
  <2>4. QED
    BY <2>2, <2>3
<1> HIDE DEF P
<1>6. ASSUME NEW x \in Int
      PROVE  Total(P, x) \in Nat /\ Total(q, x) \in Nat /\ Total(P, x) <= Total(q, x)
  <2>1. Total(P, x) \in Nat /\ Total(q, x) \in Nat /\ Total(Q, x) \in Nat
    BY <1>2, <1>4, <1>5, TotalNat
  <2> DEFINE d == IF m.turn > x THEN 1 ELSE 0
  <2>2. Total(Q, x) <= Total(q, x) - d /\ Total(P, x) <= Total(Q, x) + d /\ d \in Int
    BY <1>3, <1>4, <1>5
  <2> HIDE DEF d
  <2>3. QED
    BY <2>1, <2>2
<1>7. Counted'
  <2>1. Scalars /\ Counted
    BY Bounds
  <2>2. QED
    BY <1>1, <1>6, <2>1, CountedLess
<1>8. ASSUME env.calm PROVE Clock' /\ Fresh(q)' /\ (EnoughRoom' => ~lost')
  <2>1. Clock /\ Fresh(q) /\ (EnoughRoom => ~lost) /\ Scalars
    BY <1>8, Bounds
  <2>2. m.turn >= Slot
    BY <1>2, <1>3, <1>4, <2>1 DEF Fresh
  <2>3. Fresh(q)'
    <3>1. \A j \in Places : \A i \in 1..Len(P[j]) :
            (\E n \in 1..Len(q[j]) : P[j][i] = q[j][n]) \/ P[j][i].turn >= Slot
      <4>1. ASSUME NEW j \in Places, NEW i \in 1..Len(P[j])
            PROVE  (\E n \in 1..Len(q[j]) : P[j][i] = q[j][n]) \/ P[j][i].turn >= Slot
        <5>1. CASE P[j][i] = m
          BY <2>2, <5>1
        <5>2. CASE \E n \in 1..Len(Q[j]) : P[j][i] = Q[j][n]
          BY <1>4, <5>2
        <5>3. QED
          BY <1>5, <5>1, <5>2
      <4>2. QED
        BY <4>1
    <3>2. QED
      BY <1>1, <1>2, <1>5, <2>1, <3>1, FreshStep
  <2>4. ASSUME EnoughRoom PROVE Fits(q, p)
    <3>1. Len(q[p]) + Len(q[k]) <= Rate * Delay + wrote /\ Len(q[p]) \in Nat /\ Len(q[k]) >= 1
      <4>1. (k = "wire" /\ p = "reader") \/ (k = "writer" /\ p = "wire")
        BY DEF Bridged, p, Next
      <4>2. /\ Len(q["reader"]) \in Nat /\ Len(q["wire"]) \in Nat /\ Len(q["writer"]) \in Nat
            /\ Rate * Delay + wrote \in Int
            /\ Len(q["reader"]) + Len(q["wire"]) + Len(q["writer"]) <= Rate * Delay + wrote
        BY <1>8, Bounds
      <4> DEFINE c == Rate * Delay + wrote
      <4>3. c \in Int /\ Len(q["reader"]) + Len(q["wire"]) + Len(q["writer"]) <= c
        BY <4>2
      <4> HIDE DEF c
      <4> DEFINE a == Len(q["reader"])
                 b == Len(q["wire"])
                 d == Len(q["writer"])
                 e == Len(q[p]) + Len(q[k])
      <4>3a. a \in Nat /\ b \in Nat /\ d \in Nat /\ a + b + d <= c /\ c \in Int
        BY <4>2, <4>3
      <4>3b. e = a + b \/ e = b + d
        BY <4>1, <4>3a
      <4> HIDE DEF a, b, d, e
      <4>3c. e <= c
        BY <4>3a, <4>3b
      <4>4. Len(q[p]) + Len(q[k]) <= c
        BY <4>3c DEF e
      <4>5. Len(q[k]) >= 1
        BY <1>4, <4>1, <4>2
      <4>6. QED
        BY <4>1, <4>2, <4>4, <4>5 DEF c
    <3>2. Rate * (Delay + 1) = Rate * Delay + Rate /\ Rate * Delay \in Nat
      BY Bounds
    <3>3. env.room >= Rate * Delay + Rate
      BY <2>4, <3>2 DEF EnoughRoom
    <3>4. wrote <= Rate /\ wrote \in Nat /\ Rate \in Nat /\ env.room \in Nat /\ Len(q[k]) \in Nat
      BY <1>2, Bounds DEF SyncInv, Counted
    <3> DEFINE c == Rate * Delay
    <3>5. /\ Len(q[p]) + Len(q[k]) <= c + wrote /\ env.room >= c + Rate /\ c \in Nat
          /\ Len(q[p]) \in Nat /\ Len(q[k]) >= 1
      BY <3>1, <3>2, <3>3
    <3> HIDE DEF c
    <3> DEFINE a == Len(q[p])
               b == Len(q[k])
               r == env.room
    <3>5a. /\ a + b <= c + wrote /\ r >= c + Rate /\ c \in Nat /\ a \in Nat /\ b >= 1 /\ wrote <= Rate
           /\ wrote \in Nat /\ Rate \in Nat /\ r \in Nat /\ b \in Nat
      BY <3>4, <3>5
    <3> HIDE DEF a, b, r
    <3>5b. a < r
      BY <3>5a
    <3>6. Len(q[p]) < env.room
      BY <3>5b DEF a, r
    <3>7. QED
      BY <3>6 DEF Fits
  <2>5. Clock'
    BY <1>1, <2>1 DEF Clock, Slot
  <2>6. QED
    BY <1>1, <2>1, <2>3, <2>4, <2>5 DEF EnoughRoom
<1>9. QED
  BY <1>1, <1>7, <1>8 DEF SyncInv, CalmInv

\* nothing of it changes
LEMMA SyncSame ==
  ASSUME SyncInv, UNCHANGED <<env, tw, tr, due, in, wrote, q, lost>>
  PROVE  SyncInv'
<1>1. Allowed(0)' = Allowed(0) /\ \A x \in Int : Allowed(x)' = Allowed(x)
  BY DEF Allowed
<1>2. Counted'
  BY <1>1 DEF SyncInv, Counted
<1>3. Slot' = Slot
  BY DEF Slot
<1>4. Clock => Clock'
  BY <1>3 DEF Clock
<1>5. Fresh(q) => Fresh(q)'
  BY <1>3 DEF Fresh
<1>6. EnoughRoom' => EnoughRoom
  BY DEF EnoughRoom
<1>7. QED
  BY <1>2, <1>4, <1>5, <1>6 DEF SyncInv, CalmInv

\* what the reader finds nothing more in is due later
LEMMA NoneReceivable ==
  ASSUME NEW s \in Seq(Message), NEW t \in Nat, Receivable(s, t) = {}
  PROVE  \A n \in 1..Len(s) : s[n].dst > t
<1>1. /\ Len(s) \in Nat /\ DOMAIN s = 1..Len(s)
      /\ \A n \in 1..Len(s) : s[n] \in Message
  OBVIOUS
<1>2. \A n \in 1..Len(s) : s[n].dst \in Nat
  BY <1>1 DEF Message
<1> SUFFICES ASSUME NEW n \in 1..Len(s), s[n].dst <= t PROVE FALSE
  BY <1>2
<1> DEFINE T == {s[i].dst : i \in 1..Len(s)}
<1>3. T \subseteq Nat /\ T # {}
  BY <1>2
<1>4. PICK i \in 1..Len(s) : \A j \in 1..Len(s) : s[i].dst <= s[j].dst
  <2> HIDE DEF T
  <2>1. PICK d \in T : \A e \in T : d <= e
    BY <1>3, LeastNat
  <2>2. QED
    BY <2>1 DEF T
<1> DEFINE I == {j \in 1..Len(s) : s[j].dst = s[i].dst}
<1>5. I \subseteq Nat /\ I # {}
  OBVIOUS
<1>6. PICK j \in 1..Len(s) : s[j].dst = s[i].dst /\ \A l \in 1..Len(s) : s[l].dst = s[i].dst => j <= l
  <2> HIDE DEF I
  <2>1. PICK j \in I : \A l \in I : j <= l
    BY <1>5, LeastNat
  <2>2. QED
    BY <2>1 DEF I
<1> HIDE DEF T, I
<1>7. s[j].dst <= t
  BY <1>2, <1>4, <1>6
<1>8. \A l \in 1..Len(s) : s[l].dst >= s[j].dst /\ (s[l].dst = s[j].dst => l >= j)
  BY <1>2, <1>4, <1>6
<1>9. j \in Receivable(s, t)
  BY <1>1, <1>7, <1>8 DEF Receivable
<1>10. QED
  BY <1>9

\* a turn begins
LEMMA SyncBegin ==
  ASSUME IInv, SyncInv, NEW o \in Objects, Begin(o)
  PROVE  SyncInv'
<1>1. /\ q \in [Places -> Seq(Message)] /\ Scalars /\ Counted
      /\ \A x \in Int : Total(q, x) \in Nat /\ Total(q, x) <= Total(q, x)
      /\ tw \in Nat /\ tr \in Nat
  <2>1. q \in [Places -> Seq(Message)] /\ Scalars /\ Counted /\ tw \in Nat /\ tr \in Nat
    BY Bounds
  <2>2. \A x \in Int : Total(q, x) \in Nat
    BY <2>1, TotalNat
  <2>3. QED
    BY <2>1, <2>2
<1>2. UNCHANGED <<env, q, lost>> /\ o \in due /\ due' = due \ {o} /\ in' = in \cup {o}
  BY DEF Begin
<1>3. EnoughRoom' => EnoughRoom
  BY <1>2 DEF EnoughRoom
<1>4. CASE o = "writer"
  <2>1. tw' = tw + 1 /\ wrote' = 0 /\ tr' = tr
    BY <1>4 DEF Begin
  <2>2. Counted'
    BY <1>1, <1>2, <2>1, CountedTurn
  <2>3. Slot' = Slot /\ "writer" \notin due'
    BY <1>2, <1>4, <2>1 DEF Slot
  <2>4. Clock => Clock'
    <3>1. ASSUME Clock PROVE Clock'
      <4>1. Slot = tw + 1 /\ in \cap due = {}
        BY <1>1, <1>2, <1>4, <3>1 DEF Clock
      <4>2. in' \cap due' = {}
        BY <1>2, <4>1
      <4>3. Slot' = tw'
        BY <2>1, <2>3, <4>1
      <4>4. QED
        BY <1>1, <2>1, <2>3, <4>2, <4>3 DEF Clock
    <3>2. QED
      BY <3>1
  <2>5. "reader" \notin due' \cup in' => "reader" \notin due \cup in
    BY <1>2, <1>4
  <2>6. Fresh(q) => Fresh(q)'
    BY <1>2, <2>1, <2>3, <2>5 DEF Fresh
  <2>7. QED
    BY <1>2, <1>3, <2>2, <2>4, <2>6 DEF SyncInv, CalmInv
<1>5. CASE o = "reader"
  <2>1. tw' = tw /\ wrote' = wrote /\ tr' = tr + 1
    BY <1>5 DEF Begin
  <2>2. Counted'
    BY <1>1, <1>2, <2>1, CountedLess
  <2>3. Slot' = Slot /\ "reader" \in in' /\ ("writer" \in due' <=> "writer" \in due)
    BY <1>1, <1>2, <1>5, <2>1 DEF Slot
  <2>4. Clock => Clock'
    <3>1. ASSUME Clock PROVE Clock'
      <4>1. in' \cap due' = {}
        BY <1>2, <3>1 DEF Clock
      <4>2. Slot' = (tw' + IF "writer" \in due' THEN 1 ELSE 0)
        BY <2>1, <2>3, <3>1 DEF Clock
      <4>3. QED
        BY <4>1, <4>2 DEF Clock
    <3>2. QED
      BY <3>1
  <2>5. Fresh(q) => Fresh(q)'
    BY <1>2, <2>3 DEF Fresh
  <2>6. QED
    BY <1>2, <1>3, <2>2, <2>4, <2>5 DEF SyncInv, CalmInv
<1>6. QED
  BY <1>4, <1>5 DEF Objects

\* a turn ends: all that was due has been read
LEMMA SyncEnd ==
  ASSUME IInv, SyncInv, NEW o \in Objects, End(o)
  PROVE  SyncInv'
<1>1. UNCHANGED <<env, tw, tr, due, wrote, q, lost>> /\ o \in in /\ in' = in \ {o}
  BY DEF End
<1>2. Counted'
  <2>1. \A x \in Int : Allowed(x)' = Allowed(x)
    BY <1>1 DEF Allowed
  <2>2. QED
    BY <1>1, <2>1 DEF SyncInv, Counted
<1>3. Slot' = Slot
  BY <1>1 DEF Slot
<1>4. ASSUME env.calm PROVE Clock' /\ Fresh(q)' /\ (EnoughRoom' => ~lost')
  <2>1. /\ Clock /\ Fresh(q) /\ (EnoughRoom => ~lost) /\ q \in [Places -> Seq(Message)]
        /\ tr \in Nat /\ Slot \in Nat /\ Slot >= tr /\ Delay \in Nat /\ Delay > 0
        /\ "reader" \in Places
    BY <1>4, Bounds
  <2>2. Clock'
    BY <1>1, <1>3, <2>1 DEF Clock
  <2>3. ASSUME NEW k \in Places, NEW n \in 1..Len(q[k]), "reader" \notin due' \cup in'
        PROVE  q[k][n].turn + Delay > tr
    <3>1. CASE "reader" \notin in
      BY <1>1, <2>1, <2>3, <3>1 DEF Fresh
    <3>2. CASE "reader" \in in /\ k # "reader"
      <4>1. q[k][n].turn >= Slot /\ q[k][n].turn \in Nat
        BY <2>1, <3>2, TurnNat DEF Fresh
      <4>2. QED
        BY <2>1, <4>1
    <3>3. CASE "reader" \in in /\ k = "reader"
      <4>1. o = "reader"
        BY <1>1, <2>3, <3>3
      <4>2. Receivable(q["reader"], tr) = {}
        BY <1>4, <4>1 DEF End
      <4>3. q["reader"] \in Seq(Message)
        BY <2>1
      <4>4. q["reader"][n].dst > tr
        BY <2>1, <3>3, <4>2, <4>3, NoneReceivable
      <4>5. q["reader"] \in Seq(Timed)
        BY DEF IInv, Carries, Contents, Places
      <4>6. q["reader"][n] \in Timed
        BY <3>3, <4>5
      <4>7. QED
        BY <3>3, <4>4, <4>6 DEF Timed
    <3>4. QED
      BY <3>1, <3>2, <3>3
  <2>4. Fresh(q)'
    BY <1>1, <1>3, <2>1, <2>3 DEF Fresh
  <2>5. QED
    BY <1>1, <2>1, <2>2, <2>4 DEF EnoughRoom
<1>5. QED
  BY <1>1, <1>2, <1>4 DEF SyncInv, CalmInv

\* the slot ends
LEMMA SyncSlot ==
  ASSUME IInv, SyncInv, syncTslot
  PROVE  SyncInv'
<1>1. UNCHANGED <<env, tw, tr, in, wrote, q, lost>> /\ due' = Objects /\ in = {}
  BY DEF syncTslot
<1>2. Counted'
  <2>1. \A x \in Int : Allowed(x)' = Allowed(x)
    BY <1>1 DEF Allowed
  <2>2. QED
    BY <1>1, <2>1 DEF SyncInv, Counted
<1>3. ASSUME env.calm PROVE Clock' /\ Fresh(q)' /\ (EnoughRoom' => ~lost')
  <2>1. /\ Clock /\ Fresh(q) /\ (EnoughRoom => ~lost) /\ q \in [Places -> Seq(Message)]
        /\ tr \in Nat /\ tw \in Nat /\ Delay \in Nat
    BY <1>3, Bounds
  <2>2. due = {} /\ Idle
    BY <1>3 DEF syncTslot
  <2>3. tw = tr /\ Slot' = tr + 1
    BY <1>1, <2>1, <2>2 DEF Clock, Slot, Objects
  <2>4. Clock'
    BY <1>1, <2>1, <2>3 DEF Clock, Objects
  <2>5. ASSUME NEW k \in Bridged PROVE Len(q[k]) = 0
    <3>1. Wakeups(k) = 0
      BY <2>2 DEF Idle, Wakeups
    <3>2. Len(q[k]) <= 0 /\ Len(q[k]) \in Nat
      BY <2>1, <3>1, TurnNat DEF IInv, Owed, Places
    <3>3. QED
      BY <3>2
  <2>6. ASSUME NEW k \in Places, NEW n \in 1..Len(q[k])
        PROVE  k = "reader" /\ q[k][n].turn + Delay >= tr + 1
    <3>1. k = "reader"
      BY <2>5 DEF Places
    <3>2. q[k][n].turn \in Nat
      BY <2>1, TurnNat
    <3>3. q[k][n].turn + Delay > tr
      BY <1>1, <2>1, <2>2 DEF Fresh
    <3>4. QED
      BY <2>1, <3>1, <3>2, <3>3
  <2>7. "reader" \in due'
    BY <1>1 DEF Objects
  <2>8. Fresh(q)'
    BY <1>1, <2>3, <2>6, <2>7 DEF Fresh
  <2>9. QED
    BY <1>1, <2>1, <2>4, <2>8 DEF EnoughRoom
<1>4. QED
  BY <1>1, <1>2, <1>3 DEF SyncInv, CalmInv

\* the invariant holds at the start
LEMMA SyncInit == DInit => SyncInv
<1> SUFFICES ASSUME DInit PROVE SyncInv
  OBVIOUS
<1>1. /\ tw = 0 /\ tr = 0 /\ wrote = 0 /\ due = Objects /\ in = {} /\ lost = FALSE
      /\ \A k \in Places : q[k] = <<>>
  BY DEF DInit, Places
<1>2. Rate \in Nat /\ Delay \in Nat
  BY DataItfAssumption
<1>3. \A k \in Places : Len(q[k]) = 0
  BY <1>1
<1>4. ASSUME NEW x \in Int PROVE Total(q, x) = 0 /\ Allowed(x) >= 0
  <2>1. ASSUME NEW k \in Places PROVE Newer(q[k], x) = 0
    <3>1. {n \in 1..Len(q[k]) : q[k][n].turn > x} = {}
      BY <1>3
    <3>2. QED
      BY <3>1, FS_EmptySet DEF Newer
  <2>2. Total(q, x) = 0
    BY <2>1 DEF Total, Places, Bridged
  <2>3. x < 0 => Rate * (0 - x - 1) >= 0
    BY <1>2
  <2>4. Allowed(x) = IF x < 0 THEN Rate * (0 - x - 1) + 0 ELSE 0
    BY <1>1 DEF Allowed
  <2> DEFINE c == Rate * (0 - x - 1)
  <2>5. c \in Int /\ (x < 0 => c >= 0) /\ Allowed(x) = IF x < 0 THEN c + 0 ELSE 0
    BY <1>2, <2>3, <2>4
  <2> HIDE DEF c
  <2>6. QED
    BY <2>2, <2>5
<1>5. Counted
  BY <1>1, <1>2, <1>4 DEF Counted, Allowed
<1>6. Clock
  BY <1>1 DEF Clock, Slot, Objects
<1>7. Fresh(q)
  BY <1>3 DEF Fresh
<1>8. QED
  BY <1>1, <1>5, <1>6, <1>7 DEF SyncInv, CalmInv

\* In the calm environment objects on one PE and on different PEs see the same: at the end of a slot
\* just the packets of the last Delay turns are under way, and none was lost, if the queues have
\* room for the packets of Delay + 1 turns (hwapi_itf_snd_, hwapi_itf_rcv__, itf_rcv, packet_in and
\* packet_out of BRIDGE).
THEOREM SynchronousEver == DSpec => []Synchronous
<1>1. IInv /\ SyncInv /\ [DNext]_dvars => SyncInv'
  <2> SUFFICES ASSUME IInv, SyncInv, [DNext]_dvars PROVE SyncInv'
    OBVIOUS
  <2>1. CASE hwapi_itf_snd
    BY <2>1, SyncSnd
  <2>2. CASE hwapi_itf_rcv
    BY <2>2, SyncRcv
  <2>3. CASE syncTslot
    BY <2>3, SyncSlot
  <2>4. CASE Reorder
    BY <2>4, SyncReorder
  <2>5. ASSUME NEW o \in Objects, Begin(o) PROVE SyncInv'
    BY <2>5, SyncBegin
  <2>6. ASSUME NEW o \in Objects, End(o) PROVE SyncInv'
    BY <2>6, SyncEnd
  <2>7. ASSUME NEW k \in Bridged, Wake(k) PROVE SyncInv'
    BY <2>7, SyncSame DEF Wake
  <2>8. ASSUME NEW k \in Bridged, itf_rcv(k) PROVE SyncInv'
    <3>1. CASE q[k] = <<>>
      BY <2>8, <3>1, SyncSame DEF itf_rcv
    <3>2. QED
      BY <2>8, <3>1, SyncBridge
  <2>9. CASE UNCHANGED dvars
    BY <2>9, SyncSame DEF dvars
  <2>10. QED
    BY <2>1, <2>2, <2>3, <2>4, <2>5, <2>6, <2>7, <2>8, <2>9 DEF DNext
<1>2. IInv /\ SyncInv => Synchronous
  <2> SUFFICES ASSUME IInv, SyncInv, env.calm, EnoughRoom
               PROVE  /\ ~lost
                      /\ due = {} /\ in = {} /\ Idle =>
                           \A k \in DOMAIN q : \A n \in DOMAIN q[k] : q[k][n].turn + Delay > tr
    BY DEF Synchronous
  <2>1. ~lost /\ Fresh(q) /\ q \in [Places -> Seq(Message)]
    BY Bounds
  <2>2. DOMAIN q = Places /\ \A k \in Places : DOMAIN q[k] = 1..Len(q[k])
    BY <2>1
  <2>3. QED
    BY <2>1, <2>2 DEF Fresh
<1>3. QED
  BY Inductive, SyncInit, <1>1, <1>2, PTL DEF DSpec
=============================================================================
