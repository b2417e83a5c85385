--------------------------- MODULE LoadSyncProofs ---------------------------
(***************************************************************************)
(* Proofs about two daemons.                                               *)
(*                                                                         *)
(* SWLOAD, for any number of waveforms and executables, any capacity of    *)
(* the queues and whatever fails or gets lost: that no object is launched  *)
(* twice, and that the image it is launched from is its own and whole      *)
(* unless a packet of its own download was lost.                           *)
(*                                                                         *)
(* SYNC, for any lengths of slots, periods and delays: that the slots of   *)
(* master and slave agree once the slave has taken over a number.          *)
(***************************************************************************)
EXTENDS SwLoad, Sync, Counting, SequenceTheorems

-----------------------------------------------------------------------------
(***************************************************************************)
(* The inductive invariant.                                                *)
(***************************************************************************)
\* the download queue q, when n is the next id: every executable is in it once, under an id and a
\* name of its own, with some of its objects
WellFormed(q, n) ==
  /\ q \in Seq(Exe)
  /\ \A i \in 1..Len(q) :
       /\ q[i].id < n /\ q[i].objs # <<>>
       /\ \A j \in 1..Len(q[i].objs) : ExeOf[q[i].objs[j]] = q[i].name
  /\ \A i, k \in 1..Len(q) : q[i].id = q[k].id \/ q[i].name = q[k].name => i = k

\* an object that still waits for its executable has not been launched, and neither has one whose
\* waveform is still to be loaded
In(o, q) == \E i \in 1..Len(q) : \E j \in 1..Len(q[i].objs) : q[i].objs[j] = o
Once ==
  /\ \A o \in Objects : launched[o] <= 1 /\ (In(o, down_q) => launched[o] = 0)
  /\ \A a \in Apps : app[a] = "unloaded" =>
       \A o \in ToSet(ObjsOf[a]) : launched[o] = 0 /\ ~In(o, down_q)

\* the packet that comes after k pieces of an image
Continues(m, id, name, k) ==
  \/ k < Packets /\ m = [cmd |-> "LOADING", id |-> id, data |-> [name |-> name, part |-> k + 1]]
  \/ k = Packets /\ m = [cmd |-> "LOADEND", id |-> id, checksum |-> SumTo(Packets)]

\* a download of which no packet was lost (X: those that have lost one) is in the queue to SWLOAD in
\* order and with the whole image; the last may still be on its way
Awaits(m, X) == m.cmd \in {"LOADSTART", "LOADING"} /\ m.id \notin X
Follows(m, x) ==
  \/ m.cmd = "LOADSTART" /\ \E name \in Exes : Continues(x, m.id, name, 0)
  \/ m.cmd = "LOADING" /\ Continues(x, m.id, m.data.name, m.data.part)
Newest(m, S) ==
  \/ m.cmd = "LOADSTART" /\ \E s \in S : s.id = m.id /\ s.sent = 0
  \/ m.cmd = "LOADING" /\ [id |-> m.id, name |-> m.data.name, sent |-> m.data.part] \in S
Stream(L, S, X) ==
  /\ \A i \in 1..Len(L) - 1 : Awaits(L[i], X) => Follows(L[i], L[i + 1])
  /\ L # <<>> /\ Awaits(L[Len(L)], X) => Newest(L[Len(L)], S)
  /\ \A i \in 1..Len(L) : L[i].cmd = "LOADEND" => L[i].checksum = SumTo(Packets)

\* wherever an id is, it means the same executable
Named(id, name, q, n) ==
  id < n /\ \A i \in 1..Len(q) : q[i].id = id => q[i].name = name
Names ==
  /\ \A i \in 1..Len(toSwman) :
       toSwman[i].cmd = "EXECREQ" => Named(toSwman[i].id, toSwman[i].name, down_q, exeid)
  /\ \A s \in sending : Named(s.id, s.name, down_q, exeid)
  /\ \A i \in 1..Len(toSwload) :
       toSwload[i].cmd = "LOADING" => Named(toSwload[i].id, toSwload[i].data.name, down_q, exeid)

\* an executable of which no packet was lost either waits untouched, or it is the one whose packets
\* come next, and the buffer holds what it has received
Fresh(e) == e.rpm = 0 /\ e.checksum = SumTo(0) /\ ~e.data
Comes(e, L, S) ==
  IF L # <<>> THEN Continues(L[1], e.id, e.name, e.rpm)
              ELSE [id |-> e.id, name |-> e.name, sent |-> e.rpm] \in S
Filled(e, buff) ==
  e.data /\ e.checksum = SumTo(e.rpm) /\ \A k \in 1..e.rpm : buff[k] = [name |-> e.name, part |-> k]
Open ==
  \A i \in 1..Len(down_q) :
    \/ down_q[i].id \in lost
    \/ Fresh(down_q[i])
    \/ Filled(down_q[i], procBuff) /\ Comes(down_q[i], toSwload, sending)

Whole == "read" \notin env.failures => Stream(toSwload, sending, lost) /\ Names /\ Open

LInv == LTypeOK /\ WellFormed(down_q, exeid) /\ Once /\ Whole

-----------------------------------------------------------------------------
(***************************************************************************)
(* Waveforms and their objects.                                            *)
(***************************************************************************)
LEMMA Belongs ==
  /\ \A a \in Apps : ObjsOf[a] \in Seq(Objects) /\ ObjsOf[a] # <<>> /\ ToSet(ObjsOf[a]) \subseteq Objects
  /\ \A o \in Objects : AppOf(o) \in Apps /\ o \in ToSet(ObjsOf[AppOf(o)])
  /\ \A a \in Apps : \A o \in ToSet(ObjsOf[a]) : AppOf(o) = a
  /\ \A o \in Objects : ExeOf[o] \in Exes
<1>1. \A a \in Apps : ObjsOf[a] \in Seq(Objects) /\ ObjsOf[a] # <<>> /\ ToSet(ObjsOf[a]) \subseteq Objects
  BY LoadAssumption DEF Objects
<1>2. \A o \in Objects : \E a \in Apps : o \in ToSet(ObjsOf[a])
  BY DEF Objects
<1>3. \A o \in Objects : AppOf(o) \in Apps /\ o \in ToSet(ObjsOf[AppOf(o)])
  BY <1>2 DEF AppOf
<1>4. \A a \in Apps : \A o \in ToSet(ObjsOf[a]) : AppOf(o) = a
  BY <1>1, <1>3, LoadAssumption
<1>5. \A o \in Objects : ExeOf[o] \in Exes
  BY DEF Exes
<1>6. QED
  BY <1>1, <1>3, <1>4, <1>5

-----------------------------------------------------------------------------
(***************************************************************************)
(* The queue of executables.                                               *)
(***************************************************************************)
LEMMA LeastMember ==
  ASSUME NEW I, I \subseteq Nat, I # {}
  PROVE  Min(I) \in I
<1>1. \E m \in I : \A n \in I : m <= n
  BY LeastNat
<1>2. QED
  BY <1>1 DEF Min

\* FindId finds the entry with this id, or there is none
LEMMA FoundId ==
  ASSUME NEW id
  PROVE  \/ FindId(id) = 0 /\ \A i \in 1..Len(down_q) : down_q[i].id # id
         \/ FindId(id) \in 1..Len(down_q) /\ down_q[FindId(id)].id = id
<1> DEFINE I == {i \in 1..Len(down_q) : down_q[i].id = id}
<1>1. FindId(id) = IF I # {} THEN Min(I) ELSE 0
  BY DEF FindId, SelectInSeq
<1>2. CASE I = {}
  BY <1>1, <1>2
<1>3. CASE I # {}
  <2>0. I \subseteq Nat
    OBVIOUS
  <2>1. Min(I) \in I
    <3> HIDE DEF I
    <3>1. QED
      BY <1>3, <2>0, LeastMember
  <2>2. QED
    BY <1>1, <1>3, <2>1
<1>4. QED
  BY <1>2, <1>3

\* FindName finds the entry with this name, or there is none
LEMMA FoundName ==
  ASSUME NEW q, NEW n
  PROVE  \/ FindName(q, n) = 0 /\ \A i \in 1..Len(q) : q[i].name # n
         \/ FindName(q, n) \in 1..Len(q) /\ q[FindName(q, n)].name = n
<1> DEFINE I == {i \in 1..Len(q) : q[i].name = n}
<1>1. FindName(q, n) = IF I # {} THEN Min(I) ELSE 0
  BY DEF FindName, SelectInSeq
<1>2. CASE I = {}
  BY <1>1, <1>2
<1>3. CASE I # {}
  <2>0. I \subseteq Nat
    OBVIOUS
  <2>1. Min(I) \in I
    <3> HIDE DEF I
    <3>1. QED
      BY <1>3, <2>0, LeastMember
  <2>2. QED
    BY <1>1, <1>3, <2>1
<1>4. QED
  BY <1>2, <1>3

\* what is left of a queue when an entry is removed: the others, each once
LEMMA Removal ==
  ASSUME NEW S, NEW q \in Seq(S), NEW n \in 1..Len(q)
  PROVE  /\ RemoveAt(q, n) \in Seq(S) /\ Len(RemoveAt(q, n)) = Len(q) - 1
         /\ \A i \in 1..Len(q) - 1 : RemoveAt(q, n)[i] = IF i < n THEN q[i] ELSE q[i + 1]
<1> DEFINE a == SubSeq(q, 1, n - 1)
           c == SubSeq(q, n + 1, Len(q))
<1>0. Len(q) \in Nat /\ \A i \in 1..Len(q) : q[i] \in S
  OBVIOUS
<1>1. /\ a \in Seq(S) /\ Len(a) = n - 1
      /\ \A i \in 1..n - 1 : a[i] = q[i]
  <2>1. n - 1 \in Int /\ 1 \in Int /\ \A i \in 1..n - 1 : q[i] \in S
    BY <1>0
  <2>2. /\ a \in Seq(S) /\ Len(a) = IF 1 <= n - 1 THEN n - 1 - 1 + 1 ELSE 0
        /\ \A i \in 1..n - 1 - 1 + 1 : a[i] = q[1 + i - 1]
    BY <2>1, SubSeqProperties
  <2>3. QED
    BY <1>0, <2>2
<1>2. /\ c \in Seq(S) /\ Len(c) = Len(q) - n
      /\ \A i \in 1..Len(q) - n : c[i] = q[n + i]
  <2>1. n + 1 \in Int /\ Len(q) \in Int /\ \A i \in n + 1..Len(q) : q[i] \in S
    BY <1>0
  <2>2. /\ c \in Seq(S) /\ Len(c) = IF n + 1 <= Len(q) THEN Len(q) - (n + 1) + 1 ELSE 0
        /\ \A i \in 1..Len(q) - (n + 1) + 1 : c[i] = q[(n + 1) + i - 1]
    BY <2>1, SubSeqProperties
  <2>3. QED
    BY <1>0, <2>2
<1>3. RemoveAt(q, n) = a \o c
  BY DEF RemoveAt
<1> HIDE DEF a, c
<1>4. /\ a \o c \in Seq(S) /\ Len(a \o c) = Len(a) + Len(c)
      /\ \A i \in 1..Len(a) + Len(c) :
           (a \o c)[i] = IF i <= Len(a) THEN a[i] ELSE c[i - Len(a)]
  BY <1>1, <1>2, ConcatProperties
<1>5. ASSUME NEW i \in 1..Len(q) - 1
      PROVE  (a \o c)[i] = IF i < n THEN q[i] ELSE q[i + 1]
  <2>1. CASE i < n
    BY <1>0, <1>1, <1>2, <1>4, <2>1
  <2>2. CASE ~(i < n)
    <3>1. (a \o c)[i] = c[i - (n - 1)]
      BY <1>0, <1>1, <1>2, <1>4, <2>2
    <3>2. i - (n - 1) \in 1..Len(q) - n /\ n + (i - (n - 1)) = i + 1
      BY <1>0, <2>2
    <3>3. QED
      BY <1>2, <2>2, <3>1, <3>2
  <2>3. QED
    BY <2>1, <2>2
<1>6. QED
  BY <1>0, <1>1, <1>2, <1>3, <1>4, <1>5

\* removing an entry leaves the others, and none of its objects in the queue
LEMMA RemovalKeeps ==
  ASSUME NEW q, NEW m, WellFormed(q, m), NEW n \in 1..Len(q)
  PROVE  /\ WellFormed(RemoveAt(q, n), m)
         /\ \A i \in 1..Len(RemoveAt(q, n)) :
              \E k \in 1..Len(q) : k # n /\ RemoveAt(q, n)[i] = q[k]
         /\ \A o : In(o, RemoveAt(q, n)) => In(o, q)
         /\ \A j \in 1..Len(q[n].objs) : ~In(q[n].objs[j], RemoveAt(q, n))
<1> DEFINE w == RemoveAt(q, n)
<1>1. /\ q \in Seq(Exe) /\ Len(q) \in Nat
      /\ w \in Seq(Exe) /\ Len(w) = Len(q) - 1
      /\ \A i \in 1..Len(q) - 1 : w[i] = IF i < n THEN q[i] ELSE q[i + 1]
  BY Removal DEF WellFormed
<1> HIDE DEF w
<1>2. \A i \in 1..Len(w) : \E k \in 1..Len(q) : k # n /\ w[i] = q[k] /\ k = IF i < n THEN i ELSE i + 1
  BY <1>1
<1>3. ASSUME NEW i \in 1..Len(w), NEW j \in 1..Len(w), w[i].id = w[j].id \/ w[i].name = w[j].name
      PROVE  i = j
  <2>1. PICK k \in 1..Len(q) : w[i] = q[k] /\ k = IF i < n THEN i ELSE i + 1
    BY <1>2
  <2>2. PICK l \in 1..Len(q) : w[j] = q[l] /\ l = IF j < n THEN j ELSE j + 1
    BY <1>2
  <2>3. k = l
    BY <1>3, <2>1, <2>2 DEF WellFormed
  <2>4. QED
    BY <1>1, <2>1, <2>2, <2>3
<1>4. WellFormed(w, m)
  BY <1>1, <1>2, <1>3 DEF WellFormed
<1>5. \A o : In(o, w) => In(o, q)
  BY <1>2 DEF In
<1>6. ASSUME NEW j \in 1..Len(q[n].objs), In(q[n].objs[j], w)
      PROVE  FALSE
  <2>1. PICK i \in 1..Len(w) : \E l \in 1..Len(w[i].objs) : w[i].objs[l] = q[n].objs[j]
    BY <1>6 DEF In
  <2>2. PICK k \in 1..Len(q) : k # n /\ w[i] = q[k]
    BY <1>2
  <2>3. q[k].name = q[n].name
    BY <1>6, <2>1, <2>2 DEF WellFormed
  <2>4. QED
    BY <2>2, <2>3 DEF WellFormed
<1>7. QED
  BY <1>2, <1>4, <1>5, <1>6 DEF w

-----------------------------------------------------------------------------
\* the checksum of the first pieces of an image: it tells how many they are, and the next piece adds
\* to it what is added for a packet
LEMMA SumFacts ==
  /\ \A k \in 0..Packets : SumTo(k) \in Checksums
  /\ SumTo(0) \in Checksums
  /\ \A c \in Checksums : \A p \in 1..Packets : [c EXCEPT ![p] = @ + 1] \in Checksums
  /\ \A k \in 0..Packets : SumTo(k) = SumTo(Packets) => k = Packets
  /\ SumTo(0) # SumTo(Packets)
  /\ \A k \in 0..Packets - 1 : [SumTo(k) EXCEPT ![k + 1] = @ + 1] = SumTo(k + 1)
<1>1. Packets \in Nat \ {0}
  BY LoadAssumption
<1>2. \A k \in 0..Packets : SumTo(k) \in Checksums
  BY DEF SumTo, Checksums
<1>7. SumTo(0) \in Checksums
  BY <1>1, <1>2
<1>8. \A c \in Checksums : \A p \in 1..Packets : [c EXCEPT ![p] = @ + 1] \in Checksums
  BY DEF Checksums
<1>3. ASSUME NEW k \in 0..Packets, SumTo(k) = SumTo(Packets)
      PROVE  k = Packets
  <2>1. SumTo(k)[Packets] = IF Packets <= k THEN 1 ELSE 0
    BY <1>1 DEF SumTo
  <2>2. SumTo(Packets)[Packets] = 1
    BY <1>1 DEF SumTo
  <2>3. QED
    BY <1>1, <1>3, <2>1, <2>2
<1>4. SumTo(0) # SumTo(Packets)
  BY <1>1, <1>3
<1>5. ASSUME NEW k \in 0..Packets - 1
      PROVE  [SumTo(k) EXCEPT ![k + 1] = @ + 1] = SumTo(k + 1)
  <2> DEFINE f == [SumTo(k) EXCEPT ![k + 1] = @ + 1]
  <2>1. f = [p \in 1..Packets |-> IF p = k + 1 THEN SumTo(k)[k + 1] + 1 ELSE SumTo(k)[p]]
    BY DEF SumTo
  <2>2. \A p \in 1..Packets : f[p] = IF p <= k + 1 THEN 1 ELSE 0
    BY <1>1, <2>1 DEF SumTo
  <2>3. f = [p \in 1..Packets |-> f[p]]
    BY <2>1
  <2> HIDE DEF f
  <2>4. QED
    BY <2>2, <2>3 DEF SumTo, f
<1>6. QED
  BY <1>2, <1>3, <1>4, <1>5, <1>7, <1>8

-----------------------------------------------------------------------------
(***************************************************************************)
(* A load command: its objects join the queue one after the other.         *)
(***************************************************************************)
Base == [q |-> down_q, id |-> exeid]

\* a function that is given by recursion over the objects exists
LEMMA Recursion ==
  ASSUME NEW objs, Len(objs) \in Nat
  PROVE  \E f : /\ f = [n \in 0..Len(objs) |-> IF n = 0 THEN Base ELSE Queued(f[n - 1], objs[n])]
               /\ Joined(objs) = f[Len(objs)]
<1> DEFINE Steps(f, k) == f = [n \in 0..k |-> IF n = 0 THEN Base ELSE Queued(f[n - 1], objs[n])]
           T == {k \in Nat : ~\E f : Steps(f, k)}
<1>1. CASE T = {}
  <2>1. \E f : Steps(f, Len(objs))
    BY <1>1
  <2>2. Joined(objs) = (CHOOSE f : Steps(f, Len(objs)))[Len(objs)]
    BY DEF Joined, Base
  <2> HIDE DEF Steps
  <2>3. Steps(CHOOSE f : Steps(f, Len(objs)), Len(objs))
    BY <2>1
  <2>4. QED
    BY <2>2, <2>3 DEF Steps
<1>2. CASE T # {}
  <2>1. PICK k \in T : \A j \in T : k <= j
    BY <1>2, LeastNat
  <2>2. CASE k = 0
    <3>1. Steps([n \in 0..0 |-> Base], 0)
      OBVIOUS
    <3>2. QED
      BY <2>1, <2>2, <3>1
  <2>3. CASE k # 0
    <3>1. k \in Nat /\ k - 1 \in Nat /\ k - 1 \notin T
      <4>1. T \subseteq Nat
        OBVIOUS
      <4> HIDE DEF T
      <4>2. QED
        BY <2>1, <2>3, <4>1
    <3>2. PICK f : Steps(f, k - 1)
      BY <3>1
    <3> DEFINE g == [n \in 0..k |-> IF n = k THEN Queued(f[k - 1], objs[k]) ELSE f[n]]
    <3>3. \A n \in 0..k - 1 : f[n] = IF n = 0 THEN Base ELSE Queued(f[n - 1], objs[n])
      BY <3>2
    <3>4. \A n \in 0..k - 1 : g[n] = f[n]
      BY <3>1
    <3>5. ASSUME NEW n \in 0..k
          PROVE  g[n] = IF n = 0 THEN Base ELSE Queued(g[n - 1], objs[n])
      <4>1. CASE n = k
        BY <2>3, <3>1, <3>4, <4>1
      <4>2. CASE n # k /\ n = 0
        BY <3>1, <3>3, <3>4, <4>2
      <4>3. CASE n # k /\ n # 0
        <5>1. n \in 0..k - 1 /\ n - 1 \in 0..k - 1
          BY <3>1, <4>3
        <5>2. QED
          BY <3>3, <3>4, <4>3, <5>1
      <4>4. QED
        BY <4>1, <4>2, <4>3
    <3>6. Steps(g, k)
      BY <3>5
    <3>7. QED
      BY <2>1, <3>6
  <2>4. QED
    BY <2>2, <2>3
<1>3. QED
  BY <1>1, <1>2

\* an entry that has become another one only by the objects it is for
Same(e, f) ==
  e.id = f.id /\ e.name = f.name /\ e.rpm = f.rpm /\ e.checksum = f.checksum /\ e.data = f.data

\* from state s of the queue and the ids to state t: old entries keep what they are, new ones are
\* fresh, and only objects of the set O have joined
Grown(s, t, O) ==
  /\ t \in [q : Seq(Exe), id : Nat] /\ s.id <= t.id
  /\ WellFormed(t.q, t.id)
  /\ \A i \in 1..Len(t.q) : \/ Fresh(t.q[i]) /\ t.q[i].id >= s.id
                            \/ \E k \in 1..Len(s.q) : Same(t.q[i], s.q[k])
  /\ \A x : In(x, t.q) => In(x, s.q) \/ x \in O

\* one object more waits in the queue
LEMMA OneJoins ==
  ASSUME NEW s \in [q : Seq(Exe), id : Nat], WellFormed(s.q, s.id), NEW o \in Objects
  PROVE  Grown(s, Queued(s, o), {o})
<1> DEFINE i == FindName(s.q, ExeOf[o])
           new == [id |-> s.id, name |-> ExeOf[o], objs |-> <<o>>, rpm |-> 0, checksum |-> SumTo(0),
                   data |-> FALSE]
           t == Queued(s, o)
<1>1. /\ s.q \in Seq(Exe) /\ s.id \in Nat /\ Len(s.q) \in Nat
      /\ \A k \in 1..Len(s.q) : s.q[k] \in Exe
      /\ s = [q |-> s.q, id |-> s.id]
  OBVIOUS
<1>2. CASE i # 0
  <2> DEFINE e == s.q[i]
             f == [e EXCEPT !.objs = <<o>> \o e.objs]
             p == [s.q EXCEPT ![i] = f]
  <2>1. i \in 1..Len(s.q) /\ e.name = ExeOf[o] /\ e \in Exe
    BY <1>1, <1>2, FoundName
  <2>2. t = [q |-> p, id |-> s.id]
    BY <1>1, <1>2 DEF Queued
  <2>0. e.objs \in Seq(Objects) /\ Len(e.objs) \in Nat
    BY <2>1 DEF Exe
  <2>3. /\ <<o>> \o e.objs \in Seq(Objects) /\ Len(<<o>> \o e.objs) = 1 + Len(e.objs)
        /\ \A j \in 1..1 + Len(e.objs) : (<<o>> \o e.objs)[j] = IF j = 1 THEN o ELSE e.objs[j - 1]
    BY <2>0
  <2>4. f \in Exe /\ Same(f, e) /\ f.objs = <<o>> \o e.objs
    BY <2>1, <2>3 DEF Exe, Same
  <2>11. /\ e.id < s.id /\ \A j \in 1..Len(e.objs) : ExeOf[e.objs[j]] = e.name
         /\ e = s.q[i]
    BY <2>1 DEF WellFormed
  <2> HIDE DEF t, i, e, f
  <2>5. p \in Seq(Exe) /\ Len(p) = Len(s.q) /\ \A k \in 1..Len(p) : p[k] = IF k = i THEN f ELSE s.q[k]
    BY <1>1, <2>1, <2>4
  <2> HIDE DEF p
  <2>6. \A j \in 1..Len(f.objs) : f.objs[j] = o \/ \E k \in 1..Len(e.objs) : f.objs[j] = e.objs[k]
    <3> SUFFICES ASSUME NEW j \in 1..Len(f.objs), f.objs[j] # o
                 PROVE  \E k \in 1..Len(e.objs) : f.objs[j] = e.objs[k]
      OBVIOUS
    <3>1. j - 1 \in 1..Len(e.objs) /\ f.objs[j] = e.objs[j - 1]
      BY <2>0, <2>3, <2>4
    <3> QED
      BY <3>1
  <2>7. \A k \in 1..Len(p) : Same(p[k], s.q[k])
    BY <2>4, <2>5, <2>11 DEF Same
  <2>8. WellFormed(p, s.id)
    <3>1. ASSUME NEW k \in 1..Len(p)
          PROVE  /\ p[k].id < s.id /\ p[k].objs # <<>>
                 /\ \A j \in 1..Len(p[k].objs) : ExeOf[p[k].objs[j]] = p[k].name
      <4>1. CASE k = i
        <5>1. f.objs # <<>>
          BY <2>0, <2>3, <2>4
        <5>2. p[k] = f /\ f.id = e.id /\ f.name = e.name
          BY <2>4, <2>5, <4>1 DEF Same
        <5>3. \A j \in 1..Len(f.objs) : ExeOf[f.objs[j]] = e.name
          BY <2>1, <2>6, <2>11
        <5>4. QED
          BY <2>11, <5>1, <5>2, <5>3
      <4>2. CASE k # i
        BY <2>5, <4>2 DEF WellFormed
      <4>3. QED
        BY <4>1, <4>2
    <3>2. \A k, l \in 1..Len(p) : p[k].id = p[l].id \/ p[k].name = p[l].name => k = l
      BY <2>5, <2>7 DEF WellFormed, Same
    <3>3. QED
      BY <2>5, <3>1, <3>2 DEF WellFormed
  <2>9. \A x : In(x, p) => In(x, s.q) \/ x = o
    <3>1. ASSUME NEW x, NEW k \in 1..Len(p), NEW j \in 1..Len(p[k].objs), p[k].objs[j] = x
          PROVE  In(x, s.q) \/ x = o
      <4>1. CASE k = i
        <5>1. p[k] = f
          BY <2>5, <4>1
        <5>2. x = o \/ \E l \in 1..Len(e.objs) : x = e.objs[l]
          BY <2>6, <3>1, <5>1
        <5>3. QED
          BY <2>1, <2>11, <5>2 DEF In
      <4>2. CASE k # i
        BY <2>5, <3>1, <4>2 DEF In
      <4>3. QED
        BY <4>1, <4>2
    <3>2. QED
      BY <3>1 DEF In
  <2>10. QED
    BY <1>1, <2>2, <2>5, <2>7, <2>8, <2>9 DEF Grown, t
<1>3. CASE i = 0
  <2> DEFINE p == <<new>> \o s.q
  <2>1. \A k \in 1..Len(s.q) : s.q[k].name # ExeOf[o]
    BY <1>3, FoundName
  <2>2. t = [q |-> p, id |-> s.id + 1]
    BY <1>1, <1>3 DEF Queued
  <2> HIDE DEF t
  <2>3. new \in Exe /\ Fresh(new) /\ new.id = s.id /\ new.name = ExeOf[o]
        /\ new.objs # <<>> /\ \A j \in 1..Len(new.objs) : new.objs[j] = o
    BY <1>1, Belongs, LoadAssumption, SumFacts DEF Exe, Fresh
  <2> HIDE DEF new
  <2>4. /\ p \in Seq(Exe) /\ Len(p) = 1 + Len(s.q)
        /\ \A k \in 1..1 + Len(s.q) : p[k] = IF k = 1 THEN new ELSE s.q[k - 1]
    BY <1>1, <2>3
  <2> HIDE DEF p
  <2>5. \A k \in 1..Len(p) : (k = 1 /\ p[k] = new) \/ (k - 1 \in 1..Len(s.q) /\ p[k] = s.q[k - 1])
    BY <1>1, <2>4
  <2>6. WellFormed(p, s.id + 1)
    <3>1. ASSUME NEW k \in 1..Len(p)
          PROVE  /\ p[k].id < s.id + 1 /\ p[k].objs # <<>>
                 /\ \A j \in 1..Len(p[k].objs) : ExeOf[p[k].objs[j]] = p[k].name
      <4>1. CASE k = 1 /\ p[k] = new
        BY <1>1, <2>3, <4>1
      <4>2. CASE k - 1 \in 1..Len(s.q) /\ p[k] = s.q[k - 1]
        <5>1. s.q[k - 1].id \in Nat
          BY <1>1, <4>2 DEF Exe
        <5>2. QED
          BY <1>1, <4>2, <5>1 DEF WellFormed
      <4>3. QED
        BY <2>5, <4>1, <4>2
    <3>2. ASSUME NEW k \in 1..Len(p), NEW l \in 1..Len(p), p[k].id = p[l].id \/ p[k].name = p[l].name
          PROVE  k = l
      <4>1. \A m \in 1..Len(s.q) : s.q[m].id # new.id /\ s.q[m].name # new.name
        <5>1. ASSUME NEW m \in 1..Len(s.q) PROVE s.q[m].id \in Nat /\ s.q[m].id < s.id
          <6>1. s.q[m] \in Exe
            BY <1>1
          <6>2. s.q[m].id \in Nat
            BY <6>1 DEF Exe
          <6>3. QED
            BY <6>2 DEF WellFormed
        <5>2. QED
          BY <1>1, <2>1, <2>3, <5>1
      <4>2. CASE k = 1 \/ l = 1
        <5>1. \/ k = 1 /\ p[k] = new
              \/ k - 1 \in 1..Len(s.q) /\ p[k] = s.q[k - 1] /\ k # 1
          BY <1>1, <2>5
        <5>2. \/ l = 1 /\ p[l] = new
              \/ l - 1 \in 1..Len(s.q) /\ p[l] = s.q[l - 1] /\ l # 1
          BY <1>1, <2>5
        <5>3. QED
          BY <3>2, <4>1, <4>2, <5>1, <5>2
      <4>3. CASE k # 1 /\ l # 1
        <5> DEFINE u == k - 1
                   v == l - 1
        <5>1. u \in 1..Len(s.q) /\ v \in 1..Len(s.q) /\ p[k] = s.q[u] /\ p[l] = s.q[v]
          BY <2>5, <4>3
        <5>2. k = u + 1 /\ l = v + 1
          BY <2>4
        <5> HIDE DEF u, v
        <5>3. s.q[u].id = s.q[v].id \/ s.q[u].name = s.q[v].name
          BY <3>2, <5>1
        <5>4. u = v
          BY <5>1, <5>3 DEF WellFormed
        <5>5. QED
          BY <5>2, <5>4
      <4>4. QED
        BY <4>2, <4>3
    <3>3. QED
      BY <2>4, <3>1, <3>2 DEF WellFormed
  <2>7. \A x : In(x, p) => In(x, s.q) \/ x = o
    <3>1. ASSUME NEW x, NEW k \in 1..Len(p), NEW j \in 1..Len(p[k].objs), p[k].objs[j] = x
          PROVE  In(x, s.q) \/ x = o
      <4>1. CASE k = 1 /\ p[k] = new
        BY <2>3, <3>1, <4>1
      <4>2. CASE k - 1 \in 1..Len(s.q) /\ p[k] = s.q[k - 1]
        BY <3>1, <4>2 DEF In
      <4>3. QED
        BY <2>5, <4>1, <4>2
    <3>2. QED
      BY <3>1 DEF In
  <2>8. ASSUME NEW k \in 1..Len(p)
        PROVE  \/ Fresh(p[k]) /\ p[k].id >= s.id
               \/ \E l \in 1..Len(s.q) : Same(p[k], s.q[l])
    <3>1. CASE k = 1 /\ p[k] = new
      BY <1>1, <2>3, <3>1 DEF Fresh
    <3>2. CASE k - 1 \in 1..Len(s.q) /\ p[k] = s.q[k - 1]
      BY <3>2 DEF Same
    <3>3. QED
      BY <2>5, <3>1, <3>2
  <2>9. QED
    BY <1>1, <2>2, <2>4, <2>6, <2>7, <2>8 DEF Grown, t
<1>4. QED
  BY <1>2, <1>3

\* the whole command
LEMMA AllJoin ==
  ASSUME LTypeOK, WellFormed(down_q, exeid), NEW a \in Apps
  PROVE  Grown(Base, Joined(ObjsOf[a]), ToSet(ObjsOf[a]))
<1> DEFINE objs == ObjsOf[a]
<1>1. /\ Len(objs) \in Nat /\ \A n \in 1..Len(objs) : objs[n] \in Objects /\ objs[n] \in ToSet(objs)
  <2>1. objs \in Seq(Objects)
    BY Belongs
  <2>2. QED
    BY <2>1 DEF ToSet
<1> HIDE DEF objs
<1>2. PICK f : /\ f = [n \in 0..Len(objs) |-> IF n = 0 THEN Base ELSE Queued(f[n - 1], objs[n])]
               /\ Joined(objs) = f[Len(objs)]
  BY <1>1, Recursion
<1>3. \A n \in 0..Len(objs) : f[n] = IF n = 0 THEN Base ELSE Queued(f[n - 1], objs[n])
  BY <1>2
<1>4. Base \in [q : Seq(Exe), id : Nat] /\ WellFormed(Base.q, Base.id)
  BY DEF LTypeOK, Base
<1> DEFINE Bad == {n \in 0..Len(objs) : ~Grown(Base, f[n], ToSet(objs))}
<1>5. ASSUME NEW n \in 0..Len(objs), n # 0, Grown(Base, f[n - 1], ToSet(objs))
      PROVE  Grown(Base, f[n], ToSet(objs))
  <2> DEFINE s == f[n - 1]
             t == f[n]
             o == objs[n]
  <2>1. t = Queued(s, o) /\ o \in Objects /\ o \in ToSet(objs)
    BY <1>1, <1>3, <1>5
  <2>2. Grown(Base, s, ToSet(objs))
    BY <1>5
  <2> HIDE DEF s, t, o
  <2>3. s \in [q : Seq(Exe), id : Nat] /\ WellFormed(s.q, s.id) /\ Base.id <= s.id
    BY <2>2 DEF Grown
  <2>4. Grown(s, t, {o})
    BY <2>1, <2>3, OneJoins
  <2>5. /\ t \in [q : Seq(Exe), id : Nat] /\ s.id <= t.id /\ WellFormed(t.q, t.id)
        /\ \A x : In(x, t.q) => In(x, s.q) \/ x \in {o}
    BY <2>4 DEF Grown
  <2>6. \A x : In(x, t.q) => In(x, Base.q) \/ x \in ToSet(objs)
    BY <2>1, <2>2, <2>5 DEF Grown
  <2>7. Base.id <= t.id
    BY <1>4, <2>3, <2>5
  <2>8. ASSUME NEW i \in 1..Len(t.q)
        PROVE  \/ Fresh(t.q[i]) /\ t.q[i].id >= Base.id
               \/ \E k \in 1..Len(Base.q) : Same(t.q[i], Base.q[k])
    <3> DEFINE e == t.q[i]
    <3>1. e \in Exe
      BY <2>5
    <3>2. e.id \in Nat /\ s.id \in Nat /\ Base.id \in Nat
      BY <1>4, <2>3, <3>1 DEF Exe
    <3>3. (Fresh(e) /\ e.id >= s.id) \/ \E k \in 1..Len(s.q) : Same(e, s.q[k])
      BY <2>4 DEF Grown
    <3> HIDE DEF e
    <3>4. CASE Fresh(e) /\ e.id >= s.id
      BY <2>3, <3>2, <3>4 DEF e
    <3>5. ASSUME NEW k \in 1..Len(s.q), Same(e, s.q[k])
          PROVE  \/ Fresh(e) /\ e.id >= Base.id
                 \/ \E l \in 1..Len(Base.q) : Same(e, Base.q[l])
      <4>1. \/ Fresh(s.q[k]) /\ s.q[k].id >= Base.id
            \/ \E l \in 1..Len(Base.q) : Same(s.q[k], Base.q[l])
        BY <2>2 DEF Grown
      <4>2. QED
        BY <3>5, <4>1 DEF Same, Fresh
    <3>6. QED
      BY <3>3, <3>4, <3>5 DEF e
  <2>9. Grown(Base, t, ToSet(objs))
    BY <2>5, <2>6, <2>7, <2>8 DEF Grown
  <2>10. QED
    BY <2>9 DEF t
<1>6. Grown(Base, f[0], ToSet(objs))
  <2>1. f[0] = Base
    BY <1>1, <1>3
  <2>2. QED
    BY <1>4, <2>1 DEF Grown, Same
<1>7. Bad = {}
  <2>1. SUFFICES ASSUME Bad # {} PROVE FALSE
    OBVIOUS
  <2>2. Bad \subseteq Nat /\ Bad \subseteq 0..Len(objs)
    BY <1>1
  <2>3. \A n \in 0..Len(objs) : n \in Bad <=> ~Grown(Base, f[n], ToSet(objs))
    OBVIOUS
  <2> HIDE DEF Bad
  <2>4. PICK n \in Bad : \A m \in Bad : n <= m
    BY <2>1, <2>2, LeastNat
  <2>5. n # 0
    BY <1>1, <1>6, <2>2, <2>3, <2>4
  <2>6. n - 1 \in 0..Len(objs) /\ n - 1 \notin Bad
    BY <1>1, <2>2, <2>4, <2>5
  <2>7. QED
    BY <1>5, <2>2, <2>3, <2>4, <2>5, <2>6
<1>8. Grown(Base, f[Len(objs)], ToSet(objs))
  BY <1>1, <1>7
<1>9. QED
  BY <1>2, <1>8 DEF objs

-----------------------------------------------------------------------------
(***************************************************************************)
(* What the messages of a step do to the queues and to the names in them.  *)
(***************************************************************************)
\* the requests in queue L are those of queue K, or name an executable of download queue q
Requests(L, K, q) ==
  /\ L \in Seq(ToSwman) /\ Len(L) <= MaxQueue
  /\ \A j \in 1..Len(L) : L[j].cmd = "EXECREQ" =>
       \/ \E k \in 1..Len(K) : L[j] = K[k]
       \/ \E k \in 1..Len(q) : L[j].id = q[k].id /\ L[j].name = q[k].name

\* the executables of which a packet was lost stay what they are, some may join
Losses == lost \in SUBSET Nat /\ lost' \in SUBSET Nat /\ lost \subseteq lost'

\* FRONTEND forwards a packet, or drops it
LEMMA Passed ==
  ASSUME LTypeOK, NEW S, NEW q \in Seq(S), Len(q) <= MaxQueue, NEW m \in S, NEW p, p = Forwarded(q, m),
         lost' = Missed(q, m), m.cmd # "EXECERR" => m.id \in Nat
  PROVE  /\ p \in Seq(S) /\ Len(p) <= MaxQueue /\ Len(q) \in Nat
         /\ Losses
         /\ \/ /\ Len(p) = Len(q) + 1 /\ p[Len(p)] = m /\ p # <<>>
               /\ \A j \in 1..Len(q) : p[j] = q[j]
               /\ lost' = lost
            \/ p = q /\ (m.cmd # "EXECERR" => m.id \in lost')
<1>1. Len(q) \in Nat /\ MaxQueue \in Nat /\ lost \in SUBSET Nat
  BY LoadAssumption DEF LTypeOK
<1>2. CASE Len(q) < MaxQueue
  <2>1. p = Append(q, m) /\ lost' = lost
    BY <1>2 DEF Forwarded, Missed
  <2>2. p \in Seq(S) /\ Len(p) = Len(q) + 1 /\ p[Len(q) + 1] = m /\ \A j \in 1..Len(q) : p[j] = q[j]
    BY <1>1, <2>1
  <2>3. p[Len(p)] = m /\ p # <<>> /\ Len(p) <= MaxQueue
    BY <1>1, <1>2, <2>2
  <2>4. QED
    BY <1>1, <2>1, <2>2, <2>3 DEF Losses
<1>3. CASE ~(Len(q) < MaxQueue)
  <2>1. p = q /\ lost' = IF m.cmd = "EXECERR" THEN lost ELSE lost \cup {m.id}
    BY <1>3 DEF Forwarded, Missed
  <2>2. QED
    BY <1>1, <2>1 DEF Losses
<1>4. QED
  BY <1>2, <1>3

\* what is in the queue to SWMAN after SWLOAD has sent a packet
LEMMA Told ==
  ASSUME LTypeOK, NEW m \in ToSwman, Tell(m)
  PROVE  /\ toSwman' \in Seq(ToSwman) /\ Len(toSwman') <= MaxQueue
         /\ \A j \in 1..Len(toSwman') : toSwman'[j] = m \/ \E k \in 1..Len(toSwman) : toSwman'[j] = toSwman[k]
         /\ Losses
<1>1. toSwman \in Seq(ToSwman) /\ Len(toSwman) <= MaxQueue
  BY DEF LTypeOK
<1>2. m.cmd # "EXECERR" => m.id \in Nat
  BY DEF ToSwman
<1>3. toSwman' = Forwarded(toSwman, m) /\ lost' = Missed(toSwman, m)
  BY DEF Tell
<1>4. /\ toSwman' \in Seq(ToSwman) /\ Len(toSwman') <= MaxQueue /\ Len(toSwman) \in Nat
      /\ Losses
      /\ \/ /\ Len(toSwman') = Len(toSwman) + 1 /\ toSwman'[Len(toSwman')] = m
            /\ \A j \in 1..Len(toSwman) : toSwman'[j] = toSwman[j]
         \/ toSwman' = toSwman
  BY <1>1, <1>2, <1>3, Passed
<1>5. QED
  BY <1>4

\* what is in the queue to SWMAN after SWLOAD has asked for the head of its queue
LEMMA Requested ==
  ASSUME LTypeOK, NEW q, NEW n, WellFormed(q, n), RequestHead(q)
  PROVE  Requests(toSwman', toSwman, q) /\ Losses
<1>1. CASE q = <<>>
  BY <1>1 DEF RequestHead, Requests, LTypeOK, Losses
<1>2. CASE q # <<>>
  <2> DEFINE m == [cmd |-> "EXECREQ", id |-> q[1].id, name |-> q[1].name]
  <2>1. q \in Seq(Exe) /\ 1 \in 1..Len(q) /\ q[1] \in Exe
    BY <1>2 DEF WellFormed
  <2>2. m \in ToSwman /\ m.id = q[1].id /\ m.name = q[1].name
    BY <2>1 DEF Exe, ToSwman
  <2>3. Tell(m)
    BY <1>2 DEF RequestHead
  <2> HIDE DEF m
  <2>4. QED
    BY <2>1, <2>2, <2>3, Told DEF Requests
<1>3. QED
  BY <1>1, <1>2

\* an executable is dropped: the others stay, and the objects it was for are not queued any more
Dropped(i) ==
  /\ WellFormed(down_q', exeid)
  /\ \A k \in 1..Len(down_q') : \E l \in 1..Len(down_q) : l # i /\ down_q'[k] = down_q[l]
  /\ \A o : In(o, down_q') => In(o, down_q)
  /\ i # 0 => \A j \in 1..Len(down_q[i].objs) : ~In(down_q[i].objs[j], down_q')

\* removing an entry is a Dropped step
LEMMA Drop ==
  ASSUME WellFormed(down_q, exeid), NEW i \in 1..Len(down_q), down_q' = RemoveAt(down_q, i)
  PROVE  Dropped(i)
<1>1. i # 0
  BY DEF WellFormed
<1>2. QED
  BY <1>1, RemovalKeeps DEF Dropped

\* load_error removes the entry, and asks for nothing
LEMMA Reported ==
  ASSUME LTypeOK, WellFormed(down_q, exeid), NEW i, i = 0 \/ i \in 1..Len(down_q), load_error(i)
  PROVE  Dropped(i) /\ Requests(toSwman', toSwman, <<>>) /\ Losses
<1> DEFINE m == [cmd |-> "EXECERR", app |-> IF i = 0 THEN NoApp ELSE AppOf(Head(down_q[i].objs))]
<1>1. Tell(m) /\ down_q' = IF i = 0 THEN down_q ELSE RemoveAt(down_q, i)
  BY DEF load_error
<1>2. m \in ToSwman /\ m.cmd = "EXECERR"
  <2>1. CASE i = 0
    BY <2>1 DEF ToSwman
  <2>2. CASE i \in 1..Len(down_q)
    <3>1. down_q[i] \in Exe /\ down_q[i].objs # <<>> /\ i # 0
      BY <2>2 DEF WellFormed
    <3>2. down_q[i].objs \in Seq(Objects)
      BY <3>1 DEF Exe
    <3>3. Head(down_q[i].objs) \in Objects
      BY <3>1, <3>2
    <3>4. AppOf(Head(down_q[i].objs)) \in Apps
      BY <3>3, Belongs
    <3>5. QED
      BY <3>1, <3>4 DEF ToSwman
  <2>3. QED
    BY <2>1, <2>2
<1> HIDE DEF m
<1>3. Requests(toSwman', toSwman, <<>>) /\ Losses
  BY <1>1, <1>2, Told DEF Requests
<1>4. CASE i = 0
  BY <1>1, <1>3, <1>4 DEF Dropped, WellFormed
<1>5. CASE i \in 1..Len(down_q)
  <2>1. i # 0
    BY <1>5 DEF WellFormed
  <2>2. QED
    BY <1>1, <1>3, <1>5, <2>1, Drop
<1>6. QED
  BY <1>4, <1>5

\* the first message is taken: the others move up, and the stream is still one
LEMMA Taken ==
  ASSUME LTypeOK, toSwload # <<>>, toSwload' = Tail(toSwload)
  PROVE  /\ toSwload' \in Seq(ToSwload) /\ Len(toSwload') <= MaxQueue
         /\ Head(toSwload) = toSwload[1] /\ toSwload[1] \in ToSwload
         /\ Len(toSwload) \in Nat /\ Len(toSwload') = Len(toSwload) - 1
         /\ \A j \in 1..Len(toSwload') : toSwload'[j] = toSwload[j + 1]
         /\ toSwload' = <<>> <=> Len(toSwload) = 1
         /\ Losses => \A S : Stream(toSwload, S, lost) => Stream(toSwload', S, lost')
<1>1. /\ toSwload \in Seq(ToSwload) /\ Len(toSwload) <= MaxQueue /\ Len(toSwload) \in Nat
      /\ Len(toSwload) # 0 /\ MaxQueue \in Nat
  BY LoadAssumption DEF LTypeOK
<1>2. /\ toSwload' \in Seq(ToSwload) /\ Len(toSwload') = Len(toSwload) - 1
      /\ \A j \in 1..Len(toSwload') : toSwload'[j] = toSwload[j + 1]
  BY <1>1
<1>3. Head(toSwload) = toSwload[1] /\ toSwload[1] \in ToSwload /\ (toSwload' = <<>> <=> Len(toSwload) = 1)
  <2>1. Head(toSwload) = toSwload[1]
    OBVIOUS
  <2>2. toSwload[1] \in ToSwload
    BY <1>1
  <2>3. toSwload' = <<>> <=> Len(toSwload') = 0
    BY <1>2, EmptySeq
  <2>4. QED
    BY <1>1, <1>2, <2>1, <2>2, <2>3
<1>4. ASSUME Losses, NEW S, Stream(toSwload, S, lost)
      PROVE  Stream(toSwload', S, lost')
  <2> DEFINE L == toSwload'
             K == toSwload
  <2>1. /\ Len(K) \in Nat /\ Len(L) = Len(K) - 1 /\ Len(L) \in Nat
        /\ \A j \in 1..Len(L) : L[j] = K[j + 1] /\ j + 1 \in 1..Len(K)
        /\ L # <<>> => Len(L) # 0
    BY <1>1, <1>2
  <2>2. Stream(K, S, lost) /\ K # <<>> /\ lost \subseteq lost'
    BY <1>4 DEF Losses
  <2> HIDE DEF L, K
  <2>3. ASSUME NEW j \in 1..Len(L) - 1, Awaits(L[j], lost') PROVE Follows(L[j], L[j + 1])
    <3>1. j \in 1..Len(L) /\ j + 1 \in 1..Len(L) /\ j + 1 \in 1..Len(K) - 1
      BY <2>1
    <3>2. L[j] = K[j + 1] /\ L[j + 1] = K[(j + 1) + 1]
      BY <2>1, <3>1
    <3>3. Awaits(K[j + 1], lost)
      BY <2>2, <2>3, <3>2 DEF Awaits
    <3>4. Follows(K[j + 1], K[(j + 1) + 1])
      BY <2>2, <3>1, <3>3 DEF Stream
    <3>5. QED
      BY <3>2, <3>4
  <2>4. ASSUME L # <<>>, Awaits(L[Len(L)], lost') PROVE Newest(L[Len(L)], S)
    <3>1. L[Len(L)] = K[Len(K)]
      BY <2>1, <2>4
    <3>2. Awaits(K[Len(K)], lost)
      BY <2>2, <2>4, <3>1 DEF Awaits
    <3>3. QED
      BY <2>2, <3>1, <3>2 DEF Stream
  <2>5. \A j \in 1..Len(L) : L[j].cmd = "LOADEND" => L[j].checksum = SumTo(Packets)
    BY <2>1, <2>2 DEF Stream
  <2>6. Stream(L, S, lost')
    BY <2>3, <2>4, <2>5 DEF Stream
  <2>7. QED
    BY <2>6 DEF L
<1>5. QED
  BY <1>1, <1>2, <1>3, <1>4

\* a message is put in behind the others, or dropped
LEMMA Put ==
  ASSUME LTypeOK, NEW m \in ToSwload, Send(m)
  PROVE  /\ toSwload' \in Seq(ToSwload) /\ Len(toSwload') <= MaxQueue /\ Len(toSwload) \in Nat
         /\ Losses
         /\ \/ /\ Len(toSwload') = Len(toSwload) + 1 /\ toSwload'[Len(toSwload')] = m /\ toSwload' # <<>>
               /\ \A j \in 1..Len(toSwload) : toSwload'[j] = toSwload[j]
               /\ lost' = lost
            \/ toSwload' = toSwload /\ (m.cmd # "EXECERR" => m.id \in lost')
<1>1. toSwload \in Seq(ToSwload) /\ Len(toSwload) <= MaxQueue
  BY DEF LTypeOK
<1>2. m.cmd # "EXECERR" => m.id \in Nat
  BY DEF ToSwload
<1>3. toSwload' = Forwarded(toSwload, m) /\ lost' = Missed(toSwload, m)
  BY DEF Send
<1>4. QED
  BY <1>1, <1>2, <1>3, Passed

\* the stream goes on with the message, also if that is dropped
LEMMA StreamGoesOn ==
  ASSUME LTypeOK, NEW m \in ToSwload, Send(m), NEW S, NEW T, Stream(toSwload, S, lost),
         m.cmd \in {"LOADSTART", "LOADING"} => Newest(m, T),
         m.cmd = "LOADEND" => m.checksum = SumTo(Packets),
         toSwload # <<>> /\ Awaits(toSwload[Len(toSwload)], lost) =>
           m.cmd # "EXECERR" /\ m.id = toSwload[Len(toSwload)].id /\ Follows(toSwload[Len(toSwload)], m)
  PROVE  Stream(toSwload', T, lost')
<1> DEFINE L == toSwload'
           K == toSwload
<1>1. /\ Len(K) \in Nat /\ Losses
      /\ \/ /\ Len(L) = Len(K) + 1 /\ L[Len(L)] = m /\ \A j \in 1..Len(K) : L[j] = K[j]
            /\ lost' = lost
         \/ L = K /\ (m.cmd # "EXECERR" => m.id \in lost')
  BY Put
<1>2. /\ Stream(K, S, lost) /\ (K = <<>> => Len(K) = 0)
      /\ K # <<>> /\ Awaits(K[Len(K)], lost) =>
           m.cmd # "EXECERR" /\ m.id = K[Len(K)].id /\ Follows(K[Len(K)], m)
  OBVIOUS
<1> HIDE DEF L, K
<1>3. CASE Len(L) = Len(K) + 1 /\ L[Len(L)] = m /\ (\A j \in 1..Len(K) : L[j] = K[j]) /\ lost' = lost
  <2>1. ASSUME NEW j \in 1..Len(L) - 1, Awaits(L[j], lost) PROVE Follows(L[j], L[j + 1])
    <3>1. CASE j = Len(K)
      BY <1>1, <1>2, <1>3, <2>1, <3>1
    <3>2. CASE j # Len(K)
      <4>1. j \in 1..Len(K) - 1 /\ j \in 1..Len(K) /\ j + 1 \in 1..Len(K)
        BY <1>1, <1>3, <3>2
      <4>2. Follows(K[j], K[j + 1])
        BY <1>2, <1>3, <2>1, <4>1 DEF Stream
      <4>3. QED
        BY <1>3, <4>1, <4>2
    <3>3. QED
      BY <3>1, <3>2
  <2>2. \A j \in 1..Len(L) : L[j].cmd = "LOADEND" => L[j].checksum = SumTo(Packets)
    <3>1. \A j \in 1..Len(L) : j \in 1..Len(K) \/ j = Len(L)
      BY <1>1, <1>3
    <3>2. QED
      BY <1>2, <1>3, <3>1 DEF Stream
  <2>3. Awaits(L[Len(L)], lost) => Newest(L[Len(L)], T)
    BY <1>3 DEF Awaits
  <2>4. Stream(L, T, lost')
    BY <1>3, <2>1, <2>2, <2>3 DEF Stream
  <2>5. QED
    BY <2>4 DEF L
<1>4. CASE L = K /\ (m.cmd # "EXECERR" => m.id \in lost')
  <2>1. \A x : Awaits(x, lost') => Awaits(x, lost)
    BY <1>1 DEF Awaits, Losses
  <2>2. ~(K # <<>> /\ Awaits(K[Len(K)], lost'))
    BY <1>2, <1>4, <2>1 DEF Awaits
  <2>3. Stream(L, T, lost')
    BY <1>2, <1>4, <2>1, <2>2 DEF Stream
  <2>4. QED
    BY <2>3 DEF L
<1>5. QED
  BY <1>1, <1>3, <1>4

\* no executable of the new queue takes the id of another one
Inherited ==
  /\ exeid \in Nat /\ exeid' \in Nat /\ exeid <= exeid'
  /\ \A k \in 1..Len(down_q') :
       \/ down_q'[k].id >= exeid
       \/ \E l \in 1..Len(down_q) : down_q'[k].id = down_q[l].id /\ down_q'[k].name = down_q[l].name

\* an id that means an executable goes on meaning it
LEMMA StillNamed ==
  ASSUME Inherited, NEW id \in Nat, NEW name, Named(id, name, down_q, exeid)
  PROVE  Named(id, name, down_q', exeid')
<1>1. id < exeid' /\ id < exeid
  BY DEF Inherited, Named
<1>2. ASSUME NEW k \in 1..Len(down_q'), down_q'[k].id = id
      PROVE  down_q'[k].name = name
  <2>1. ~(down_q'[k].id >= exeid)
    BY <1>1, <1>2 DEF Inherited
  <2>2. PICK l \in 1..Len(down_q) : down_q'[k].id = down_q[l].id /\ down_q'[k].name = down_q[l].name
    BY <2>1 DEF Inherited
  <2>3. QED
    BY <1>2, <2>2 DEF Named
<1>3. QED
  BY <1>1, <1>2 DEF Named

\* an executable of the queue has the name its id means
LEMMA QueuedIsNamed ==
  ASSUME WellFormed(down_q, exeid), NEW k \in 1..Len(down_q)
  PROVE  Named(down_q[k].id, down_q[k].name, down_q, exeid)
BY DEF WellFormed, Named

\* as long as the queue inherits its entries, ids mean the same executable everywhere
LEMMA NamesKept ==
  ASSUME LTypeOK, Names, Inherited, WellFormed(down_q', exeid'),
         Requests(toSwman', toSwman, down_q') \/ Requests(toSwman', toSwman, <<>>),
         sending' = sending, toSwload' = toSwload \/ (toSwload # <<>> /\ toSwload' = Tail(toSwload))
  PROVE  Names'
<1>1. ASSUME NEW j \in 1..Len(toSwman'), toSwman'[j].cmd = "EXECREQ"
      PROVE  Named(toSwman'[j].id, toSwman'[j].name, down_q', exeid')
  <2>1. CASE \E k \in 1..Len(toSwman) : toSwman'[j] = toSwman[k]
    <3>1. PICK k \in 1..Len(toSwman) : toSwman'[j] = toSwman[k]
      BY <2>1
    <3>2. toSwman[k] \in ToSwman /\ toSwman[k].cmd = "EXECREQ"
      BY <1>1, <3>1 DEF LTypeOK
    <3>3. toSwman[k].id \in Nat
      BY <3>2 DEF ToSwman
    <3>4. Named(toSwman[k].id, toSwman[k].name, down_q, exeid)
      BY <3>2 DEF Names
    <3>5. Named(toSwman[k].id, toSwman[k].name, down_q', exeid')
      BY <3>3, <3>4, StillNamed DEF Named
    <3>6. QED
      BY <3>1, <3>5 DEF Named
  <2>2. CASE \E k \in 1..Len(down_q') : toSwman'[j].id = down_q'[k].id /\ toSwman'[j].name = down_q'[k].name
    BY <2>2 DEF WellFormed, Named
  <2>3. QED
    BY <1>1, <2>1, <2>2 DEF Requests
<1>2. ASSUME NEW s \in sending'
      PROVE  Named(s.id, s.name, down_q', exeid')
  <2>1. s \in sending /\ s.id \in Nat
    BY <1>2 DEF LTypeOK
  <2>2. Named(s.id, s.name, down_q, exeid)
    BY <2>1 DEF Names
  <2>3. QED
    BY <2>1, <2>2, StillNamed
<1>3. ASSUME NEW j \in 1..Len(toSwload'), toSwload'[j].cmd = "LOADING"
      PROVE  Named(toSwload'[j].id, toSwload'[j].data.name, down_q', exeid')
  <2>1. \E k \in 1..Len(toSwload) : toSwload'[j] = toSwload[k]
    <3>1. CASE toSwload' = toSwload
      BY <3>1
    <3>2. CASE toSwload # <<>> /\ toSwload' = Tail(toSwload)
      <4>1. /\ Len(toSwload) \in Nat /\ Len(toSwload') = Len(toSwload) - 1
            /\ \A i \in 1..Len(toSwload') : toSwload'[i] = toSwload[i + 1]
        BY <3>2, Taken
      <4>2. toSwload'[j] = toSwload[j + 1] /\ j + 1 \in 1..Len(toSwload)
        BY <4>1
      <4>3. QED
        BY <4>2
    <3>3. QED
      BY <3>1, <3>2
  <2>2. PICK k \in 1..Len(toSwload) : toSwload'[j] = toSwload[k]
    BY <2>1
  <2>3. toSwload[k] \in ToSwload /\ toSwload[k].cmd = "LOADING"
    BY <1>3, <2>2 DEF LTypeOK
  <2>4. toSwload[k].id \in Nat
    BY <2>3 DEF ToSwload
  <2>5. Named(toSwload[k].id, toSwload[k].data.name, down_q, exeid)
    BY <2>3 DEF Names
  <2>6. Named(toSwload[k].id, toSwload[k].data.name, down_q', exeid')
    BY <2>4, <2>5, StillNamed DEF Named
  <2>7. QED
    BY <2>2, <2>6 DEF Named
<1>4. QED
  BY <1>1, <1>2, <1>3 DEF Names

\* an executable that is being received is the one the next message is for, if none of its packets
\* was lost
LEMMA NextIsForIt ==
  ASSUME LTypeOK, WellFormed(down_q, exeid), Open, toSwload # <<>>,
         NEW k \in 1..Len(down_q), down_q[k].id \notin lost, ~Fresh(down_q[k])
  PROVE  /\ Filled(down_q[k], procBuff)
         /\ Continues(toSwload[1], down_q[k].id, down_q[k].name, down_q[k].rpm)
         /\ toSwload[1].cmd \in {"LOADING", "LOADEND"}
         /\ toSwload[1].id = down_q[k].id /\ FindId(toSwload[1].id) = k
<1>1. Filled(down_q[k], procBuff) /\ Continues(toSwload[1], down_q[k].id, down_q[k].name, down_q[k].rpm)
  BY DEF Open, Comes
<1>2. toSwload[1].cmd \in {"LOADING", "LOADEND"} /\ toSwload[1].id = down_q[k].id
  BY <1>1 DEF Continues
<1>3. FindId(toSwload[1].id) = k
  BY <1>2, FoundId DEF WellFormed
<1>4. QED
  BY <1>1, <1>2, <1>3

-----------------------------------------------------------------------------
(***************************************************************************)
(* The steps of SWLOAD.                                                    *)
(***************************************************************************)
LEMMA Initial == LInit => LInv
<1> SUFFICES ASSUME LInit PROVE LInv
  OBVIOUS
<1>1. LTypeOK
  <2>1. /\ down_q \in Seq(Exe) /\ toSwman \in Seq(ToSwman) /\ toSwload \in Seq(ToSwload)
        /\ Len(toSwman) <= MaxQueue /\ Len(toSwload) <= MaxQueue
    BY LoadAssumption DEF LInit
  <2>2. procBuff \in [1..Packets -> Piece \cup {NoPiece}]
    BY DEF LInit
  <2>3. QED
    BY <2>1, <2>2 DEF LInit, LTypeOK
<1>2. WellFormed(down_q, exeid)
  BY DEF LInit, WellFormed
<1>3. Once
  BY Belongs DEF LInit, Once, In
<1>4. Stream(toSwload, sending, lost)
  BY DEF LInit, Stream
<1>5. Names /\ Open
  BY DEF LInit, Names, Open
<1>6. QED
  BY <1>1, <1>2, <1>3, <1>4, <1>5 DEF LInv, Whole

\* a message is taken and an executable, or none, is dropped, after it was launched or not
LEMMA DropStep ==
  ASSUME LInv, toSwload # <<>>, toSwload' = Tail(toSwload),
         NEW i, i = 0 \/ i \in 1..Len(down_q), Dropped(i),
         Requests(toSwman', toSwman, down_q') \/ Requests(toSwman', toSwman, <<>>),
         launched' \in [Objects -> Nat],
         \A o \in Objects :
           \/ launched'[o] = launched[o]
           \/ /\ i # 0 /\ launched'[o] = launched[o] + 1
              /\ \E j \in 1..Len(down_q[i].objs) : down_q[i].objs[j] = o,
         Losses,
         "read" \notin env.failures =>
           \A k \in 1..Len(down_q) : k # i => down_q[k].id \in lost \/ Fresh(down_q[k]),
         UNCHANGED <<exeid, procBuff, sending, app, env>>
  PROVE  LInv'
<1>0. LTypeOK /\ WellFormed(down_q, exeid) /\ Once /\ Whole
  BY DEF LInv
<1>1. WellFormed(down_q', exeid')
  BY DEF Dropped
<1>2. LTypeOK'
  <2>1. down_q' \in Seq(Exe)
    BY <1>1 DEF WellFormed
  <2>2. toSwman' \in Seq(ToSwman) /\ Len(toSwman') <= MaxQueue
    BY DEF Requests
  <2>3. toSwload' \in Seq(ToSwload) /\ Len(toSwload') <= MaxQueue
    BY <1>0, Taken
  <2>4. QED
    BY <1>0, <2>1, <2>2, <2>3 DEF LTypeOK, Losses
<1>3. Once'
  <2>1. \A o : In(o, down_q') => In(o, down_q)
    BY DEF Dropped
  <2>2. ASSUME NEW o \in Objects
        PROVE  launched'[o] <= 1 /\ (In(o, down_q') => launched'[o] = 0)
    <3>1. CASE launched'[o] = launched[o]
      BY <1>0, <2>1, <3>1 DEF Once
    <3>2. CASE /\ i # 0 /\ launched'[o] = launched[o] + 1
               /\ \E j \in 1..Len(down_q[i].objs) : down_q[i].objs[j] = o
      <4>1. In(o, down_q)
        BY <3>2 DEF In
      <4>2. ~In(o, down_q')
        BY <3>2 DEF Dropped
      <4>3. launched[o] = 0
        BY <1>0, <4>1 DEF Once
      <4>4. QED
        BY <3>2, <4>2, <4>3
    <3>3. QED
      BY <3>1, <3>2
  <2>3. ASSUME NEW a \in Apps, app'[a] = "unloaded", NEW o \in ToSet(ObjsOf[a])
        PROVE  launched'[o] = 0 /\ ~In(o, down_q')
    <3>1. o \in Objects
      BY Belongs
    <3>2. launched[o] = 0 /\ ~In(o, down_q)
      BY <1>0, <2>3 DEF Once
    <3>3. ~(i # 0 /\ \E j \in 1..Len(down_q[i].objs) : down_q[i].objs[j] = o)
      BY <3>2 DEF In
    <3>4. QED
      BY <2>1, <3>1, <3>2, <3>3
  <2>4. QED
    BY <2>2, <2>3 DEF Once
<1>4. Whole'
  <2>1. SUFFICES ASSUME "read" \notin env'.failures
                 PROVE  Stream(toSwload, sending, lost)' /\ Names' /\ Open'
    BY DEF Whole
  <2>2. "read" \notin env.failures /\ Stream(toSwload, sending, lost) /\ Names /\ Open
    BY <1>0, <2>1 DEF Whole
  <2>3. Stream(toSwload', sending', lost')
    BY <1>0, <2>2, Taken
  <2>4. Inherited
    <3>1. exeid \in Nat /\ exeid' = exeid
      BY <1>0 DEF LTypeOK
    <3>2. ASSUME NEW k \in 1..Len(down_q')
          PROVE  \E l \in 1..Len(down_q) : down_q'[k].id = down_q[l].id /\ down_q'[k].name = down_q[l].name
      BY DEF Dropped
    <3>3. QED
      BY <3>1, <3>2 DEF Inherited
  <2>5. Names'
    BY <1>0, <1>1, <2>2, <2>4, NamesKept
  <2>6. \A k \in 1..Len(down_q') : down_q'[k].id \in lost' \/ Fresh(down_q'[k])
    BY <2>2 DEF Dropped, Losses
  <2>7. QED
    BY <2>3, <2>5, <2>6 DEF Open
<1>5. QED
  BY <1>1, <1>2, <1>3, <1>4 DEF LInv

\* a message is taken for an executable that is being received
LEMMA AdvanceStep ==
  ASSUME LInv, toSwload # <<>>, toSwload' = Tail(toSwload), NEW i \in 1..Len(down_q),
         down_q' \in Seq(Exe), Len(down_q') = Len(down_q),
         \A k \in 1..Len(down_q) : k # i => down_q'[k] = down_q[k],
         down_q'[i].id = down_q[i].id, down_q'[i].name = down_q[i].name,
         down_q'[i].objs = down_q[i].objs,
         procBuff' \in [1..Packets -> Piece \cup {NoPiece}],
         "read" \notin env.failures =>
           /\ \A k \in 1..Len(down_q) : k # i => down_q[k].id \in lost \/ Fresh(down_q[k])
           /\ down_q[i].id \notin lost => Filled(down_q'[i], procBuff') /\ Comes(down_q'[i], toSwload', sending),
         UNCHANGED <<exeid, launched, toSwman, lost, sending, app, env>>
  PROVE  LInv'
<1>0. LTypeOK /\ WellFormed(down_q, exeid) /\ Once /\ Whole
  BY DEF LInv
<1>1. \A k \in 1..Len(down_q') : /\ k \in 1..Len(down_q)
                                 /\ down_q'[k].id = down_q[k].id /\ down_q'[k].name = down_q[k].name
                                 /\ down_q'[k].objs = down_q[k].objs
  OBVIOUS
<1>2. WellFormed(down_q', exeid')
  <2>1. \A k \in 1..Len(down_q) :
           /\ down_q[k].id < exeid /\ down_q[k].objs # <<>>
           /\ \A l \in 1..Len(down_q[k].objs) : ExeOf[down_q[k].objs[l]] = down_q[k].name
    BY <1>0 DEF WellFormed
  <2>2. \A k, l \in 1..Len(down_q) : down_q[k].id = down_q[l].id \/ down_q[k].name = down_q[l].name => k = l
    BY <1>0 DEF WellFormed
  <2>3. \A k \in 1..Len(down_q') :
           /\ down_q'[k].id < exeid /\ down_q'[k].objs # <<>>
           /\ \A l \in 1..Len(down_q'[k].objs) : ExeOf[down_q'[k].objs[l]] = down_q'[k].name
    <3> SUFFICES ASSUME NEW k \in 1..Len(down_q')
                 PROVE  /\ down_q'[k].id < exeid /\ down_q'[k].objs # <<>>
                        /\ \A l \in 1..Len(down_q'[k].objs) : ExeOf[down_q'[k].objs[l]] = down_q'[k].name
      OBVIOUS
    <3>1. /\ k \in 1..Len(down_q) /\ down_q'[k].id = down_q[k].id /\ down_q'[k].name = down_q[k].name
          /\ down_q'[k].objs = down_q[k].objs
      BY <1>1
    <3>2. /\ down_q[k].id < exeid /\ down_q[k].objs # <<>>
          /\ \A l \in 1..Len(down_q[k].objs) : ExeOf[down_q[k].objs[l]] = down_q[k].name
      BY <2>1, <3>1
    <3> QED
      BY <3>1, <3>2
  <2>4. \A k, l \in 1..Len(down_q') : down_q'[k].id = down_q'[l].id \/ down_q'[k].name = down_q'[l].name => k = l
    BY <1>1, <2>2, Zenon
  <2> QED
    BY <2>3, <2>4 DEF WellFormed
<1>3. LTypeOK'
  <2>1. toSwload' \in Seq(ToSwload) /\ Len(toSwload') <= MaxQueue
    BY <1>0, Taken
  <2>2. QED
    BY <1>0, <2>1 DEF LTypeOK
<1>4. Once'
  <2>1. \A o : In(o, down_q') => In(o, down_q)
    BY <1>1 DEF In
  <2>2. QED
    BY <1>0, <2>1 DEF Once
<1>5. Whole'
  <2>1. SUFFICES ASSUME "read" \notin env'.failures
                 PROVE  Stream(toSwload, sending, lost)' /\ Names' /\ Open'
    BY DEF Whole
  <2>9. Losses
    BY <1>0 DEF LTypeOK, Losses
  <2>2. "read" \notin env.failures /\ Stream(toSwload, sending, lost) /\ Names /\ Open
    BY <1>0, <2>1 DEF Whole
  <2>3. Stream(toSwload', sending', lost')
    BY <1>0, <2>2, <2>9, Taken
  <2>4. Inherited
    <3>1. \A k \in 1..Len(down_q') : \E l \in 1..Len(down_q) :
             down_q'[k].id = down_q[l].id /\ down_q'[k].name = down_q[l].name
      BY <1>1, Zenon
    <3>2. exeid' = exeid /\ exeid \in Nat
      BY <1>0 DEF LTypeOK
    <3> QED
      BY <3>1, <3>2 DEF Inherited
  <2>5. Requests(toSwman', toSwman, <<>>)
    BY <1>0 DEF Requests, LTypeOK
  <2>6. Names'
    BY <1>0, <1>2, <2>2, <2>4, <2>5, NamesKept
  <2>7. ASSUME NEW k \in 1..Len(down_q')
        PROVE  \/ down_q'[k].id \in lost' \/ Fresh(down_q'[k])
               \/ Filled(down_q'[k], procBuff') /\ Comes(down_q'[k], toSwload', sending')
    BY <1>1, <2>2
  <2>8. QED
    BY <2>3, <2>6, <2>7 DEF Open
<1>6. QED
  BY <1>2, <1>3, <1>4, <1>5 DEF LInv

\* while a download starts or an error comes, none of which no packet was lost is being received
LEMMA NoneReceived ==
  ASSUME LInv, "read" \notin env.failures, toSwload # <<>>, toSwload[1].cmd \in {"LOADSTART", "EXECERR"}
  PROVE  \A k \in 1..Len(down_q) : down_q[k].id \in lost \/ Fresh(down_q[k])
BY NextIsForIt DEF LInv, Whole

\* and otherwise only the one that the message is for
LEMMA OneReceived ==
  ASSUME LInv, "read" \notin env.failures, toSwload # <<>>
  PROVE  \A k \in 1..Len(down_q) : k # FindId(toSwload[1].id) => down_q[k].id \in lost \/ Fresh(down_q[k])
BY NextIsForIt DEF LInv, Whole

\* SWLOAD takes a LOADSTART
LEMMA loadstartStep ==
  ASSUME LInv, swload_incmd_loadstart, UNCHANGED env
  PROVE  LInv'
<1> DEFINE m == toSwload[1]
           i == FindId(m.id)
<1>0. LTypeOK /\ WellFormed(down_q, exeid) /\ Whole
  BY DEF LInv
<1>1. /\ toSwload # <<>> /\ toSwload' = Tail(toSwload) /\ m.cmd = "LOADSTART"
      /\ UNCHANGED <<exeid, procBuff, launched, sending, app, env>>
      /\ Head(toSwload) = m
  BY <1>0, Taken DEF swload_incmd_loadstart, Received
<1>2. launched \in [Objects -> Nat]
  BY <1>0 DEF LTypeOK
<1>3. CASE i = 0
  <2>1. load_error(0)
    BY <1>1, <1>3 DEF swload_incmd_loadstart
  <2>2. Dropped(0) /\ Requests(toSwman', toSwman, <<>>) /\ Losses
    BY <1>0, <2>1, Reported
  <2>3. QED
    BY <1>1, <1>2, <2>2, NoneReceived, DropStep
<1>4. CASE i # 0
  <2> DEFINE e == down_q[i]
             f == [e EXCEPT !.data = TRUE, !.checksum = SumTo(0)]
  <2>1. i \in 1..Len(down_q) /\ e.id = m.id
    BY <1>4, FoundId
  <2>2. e \in Exe
    BY <1>0, <2>1 DEF LTypeOK
  <2>3. /\ down_q' = [down_q EXCEPT ![i].data = TRUE, ![i].checksum = SumTo(0)]
        /\ toSwman' = toSwman /\ lost' = lost
    BY <1>1, <1>4 DEF swload_incmd_loadstart
  <2>4. /\ f \in Exe /\ f.id = e.id /\ f.name = e.name /\ f.objs = e.objs
        /\ f.rpm = e.rpm /\ f.data /\ f.checksum = SumTo(0)
    <3>1. SumTo(0) \in Checksums
      BY SumFacts
    <3> HIDE DEF i, m, e
    <3>2. QED
      BY <2>2, <3>1 DEF Exe
  <2> HIDE DEF i, m, f
  <2>5. down_q \in Seq(Exe)
    BY <1>0 DEF LTypeOK
  <2>6. /\ down_q' \in Seq(Exe) /\ Len(down_q') = Len(down_q)
        /\ \A k \in 1..Len(down_q) : k # i => down_q'[k] = down_q[k]
        /\ down_q'[i] = f
    <3>1. down_q' = [down_q EXCEPT ![i] = f]
      BY <2>1, <2>3, <2>5 DEF f
    <3>2. QED
      BY <2>1, <2>4, <2>5, <3>1
  <2>7. ASSUME "read" \notin env.failures
        PROVE  \A k \in 1..Len(down_q) : down_q[k].id \in lost \/ Fresh(down_q[k])
    BY <1>1, <2>7, NoneReceived DEF m
  <2>12. ASSUME "read" \notin env.failures, down_q[i].id \notin lost
         PROVE  Filled(f, procBuff') /\ Comes(f, toSwload', sending)
    <3>1. Fresh(e) /\ m.id \notin lost
      BY <2>1, <2>7, <2>12
    <3>2. Filled(f, procBuff')
      BY <2>4, <3>1 DEF Fresh, Filled
    <3>3. Stream(toSwload, sending, lost) /\ Names
      BY <1>0, <2>12 DEF Whole
    <3>4. Packets \in Nat \ {0}
      BY LoadAssumption
    <3>5. /\ Len(toSwload) \in Nat /\ Len(toSwload') = Len(toSwload) - 1
          /\ \A j \in 1..Len(toSwload') : toSwload'[j] = toSwload[j + 1]
          /\ toSwload' = <<>> <=> Len(toSwload) = 1
          /\ toSwload' \in Seq(ToSwload)
      BY <1>0, <1>1, Taken
    <3>6. CASE toSwload' = <<>>
      <4>0. m = toSwload[Len(toSwload)] /\ Awaits(m, lost)
        BY <1>1, <3>1, <3>5, <3>6 DEF Awaits, m
      <4>1. Newest(m, sending)
        BY <1>1, <3>3, <4>0 DEF Stream
      <4>2. PICK s \in sending : s.id = m.id /\ s.sent = 0
        BY <1>1, <4>1 DEF Newest
      <4>3. s.name = e.name
        BY <2>1, <3>3, <4>2 DEF Names, Named
      <4>4. s \in [id : Nat, name : Exes, sent : 0..Packets]
        BY <1>0, <4>2 DEF LTypeOK
      <4>5. s = [id |-> f.id, name |-> f.name, sent |-> f.rpm]
        BY <2>1, <2>4, <3>1, <4>2, <4>3, <4>4 DEF Fresh
      <4>6. QED
        BY <3>1, <3>2, <3>6, <4>2, <4>5 DEF Comes
    <3>7. CASE toSwload' # <<>>
      <4> DEFINE x == toSwload[2]
      <4>1. Len(toSwload') # 0
        BY <3>5, <3>7, EmptySeq
      <4>2. 1 \in 1..Len(toSwload) - 1 /\ 2 \in 1..Len(toSwload) /\ toSwload'[1] = x
        BY <3>5, <4>1
      <4>10. Awaits(toSwload[1], lost) /\ toSwload[1] = m /\ toSwload[1 + 1] = x
        BY <1>1, <3>1 DEF Awaits, m
      <4>3. Follows(m, x)
        BY <3>3, <4>2, <4>10 DEF Stream
      <4>4. PICK name \in Exes : Continues(x, m.id, name, 0)
        BY <1>1, <4>3 DEF Follows
      <4>5. x = [cmd |-> "LOADING", id |-> m.id, data |-> [name |-> name, part |-> 0 + 1]]
        BY <3>4, <4>4 DEF Continues
      <4>6. Named(x.id, x.data.name, down_q, exeid)
        BY <3>3, <4>2, <4>5 DEF Names
      <4>7. name = e.name
        BY <2>1, <4>5, <4>6 DEF Named
      <4> HIDE DEF x
      <4>8. Continues(x, f.id, f.name, f.rpm)
        BY <2>1, <2>4, <3>1, <4>4, <4>7 DEF Fresh
      <4>9. QED
        BY <3>1, <3>2, <3>7, <4>2, <4>8 DEF Comes
    <3>8. QED
      BY <3>6, <3>7
  <2>8. procBuff' \in [1..Packets -> Piece \cup {NoPiece}]
    BY <1>0, <1>1 DEF LTypeOK
  <2>9. /\ down_q'[i].id = down_q[i].id /\ down_q'[i].name = down_q[i].name
        /\ down_q'[i].objs = down_q[i].objs
    BY <2>4, <2>6
  <2>10. "read" \notin env.failures =>
           /\ \A k \in 1..Len(down_q) : k # i => down_q[k].id \in lost \/ Fresh(down_q[k])
           /\ down_q[i].id \notin lost => Filled(down_q'[i], procBuff') /\ Comes(down_q'[i], toSwload', sending)
    BY <2>6, <2>7, <2>12
  <2> HIDE DEF e
  <2>11. QED
    BY <1>1, <2>1, <2>3, <2>6, <2>8, <2>9, <2>10, AdvanceStep
<1>5. QED
  BY <1>3, <1>4

\* SWLOAD takes a LOADING
LEMMA loadingStep ==
  ASSUME LInv, swload_incmd_loading, UNCHANGED env
  PROVE  LInv'
<1> DEFINE m == toSwload[1]
           i == FindId(m.id)
           e == down_q[i]
<1>0. LTypeOK /\ WellFormed(down_q, exeid) /\ Whole
  BY DEF LInv
<1>1. /\ toSwload # <<>> /\ toSwload' = Tail(toSwload) /\ m.cmd = "LOADING"
      /\ UNCHANGED <<exeid, launched, sending, app, env>>
      /\ Head(toSwload) = m /\ m \in ToSwload
  BY <1>0, Taken DEF swload_incmd_loading, Received
<1>2. launched \in [Objects -> Nat]
  BY <1>0 DEF LTypeOK
<1>3. i = 0 \/ (i \in 1..Len(down_q) /\ e.id = m.id)
  BY FoundId
<1>4. \/ load_error(i) /\ UNCHANGED procBuff
      \/ /\ i # 0 /\ e.data /\ UNCHANGED <<toSwman, lost>>
         /\ down_q' = IF e.rpm = Packets THEN down_q
                      ELSE [down_q EXCEPT ![i] = [e EXCEPT !.rpm = @ + 1, !.checksum[m.data.part] = @ + 1]]
         /\ procBuff' = IF e.rpm = Packets THEN procBuff
                        ELSE [procBuff EXCEPT ![e.rpm + 1] = m.data]
  BY <1>1 DEF swload_incmd_loading
<1>5. CASE load_error(i) /\ UNCHANGED procBuff
  <2>1. Dropped(i) /\ Requests(toSwman', toSwman, <<>>) /\ Losses
    BY <1>0, <1>3, <1>5, Reported
  <2>2. "read" \notin env.failures =>
           \A k \in 1..Len(down_q) : k # i => down_q[k].id \in lost \/ Fresh(down_q[k])
    BY <1>1, OneReceived
  <2> HIDE DEF i
  <2>3. QED
    BY <1>1, <1>2, <1>3, <1>5, <2>1, <2>2, DropStep
<1>6. CASE /\ i # 0 /\ e.data /\ UNCHANGED <<toSwman, lost>>
           /\ down_q' = IF e.rpm = Packets THEN down_q
                        ELSE [down_q EXCEPT ![i] = [e EXCEPT !.rpm = @ + 1, !.checksum[m.data.part] = @ + 1]]
           /\ procBuff' = IF e.rpm = Packets THEN procBuff
                          ELSE [procBuff EXCEPT ![e.rpm + 1] = m.data]
  <2>1. i \in 1..Len(down_q) /\ e.id = m.id /\ e.data /\ e = down_q[i]
    BY <1>3, <1>6
  <2>2. e \in Exe /\ down_q \in Seq(Exe) /\ Len(down_q) \in Nat
    BY <1>0, <2>1 DEF LTypeOK
  <2>3. Packets \in Nat \ {0}
    BY LoadAssumption
  <2>4. e.rpm \in 0..Packets /\ e.checksum \in Checksums
    BY <2>2 DEF Exe
  <2>5. procBuff \in [1..Packets -> Piece \cup {NoPiece}]
    BY <1>0 DEF LTypeOK
  <2>6. m.data \in Piece
    BY <1>1 DEF ToSwload
  \* the next packet of the image is the one that is due
  <2>7. ASSUME "read" \notin env.failures, e.id \notin lost
        PROVE  /\ e.rpm # Packets /\ e.checksum = SumTo(e.rpm)
               /\ \A k \in 1..e.rpm : procBuff[k] = [name |-> e.name, part |-> k]
               /\ m = [cmd |-> "LOADING", id |-> e.id, data |-> [name |-> e.name, part |-> e.rpm + 1]]
               /\ Stream(toSwload, sending, lost)
    <3>1. ~Fresh(e)
      BY <2>1 DEF Fresh
    <3>2. Filled(e, procBuff) /\ Continues(m, e.id, e.name, e.rpm)
      BY <1>0, <1>1, <2>1, <2>7, <3>1, NextIsForIt DEF Whole
    <3>3. e.rpm < Packets /\ m = [cmd |-> "LOADING", id |-> e.id, data |-> [name |-> e.name, part |-> e.rpm + 1]]
      BY <1>1, <3>2 DEF Continues
    <3>4. e.rpm # Packets
      BY <2>3, <2>4, <3>3
    <3>6. QED
      BY <1>0, <2>7, <3>2, <3>3, <3>4 DEF Filled, Whole
  <2>11. ASSUME "read" \notin env.failures
         PROVE  \A k \in 1..Len(down_q) : k # i => down_q[k].id \in lost \/ Fresh(down_q[k])
    BY <1>1, <2>11, OneReceived
  <2>8. CASE e.rpm = Packets
    <3>1. down_q' = down_q /\ procBuff' = procBuff /\ toSwman' = toSwman /\ lost' = lost
      BY <1>6, <2>8
    <3>0. "read" \in env.failures \/ down_q[i].id \in lost
      BY <2>7, <2>8
    <3> HIDE DEF i, e, m
    <3>2. QED
      BY <1>1, <2>1, <2>2, <2>5, <2>11, <3>0, <3>1, AdvanceStep
  <2>9. CASE e.rpm # Packets
    <3> DEFINE sum == [e.checksum EXCEPT ![m.data.part] = @ + 1]
               f == [e EXCEPT !.rpm = e.rpm + 1, !.checksum = sum]
    <3>1. e.rpm + 1 \in 1..Packets /\ e.rpm + 1 \in 0..Packets
      BY <2>3, <2>4, <2>9
    <3>11. sum \in Checksums
      <4>1. e.checksum \in Checksums /\ m.data.part \in 1..Packets
        BY <2>4, <2>6 DEF Piece
      <4> HIDE DEF e, m
      <4>2. QED
        BY <4>1, SumFacts
    <3>12. sum = [e.checksum EXCEPT ![m.data.part] = @ + 1]
      OBVIOUS
    <3> HIDE DEF sum
    <3>2. f \in Exe /\ f.id = e.id /\ f.name = e.name /\ f.objs = e.objs /\ f.data
          /\ f.rpm = e.rpm + 1 /\ f.checksum = sum
      BY <2>1, <2>2, <3>1, <3>11 DEF Exe
    <3>3. /\ UNCHANGED <<toSwman, lost>>
          /\ down_q' = [down_q EXCEPT ![i] = [e EXCEPT !.rpm = @ + 1, !.checksum[m.data.part] = @ + 1]]
          /\ procBuff' = [procBuff EXCEPT ![e.rpm + 1] = m.data]
      BY <1>6, <2>9
    <3> HIDE DEF i, m
    <3>4. down_q' = [down_q EXCEPT ![i] = f]
      BY <2>2, <3>3, <3>12
    <3> HIDE DEF e, f
    <3>5. /\ down_q' \in Seq(Exe) /\ Len(down_q') = Len(down_q)
          /\ \A k \in 1..Len(down_q) : k # i => down_q'[k] = down_q[k]
          /\ down_q'[i] = f
      BY <2>1, <2>2, <3>2, <3>4
    <3>6. /\ procBuff' \in [1..Packets -> Piece \cup {NoPiece}]
          /\ procBuff'[e.rpm + 1] = m.data
          /\ \A k \in 1..Packets : k # e.rpm + 1 => procBuff'[k] = procBuff[k]
      BY <2>5, <2>6, <3>1, <3>3
    <3>7. ASSUME "read" \notin env.failures, e.id \notin lost
          PROVE  Filled(f, procBuff') /\ Comes(f, toSwload', sending)
      <4>1. ASSUME NEW k \in 1..f.rpm PROVE procBuff'[k] = [name |-> f.name, part |-> k]
        <5>1. CASE k = e.rpm + 1
          BY <2>7, <3>2, <3>6, <3>7, <5>1
        <5>2. CASE k # e.rpm + 1
          <6>1. k \in 1..e.rpm /\ k \in 1..Packets
            BY <2>3, <2>4, <3>2, <5>2
          <6>2. QED
            BY <2>7, <3>2, <3>6, <3>7, <5>2, <6>1
        <5>3. QED
          BY <5>1, <5>2
      <4>8. f.checksum = SumTo(f.rpm)
        <5>1. e.checksum = SumTo(e.rpm) /\ m.data.part = e.rpm + 1
          BY <2>7, <3>7
        <5>2. e.rpm \in 0..Packets - 1
          BY <2>3, <3>1, <2>4
        <5>3. sum = [SumTo(e.rpm) EXCEPT ![e.rpm + 1] = @ + 1]
          BY <3>12, <5>1
        <5>4. QED
          BY <3>2, <5>2, <5>3, SumFacts
      <4>2. Filled(f, procBuff')
        BY <3>2, <4>1, <4>8 DEF Filled
      <4>3. /\ Len(toSwload) \in Nat /\ Len(toSwload') = Len(toSwload) - 1
            /\ \A j \in 1..Len(toSwload') : toSwload'[j] = toSwload[j + 1]
            /\ toSwload' = <<>> <=> Len(toSwload) = 1
            /\ toSwload' \in Seq(ToSwload)
        BY <1>0, <1>1, Taken
      <4>4. m.id = f.id /\ m.data.name = f.name /\ m.data.part = f.rpm
        BY <2>7, <3>2, <3>7
      <4>5. CASE toSwload' = <<>>
        <5>0. m = toSwload[Len(toSwload)] /\ Awaits(m, lost)
          BY <1>1, <3>2, <3>7, <4>3, <4>4, <4>5 DEF Awaits, m
        <5>1. Newest(m, sending)
          BY <1>1, <2>7, <3>7, <5>0 DEF Stream
        <5>2. [id |-> f.id, name |-> f.name, sent |-> f.rpm] \in sending
          BY <1>1, <4>4, <5>1 DEF Newest
        <5>3. QED
          BY <4>2, <4>5, <5>2 DEF Comes
      <4>6. CASE toSwload' # <<>>
        <5>1. Len(toSwload') # 0
          BY <4>3, <4>6, EmptySeq
        <5>2. 1 \in 1..Len(toSwload) - 1 /\ toSwload'[1] = toSwload[2]
          BY <4>3, <5>1
        <5>0. Awaits(toSwload[1], lost) /\ toSwload[1] = m /\ toSwload[1 + 1] = toSwload[2]
          BY <1>1, <3>2, <3>7, <4>4 DEF Awaits, m
        <5>3. Follows(m, toSwload[2])
          BY <2>7, <3>7, <5>0, <5>2 DEF Stream
        <5>4. Continues(toSwload[2], f.id, f.name, f.rpm)
          BY <1>1, <4>4, <5>3 DEF Follows
        <5>5. QED
          BY <4>2, <4>6, <5>2, <5>4 DEF Comes
      <4>7. QED
        BY <4>5, <4>6
    <3>8. /\ down_q'[i].id = down_q[i].id /\ down_q'[i].name = down_q[i].name
          /\ down_q'[i].objs = down_q[i].objs
      BY <2>1, <3>2, <3>5
    <3>9. "read" \notin env.failures =>
            /\ \A k \in 1..Len(down_q) : k # i => down_q[k].id \in lost \/ Fresh(down_q[k])
            /\ down_q[i].id \notin lost => Filled(down_q'[i], procBuff') /\ Comes(down_q'[i], toSwload', sending)
      BY <2>1, <2>11, <3>5, <3>7
    <3>10. QED
      BY <1>1, <2>1, <3>3, <3>5, <3>6, <3>8, <3>9, AdvanceStep
  <2>10. QED
    BY <2>8, <2>9
<1>7. QED
  BY <1>4, <1>5, <1>6

\* what swload_launchall has started, after n objects or all
LEMMA SomeLaunched ==
  ASSUME LTypeOK, NEW i \in 1..Len(down_q), NEW n \in 0..Len(down_q[i].objs),
         launched' = Launched(down_q[i], n)
  PROVE  /\ launched' \in [Objects -> Nat]
         /\ \A o \in Objects :
              \/ launched'[o] = launched[o]
              \/ /\ launched'[o] = launched[o] + 1
                 /\ \E j \in 1..Len(down_q[i].objs) : down_q[i].objs[j] = o
<1>1. down_q[i] \in Exe /\ launched \in [Objects -> Nat]
  BY DEF LTypeOK
<1>2. Len(down_q[i].objs) \in Nat
  BY <1>1 DEF Exe
<1>3. \A o \in Objects : launched'[o] = launched[o] + IF \E j \in 1..n : down_q[i].objs[j] = o THEN 1 ELSE 0
  BY DEF Launched
<1>4. \A j \in 1..n : j \in 1..Len(down_q[i].objs)
  BY <1>2
<1>5. DOMAIN launched' = Objects /\ launched' = [o \in Objects |-> launched'[o]]
  BY DEF Launched
<1>6. ASSUME NEW o \in Objects
      PROVE  \/ launched'[o] = launched[o]
             \/ /\ launched'[o] = launched[o] + 1
                /\ \E j \in 1..Len(down_q[i].objs) : down_q[i].objs[j] = o
  <2>1. CASE \E j \in 1..n : down_q[i].objs[j] = o
    BY <1>3, <1>4, <2>1
  <2>2. CASE ~\E j \in 1..n : down_q[i].objs[j] = o
    BY <1>1, <1>3, <2>2
  <2>3. QED
    BY <2>1, <2>2
<1>7. \A o \in Objects : launched'[o] \in Nat
  BY <1>1, <1>6
<1>8. QED
  BY <1>5, <1>6, <1>7

\* an executable is launched when as many packets have been counted as were sent
LoadEnd(m, i, n) ==
  /\ i # 0 /\ down_q[i].checksum = m.checksum
  /\ n \in 0..Len(down_q[i].objs) /\ launched' = Launched(down_q[i], n)

\* a LOADEND launches the objects that wait, or reports an error
LEMMA LaunchOrDrop ==
  ASSUME LInv, swload_incmd_loadend
  PROVE  LET m == toSwload[1]
             i == FindId(m.id)
         IN  /\ toSwload # <<>> /\ toSwload' = Tail(toSwload) /\ m.cmd = "LOADEND"
             /\ UNCHANGED <<exeid, procBuff, sending, app>>
             /\ UNCHANGED launched \/ \E n \in Nat : LoadEnd(m, i, n)
             /\ \/ load_error(i)
                \/ i # 0 /\ down_q' = RemoveAt(down_q, i) /\ RequestHead(down_q')
<1> DEFINE m == toSwload[1]
           i == FindId(m.id)
<1>0. LTypeOK /\ WellFormed(down_q, exeid)
  BY DEF LInv
<1>1. /\ toSwload # <<>> /\ toSwload' = Tail(toSwload) /\ m.cmd = "LOADEND"
      /\ UNCHANGED <<exeid, procBuff, sending, app>>
      /\ Head(toSwload) = m
  BY <1>0, Taken DEF swload_incmd_loadend, Received
<1>2. i # 0 => Len(down_q[i].objs) \in Nat
  <2>1. i # 0 => down_q[i] \in Exe
    BY <1>0, FoundId DEF LTypeOK
  <2>2. QED
    BY <2>1 DEF Exe
<1>3. CASE UNCHANGED launched /\ load_error(i)
  BY <1>1, <1>3
<1>4. CASE /\ i # 0 /\ down_q[i].checksum = m.checksum
           /\ \E n \in 0..Len(down_q[i].objs) - 1 : launched' = Launched(down_q[i], n)
           /\ load_error(i)
  <2>1. PICK n \in 0..Len(down_q[i].objs) - 1 : launched' = Launched(down_q[i], n)
    BY <1>4
  <2>2. n \in Nat /\ n \in 0..Len(down_q[i].objs)
    BY <1>2, <1>4, <2>1
  <2>3. LoadEnd(m, i, n)
    BY <1>4, <2>1, <2>2 DEF LoadEnd
  <2>4. QED
    BY <1>1, <1>4, <2>2, <2>3
<1>5. CASE /\ i # 0 /\ down_q[i].checksum = m.checksum
           /\ launched' = Launched(down_q[i], Len(down_q[i].objs))
           /\ load_error(i) \/ (down_q' = RemoveAt(down_q, i) /\ RequestHead(down_q'))
  <2>1. LoadEnd(m, i, Len(down_q[i].objs))
    BY <1>2, <1>5 DEF LoadEnd
  <2>2. QED
    BY <1>1, <1>2, <1>5, <2>1
<1>6. QED
  BY <1>1, <1>3, <1>4, <1>5 DEF swload_incmd_loadend

\* SWLOAD takes a LOADEND
LEMMA loadendStep ==
  ASSUME LInv, swload_incmd_loadend, UNCHANGED env
  PROVE  LInv'
<1> DEFINE m == toSwload[1]
           i == FindId(m.id)
<1>0. LTypeOK /\ WellFormed(down_q, exeid)
  BY DEF LInv
<1>1. /\ toSwload # <<>> /\ toSwload' = Tail(toSwload)
      /\ UNCHANGED <<exeid, procBuff, sending, app, env>>
      /\ UNCHANGED launched \/ \E n \in Nat : LoadEnd(m, i, n)
      /\ \/ load_error(i)
         \/ i # 0 /\ down_q' = RemoveAt(down_q, i) /\ RequestHead(down_q')
  BY LaunchOrDrop
<1>2. i = 0 \/ i \in 1..Len(down_q)
  BY FoundId
<1>3. "read" \notin env.failures =>
           \A k \in 1..Len(down_q) : k # i => down_q[k].id \in lost \/ Fresh(down_q[k])
  BY <1>1, OneReceived
<1> HIDE DEF i, m
<1>4. /\ launched' \in [Objects -> Nat]
      /\ \A o \in Objects :
           \/ launched'[o] = launched[o]
           \/ /\ i # 0 /\ launched'[o] = launched[o] + 1
              /\ \E j \in 1..Len(down_q[i].objs) : down_q[i].objs[j] = o
  <2>1. CASE UNCHANGED launched
    BY <1>0, <2>1 DEF LTypeOK
  <2>2. CASE \E n \in Nat : LoadEnd(m, i, n)
    BY <1>0, <1>2, <2>2, SomeLaunched DEF LoadEnd
  <2>3. QED
    BY <1>1, <2>1, <2>2
<1>5. /\ Dropped(i) /\ (Requests(toSwman', toSwman, down_q') \/ Requests(toSwman', toSwman, <<>>))
      /\ Losses
  <2>1. CASE load_error(i)
    BY <1>0, <1>2, <2>1, Reported
  <2>2. CASE i # 0 /\ down_q' = RemoveAt(down_q, i) /\ RequestHead(down_q')
    <3>1. Dropped(i)
      BY <1>0, <1>2, <2>2, Drop
    <3>2. WellFormed(down_q', exeid)
      BY <3>1 DEF Dropped
    <3>3. QED
      BY <1>0, <2>2, <3>1, <3>2, Requested
  <2>3. QED
    BY <1>1, <2>1, <2>2
<1>6. QED
  BY <1>1, <1>2, <1>3, <1>4, <1>5, DropStep

\* SWLOAD learns that SWMAN has no such executable
LEMMA execerrStep ==
  ASSUME LInv, swload_incmd_execerr, UNCHANGED env
  PROVE  LInv'
<1> DEFINE m == toSwload[1]
           i == FindName(down_q, m.name)
<1>0. LTypeOK /\ WellFormed(down_q, exeid)
  BY DEF LInv
<1>1. /\ toSwload # <<>> /\ toSwload' = Tail(toSwload) /\ m.cmd = "EXECERR"
      /\ UNCHANGED <<exeid, procBuff, launched, sending, app, env>>
      /\ Head(toSwload) = m
  BY <1>0, Taken DEF swload_incmd_execerr, Received
<1>2. i = 0 \/ i \in 1..Len(down_q)
  BY FoundName
<1>3. launched \in [Objects -> Nat]
  BY <1>0 DEF LTypeOK
<1>4. "read" \notin env.failures =>
           \A k \in 1..Len(down_q) : k # i => down_q[k].id \in lost \/ Fresh(down_q[k])
  BY <1>1, NoneReceived
<1>5. (i = 0 /\ UNCHANGED <<down_q, toSwman, lost>>) \/ (i # 0 /\ load_error(i))
  BY <1>1 DEF swload_incmd_execerr
<1> HIDE DEF i, m
<1>6. Dropped(i) /\ Requests(toSwman', toSwman, <<>>) /\ Losses
  <2>1. CASE i = 0 /\ UNCHANGED <<down_q, toSwman, lost>>
    <3>1. Dropped(i)
      BY <1>0, <2>1 DEF Dropped, WellFormed
    <3>2. Requests(toSwman', toSwman, <<>>) /\ Losses
      BY <1>0, <2>1 DEF Requests, LTypeOK, Losses
    <3>3. QED
      BY <3>1, <3>2
  <2>2. CASE i # 0 /\ load_error(i)
    BY <1>0, <1>2, <2>2, Reported
  <2>3. QED
    BY <1>5, <2>1, <2>2
<1>7. QED
  BY <1>1, <1>2, <1>3, <1>4, <1>6, DropStep

\* SWLOAD takes the objects of a waveform
LEMMA loadobjStep ==
  ASSUME LInv, NEW a \in Apps, swload_incmd_loadobj(a), UNCHANGED env
  PROVE  LInv'
<1> DEFINE s == Joined(ObjsOf[a])
<1>0. LTypeOK /\ WellFormed(down_q, exeid) /\ Once /\ Whole
  BY DEF LInv
<1>1. /\ app[a] = "unloaded" /\ app' = [app EXCEPT ![a] = "loading"]
      /\ down_q' = s.q /\ exeid' = s.id /\ RequestHead(s.q)
      /\ UNCHANGED <<procBuff, launched, toSwload, sending, env>>
  BY DEF swload_incmd_loadobj
<1>2. Grown(Base, s, ToSet(ObjsOf[a]))
  BY <1>0, AllJoin
<1> HIDE DEF s
<1>3. /\ exeid' \in Nat /\ exeid \in Nat /\ exeid <= exeid' /\ WellFormed(down_q', exeid')
      /\ \A k \in 1..Len(down_q') : \/ Fresh(down_q'[k]) /\ down_q'[k].id >= exeid
                                    \/ \E l \in 1..Len(down_q) : Same(down_q'[k], down_q[l])
      /\ \A o : In(o, down_q') => In(o, down_q) \/ o \in ToSet(ObjsOf[a])
  <2>1. Base.q = down_q /\ Base.id = exeid
    BY DEF Base
  <2>2. exeid \in Nat
    BY <1>0 DEF LTypeOK
  <2>3. QED
    BY <1>1, <1>2, <2>1, <2>2 DEF Grown
<1>4. Requests(toSwman', toSwman, down_q') /\ Losses
  <2>1. RequestHead(down_q')
    BY <1>1
  <2>2. QED
    BY <1>0, <1>3, <2>1, Requested
<1>5. LTypeOK'
  <2>1. down_q' \in Seq(Exe)
    BY <1>3 DEF WellFormed
  <2>2. toSwman' \in Seq(ToSwman) /\ Len(toSwman') <= MaxQueue
    BY <1>4 DEF Requests
  <2>3. app' \in [Apps -> {"unloaded", "loading", "failed"}]
    BY <1>0, <1>1 DEF LTypeOK
  <2>4. QED
    BY <1>0, <1>1, <1>3, <1>4, <2>1, <2>2, <2>3 DEF LTypeOK, Losses
<1>6. Once'
  <2>1. \A o \in ToSet(ObjsOf[a]) : launched[o] = 0
    BY <1>0, <1>1 DEF Once
  <2>2. \A o \in Objects : launched[o] <= 1 /\ (In(o, down_q) => launched[o] = 0)
    BY <1>0 DEF Once
  <2>3. ASSUME NEW b \in Apps, app'[b] = "unloaded", NEW o \in ToSet(ObjsOf[b])
        PROVE  launched[o] = 0 /\ ~In(o, down_q')
    <3>1. b # a /\ app[b] = "unloaded"
      BY <1>0, <1>1, <2>3 DEF LTypeOK
    <3>2. launched[o] = 0 /\ ~In(o, down_q)
      BY <1>0, <2>3, <3>1 DEF Once
    <3>3. o \notin ToSet(ObjsOf[a])
      BY <2>3, <3>1, Belongs
    <3>4. QED
      BY <1>3, <3>2, <3>3
  <2>4. QED
    BY <1>1, <1>3, <2>1, <2>2, <2>3 DEF Once
<1>7. Whole'
  <2>1. SUFFICES ASSUME "read" \notin env'.failures
                 PROVE  Stream(toSwload, sending, lost)' /\ Names' /\ Open'
    BY DEF Whole
  <2>2. Stream(toSwload, sending, lost) /\ Names /\ Open
    BY <1>0, <1>1, <2>1 DEF Whole
  <2>3. Inherited
    BY <1>3 DEF Inherited, Same
  <2>4. Names'
    BY <1>0, <1>1, <1>3, <1>4, <2>2, <2>3, NamesKept
  <2>5. ASSUME NEW k \in 1..Len(down_q')
        PROVE  \/ down_q'[k].id \in lost' \/ Fresh(down_q'[k])
               \/ Filled(down_q'[k], procBuff) /\ Comes(down_q'[k], toSwload, sending)
    <3>1. CASE Fresh(down_q'[k])
      BY <3>1
    <3>2. CASE \E l \in 1..Len(down_q) : Same(down_q'[k], down_q[l])
      <4>1. PICK l \in 1..Len(down_q) : Same(down_q'[k], down_q[l])
        BY <3>2
      <4>2. CASE Fresh(down_q[l])
        BY <4>1, <4>2 DEF Fresh, Same
      <4>3. CASE Filled(down_q[l], procBuff) /\ Comes(down_q[l], toSwload, sending)
        <5>1. Filled(down_q'[k], procBuff)
          BY <4>1, <4>3 DEF Filled, Same
        <5>2. Comes(down_q'[k], toSwload, sending)
          BY <4>1, <4>3 DEF Comes, Same
        <5>3. QED
          BY <5>1, <5>2
      <4>4. CASE down_q[l].id \in lost
        BY <1>4, <4>1, <4>4 DEF Losses, Same
      <4>5. QED
        BY <2>2, <4>2, <4>3, <4>4 DEF Open
    <3>3. QED
      BY <1>3, <3>1, <3>2
  <2>6. Stream(toSwload, sending, lost')
    <3>1. \A x : Awaits(x, lost') => Awaits(x, lost)
      BY <1>4 DEF Awaits, Losses
    <3>2. QED
      BY <2>2, <3>1 DEF Stream
  <2>7. QED
    BY <1>1, <2>4, <2>5, <2>6 DEF Open
<1>8. QED
  BY <1>3, <1>5, <1>6, <1>7 DEF LInv

-----------------------------------------------------------------------------
(***************************************************************************)
(* The steps of SWMAN.                                                     *)
(***************************************************************************)
\* SWMAN takes the first command of SWLOAD
LEMMA CommandTaken ==
  ASSUME LTypeOK, toSwman # <<>>, toSwman' = Tail(toSwman)
  PROVE  /\ toSwman' \in Seq(ToSwman) /\ Len(toSwman') <= MaxQueue
         /\ Head(toSwman) = toSwman[1] /\ toSwman[1] \in ToSwman /\ 1 \in 1..Len(toSwman)
         /\ \A j \in 1..Len(toSwman') : \E k \in 1..Len(toSwman) : toSwman'[j] = toSwman[k]
<1>1. toSwman \in Seq(ToSwman) /\ Len(toSwman) \in Nat /\ Len(toSwman) # 0
  BY DEF LTypeOK
<1>2. /\ toSwman' \in Seq(ToSwman) /\ Len(toSwman') = Len(toSwman) - 1
      /\ \A j \in 1..Len(toSwman') : toSwman'[j] = toSwman[j + 1]
  BY <1>1
<1>3. \A j \in 1..Len(toSwman') : j + 1 \in 1..Len(toSwman)
  BY <1>1, <1>2
<1>4. MaxQueue \in Nat /\ Len(toSwman) <= MaxQueue
  BY LoadAssumption DEF LTypeOK
<1>5. toSwman[1] \in ToSwman /\ Head(toSwman) = toSwman[1] /\ 1 \in 1..Len(toSwman)
  BY <1>1
<1>6. QED
  BY <1>1, <1>2, <1>3, <1>4, <1>5

\* a message that SWMAN puts in the stream: the queue of executables does not notice, except
\* that what comes next for the one that is being received must still come next
LEMMA SwmanStep ==
  ASSUME LInv, NEW m \in ToSwload, Send(m),
         toSwman' \in Seq(ToSwman), Len(toSwman') <= MaxQueue,
         \A j \in 1..Len(toSwman') : \E k \in 1..Len(toSwman) : toSwman'[j] = toSwman[k],
         sending' \in SUBSET [id : Nat, name : Exes, sent : 0..Packets],
         \A s, t \in sending' : s = t,
         "read" \notin env.failures =>
           /\ m.cmd \in {"LOADSTART", "LOADING"} => Newest(m, sending')
           /\ m.cmd = "LOADEND" => m.checksum = SumTo(Packets)
           /\ toSwload # <<>> /\ Awaits(toSwload[Len(toSwload)], lost) =>
                m.cmd # "EXECERR" /\ m.id = toSwload[Len(toSwload)].id /\ Follows(toSwload[Len(toSwload)], m)
           /\ m.cmd = "LOADING" => Named(m.id, m.data.name, down_q, exeid)
           /\ \A s \in sending' : Named(s.id, s.name, down_q, exeid)
           /\ \A e : [id |-> e.id, name |-> e.name, sent |-> e.rpm] \in sending =>
                       Continues(m, e.id, e.name, e.rpm),
         UNCHANGED <<swload, app, env>>
  PROVE  LInv'
<1>0. LTypeOK /\ WellFormed(down_q, exeid) /\ Once /\ Whole
  BY DEF LInv
<1>1. UNCHANGED <<down_q, exeid, procBuff, launched, app, env>>
  BY DEF swload
<1>2. /\ toSwload' \in Seq(ToSwload) /\ Len(toSwload') <= MaxQueue /\ Len(toSwload) \in Nat
      /\ Losses
      /\ \/ /\ Len(toSwload') = Len(toSwload) + 1 /\ toSwload'[Len(toSwload')] = m /\ toSwload' # <<>>
            /\ \A j \in 1..Len(toSwload) : toSwload'[j] = toSwload[j]
            /\ lost' = lost
         \/ toSwload' = toSwload /\ (m.cmd # "EXECERR" => m.id \in lost')
  BY <1>0, Put
<1>3. LTypeOK'
  BY <1>0, <1>1, <1>2 DEF LTypeOK, Losses
<1>4. WellFormed(down_q', exeid') /\ Once'
  BY <1>0, <1>1 DEF WellFormed, Once
<1>5. Whole'
  <2>1. SUFFICES ASSUME "read" \notin env'.failures
                 PROVE  Stream(toSwload, sending, lost)' /\ Names' /\ Open'
    BY DEF Whole
  <2>2. Stream(toSwload, sending, lost) /\ Names /\ Open /\ "read" \notin env.failures
    BY <1>0, <1>1, <2>1 DEF Whole
  <2>3. Stream(toSwload', sending', lost')
    BY <1>0, <2>2, StreamGoesOn
  <2>4. Names'
    <3>1. ASSUME NEW j \in 1..Len(toSwload'), toSwload'[j].cmd = "LOADING"
          PROVE  Named(toSwload'[j].id, toSwload'[j].data.name, down_q, exeid)
      <4>1. CASE j \in 1..Len(toSwload)
        BY <1>2, <2>2, <3>1, <4>1 DEF Names
      <4>2. CASE toSwload'[j] = m
        BY <2>2, <3>1, <4>2
      <4>3. QED
        BY <1>2, <4>1, <4>2
    <3>2. \A j \in 1..Len(toSwman') :
            toSwman'[j].cmd = "EXECREQ" => Named(toSwman'[j].id, toSwman'[j].name, down_q, exeid)
      BY <2>2 DEF Names
    <3>3. QED
      BY <1>1, <2>2, <3>1, <3>2 DEF Names
  <2>5. ASSUME NEW k \in 1..Len(down_q), down_q[k].id \notin lost', Comes(down_q[k], toSwload, sending)
        PROVE  Comes(down_q[k], toSwload', sending')
    <3>1. CASE toSwload # <<>>
      <4>1. Len(toSwload) # 0
        BY <1>0, <3>1, EmptySeq DEF LTypeOK
      <4>2. toSwload'[1] = toSwload[1] /\ toSwload' # <<>>
        BY <1>2, <3>1, <4>1
      <4>3. QED
        BY <2>5, <3>1, <4>2 DEF Comes
    <3>2. CASE toSwload = <<>>
      <4>1. Continues(m, down_q[k].id, down_q[k].name, down_q[k].rpm)
        BY <2>2, <2>5, <3>2 DEF Comes
      <4>2. m.cmd # "EXECERR" /\ m.id = down_q[k].id
        BY <4>1 DEF Continues
      <4>3. toSwload' # <<>> /\ toSwload'[1] = m
        BY <1>2, <2>5, <3>2, <4>2
      <4>4. QED
        BY <4>1, <4>3 DEF Comes
    <3>3. QED
      BY <3>1, <3>2
  <2>6. Open'
    <3>1. ASSUME NEW k \in 1..Len(down_q), down_q[k].id \notin lost', ~Fresh(down_q[k])
          PROVE  Filled(down_q[k], procBuff) /\ Comes(down_q[k], toSwload', sending')
      <4>1. down_q[k].id \notin lost
        BY <1>2, <3>1 DEF Losses
      <4>2. QED
        BY <2>2, <2>5, <3>1, <4>1 DEF Open
    <3>2. QED
      BY <1>1, <3>1 DEF Open
  <2>7. QED
    BY <2>3, <2>4, <2>6
<1>6. QED
  BY <1>3, <1>4, <1>5 DEF LInv

\* SWMAN takes a request for an executable
LEMMA ExecReqStep ==
  ASSUME LInv, ExecReq, UNCHANGED env
  PROVE  LInv'
<1> DEFINE r == toSwman[1]
<1>0. LTypeOK /\ Whole /\ Packets \in Nat \ {0}
  BY LoadAssumption DEF LInv
<1>1. /\ sending = {} /\ toSwman # <<>> /\ toSwman' = Tail(toSwman)
      /\ UNCHANGED <<swload, app, env>> /\ Head(toSwman) = r
      /\ r.cmd = "EXECREQ" /\ r \in ToSwman /\ 1 \in 1..Len(toSwman)
      /\ toSwman' \in Seq(ToSwman) /\ Len(toSwman') <= MaxQueue
      /\ \A j \in 1..Len(toSwman') : \E k \in 1..Len(toSwman) : toSwman'[j] = toSwman[k]
  BY <1>0, CommandTaken DEF ExecReq
<1>2. r.id \in Nat /\ r.name \in Exes
  BY <1>1 DEF ToSwman
<1>3. "read" \notin env.failures => Named(r.id, r.name, down_q, exeid)
  BY <1>0, <1>1 DEF Whole, Names
<1>4. "read" \notin env.failures => ~(toSwload # <<>> /\ Awaits(toSwload[Len(toSwload)], lost))
  <2>1. ASSUME "read" \notin env.failures, toSwload # <<>>, Awaits(toSwload[Len(toSwload)], lost)
        PROVE  FALSE
    <3>1. Newest(toSwload[Len(toSwload)], {})
      BY <1>0, <1>1, <2>1 DEF Whole, Stream
    <3>2. QED
      BY <3>1 DEF Newest
  <2>2. QED
    BY <2>1
<1>5. CASE Send([cmd |-> "EXECERR", name |-> r.name]) /\ UNCHANGED sending
  <2> DEFINE m == [cmd |-> "EXECERR", name |-> r.name]
  <2>1. m \in ToSwload /\ m.cmd = "EXECERR" /\ Send(m)
    BY <1>2, <1>5 DEF ToSwload
  <2> HIDE DEF m
  <2>2. sending' = {}
    BY <1>1, <1>5
  <2> HIDE DEF r
  <2>5. /\ m.cmd # "LOADEND" /\ m.cmd # "LOADSTART" /\ m.cmd # "LOADING"
        /\ sending' \in SUBSET [id : Nat, name : Exes, sent : 0..Packets]
        /\ \A s, t \in sending' : s = t
        /\ sending = {}
    BY <1>1, <2>1, <2>2
  <2>6. QED
    BY <1>1, <1>4, <2>1, <2>2, <2>5, SwmanStep
<1>6. CASE Send([cmd |-> "LOADSTART", id |-> r.id]) /\ sending' = {[id |-> r.id, name |-> r.name, sent |-> 0]}
  <2> DEFINE m == [cmd |-> "LOADSTART", id |-> r.id]
             s == [id |-> r.id, name |-> r.name, sent |-> 0]
  <2>1. m \in ToSwload /\ m.cmd = "LOADSTART" /\ m.id = r.id /\ Send(m)
    BY <1>2, <1>6 DEF ToSwload
  <2>2. /\ s \in [id : Nat, name : Exes, sent : 0..Packets]
        /\ s.id = r.id /\ s.name = r.name /\ s.sent = 0 /\ sending' = {s}
    BY <1>0, <1>2, <1>6
  <2> HIDE DEF m, s
  <2>3. Newest(m, sending')
    BY <2>1, <2>2 DEF Newest
  <2>4. "read" \notin env.failures => \A t \in sending' : Named(t.id, t.name, down_q, exeid)
    BY <1>3, <2>2
  <2> HIDE DEF r
  <2>6. /\ m.cmd # "LOADEND" /\ m.cmd # "LOADING"
        /\ sending' \in SUBSET [id : Nat, name : Exes, sent : 0..Packets]
        /\ \A u, v \in sending' : u = v
        /\ sending = {}
    BY <1>1, <2>1, <2>2
  <2>7. QED
    BY <1>1, <1>4, <2>1, <2>3, <2>4, <2>6, SwmanStep
<1>7. QED
  BY <1>1, <1>5, <1>6 DEF ExecReq

\* SWMAN sends the next packet of an image
LEMMA SendPartStep ==
  ASSUME LInv, SendPart, UNCHANGED env
  PROVE  LInv'
<1>0. LTypeOK /\ Whole /\ Packets \in Nat \ {0}
  BY LoadAssumption DEF LInv
<1>1. PICK s \in sending :
        \/ /\ s.sent < Packets
           /\ Send([cmd |-> "LOADING", id |-> s.id, data |-> [name |-> s.name, part |-> s.sent + 1]])
           /\ sending' = {[s EXCEPT !.sent = @ + 1]}
        \/ /\ s.sent < Packets /\ "read" \in env.failures
           /\ Send([cmd |-> "LOADEND", id |-> s.id, checksum |-> SumTo(s.sent)])
           /\ sending' = {}
        \/ /\ s.sent = Packets
           /\ Send([cmd |-> "LOADEND", id |-> s.id, checksum |-> SumTo(Packets)])
           /\ sending' = {}
  BY DEF SendPart
<1>2. UNCHANGED <<swload, toSwman, app, env>>
  BY DEF SendPart
<1>3. /\ toSwman' \in Seq(ToSwman) /\ Len(toSwman') <= MaxQueue
      /\ \A j \in 1..Len(toSwman') : \E k \in 1..Len(toSwman) : toSwman'[j] = toSwman[k]
  BY <1>0, <1>2 DEF LTypeOK
<1>4. /\ s \in [id : Nat, name : Exes, sent : 0..Packets] /\ sending = {s}
      /\ s.id \in Nat /\ s.name \in Exes /\ s.sent \in 0..Packets
      /\ s = [id |-> s.id, name |-> s.name, sent |-> s.sent]
  BY <1>0 DEF LTypeOK
<1>5. "read" \notin env.failures => Named(s.id, s.name, down_q, exeid)
  BY <1>0 DEF Whole, Names
\* what continues the download follows the message before
<1>6. ASSUME NEW m, Continues(m, s.id, s.name, s.sent), "read" \notin env.failures, toSwload # <<>>,
             Awaits(toSwload[Len(toSwload)], lost)
      PROVE  m.cmd # "EXECERR" /\ m.id = toSwload[Len(toSwload)].id /\ Follows(toSwload[Len(toSwload)], m)
  <2> DEFINE x == toSwload[Len(toSwload)]
  <2>1. Newest(x, {s})
    BY <1>0, <1>4, <1>6 DEF Whole, Stream
  <2>6. m.cmd # "EXECERR" /\ m.id = s.id
    BY <1>6 DEF Continues
  <2> HIDE DEF x
  <2>2. CASE x.cmd = "LOADSTART"
    <3>1. s.id = x.id /\ s.sent = 0
      BY <2>1, <2>2 DEF Newest
    <3>2. QED
      BY <1>4, <1>6, <2>2, <2>6, <3>1 DEF Follows, x
  <2>3. CASE x.cmd = "LOADING"
    <3>1. [id |-> x.id, name |-> x.data.name, sent |-> x.data.part] = s
      BY <2>1, <2>3 DEF Newest
    <3>2. x.id = s.id /\ x.data.name = s.name /\ x.data.part = s.sent
      BY <3>1
    <3>3. QED
      BY <1>6, <2>3, <2>6, <3>2 DEF Follows, x
  <2>4. CASE x.cmd # "LOADSTART" /\ x.cmd # "LOADING"
    BY <2>1, <2>4 DEF Newest
  <2>5. QED
    BY <2>2, <2>3, <2>4
<1>7. ASSUME NEW e, [id |-> e.id, name |-> e.name, sent |-> e.rpm] \in sending
      PROVE  e.id = s.id /\ e.name = s.name /\ e.rpm = s.sent
  <2>1. [id |-> e.id, name |-> e.name, sent |-> e.rpm] = s
    BY <1>4, <1>7
  <2>2. QED
    BY <2>1
<1>8. CASE /\ s.sent < Packets
           /\ Send([cmd |-> "LOADING", id |-> s.id, data |-> [name |-> s.name, part |-> s.sent + 1]])
           /\ sending' = {[s EXCEPT !.sent = @ + 1]}
  <2> DEFINE p == [name |-> s.name, part |-> s.sent + 1]
             m == [cmd |-> "LOADING", id |-> s.id, data |-> p]
             t == [s EXCEPT !.sent = @ + 1]
  <2>1. s.sent + 1 \in 1..Packets /\ s.sent + 1 \in 0..Packets
    BY <1>0, <1>4, <1>8
  <2>2. p \in Piece /\ p.name = s.name /\ p.part = s.sent + 1
    BY <1>4, <2>1 DEF Piece
  <2>3. /\ t \in [id : Nat, name : Exes, sent : 0..Packets] /\ sending' = {t}
        /\ t = [id |-> s.id, name |-> s.name, sent |-> s.sent + 1]
        /\ t.id = s.id /\ t.name = s.name
    BY <1>4, <1>8, <2>1
  <2>4. Continues(m, s.id, s.name, s.sent)
    BY <1>8 DEF Continues
  <2>5. Send(m)
    BY <1>8
  <2> HIDE DEF p, t
  <2>6. m \in ToSwload /\ m.cmd = "LOADING" /\ m.id = s.id /\ m.data = p
    BY <1>4, <2>2 DEF ToSwload
  <2> HIDE DEF m
  <2>7. Newest(m, sending')
    BY <2>2, <2>3, <2>6 DEF Newest
  <2>8. "read" \notin env.failures => /\ Named(m.id, m.data.name, down_q, exeid)
                                      /\ \A u \in sending' : Named(u.id, u.name, down_q, exeid)
    BY <1>5, <2>2, <2>3, <2>6
  <2>9. \A e : [id |-> e.id, name |-> e.name, sent |-> e.rpm] \in sending =>
                 Continues(m, e.id, e.name, e.rpm)
    BY <1>7, <2>4
  <2>10. sending' \in SUBSET [id : Nat, name : Exes, sent : 0..Packets] /\ \A u, v \in sending' : u = v
    BY <2>3
  <2>11. QED
    BY <1>2, <1>3, <1>6, <2>4, <2>5, <2>6, <2>7, <2>8, <2>9, <2>10, SwmanStep
<1>9. CASE /\ s.sent < Packets /\ "read" \in env.failures
           /\ Send([cmd |-> "LOADEND", id |-> s.id, checksum |-> SumTo(s.sent)])
           /\ sending' = {}
  <2> DEFINE m == [cmd |-> "LOADEND", id |-> s.id, checksum |-> SumTo(s.sent)]
  <2>1. m \in ToSwload /\ Send(m)
    BY <1>4, <1>9, SumFacts DEF ToSwload
  <2> HIDE DEF m
  <2>2. QED
    BY <1>2, <1>3, <1>9, <2>1, SwmanStep
<1>10. CASE /\ s.sent = Packets
            /\ Send([cmd |-> "LOADEND", id |-> s.id, checksum |-> SumTo(Packets)])
            /\ sending' = {}
  <2> DEFINE m == [cmd |-> "LOADEND", id |-> s.id, checksum |-> SumTo(Packets)]
  <2>1. m \in ToSwload /\ Send(m) /\ m.cmd = "LOADEND" /\ m.checksum = SumTo(Packets)
    BY <1>0, <1>4, <1>10, SumFacts DEF ToSwload
  <2>2. Continues(m, s.id, s.name, s.sent)
    BY <1>10 DEF Continues
  <2> HIDE DEF m
  <2>4. \A e : [id |-> e.id, name |-> e.name, sent |-> e.rpm] \in sending =>
                 Continues(m, e.id, e.name, e.rpm)
    BY <1>7, <2>2
  <2>5. QED
    BY <1>2, <1>3, <1>6, <1>10, <2>1, <2>2, <2>4, SwmanStep
<1>11. QED
  BY <1>1, <1>8, <1>9, <1>10

\* SWMAN learns of a load error
LEMMA apperrorStep ==
  ASSUME LInv, swman_incmd_apperror, UNCHANGED env
  PROVE  LInv'
<1>0. LTypeOK /\ WellFormed(down_q, exeid) /\ Once /\ Whole
  BY DEF LInv
<1>1. /\ toSwman # <<>> /\ toSwman' = Tail(toSwman)
      /\ app' = [a \in Apps |-> IF a = Head(toSwman).app THEN "failed" ELSE app[a]]
      /\ UNCHANGED <<down_q, exeid, procBuff, launched, toSwload, lost, sending, env>>
  BY DEF swman_incmd_apperror, swload
<1>2. /\ toSwman' \in Seq(ToSwman) /\ Len(toSwman') <= MaxQueue
      /\ \A j \in 1..Len(toSwman') : \E k \in 1..Len(toSwman) : toSwman'[j] = toSwman[k]
  BY <1>0, <1>1, CommandTaken
<1>3. LTypeOK'
  <2>1. app' \in [Apps -> {"unloaded", "loading", "failed"}]
    BY <1>0, <1>1 DEF LTypeOK
  <2>2. QED
    BY <1>0, <1>1, <1>2, <2>1 DEF LTypeOK
<1>4. Once'
  <2>1. \A a \in Apps : app'[a] = "unloaded" => app[a] = "unloaded"
    BY <1>1
  <2>2. QED
    BY <1>0, <1>1, <2>1 DEF Once
<1>5. Whole'
  <2>1. SUFFICES ASSUME "read" \notin env'.failures
                 PROVE  Stream(toSwload, sending, lost)' /\ Names' /\ Open'
    BY DEF Whole
  <2>2. Stream(toSwload, sending, lost) /\ Names /\ Open
    BY <1>0, <1>1, <2>1 DEF Whole
  <2>3. Names'
    BY <1>1, <1>2, <2>2 DEF Names
  <2>4. QED
    BY <1>1, <2>2, <2>3 DEF Open
<1>6. QED
  BY <1>0, <1>1, <1>3, <1>4, <1>5 DEF LInv, WellFormed

-----------------------------------------------------------------------------
\* every step keeps the invariant
LEMMA NextLInv == LInv /\ [LNext]_lvars => LInv'
<1> SUFFICES ASSUME LInv, [LNext]_lvars PROVE LInv'
  OBVIOUS
<1>1. CASE swload_incmd_loadstart /\ UNCHANGED env
  BY <1>1, loadstartStep
<1>2. CASE swload_incmd_loading /\ UNCHANGED env
  BY <1>2, loadingStep
<1>3. CASE swload_incmd_loadend /\ UNCHANGED env
  BY <1>3, loadendStep
<1>4. CASE swload_incmd_execerr /\ UNCHANGED env
  BY <1>4, execerrStep
<1>5. ASSUME NEW a \in Apps, swload_incmd_loadobj(a), UNCHANGED env
      PROVE  LInv'
  BY <1>5, loadobjStep
<1>6. CASE ExecReq /\ UNCHANGED env
  BY <1>6, ExecReqStep
<1>7. CASE SendPart /\ UNCHANGED env
  BY <1>7, SendPartStep
<1>8. CASE swman_incmd_apperror /\ UNCHANGED env
  BY <1>8, apperrorStep
<1>9. CASE UNCHANGED lvars
  BY <1>9 DEF lvars, swload, LInv, LTypeOK, WellFormed, Once, Whole, Names, Open
<1>10. QED
  BY <1>1, <1>2, <1>3, <1>4, <1>5, <1>6, <1>7, <1>8, <1>9 DEF LNext, Swload, Swman

\* The download queue, the reception buffer and the messages always have the form the code gives
\* them, and SWMAN sends one executable at a time.
THEOREM LTypeCorrect == LSpec => []LTypeOK
<1>1. LInv => LTypeOK
  BY DEF LInv
<1>2. QED
  BY <1>1, Initial, NextLInv, PTL DEF LSpec

\* No object is ever launched twice, however many waveforms and executables there are, whatever
\* comes between the requests and their answers, and whatever fails.
THEOREM LaunchedOnceEver == LSpec => []LaunchedOnce
<1>1. LInv => LaunchedOnce
  BY DEF LInv, Once, LaunchedOnce
<1>2. QED
  BY <1>1, Initial, NextLInv, PTL DEF LSpec

\* an object is launched by the end of a download, from a buffer that holds its whole image, unless
\* a packet of it was lost
LEMMA LaunchStep ==
  ASSUME LInv, LNext, NEW o \in Objects, launched'[o] # launched[o], "read" \notin env.failures,
         Head(toSwload).id \notin lost
  PROVE  HasImage(o)
<1> DEFINE m == toSwload[1]
           i == FindId(m.id)
           e == down_q[i]
<1>0. LTypeOK /\ WellFormed(down_q, exeid) /\ Stream(toSwload, sending, lost) /\ Open
  BY DEF LInv, Whole
<1>1. swload_incmd_loadend
  BY DEF LNext, Swload, Swman, swload_incmd_loadstart, swload_incmd_loading, swload_incmd_execerr,
         swload_incmd_loadobj, ExecReq, SendPart, swman_incmd_apperror, swload
<1>2. toSwload # <<>> /\ m.cmd = "LOADEND" /\ (UNCHANGED launched \/ \E n \in Nat : LoadEnd(m, i, n))
  BY <1>1, LaunchOrDrop
<1>3. PICK n \in Nat : LoadEnd(m, i, n)
  BY <1>2
<1>4. i \in 1..Len(down_q)
  BY <1>3, FoundId DEF LoadEnd
<1>5. e \in Exe
  BY <1>0, <1>4 DEF LTypeOK
<1>6. Len(e.objs) \in Nat /\ Packets \in Nat \ {0}
  BY <1>5, LoadAssumption DEF Exe
<1>7. e.checksum = SumTo(Packets)
  <2>1. 1 \in 1..Len(toSwload)
    BY <1>0, <1>2 DEF LTypeOK
  <2>2. m.checksum = SumTo(Packets)
    BY <1>0, <1>2, <2>1 DEF Stream
  <2>3. QED
    BY <1>3, <2>2 DEF LoadEnd
<1>8. ~Fresh(e)
  BY <1>7, SumFacts DEF Fresh
<1>12. e.id \notin lost
  <2>1. Head(toSwload) = m
    BY <1>0, <1>2, Taken
  <2>2. e.id = m.id
    BY <1>4, FoundId DEF WellFormed
  <2>3. QED
    BY <2>1, <2>2
<1>9. Filled(e, procBuff) /\ e.rpm = Packets
  <2>1. Filled(e, procBuff)
    BY <1>0, <1>2, <1>4, <1>8, <1>12, NextIsForIt
  <2>2. e.rpm \in 0..Packets /\ SumTo(e.rpm) = SumTo(Packets)
    BY <1>5, <1>7, <2>1 DEF Filled, Exe
  <2>3. QED
    BY <2>1, <2>2, SumFacts
<1>10. ExeOf[o] = e.name
  <2>1. \E j \in 1..n : e.objs[j] = o
    <3>1. launched'[o] = launched[o] + IF \E j \in 1..n : e.objs[j] = o THEN 1 ELSE 0
      BY <1>3 DEF LoadEnd, Launched
    <3>2. launched[o] \in Nat
      BY <1>0 DEF LTypeOK
    <3>3. QED
      BY <3>1, <3>2
  <2>2. n \in 0..Len(e.objs)
    BY <1>3 DEF LoadEnd
  <2>3. PICK j \in 1..n : e.objs[j] = o
    BY <2>1
  <2>4. j \in 1..Len(e.objs)
    BY <1>6, <2>2
  <2>5. QED
    BY <1>0, <1>4, <2>3, <2>4 DEF WellFormed
<1>11. QED
  BY <1>9, <1>10 DEF Filled, HasImage

\* Every process is started from the whole image of its own executable, as long as SWMAN can read
\* what it sends and no packet of this executable was lost: no other download has written in the
\* buffer in between, whatever was lost of that one.
THEOREM Intact == LSpec => LaunchedIsComplete
<1>1. ASSUME LInv, [LNext]_lvars
      PROVE  [\A o \in Objects :
                launched'[o] # launched[o] /\ "read" \notin env.failures /\ Head(toSwload).id \notin lost
                  => HasImage(o)]_lvars
  BY <1>1, LaunchStep
<1>2. QED
  BY <1>1, Initial, NextLInv, PTL DEF LSpec, LaunchedIsComplete

-----------------------------------------------------------------------------
(***************************************************************************)
(* Synchronisation: what is assumed of the constants, and what is under    *)
(* way.                                                                    *)
(***************************************************************************)
\* the packets of a slot arrive before the slot after the next (continuous master)
Near == \A s \in Setups : s.mode = "continuous" => s.delay < 2 * SlotLen

\* what the agreement of the slots rests on besides: slots do not span two of the master's seconds, and a
\* continuous master has one client
Regular ==
  /\ \E m \in Nat : Second = m * SlotLen
  /\ \A s \in Setups : s.mode = "continuous" => s.tasks <= 1

\* on request: one packet at a time, for a request that has not been acknowledged
OneRequest ==
  ~Continuous =>
    /\ dac = 0 /\ Len(net) <= 1
    /\ net # <<>> => ~ack /\ writing = 0
    /\ writing > 0 => ~ack
    /\ \A n \in 1..Len(net) : net[n].next_ts <= Second + SlotLen

\* continuous: first k packets of the slot before, then those of this slot
Waves(k) ==
  /\ k <= Len(net) /\ Len(net) - k <= setup.tasks /\ dac + Len(net) <= 2 * setup.tasks
  /\ \A n \in 1..Len(net) :
       net[n].to = "slave" /\ net[n].age = IF n <= k THEN phase + SlotLen ELSE phase
Steady ==
  Continuous =>
    /\ writing = 0 /\ ~signalled /\ next_ts = 0
    /\ \E k \in 0..setup.tasks : Waves(k)

TypeInv == STypeOK /\ OneRequest /\ Steady

-----------------------------------------------------------------------------
\* a slot number waits to be taken over
Pending == new_tstamp # NoStamp
\* the time by which the slave's slots are ahead of the master's, and by which the slot that the slave
\* will take over is
Lead    == ahead * SlotLen + elapsed - phase
ToCome  == new_tstamp * SlotLen - phase

\* the slots of the slave are full but for one after an answer
Travelling ==
  net # <<>> =>
    /\ ~Pending /\ next_ts = 0 /\ ~signalled
    /\ elapsed + timer = SlotLen /\ rtt = cnt * SlotLen + elapsed
    /\ net[1].to = "master" => net[1].age = rtt
    /\ net[1].to = "slave" =>
         /\ net[1].age <= rtt /\ rtt <= net[1].age + setup.delay
         /\ net[1].next_ts \in 1..SlotLen
         /\ net[1].stamp * SlotLen - phase = net[1].next_ts - net[1].age
AtRequest ==
  signalled =>
    /\ ~Pending /\ next_ts = 0 /\ writing = 0 /\ net = <<>>
    /\ elapsed = 0 /\ timer = SlotLen /\ cnt = 0
Answered ==
  writing > 0 =>
    /\ next_ts = 0 /\ elapsed + timer = SlotLen /\ writing <= SlotLen
    /\ cnt < Period - 1 /\ (timer = 0 => cnt + 1 < Period - 1)
    /\ IF Pending THEN ToCome <= SlotLen /\ ToCome >= 2 * writing - SlotLen - 1
                  ELSE timer > 0 /\ (synced => Lead <= 2 * SlotLen + writing)
ToShorten ==
  next_ts > 0 =>
    /\ writing = 0 /\ elapsed + timer = SlotLen /\ next_ts <= SlotLen /\ cnt < Period - 1
    /\ IF Pending THEN ToCome <= SlotLen /\ ToCome - timer >= 2 * next_ts - 2 * SlotLen - 1
                  ELSE synced => Lead <= 2 * SlotLen + next_ts
ToTake ==
  Pending /\ writing = 0 /\ next_ts = 0 => ToCome <= SlotLen /\ ToCome - timer >= -2 * SlotLen
Agreed ==
  synced =>
    /\ Lead >= -SlotLen /\ Lead <= 3 * SlotLen
    /\ ~Pending => Lead - elapsed - timer <= 2 * SlotLen
\* the master's slots are whole slots of its second
WholeSlots == \E k \in Nat : usec = k * SlotLen
OnRequest ==
  /\ elapsed + timer <= SlotLen /\ (Pending => new_tstamp <= 1)
  /\ WholeSlots /\ Travelling /\ AtRequest /\ Answered /\ ToShorten /\ ToTake /\ Agreed

\* a continuous master: one packet a slot, numbered by its slot
Driven ==
  /\ \A n \in 1..Len(net) : net[n].stamp = n - Len(net)
  /\ Pending => dac > 0 /\ new_tstamp <= 0 /\ (Calm => new_tstamp >= -Len(net))
  /\ ~Pending => dac <= 1
  /\ synced => /\ setup.tasks > 0 /\ ahead <= 2 /\ (~Pending /\ dac = 1 => ahead <= 1)
               /\ Calm => ahead >= 1 - Len(net) - (IF Pending THEN dac ELSE 0)
SyncInv ==
  /\ TypeInv
  /\ Regular /\ ~Continuous /\ Prompt => OnRequest
  /\ Regular /\ Continuous => Driven

-----------------------------------------------------------------------------
Packet(s) == [to : {"master", "slave"}, age : 0..s.delay, next_ts : Int, stamp : Int]

\* what an environment and the lengths are
LEMMA SetupFacts ==
  ASSUME setup \in Setups
  PROVE  /\ setup.mode \in {"request", "continuous"} /\ setup.delay \in Nat /\ setup.tasks \in Nat
         /\ setup.lost \in BOOLEAN
         /\ SlotLen \in Nat /\ SlotLen > 0 /\ Second \in Nat /\ Second >= SlotLen
         /\ Period \in Nat /\ Period > 0 /\ Limit \in Nat
<1>1. setup \in [mode : {"request", "continuous"}, delay : Nat, lost : BOOLEAN, tasks : Nat]
  BY SyncAssumption
<1> QED
  BY <1>1, SyncAssumption

\* nothing is under way in the beginning
LEMMA TypeInit == SInit /\ Near => TypeInv
<1> SUFFICES ASSUME SInit, Near PROVE TypeInv
  OBVIOUS
<1>1. setup \in Setups
  BY DEF SInit
<1>2. STypeOK
  <2>1. ahead \in Int
    BY SyncAssumption DEF SInit
  <2>2. net \in Seq(Packet(setup)) /\ Len(net) = 0
    BY DEF SInit
  <2>3. /\ SlotLen \in Nat /\ SlotLen > 0 /\ Second \in Nat /\ Second >= SlotLen
        /\ setup.tasks \in Nat /\ Period \in Nat /\ Period > 0
    BY <1>1, SetupFacts
  <2>4. /\ usec \in 0..Second - 1 /\ phase \in 0..SlotLen - 1 /\ timer \in 0..Second + SlotLen
        /\ dac \in 0..2 * setup.tasks /\ next_ts \in 0..Second + SlotLen /\ cnt \in 0..Period - 1
        /\ Len(net) <= 2 * setup.tasks + 1
    BY <2>3, <2>2 DEF SInit
  <2>5. new_tstamp \in Int /\ elapsed \in Nat /\ rtt \in Int /\ writing \in {0} \cup 1..Second + SlotLen
    BY DEF SInit, NoStamp
  <2>6. signalled \in BOOLEAN /\ ack \in BOOLEAN /\ synced \in BOOLEAN
    BY DEF SInit
  <2> QED
    BY <1>1, <2>1, <2>2, <2>4, <2>5, <2>6 DEF STypeOK, Packet
<1>3. OneRequest
  BY DEF SInit, OneRequest
<1>4. Steady
  <2>1. 0 \in 0..setup.tasks
    BY <1>1, SetupFacts
  <2>2. Waves(0)
    BY <1>1, SetupFacts DEF SInit, Waves
  <2> QED
    BY <2>1, <2>2 DEF SInit, Steady
<1> QED
  BY <1>2, <1>3, <1>4 DEF TypeInv

\* as time passes the packets of a continuous master age in step, and those of a slot have arrived
\* when the slot after the next begins
LEMMA TickType ==
  ASSUME TypeInv, Near, Tick
  PROVE  TypeInv'
<1>1. setup \in Setups /\ setup' = setup
  BY DEF TypeInv, STypeOK, Tick
<1>2. net \in Seq(Packet(setup)) /\ phase \in 0..SlotLen - 1 /\ Len(net) \in Nat
  BY DEF TypeInv, STypeOK, Packet
<1>c. /\ SlotLen \in Nat /\ SlotLen > 0 /\ Second \in Nat /\ Second >= SlotLen
      /\ setup.tasks \in Nat /\ setup.delay \in Nat
  BY <1>1, SetupFacts
<1> DEFINE old == [i \in 1..Len(net) |-> Later(net[i])]
<1>3. /\ old \in Seq(Packet(setup)) /\ Len(old) = Len(net)
      /\ \A i \in 1..Len(net) : /\ old[i].to = net[i].to /\ old[i].age = net[i].age + 1
                                /\ old[i].next_ts = net[i].next_ts
                                /\ old[i].stamp = IF MasterSlot THEN net[i].stamp - 1 ELSE net[i].stamp
  <2>1. \A i \in 1..Len(net) :
           /\ Later(net[i]) \in Packet(setup)
           /\ Later(net[i]).to = net[i].to /\ Later(net[i]).age = net[i].age + 1
           /\ Later(net[i]).next_ts = net[i].next_ts
           /\ Later(net[i]).stamp = IF MasterSlot THEN net[i].stamp - 1 ELSE net[i].stamp
    <3> SUFFICES ASSUME NEW i \in 1..Len(net)
                 PROVE  /\ Later(net[i]) \in Packet(setup)
                        /\ Later(net[i]).to = net[i].to /\ Later(net[i]).age = net[i].age + 1
                        /\ Later(net[i]).next_ts = net[i].next_ts
                        /\ Later(net[i]).stamp = IF MasterSlot THEN net[i].stamp - 1 ELSE net[i].stamp
      OBVIOUS
    <3>1. net[i] \in Packet(setup) /\ net[i].age < setup.delay
      BY <1>2 DEF Tick
    <3>2. PICK g \in {"master", "slave"}, a \in 0..setup.delay, x \in Int, s \in Int :
            net[i] = [to |-> g, age |-> a, next_ts |-> x, stamp |-> s]
      BY <3>1 DEF Packet
    <3>3. Later(net[i]) = [to |-> g, age |-> a + 1, next_ts |-> x, stamp |-> IF MasterSlot THEN s - 1 ELSE s]
      BY <3>2 DEF Later
    <3>4. a + 1 \in 0..setup.delay
      BY <3>1, <3>2, <1>c
    <3> QED
      BY <3>2, <3>3, <3>4 DEF Packet
  <2> QED
    BY <2>1, <1>2
<1>4. /\ net' = old \o continuous_sync /\ continuous_sync \in Seq(Packet(setup))
      /\ Len(continuous_sync) = IF Continuous /\ MasterSlot THEN setup.tasks ELSE 0
      /\ \A i \in 1..Len(continuous_sync) : continuous_sync[i] = [to |-> "slave", age |-> 0, next_ts |-> 0, stamp |-> 0]
  <2> DEFINE fresh == [to |-> "slave", age |-> 0, next_ts |-> 0, stamp |-> 0]
  <2>1. fresh \in Packet(setup)
    BY <1>c DEF Packet
  <2> HIDE DEF fresh
  <2>2. continuous_sync = IF Continuous /\ MasterSlot THEN [i \in 1..setup.tasks |-> fresh] ELSE <<>>
    BY DEF continuous_sync, fresh
  <2>3. net' = old \o continuous_sync
    BY DEF Tick
  <2>4. CASE Continuous /\ MasterSlot
    <3>1. continuous_sync \in [1..setup.tasks -> Packet(setup)]
      BY <2>1, <2>2, <2>4
    <3>2. continuous_sync \in Seq(Packet(setup)) /\ Len(continuous_sync) = setup.tasks
      BY <3>1, <1>c, LenProperties, SeqDef
    <3>3. \A i \in 1..Len(continuous_sync) : continuous_sync[i] = fresh
      BY <3>2, <2>2, <2>4
    <3> QED
      BY <2>3, <2>4, <3>2, <3>3 DEF fresh
  <2>5. CASE ~(Continuous /\ MasterSlot)
    BY <2>2, <2>3, <2>5
  <2> QED
    BY <2>4, <2>5
<1> HIDE DEF old
<1>5. /\ net' \in Seq(Packet(setup)) /\ Len(net') = Len(net) + Len(continuous_sync)
      /\ \A i \in 1..Len(net) : net'[i] = old[i]
      /\ \A i \in Len(net) + 1..Len(net') : net'[i] = [to |-> "slave", age |-> 0, next_ts |-> 0, stamp |-> 0]
  BY <1>2, <1>3, <1>4
<1>6. OneRequest'
  <2> SUFFICES ASSUME ~Continuous' PROVE OneRequest'
    BY DEF OneRequest
  <2>1. ~Continuous
    BY <1>1 DEF Continuous
  <2>2. Len(net') = Len(net) /\ \A i \in 1..Len(net) : net'[i].next_ts = net[i].next_ts
    BY <1>2, <1>3, <1>4, <1>5, <2>1
  <2>3. net' # <<>> => net # <<>>
    BY <1>2, <1>5, <2>2
  <2> QED
    BY <2>1, <2>2, <2>3 DEF OneRequest, Tick, TypeInv
<1>7. Steady'
  <2> SUFFICES ASSUME Continuous' PROVE Steady'
    BY DEF Steady
  <2>1. Continuous /\ dac = 0 /\ dac' = 0 /\ setup.delay < 2 * SlotLen
    BY <1>1 DEF Continuous, Tick, Near
  <2>2. writing' = 0 /\ ~signalled' /\ next_ts' = 0
    BY <2>1 DEF Tick, Steady, TypeInv
  <2>3. PICK k \in 0..setup.tasks : Waves(k)
    BY <2>1 DEF TypeInv, Steady
  <2>4. CASE MasterSlot
    <3>1. k = 0
      <4> SUFFICES ASSUME k > 0 PROVE FALSE
        BY <1>1, SetupFacts
      <4>1. 1 \in 1..Len(net) /\ net[1].age = phase + SlotLen
        BY <2>3, <1>1, <1>2, <1>c DEF Waves
      <4>2. net[1].age < setup.delay
        BY <4>1 DEF Tick
      <4> QED
        BY <4>1, <4>2, <2>1, <2>4, <1>1, <1>c DEF MasterSlot
    <3>2. phase' = 0 /\ Len(net) \in 0..setup.tasks /\ Len(continuous_sync) = setup.tasks
      BY <2>4, <2>1, <2>3, <3>1, <1>1, <1>2, <1>4, <1>c DEF Tick, Waves
    <3>3. \A n \in 1..Len(net') :
            net'[n].to = "slave" /\ net'[n].age = IF n <= Len(net) THEN SlotLen ELSE 0
      <4> SUFFICES ASSUME NEW n \in 1..Len(net')
                   PROVE  net'[n].to = "slave" /\ net'[n].age = IF n <= Len(net) THEN SlotLen ELSE 0
        OBVIOUS
      <4>1. CASE n <= Len(net)
        <5>1. n \in 1..Len(net)
          BY <4>1
        <5>2. net[n].to = "slave" /\ net[n].age = phase
          BY <5>1, <2>3, <3>1 DEF Waves
        <5> QED
          BY <4>1, <5>1, <5>2, <1>3, <1>5, <2>4, <1>1, <1>c DEF MasterSlot
      <4>2. CASE ~(n <= Len(net))
        BY <4>2, <1>5, <1>2
      <4> QED
        BY <4>1, <4>2
    <3>4. Len(net') = Len(net) + setup.tasks
      BY <3>2, <1>5
    <3>5. PICK j \in 0..setup.tasks : j = Len(net)
      BY <3>2
    <3>6. Waves(j)'
      <4>1. phase' + SlotLen = SlotLen
        BY <3>2, <1>c
      <4> QED
        BY <3>2, <3>3, <3>4, <3>5, <4>1, <1>1, <1>2, <1>c, <2>1, SMTT(30) DEF Waves
    <3> QED
      BY <2>2, <3>5, <3>6, <1>1 DEF Steady
  <2>5. CASE ~MasterSlot
    <3>1. phase' = phase + 1 /\ Len(net') = Len(net) /\ Len(continuous_sync) = 0
      BY <2>5, <1>2, <1>4, <1>5 DEF Tick
    <3>2. \A n \in 1..Len(net') :
            net'[n].to = "slave" /\ net'[n].age = IF n <= k THEN phase' + SlotLen ELSE phase'
      <4> SUFFICES ASSUME NEW n \in 1..Len(net)
                   PROVE  net'[n].to = "slave" /\ net'[n].age = IF n <= k THEN phase' + SlotLen ELSE phase'
        BY <3>1
      <4>1. net[n].to = "slave" /\ net[n].age = IF n <= k THEN phase + SlotLen ELSE phase
        BY <2>3 DEF Waves
      <4>2. net'[n].to = net[n].to /\ net'[n].age = net[n].age + 1
        BY <1>3, <1>5
      <4> QED
        BY <4>1, <4>2, <3>1, <1>2, <1>c
    <3>3. Waves(k)'
      BY <3>1, <3>2, <2>3, <2>1, <1>1 DEF Waves
    <3> QED
      BY <2>2, <2>3, <3>3, <1>1 DEF Steady
  <2> QED
    BY <2>4, <2>5
<1>8. Len(net') <= 2 * setup.tasks + 1
  <2>1. CASE Continuous
    <3>1. Continuous'
      BY <2>1, <1>1 DEF Continuous
    <3>2. PICK k \in 0..setup.tasks : Waves(k)'
      BY <3>1, <1>7, <1>1 DEF Steady
    <3> QED
      BY <3>2, <1>1, <1>5, <1>c DEF Waves, Tick
  <2>2. CASE ~Continuous
    BY <2>2, <1>1, <1>2, <1>4, <1>5, <1>c DEF TypeInv, OneRequest
  <2> QED
    BY <2>1, <2>2
<1>9. usec' \in 0..Second - 1 /\ phase' \in 0..SlotLen - 1
  <2>1. usec \in 0..Second - 1
    BY DEF TypeInv, STypeOK
  <2>2. \A i \in Int : i % Second \in 0..Second - 1
    BY <1>1, SetupFacts
  <2>3. usec' \in 0..Second - 1
    <3>1. SlotLen \in Int /\ usec \in Int /\ usec + SlotLen \in Int
      BY <2>1, <1>1, SetupFacts
    <3> QED
      BY <3>1, <2>1, <2>2 DEF Tick
  <2> QED
    BY <2>3, <1>1, <1>2, <1>c DEF Tick, MasterSlot
<1>10. /\ ahead' \in Int /\ elapsed' \in Nat /\ timer' \in 0..Second + SlotLen /\ new_tstamp' \in Int
       /\ rtt' \in Int
  <2>1. ahead \in Int /\ elapsed \in Nat /\ timer \in 0..Second + SlotLen /\ new_tstamp \in Int /\ rtt \in Int
    BY DEF TypeInv, STypeOK
  <2>2. ahead' \in Int /\ elapsed' \in Nat /\ new_tstamp' \in Int /\ rtt' \in Int
    BY <2>1 DEF Tick
  <2>3. timer' \in 0..Second + SlotLen
    BY <2>1, <1>1, <1>c DEF Tick
  <2> QED
    BY <2>2, <2>3
<1>11. STypeOK'
  BY <1>1, <1>5, <1>8, <1>9, <1>10 DEF STypeOK, TypeInv, Tick, Packet
<1> QED
  BY <1>6, <1>7, <1>11 DEF TypeInv

\* what the steps need of the types: numbers, and packets
Nums ==
  /\ setup.delay \in Nat /\ setup.tasks \in Nat
  /\ SlotLen \in Nat /\ SlotLen > 0 /\ Second \in Nat /\ Second >= SlotLen /\ Period \in Nat /\ Period > 0
  /\ usec \in 0..Second - 1 /\ phase \in 0..SlotLen - 1 /\ ahead \in Int /\ elapsed \in Nat
  /\ timer \in 0..Second + SlotLen /\ dac \in Nat /\ new_tstamp \in Int
  /\ next_ts \in 0..Second + SlotLen /\ cnt \in 0..Period - 1 /\ writing \in 0..Second + SlotLen
  /\ rtt \in Int /\ Len(net) \in Nat
Pkts ==
  /\ setup \in Setups /\ net \in Seq(Packet(setup))
  /\ \A n \in 1..Len(net) : /\ net[n] \in Packet(setup) /\ net[n].to \in {"master", "slave"}
                            /\ net[n].age \in 0..setup.delay
                            /\ net[n].next_ts \in Int /\ net[n].stamp \in Int

\* the numbers of a typed state
LEMMA NumsHold == TypeInv => Nums
<1> SUFFICES ASSUME TypeInv PROVE Nums
  OBVIOUS
<1>1. /\ setup.delay \in Nat /\ setup.tasks \in Nat /\ SlotLen \in Nat /\ SlotLen > 0
      /\ Second \in Nat /\ Second >= SlotLen /\ Period \in Nat /\ Period > 0
  <2>1. setup \in Setups
    BY DEF TypeInv, STypeOK
  <2> QED
    BY <2>1, SetupFacts
<1>2. /\ usec \in 0..Second - 1 /\ phase \in 0..SlotLen - 1 /\ ahead \in Int /\ elapsed \in Nat
      /\ timer \in 0..Second + SlotLen /\ dac \in 0..2 * setup.tasks /\ new_tstamp \in Int
      /\ next_ts \in 0..Second + SlotLen /\ cnt \in 0..Period - 1
      /\ writing \in {0} \cup 1..Second + SlotLen /\ rtt \in Int
  BY DEF TypeInv, STypeOK
<1>3. dac \in Nat /\ writing \in 0..Second + SlotLen
  BY <1>1, <1>2
<1>4. Len(net) \in Nat
  BY DEF TypeInv, STypeOK
<1> QED
  BY <1>1, <1>2, <1>3, <1>4 DEF Nums

\* the packets of a typed state
LEMMA PktsHold == TypeInv => Pkts
<1> SUFFICES ASSUME TypeInv PROVE Pkts
  OBVIOUS
<1>1. setup \in Setups /\ net \in Seq(Packet(setup))
  BY DEF TypeInv, STypeOK, Packet
<1>2. \A n \in 1..Len(net) : net[n] \in Packet(setup)
  BY <1>1
<1>3. \A n \in 1..Len(net) : /\ net[n].to \in {"master", "slave"} /\ net[n].age \in 0..setup.delay
                             /\ net[n].next_ts \in Int /\ net[n].stamp \in Int
  BY <1>2 DEF Packet
<1> QED
  BY <1>1, <1>2, <1>3 DEF Pkts

\* taking the first packet
LEMMA TailFacts ==
  ASSUME TypeInv, net # <<>>, net' = Tail(net), setup' = setup
  PROVE  /\ 1 \in 1..Len(net) /\ Head(net) = net[1]
         /\ net' \in Seq(Packet(setup)) /\ Len(net') = Len(net) - 1 /\ Len(net') \in Nat
         /\ \A n \in 1..Len(net') : net'[n] = net[n + 1]
<1>p. Pkts
  BY PktsHold
<1>1. net \in Seq(Packet(setup))
  BY <1>p DEF Pkts
<1> QED
  BY <1>1, HeadTailProperties

\* on request: the only packet is taken
LEMMA TailOneRequest ==
  ASSUME TypeInv, net # <<>>, net' = Tail(net), setup' = setup, UNCHANGED dac,
         ~Continuous, writing' > 0 => ~ack'
  PROVE  OneRequest' /\ Len(net') = 0
<1>n. Nums
  BY NumsHold
<1>1. Len(net) = 1 /\ Len(net') = 0
  <2>1. Len(net') = Len(net) - 1 /\ Len(net') \in Nat
    BY TailFacts
  <2>2. Len(net) <= 1
    BY DEF TypeInv, OneRequest
  <2> QED
    BY <2>1, <2>2, <1>n DEF Nums
<1> QED
  BY <1>1, TailFacts DEF TypeInv, OneRequest, Continuous

\* continuous: the oldest packet is taken, for one more post of sem_dac at most
LEMMA TailStream ==
  ASSUME TypeInv, net # <<>>, net' = Tail(net), setup' = setup, phase' = phase,
         dac' \in Nat, dac' <= dac + 1,
         Continuous, writing' = 0 /\ ~signalled' /\ next_ts' = 0
  PROVE  Steady' /\ dac' \in 0..2 * setup.tasks /\ Len(net') <= 2 * setup.tasks + 1
<1>n. Nums
  BY NumsHold
<1>1. PICK k \in 0..setup.tasks : Waves(k)
  BY DEF TypeInv, Steady
<1>2. /\ Len(net') = Len(net) - 1 /\ Len(net') \in Nat
      /\ \A n \in 1..Len(net') : n + 1 \in 1..Len(net) /\ net'[n] = net[n + 1]
  BY <1>n, TailFacts DEF Nums
<1>3. PICK j \in 0..setup.tasks : j = IF k = 0 THEN 0 ELSE k - 1
  BY <1>1, <1>n DEF Nums
<1>4. \A n \in 1..Len(net') :
        net'[n].to = "slave" /\ net'[n].age = IF n <= j THEN phase + SlotLen ELSE phase
  <2> SUFFICES ASSUME NEW n \in 1..Len(net')
               PROVE  net'[n].to = "slave" /\ net'[n].age = IF n <= j THEN phase + SlotLen ELSE phase
    OBVIOUS
  <2>1. /\ net[n + 1].to = "slave"
        /\ net[n + 1].age = IF n + 1 <= k THEN phase + SlotLen ELSE phase
    BY <1>1, <1>2 DEF Waves
  <2>2. n + 1 <= k <=> n <= j
    BY <1>1, <1>2, <1>3, <1>n DEF Nums
  <2> QED
    BY <2>1, <2>2, <1>2
<1>5. j <= Len(net') /\ Len(net') - j <= setup.tasks /\ dac' + Len(net') <= 2 * setup.tasks
  BY <1>1, <1>2, <1>3, <1>n DEF Waves, Nums
<1>6. Waves(j)'
  BY <1>4, <1>5 DEF Waves
<1>7. dac' \in 0..2 * setup.tasks /\ Len(net') <= 2 * setup.tasks + 1
  BY <1>5, <1>2, <1>n DEF Nums
<1> QED
  BY <1>6, <1>7 DEF Steady

\* the kernel takes over a slot, or counts on
LEMMA syncTslotType ==
  ASSUME TypeInv, syncTslot
  PROVE  TypeInv'
<1>n. Nums
  BY NumsHold
<1>1. /\ setup' = setup /\ net' = net /\ writing' = writing /\ ack' = ack /\ usec' = usec /\ phase' = phase
      /\ next_ts' = 0 /\ elapsed' = 0
  BY DEF syncTslot
<1>2. dac' \in Nat /\ dac' <= dac /\ (~Continuous => dac' = dac)
  BY <1>n DEF syncTslot, Nums
<1>3. ahead' \in Int /\ new_tstamp' \in Int /\ rtt' \in Int
  <2>1. TakenOver \in Int /\ ahead + 1 \in Int /\ NoStamp \in Int
    BY <1>n DEF TakenOver, NoStamp, Nums
  <2>2. ahead' \in Int /\ new_tstamp' \in Int
    BY <2>1, <1>n DEF syncTslot, Nums
  <2>3. (ahead' - ahead) * SlotLen \in Int
    BY <2>2, <1>n DEF Nums
  <2>4. rtt' = IF net = <<>> THEN 0 ELSE rtt + (ahead' - ahead) * SlotLen - elapsed
    BY DEF syncTslot
  <2> QED
    BY <2>2, <2>3, <2>4, <1>n DEF Nums
<1>4. timer' \in 0..Second + SlotLen /\ next_ts' \in 0..Second + SlotLen /\ elapsed' \in Nat
  BY <1>1, <1>n DEF syncTslot, Nums
<1>5. cnt' \in 0..Period - 1
  <2>1. \A i \in Int : i % Period \in 0..Period - 1
    BY <1>n DEF Nums
  <2>2. cnt + 1 \in Int
    BY <1>n DEF Nums
  <2> QED
    BY <2>1, <2>2 DEF syncTslot
<1>6. signalled' \in BOOLEAN /\ synced' \in BOOLEAN
  BY DEF syncTslot, TypeInv, STypeOK
<1>7. dac' \in 0..2 * setup.tasks
  BY <1>2, <1>n DEF TypeInv, STypeOK, Nums
<1>8. STypeOK'
  BY <1>1, <1>3, <1>4, <1>5, <1>6, <1>7 DEF STypeOK, TypeInv
<1>9. OneRequest'
  BY <1>1, <1>2 DEF OneRequest, TypeInv, Continuous
<1>10. Steady'
  <2> SUFFICES ASSUME Continuous PROVE Steady'
    BY <1>1 DEF Steady, Continuous
  <2>1. PICK k \in 0..setup.tasks : Waves(k)
    BY DEF TypeInv, Steady
  <2>2. Waves(k)'
    <3>1. dac' + Len(net) <= 2 * setup.tasks
      BY <2>1, <1>2, <1>n DEF Waves, Nums
    <3> QED
      BY <2>1, <3>1, <1>1 DEF Waves
  <2>3. ~signalled'
    BY DEF syncTslot, TypeInv, Steady
  <2> QED
    BY <2>1, <2>2, <2>3, <1>1 DEF Steady, TypeInv
<1> QED
  BY <1>8, <1>9, <1>10 DEF TypeInv

\* SYNC asks only if nothing is under way (ack), and the master answers what it takes
LEMMA AskType ==
  ASSUME TypeInv, period_sync \/ answer_packet_master
  PROVE  TypeInv'
<1>p. Pkts
  BY PktsHold
<1>n. Nums
  BY NumsHold
<1> DEFINE p == IF period_sync THEN [to |-> "master", age |-> 0, next_ts |-> 0, stamp |-> 0] ELSE Answer
<1>1. setup' = setup /\ dac' = dac /\ writing' = writing /\ phase' = phase
  BY DEF period_sync, answer_packet_master, kernelVars
<1>2. ~Continuous
  <2>1. CASE period_sync
    BY <2>1 DEF period_sync, TypeInv, Steady
  <2>2. CASE answer_packet_master
    <3>1. net # <<>> /\ Head(net) = net[1] /\ 1 \in 1..Len(net) /\ net[1].to = "master"
      BY <2>2, <1>n DEF answer_packet_master, Nums
    <3> QED
      BY <3>1 DEF TypeInv, Steady, Waves
  <2> QED
    BY <2>1, <2>2
<1>3. Answer \in Packet(setup) /\ Answer.next_ts <= Second + SlotLen
  <2>1. (usec + phase) % Second \in 0..Second - 1
    <3>1. \A i \in Int : i % Second \in 0..Second - 1
      BY <1>n DEF Nums
    <3>2. usec + phase \in Int
      BY <1>n DEF Nums
    <3> QED
      BY <3>1, <3>2
  <2>2. PICK x \in Int : x = SlotLen - ((usec + phase) % Second) + usec
    BY <2>1, <1>n DEF Nums
  <2>3. x <= Second + SlotLen
    BY <2>1, <2>2, <1>n DEF Nums
  <2>4. Answer = [to |-> "slave", age |-> 0, next_ts |-> x, stamp |-> 1]
    BY <2>2 DEF Answer
  <2> QED
    BY <2>3, <2>4, <1>n DEF Packet, Nums
<1>4. CASE period_sync
  <2>1. CASE MayAsk
    <3>1. net = <<>> /\ writing = 0
      BY <2>1, <1>2, <1>n DEF MayAsk, TypeInv, OneRequest, Nums
    <3>2. net' = <<[to |-> "master", age |-> 0, next_ts |-> 0, stamp |-> 0]>>
      BY <3>1, <2>1, <1>4 DEF period_sync
    <3> DEFINE pkt == [to |-> "master", age |-> 0, next_ts |-> 0, stamp |-> 0]
    <3>3. pkt \in Packet(setup) /\ pkt.next_ts = 0
      BY <1>n DEF Packet, Nums
    <3> HIDE DEF pkt
    <3>4. net' = <<pkt>>
      BY <3>2 DEF pkt
    <3>5. net' \in Seq(Packet(setup)) /\ Len(net') = 1 /\ net'[1] = pkt
      BY <3>3, <3>4
    <3>6. STypeOK'
      <4>1. 1 <= 2 * setup.tasks + 1
        BY <1>n DEF Nums
      <4>2. Len(net') <= 2 * setup.tasks + 1
        BY <4>1, <3>5
      <4>3. ack' \in BOOLEAN /\ signalled' \in BOOLEAN /\ rtt' \in Int
        <5>1. ack' = FALSE /\ signalled' = FALSE /\ rtt' = 0
          BY <1>4, <2>1 DEF period_sync
        <5>2. rtt' \in Int
          BY <5>1
        <5>3. ack' \in BOOLEAN /\ signalled' \in BOOLEAN
          BY <5>1, Zenon
        <5> QED
          BY <5>2, <5>3
      <4> QED
        BY <4>2, <4>3, <3>5, <1>4, <2>1 DEF period_sync, TypeInv, STypeOK, Packet
    <3>7. OneRequest'
      BY <3>1, <3>3, <3>5, <1>1, <1>2, <1>4, <2>1, <1>n DEF period_sync, OneRequest, Continuous, TypeInv, Nums
    <3> QED
      BY <3>6, <3>7, <1>1, <1>2 DEF TypeInv, Steady, Continuous
  <2>2. CASE ~MayAsk
    <3>1. net' = net /\ ack' = ack
      BY <2>2, <1>4 DEF period_sync
    <3>2. STypeOK'
      BY <2>2, <1>4 DEF period_sync, TypeInv, STypeOK
    <3> QED
      BY <3>1, <3>2, <1>1, <1>2 DEF TypeInv, Steady, Continuous, OneRequest
  <2> QED
    BY <2>1, <2>2
<1>5. CASE answer_packet_master
  <2>1. net # <<>> /\ Len(net) = 1
    <3>1. net # <<>> /\ Len(net) <= 1
      BY <1>2, <1>5 DEF answer_packet_master, TypeInv, OneRequest
    <3>2. net \in Seq(Packet(setup))
      BY <1>p DEF Pkts
    <3>3. Len(net) # 0 /\ Len(net) \in Nat
      BY <3>1, <3>2, EmptySeq
    <3>4. Len(net) = 1
      <4>1. Len(net) <= 1
        BY <3>1
      <4>2. \A n \in Nat : n # 0 /\ n <= 1 => n = 1
        OBVIOUS
      <4> QED
        BY <3>3, <4>1, <4>2
    <3> QED
      BY <3>1, <3>4
  <2>2. Tail(net) = <<>>
    <3>1. net \in Seq(Packet(setup))
      BY <1>p DEF Pkts
    <3>2. Tail(net) \in Seq(Packet(setup)) /\ Len(Tail(net)) = 0
      BY <2>1, <3>1, HeadTailProperties
    <3> QED
      BY <3>2, EmptySeq
  <2>3. net' = <<Answer>>
    <3>1. net' = Append(<<>>, Answer)
      BY <2>2, <1>5 DEF answer_packet_master
    <3> QED
      BY <3>1
  <2>4. net' \in Seq(Packet(setup)) /\ Len(net') = 1 /\ net'[1] = Answer
    BY <2>3, <1>3
  <2>5. STypeOK'
    <3>1. 1 <= 2 * setup.tasks + 1
      BY <1>n DEF Nums
    <3> QED
      BY <3>1, <2>4, <1>5 DEF answer_packet_master, kernelVars, TypeInv, STypeOK, Packet
  <2>6. OneRequest'
    BY <2>1, <2>4, <1>1, <1>2, <1>3, <1>5 DEF answer_packet_master, OneRequest, Continuous, TypeInv
  <2> QED
    BY <2>5, <2>6, <1>1, <1>2 DEF TypeInv, Steady, Continuous
<1> QED
  BY <1>4, <1>5

\* SYNC takes an answer or rejects it
LEMMA answer_packetType ==
  ASSUME TypeInv, answer_packet
  PROVE  TypeInv'
<1>p. Pkts
  BY PktsHold
<1>n. Nums
  BY NumsHold
<1>1. /\ setup' = setup /\ dac' = dac /\ ~Continuous /\ net # <<>> /\ net' = Tail(net) /\ rtt' = 0
  BY DEF answer_packet
<1>2. net[1].next_ts \in Int /\ net[1].stamp \in Int /\ net[1].next_ts <= Second + SlotLen /\ Head(net) = net[1]
  <2>1. 1 \in 1..Len(net) /\ Head(net) = net[1]
    BY <1>1, TailFacts
  <2> QED
    BY <2>1, <1>1, <1>p DEF TypeInv, OneRequest, Pkts
<1>3. writing' \in {0} \cup 1..Second + SlotLen /\ new_tstamp' \in Int /\ ack' \in BOOLEAN /\ (writing' > 0 => ~ack')
  <2> DEFINE half == rtt \div 2
             good == net[1].next_ts > half /\ rtt >= 0 /\ rtt < Limit
  <2>1. rtt >= 0 => half \in Nat
    BY <1>n DEF Nums
  <2>2. /\ writing' = IF good THEN net[1].next_ts - half ELSE 0
        /\ new_tstamp' = IF good THEN net[1].stamp ELSE new_tstamp
        /\ ack' = ~good
    BY <1>2 DEF answer_packet, Rearms
  <2>3. good => half \in Nat /\ net[1].next_ts - half \in 1..Second + SlotLen
    <3>1. good => half \in Nat /\ net[1].next_ts > half
      BY <2>1
    <3> HIDE DEF good, half
    <3>2. ASSUME good PROVE half \in Nat /\ net[1].next_ts - half \in 1..Second + SlotLen
      <4>1. half \in Nat /\ net[1].next_ts > half
        BY <3>1, <3>2
      <4>2. PICK x \in Int : x = net[1].next_ts /\ x <= Second + SlotLen
        BY <1>2
      <4>3. Second + SlotLen \in Int
        BY <1>n DEF Nums
      <4> QED
        BY <4>1, <4>2, <4>3
    <3> QED
      BY <3>2
  <2>4. good \in BOOLEAN
    OBVIOUS
  <2> HIDE DEF good, half
  <2>5. CASE good
    <3>1. writing' \in 1..Second + SlotLen /\ new_tstamp' \in Int /\ ack' = FALSE
      BY <2>5, <2>2, <2>3, <2>4, <1>2
    <3> QED
      BY <3>1
  <2>6. CASE ~good
    BY <2>6, <2>2, <2>4, <1>n DEF Nums
  <2> QED
    BY <2>5, <2>6
<1>4. OneRequest' /\ Len(net') = 0
  BY <1>1, <1>3, TailOneRequest
<1>5. STypeOK'
  <2>1. net' \in Seq(Packet(setup)) /\ 0 <= 2 * setup.tasks + 1
    BY <1>1, TailFacts, <1>n DEF Nums
  <2> QED
    BY <2>1, <1>1, <1>3, <1>4, SMTT(30) DEF answer_packet, TypeInv, STypeOK, Packet
<1> QED
  BY <1>1, <1>4, <1>5 DEF TypeInv, Steady, Continuous

\* time_sync's second write
LEMMA time_syncType ==
  ASSUME TypeInv, time_sync
  PROVE  TypeInv'
<1>n. Nums
  BY NumsHold
<1>1. ~Continuous /\ net = <<>>
  BY <1>n DEF time_sync, TypeInv, Steady, OneRequest, Nums
<1>2. next_ts' \in 0..Second + SlotLen
  BY <1>n DEF time_sync, Nums
<1>3. STypeOK'
  BY <1>2 DEF time_sync, TypeInv, STypeOK
<1> QED
  BY <1>1, <1>3 DEF time_sync, TypeInv, Steady, OneRequest, Continuous

\* a packet of the continuous master is taken
LEMMA sync_tslotType ==
  ASSUME TypeInv, sync_tslot
  PROVE  TypeInv'
<1>p. Pkts
  BY PktsHold
<1>n. Nums
  BY NumsHold
<1>1. /\ setup' = setup /\ Continuous /\ net # <<>> /\ net' = Tail(net) /\ dac' = dac + 1 /\ next_ts' = 0
      /\ phase' = phase /\ writing' = writing /\ signalled' = signalled
  BY DEF sync_tslot
<1>2. dac' \in Nat /\ dac' <= dac + 1 /\ writing' = 0 /\ ~signalled'
  BY <1>1, <1>n DEF TypeInv, Steady, Nums
<1>3. Steady' /\ dac' \in 0..2 * setup.tasks /\ Len(net') <= 2 * setup.tasks + 1
  BY <1>1, <1>2, TailStream
<1>4. new_tstamp' \in Int /\ next_ts' \in 0..Second + SlotLen
  <2>1. 1 \in 1..Len(net) /\ Head(net) = net[1]
    BY <1>1, TailFacts
  <2> QED
    BY <2>1, <1>1, <1>n, <1>p DEF sync_tslot, Nums, Pkts
<1>5. net' \in Seq(Packet(setup))
  BY <1>1, TailFacts
<1>6. STypeOK'
  BY <1>3, <1>4, <1>5 DEF sync_tslot, TypeInv, STypeOK, Packet
<1> QED
  BY <1>1, <1>3, <1>6 DEF TypeInv, OneRequest, Continuous

\* a packet is lost
LEMMA loseType ==
  ASSUME TypeInv, lose
  PROVE  TypeInv'
<1>n. Nums
  BY NumsHold
<1>1. /\ setup' = setup /\ net # <<>> /\ net' = Tail(net) /\ dac' = dac /\ next_ts' = next_ts
      /\ phase' = phase /\ writing' = writing /\ signalled' = signalled /\ ack' = ack
  BY DEF lose, kernelVars
<1>2. net' \in Seq(Packet(setup)) /\ Len(net') <= 2 * setup.tasks + 1
  BY <1>1, TailFacts, <1>n DEF TypeInv, STypeOK, Nums
<1>3. STypeOK'
  BY <1>2 DEF lose, kernelVars, TypeInv, STypeOK, Packet
<1>4. CASE Continuous
  <2>1. dac' \in Nat /\ dac' <= dac + 1 /\ writing' = 0 /\ ~signalled' /\ next_ts' = 0
    BY <1>1, <1>4, <1>n DEF TypeInv, Steady, Nums
  <2>2. Steady'
    BY <1>1, <1>4, <2>1, TailStream
  <2> QED
    BY <1>1, <1>3, <1>4, <2>2 DEF TypeInv, OneRequest, Continuous
<1>5. CASE ~Continuous
  <2>1. writing' > 0 => ~ack'
    BY <1>1, <1>5 DEF TypeInv, OneRequest
  <2>2. OneRequest'
    BY <1>1, <1>5, <2>1, TailOneRequest
  <2> QED
    BY <1>1, <1>3, <1>5, <2>2 DEF TypeInv, Steady, Continuous
<1> QED
  BY <1>4, <1>5

\* every step keeps the types, and what is under way
LEMMA TypeStep ==
  ASSUME TypeInv, Near, [SNext]_svars
  PROVE  TypeInv'
<1>1. CASE UNCHANGED svars
  BY <1>1 DEF svars, kernelVars, TypeInv, STypeOK, OneRequest, Steady, Continuous, Waves
<1> QED
  BY <1>1, TickType, syncTslotType, AskType, answer_packetType, time_syncType, sync_tslotType, loseType DEF SNext

\* The types, for any lengths and periods: at most one packet is under way for a request, and at most
\* those of two slots from a continuous master, if they arrive before the slot after the next.
THEOREM SyncTypes ==
  ASSUME Near
  PROVE  SSpec => []STypeOK
<1>1. SInit => TypeInv
  BY TypeInit
<1>2. TypeInv /\ [SNext]_svars => TypeInv'
  BY TypeStep
<1>3. TypeInv => STypeOK
  BY DEF TypeInv
<1> QED
  BY <1>1, <1>2, <1>3, PTL DEF SSpec

-----------------------------------------------------------------------------
(* Products with SlotLen, which the invariant compares only with sums. *)
LEMMA Times ==
  ASSUME NEW L \in Nat
  PROVE  \A i \in Int : i * L \in Int /\ (i + 1) * L = i * L + L /\ (i - 1) * L = i * L - L
OBVIOUS

\* a smaller product has a smaller factor
LEMMA TimesLess ==
  ASSUME NEW L \in Nat, L > 0, NEW i \in Int, NEW j \in Int, i * L < j * L
  PROVE  i < j
<1> SUFFICES ASSUME j <= i PROVE FALSE
  OBVIOUS
<1>1. PICK d \in Nat : i = j + d
  <2>1. i - j \in Nat /\ i = j + (i - j)
    OBVIOUS
  <2> QED
    BY <2>1
<1>2. i * L = j * L + d * L /\ d * L >= 0
  BY <1>1
<1> QED
  BY <1>2

\* Lead and ToCome as numbers
LEMMA LeadInt == TypeInv => Lead \in Int /\ ToCome \in Int
<1> SUFFICES ASSUME TypeInv PROVE Lead \in Int /\ ToCome \in Int
  OBVIOUS
<1>n. Nums
  BY NumsHold
<1>1. ahead * SlotLen \in Int /\ new_tstamp * SlotLen \in Int
  BY <1>n DEF Nums
<1> QED
  BY <1>1, <1>n DEF Nums, Lead, ToCome

\* what is known of a packet under way on request
LEMMA OnePacket ==
  ASSUME TypeInv, ~Continuous, net # <<>>
  PROVE  /\ Len(net) = 1 /\ 1 \in 1..Len(net) /\ Head(net) = net[1] /\ Tail(net) = <<>>
         /\ ack = FALSE /\ writing = 0
<1>p. Pkts
  BY PktsHold
<1>1. net \in Seq(Packet(setup))
  BY <1>p DEF Pkts
<1>2. Len(net) # 0 /\ Len(net) \in Nat
  BY <1>1, EmptySeq
<1>3. Len(net) <= 1 /\ ~ack /\ writing = 0
  BY DEF TypeInv, OneRequest
<1>4. Len(net) = 1
  <2>1. \A n \in Nat : n # 0 /\ n <= 1 => n = 1
    OBVIOUS
  <2> QED
    BY <1>2, <1>3, <2>1
<1>5. Head(net) = net[1] /\ Tail(net) \in Seq(Packet(setup)) /\ Len(Tail(net)) = 0
  BY <1>1, <1>4, HeadTailProperties
<1>6. Tail(net) = <<>>
  BY <1>5, EmptySeq
<1>7. ack = FALSE
  BY <1>3 DEF TypeInv, STypeOK
<1> QED
  BY <1>3, <1>4, <1>5, <1>6, <1>7

\* the slave's time passes with the master's
LEMMA TickLead ==
  ASSUME TypeInv, Tick, ~Continuous, Pending => new_tstamp <= 1
  PROVE  /\ Lead' = Lead /\ (Pending' <=> Pending) /\ (Pending => ToCome' = ToCome - 1 /\ new_tstamp' <= 1)
         /\ elapsed' = elapsed + 1 /\ timer' = timer - 1 /\ timer > 0
         /\ writing = 0 /\ UNCHANGED <<next_ts, cnt, signalled, writing, synced, setup>>
         /\ ~signalled
<1>n. Nums
  BY NumsHold
<1>1. /\ elapsed' = elapsed + 1 /\ timer' = timer - 1 /\ timer > 0
      /\ writing = 0 /\ UNCHANGED <<next_ts, cnt, signalled, writing, synced, setup>> /\ ~signalled
  BY DEF Tick
<1>2. \A i \in Int : i * SlotLen \in Int /\ (i - 1) * SlotLen = i * SlotLen - SlotLen
  BY <1>n, Times DEF Nums
<1>3. CASE MasterSlot
  <2>1. phase' = 0 /\ phase = SlotLen - 1 /\ ahead' = ahead - 1
        /\ new_tstamp' = IF new_tstamp # NoStamp THEN new_tstamp - 1 ELSE new_tstamp
    BY <1>3 DEF Tick, MasterSlot
  <2>2. ahead' * SlotLen = ahead * SlotLen - SlotLen /\ ahead * SlotLen \in Int
    BY <2>1, <1>2, <1>n DEF Nums
  <2>3. Lead' = Lead
    BY <2>1, <2>2, <1>1, <1>n DEF Lead, Nums
  <2>4. Pending' <=> Pending
    BY <2>1, <1>n DEF Pending, Nums, NoStamp
  <2>5. ASSUME Pending PROVE ToCome' = ToCome - 1 /\ new_tstamp' <= 1
    <3>1. new_tstamp' = new_tstamp - 1 /\ new_tstamp <= 1
      BY <2>1, <2>5 DEF Pending
    <3>2. new_tstamp' * SlotLen = new_tstamp * SlotLen - SlotLen /\ new_tstamp * SlotLen \in Int
      BY <3>1, <1>2, <1>n DEF Nums
    <3> QED
      BY <3>1, <3>2, <2>1, <1>n DEF ToCome, Nums
  <2> QED
    BY <2>3, <2>4, <2>5, <1>1
<1>4. CASE ~MasterSlot
  <2>1. phase' = phase + 1 /\ ahead' = ahead /\ new_tstamp' = new_tstamp
    BY <1>4 DEF Tick
  <2>2. ahead * SlotLen \in Int /\ new_tstamp * SlotLen \in Int
    BY <1>2, <1>n DEF Nums
  <2> QED
    BY <2>1, <2>2, <1>1, <1>n DEF Lead, ToCome, Pending, Nums
<1> QED
  BY <1>3, <1>4

\* a packet under way ages with the round trip measured
LEMMA TickPacket ==
  ASSUME TypeInv, Tick, ~Continuous
  PROVE  /\ net = <<>> => net' = <<>>
         /\ net # <<>> =>
              /\ net' # <<>> /\ net[1].age < setup.delay
              /\ net'[1].to = net[1].to /\ net'[1].age = net[1].age + 1 /\ net'[1].next_ts = net[1].next_ts
              /\ net'[1].stamp * SlotLen - phase' = net[1].stamp * SlotLen - phase - 1
<1>n. Nums
  BY NumsHold
<1>p. Pkts
  BY PktsHold
<1>1. net' = [i \in 1..Len(net) |-> Later(net[i])]
  <2> DEFINE old == [i \in 1..Len(net) |-> Later(net[i])]
  <2>1. net' = old \o <<>>
    BY DEF Tick, continuous_sync
  <2>2. old \in [1..Len(net) -> {Later(net[i]) : i \in 1..Len(net)}]
    OBVIOUS
  <2>3. old \in Seq({Later(net[i]) : i \in 1..Len(net)})
    BY <2>2, <1>n, SeqDef DEF Nums
  <2> HIDE DEF old
  <2>4. old \o <<>> = old
    BY <2>3, ConcatEmptySeq
  <2> QED
    BY <2>1, <2>4 DEF old
<1>2. CASE net = <<>>
  BY <1>1, <1>2
<1>3. CASE net # <<>>
  <2>1. Len(net) = 1 /\ 1 \in 1..Len(net)
    BY <1>3, OnePacket
  <2>2. net'[1] = Later(net[1]) /\ net' # <<>>
    <3>1. DOMAIN net' = 1..1 /\ net'[1] = Later(net[1])
      BY <1>1, <2>1
    <3> QED
      BY <3>1
  <2>3. /\ net'[1].to = net[1].to /\ net'[1].age = net[1].age + 1 /\ net'[1].next_ts = net[1].next_ts
        /\ net'[1].stamp = IF MasterSlot THEN net[1].stamp - 1 ELSE net[1].stamp
    BY <2>2 DEF Later
  <2>4. net[1].age < setup.delay
    BY <2>1 DEF Tick
  <2>5. net[1].stamp \in Int
    BY <2>1, <1>p DEF Pkts
  <2>6. /\ net[1].stamp * SlotLen \in Int
        /\ (net[1].stamp - 1) * SlotLen = net[1].stamp * SlotLen - SlotLen
    BY <2>5, <1>n, Times DEF Nums
  <2>7. net'[1].stamp * SlotLen - phase' = net[1].stamp * SlotLen - phase - 1
    <3>1. CASE MasterSlot
      <4>1. net'[1].stamp * SlotLen = net[1].stamp * SlotLen - SlotLen
        BY <3>1, <2>3, <2>6
      <4>2. phase = SlotLen - 1 /\ phase' = 0
        BY <3>1 DEF Tick, MasterSlot
      <4> QED
        BY <4>1, <4>2, <2>6, <1>n DEF Nums
    <3>2. CASE ~MasterSlot
      <4>1. phase' = phase + 1 /\ net'[1].stamp = net[1].stamp
        BY <3>2, <2>3 DEF Tick
      <4>2. PICK x \in Int : x = net[1].stamp * SlotLen
        BY <2>6
      <4>3. x - phase' = x - phase - 1
        BY <4>1, <1>n DEF Nums
      <4> QED
        BY <4>1, <4>2, <4>3
    <3> QED
      BY <3>1, <3>2
  <2> QED
    BY <1>3, <2>2, <2>3, <2>4, <2>7
<1> QED
  BY <1>2, <1>3

\* the next slot of the master begins a whole number of slots into its second: the second is whole slots
LEMMA TickWhole ==
  ASSUME TypeInv, Regular, WholeSlots, Tick
  PROVE  WholeSlots'
<1>n. Nums
  BY NumsHold
<1>1. PICK m \in Nat : Second = m * SlotLen
  BY DEF Regular
<1>2. PICK k \in Nat : usec = k * SlotLen
  BY DEF WholeSlots
<1>3. (k + 1) * SlotLen = k * SlotLen + SlotLen
  BY <1>n, Times DEF Nums
<1>4. k < m
  BY <1>1, <1>2, <1>n, TimesLess DEF Nums
<1>5. CASE ~MasterSlot
  BY <1>5, <1>2 DEF Tick, WholeSlots
<1>6. CASE MasterSlot /\ k + 1 = m
  <2>1. usec + SlotLen = Second
    BY <1>6, <1>1, <1>2, <1>3
  <2>2. Second % Second = 0
    BY <1>n DEF Nums
  <2>3. usec' = 0 * SlotLen
    <3>1. usec' = (usec + SlotLen) % Second
      BY <1>6 DEF Tick
    <3>2. usec' = 0
      BY <3>1, <2>1, <2>2
    <3> QED
      BY <3>2, <1>n DEF Nums
  <2> QED
    BY <2>3 DEF WholeSlots
<1>7. CASE MasterSlot /\ k + 1 # m
  <2>1. PICK d \in Nat : m = k + 1 + d /\ d > 0
    <3>1. m - (k + 1) \in Nat /\ m = k + 1 + (m - (k + 1)) /\ m - (k + 1) > 0
      BY <1>4, <1>7
    <3> QED
      BY <3>1
  <2>2. Second = (k + 1) * SlotLen + d * SlotLen /\ d * SlotLen > 0
    BY <2>1, <1>1, <1>n DEF Nums
  <2>3. usec + SlotLen \in Nat /\ usec + SlotLen < Second
    BY <2>2, <1>2, <1>3, <1>n DEF Nums
  <2>4. (usec + SlotLen) % Second = usec + SlotLen
    BY <2>3, <1>n DEF Nums
  <2>5. usec' = (k + 1) * SlotLen
    BY <2>4, <1>7, <1>2, <1>3 DEF Tick
  <2> QED
    BY <2>5 DEF WholeSlots
<1> QED
  BY <1>5, <1>6, <1>7

\* time passes: slave and master stay as far apart
LEMMA RequestTick ==
  ASSUME TypeInv, Regular, ~Continuous, OnRequest, Tick
  PROVE  OnRequest'
<1>n. Nums
  BY NumsHold
<1>1. /\ Lead' = Lead /\ (Pending' <=> Pending) /\ (Pending => ToCome' = ToCome - 1 /\ new_tstamp' <= 1)
      /\ elapsed' = elapsed + 1 /\ timer' = timer - 1 /\ timer > 0
      /\ writing = 0 /\ next_ts' = next_ts /\ cnt' = cnt /\ signalled' = signalled
      /\ writing' = writing /\ synced' = synced /\ setup' = setup /\ ~signalled
  BY TickLead DEF OnRequest
<1>2. Lead \in Int /\ ToCome \in Int
  BY LeadInt
<1>3. Travelling'
  <2> SUFFICES ASSUME net' # <<>> PROVE Travelling'
    BY DEF Travelling
  <2>1. /\ net # <<>> /\ net[1].age < setup.delay
        /\ net'[1].to = net[1].to /\ net'[1].age = net[1].age + 1 /\ net'[1].next_ts = net[1].next_ts
        /\ net'[1].stamp * SlotLen - phase' = net[1].stamp * SlotLen - phase - 1
    BY TickPacket
  <2>2. rtt' = rtt + 1
    BY <2>1 DEF Tick
  <2>3. net[1].age \in Nat
    <3>1. 1 \in 1..Len(net)
      BY <2>1, OnePacket
    <3> QED
      BY <3>1, PktsHold, <1>n DEF Pkts, Nums
  <2>4. cnt * SlotLen \in Int
    BY <1>n DEF Nums
  <2>5. /\ ~Pending' /\ next_ts' = 0 /\ ~signalled' /\ elapsed' + timer' = SlotLen
        /\ rtt' = cnt' * SlotLen + elapsed'
    BY <1>1, <2>1, <2>2, <2>4, <1>n DEF Travelling, OnRequest, Nums
  <2>6. net'[1].to = "master" => net'[1].age = rtt'
    BY <2>1, <2>2 DEF Travelling, OnRequest
  <2>7. ASSUME net'[1].to = "slave"
        PROVE  /\ net'[1].age <= rtt' /\ rtt' <= net'[1].age + setup'.delay
               /\ net'[1].next_ts \in 1..SlotLen
               /\ net'[1].stamp * SlotLen - phase' = net'[1].next_ts - net'[1].age
    <3>1. /\ net[1].age <= rtt /\ rtt <= net[1].age + setup.delay
          /\ net[1].next_ts \in 1..SlotLen
          /\ net[1].stamp * SlotLen - phase = net[1].next_ts - net[1].age
      BY <2>1, <2>7 DEF Travelling, OnRequest
    <3>2. net[1].next_ts \in Int
      BY <3>1, <1>n DEF Nums
    <3>3. rtt + 1 <= (net[1].age + 1) + setup.delay /\ net[1].age + 1 <= rtt + 1
      <4>1. net[1].age <= rtt /\ rtt <= net[1].age + setup.delay
        BY <3>1
      <4>2. rtt \in Int /\ setup.delay \in Int
        BY <1>n DEF Nums
      <4> QED
        BY <4>1, <4>2, <2>3
    <3>4. PICK x \in Int : x = net[1].stamp * SlotLen - phase
      BY <3>1, <3>2, <2>3
    <3>5. x - 1 = net[1].next_ts - (net[1].age + 1)
      BY <3>1, <3>2, <3>4, <2>3
    <3> QED
      BY <3>1, <3>3, <3>4, <3>5, <2>1, <2>2, <1>1
  <2> QED
    BY <2>5, <2>6, <2>7 DEF Travelling
<1>4. AtRequest' /\ Answered'
  BY <1>1, <1>n DEF AtRequest, Answered, Nums
<1>5. ToShorten'
  <2> SUFFICES ASSUME next_ts > 0 PROVE ToShorten'
    BY <1>1 DEF ToShorten
  <2>1. /\ elapsed + timer = SlotLen /\ next_ts <= SlotLen /\ cnt < Period - 1
        /\ IF Pending THEN ToCome <= SlotLen /\ ToCome - timer >= 2 * next_ts - 2 * SlotLen - 1
                      ELSE synced => Lead <= 2 * SlotLen + next_ts
    BY DEF OnRequest, ToShorten
  <2>2. elapsed' + timer' = SlotLen
    BY <2>1, <1>1, <1>n DEF Nums
  <2>3. CASE Pending
    <3>1. ToCome' <= SlotLen /\ ToCome' - timer' >= 2 * next_ts - 2 * SlotLen - 1
      BY <2>1, <2>3, <1>1, <1>2, <1>n DEF Nums
    <3> QED
      BY <3>1, <2>1, <2>2, <2>3, <1>1 DEF ToShorten
  <2>4. CASE ~Pending
    BY <2>1, <2>2, <2>4, <1>1 DEF ToShorten
  <2> QED
    BY <2>3, <2>4
<1>6. ToTake'
  <2> SUFFICES ASSUME Pending, next_ts = 0 PROVE ToCome' <= SlotLen /\ ToCome' - timer' >= -2 * SlotLen
    BY <1>1 DEF ToTake
  <2>1. ToCome <= SlotLen /\ ToCome - timer >= -2 * SlotLen
    BY <1>1 DEF OnRequest, ToTake
  <2> QED
    BY <2>1, <1>1, <1>2, <1>n DEF Nums
<1>7. Agreed'
  BY <1>1, <1>2, <1>n DEF OnRequest, Agreed, Nums
<1>8. elapsed' + timer' <= SlotLen
  BY <1>1, <1>n DEF OnRequest, Nums
<1>9. Pending' => new_tstamp' <= 1
  BY <1>1
<1>10. WholeSlots'
  BY TickWhole DEF OnRequest
<1> QED
  BY <1>3, <1>4, <1>5, <1>6, <1>7, <1>8, <1>9, <1>10 DEF OnRequest

\* the slave's next slot: it takes over the number that waits, and shortens the slot after
LEMMA RequestSlot ==
  ASSUME TypeInv, ~Continuous, Prompt, OnRequest, syncTslot
  PROVE  OnRequest'
<1>n. Nums
  BY NumsHold
<1>0. Lead \in Int /\ ToCome \in Int
  BY LeadInt
<1> DEFINE set == Pending /\ next_ts = 0
<1>1. /\ timer = 0 /\ elapsed' = 0 /\ next_ts' = 0 /\ synced' = (synced \/ set)
      /\ timer' = IF next_ts > 0 THEN next_ts ELSE SlotLen
      /\ cnt' = (cnt + 1) % Period /\ signalled' = (signalled \/ cnt + 1 = Period)
      /\ UNCHANGED <<usec, phase, writing, net, setup>>
  BY DEF syncTslot, Pending
<1>2. /\ Pending' <=> Pending /\ ~set
      /\ ~set => new_tstamp' = new_tstamp /\ ToCome' = ToCome /\ Lead' = Lead - elapsed + SlotLen
      /\ set => Lead' = ToCome + SlotLen
  <2>1. \A i \in Int : i * SlotLen \in Int /\ (i + 1) * SlotLen = i * SlotLen + SlotLen
    BY <1>n, Times DEF Nums
  <2>2. CASE set
    <3>1. ahead' = new_tstamp + 1 /\ new_tstamp' = NoStamp
      BY <2>2 DEF syncTslot, Pending, TakenOver
    <3>2. ahead' * SlotLen = new_tstamp * SlotLen + SlotLen /\ new_tstamp * SlotLen \in Int
      BY <3>1, <2>1, <1>n DEF Nums
    <3>3. Lead' = ToCome + SlotLen
      BY <3>2, <1>1, <1>n DEF Lead, ToCome, Nums
    <3> QED
      BY <3>1, <3>3, <2>2 DEF Pending
  <2>3. CASE ~set
    <3>1. ahead' = ahead + 1 /\ new_tstamp' = new_tstamp
      BY <2>3 DEF syncTslot, Pending
    <3>2. ahead' * SlotLen = ahead * SlotLen + SlotLen /\ ahead * SlotLen \in Int
      BY <3>1, <2>1, <1>n DEF Nums
    <3>3. Lead' = Lead - elapsed + SlotLen
      BY <3>2, <1>1, <1>n DEF Lead, Nums
    <3> QED
      BY <3>1, <3>3, <1>1, <2>3 DEF Pending, ToCome
  <2> QED
    BY <2>2, <2>3
<1>3. ~signalled
  BY <1>1, <1>n DEF OnRequest, AtRequest, Nums
<1>4. cnt + 1 < Period => cnt' = cnt + 1 /\ ~signalled'
  <2>1. \A i \in Nat : i < Period => i % Period = i
    BY <1>n DEF Nums
  <2>2. cnt + 1 \in Nat
    BY <1>n DEF Nums
  <2>3. ASSUME cnt + 1 < Period PROVE cnt' = cnt + 1 /\ ~signalled'
    <3>1. (cnt + 1) % Period = cnt + 1
      BY <2>1, <2>2, <2>3
    <3>2. cnt + 1 # Period
      BY <2>2, <2>3, <1>n DEF Nums
    <3> QED
      BY <3>1, <3>2, <1>1, <1>3
  <2> QED
    BY <2>3
<1>5. cnt + 1 >= Period => cnt' = 0
  BY <1>1, <1>n DEF Nums
<1>6. ASSUME net # <<>> PROVE cnt + 1 < Period
  <2>1. 1 \in 1..Len(net)
    BY <1>6, OnePacket
  <2>2. rtt = cnt * SlotLen + SlotLen /\ rtt <= 2 * setup.delay
    <3>1. elapsed = SlotLen /\ rtt = cnt * SlotLen + elapsed
      BY <1>6, <1>1, <1>n DEF OnRequest, Travelling, Nums
    <3>2. net[1].age \in 0..setup.delay /\ net[1].to \in {"master", "slave"}
      BY <2>1, PktsHold DEF Pkts
    <3>3. net[1].to = "master" => net[1].age = rtt
      BY <1>6 DEF OnRequest, Travelling
    <3>4. net[1].to = "slave" => rtt <= net[1].age + setup.delay
      BY <1>6 DEF OnRequest, Travelling
    <3> QED
      BY <3>1, <3>2, <3>3, <3>4, <1>n DEF Nums
  <2>3. (cnt + 1) * SlotLen < Period * SlotLen
    <3>1. (cnt + 1) * SlotLen = cnt * SlotLen + SlotLen /\ cnt * SlotLen \in Int /\ Period * SlotLen \in Int
      BY <1>n, Times DEF Nums
    <3> QED
      BY <3>1, <2>2, <1>n DEF Prompt, Nums
  <2>4. cnt + 1 \in Int /\ Period \in Int
    BY <1>n DEF Nums
  <2> QED
    BY <2>3, <2>4, <1>n, TimesLess DEF Nums
<1>7. Travelling'
  <2> SUFFICES ASSUME net # <<>> PROVE Travelling'
    BY <1>1 DEF Travelling
  <2>1. ~Pending /\ next_ts = 0 /\ elapsed + timer = SlotLen /\ rtt = cnt * SlotLen + elapsed
    BY DEF OnRequest, Travelling
  <2>2. ahead' = ahead + 1 /\ rtt' = rtt + (ahead' - ahead) * SlotLen - elapsed
    BY <2>1 DEF syncTslot, Pending
  <2>3. rtt' = rtt
    <3>1. (ahead' - ahead) * SlotLen = SlotLen
      <4>1. ahead' - ahead = 1
        BY <2>2, <1>n DEF Nums
      <4> QED
        BY <4>1, <1>n DEF Nums
    <3>2. elapsed = SlotLen
      BY <2>1, <1>1, <1>n DEF Nums
    <3> QED
      BY <3>1, <3>2, <2>2, <1>n DEF Nums
  <2>4. rtt' = cnt' * SlotLen + elapsed'
    <3>1. (cnt + 1) * SlotLen = cnt * SlotLen + SlotLen /\ cnt * SlotLen \in Int
      BY <1>n, Times DEF Nums
    <3>2. cnt' = cnt + 1 /\ elapsed = SlotLen
      BY <1>4, <1>6, <2>1, <1>1, <1>n DEF Nums
    <3> QED
      BY <3>1, <3>2, <2>1, <2>3, <1>1, <1>n DEF Nums
  <2>5. ~Pending' /\ next_ts' = 0 /\ ~signalled' /\ elapsed' + timer' = SlotLen
    BY <2>1, <1>1, <1>2, <1>4, <1>6, <1>n DEF Nums
  <2> QED
    BY <2>3, <2>4, <2>5, <1>1 DEF OnRequest, Travelling
<1>8. writing > 0 => Pending /\ next_ts = 0 /\ cnt + 1 < Period - 1
  BY <1>1, <1>n DEF OnRequest, Answered, Nums
<1>9. next_ts > 0 => writing = 0 /\ cnt + 1 < Period
  BY <1>n DEF OnRequest, ToShorten, Nums
<1>10. AtRequest'
  <2> SUFFICES ASSUME signalled' PROVE AtRequest'
    BY DEF AtRequest
  <2>1. cnt + 1 = Period
    BY <1>1, <1>3
  <2>2. net = <<>> /\ writing = 0 /\ next_ts = 0 /\ cnt' = 0
    BY <2>1, <1>5, <1>6, <1>8, <1>9, <1>n DEF Nums
  <2>3. ~Pending'
    BY <2>2, <1>2
  <2> QED
    BY <2>2, <2>3, <1>1 DEF AtRequest
<1>11. Answered'
  <2> SUFFICES ASSUME writing > 0 PROVE Answered'
    BY <1>1 DEF Answered
  <2>1. set /\ writing <= SlotLen /\ ToCome <= SlotLen /\ ToCome >= 2 * writing - SlotLen - 1
    BY <1>8 DEF OnRequest, Answered
  <2>2. ~Pending' /\ Lead' = ToCome + SlotLen /\ timer' = SlotLen
    BY <2>1, <1>1, <1>2
  <2>3. cnt' = cnt + 1 /\ cnt' < Period - 1
    BY <1>4, <1>8, <1>n DEF Nums
  <2>4. Lead' <= 2 * SlotLen + writing
    BY <2>1, <2>2, <1>0, <1>n DEF Nums
  <2>5. elapsed' + timer' = SlotLen /\ timer' > 0
    BY <2>2, <1>1, <1>n DEF Nums
  <2> QED
    BY <2>1, <2>2, <2>3, <2>4, <2>5, <1>1 DEF Answered
<1>12. ToShorten'
  BY <1>1 DEF ToShorten
<1>13. ToTake'
  <2> SUFFICES ASSUME Pending', writing = 0 PROVE ToCome' <= SlotLen /\ ToCome' - timer' >= -2 * SlotLen
    BY <1>1 DEF ToTake
  <2>1. Pending /\ next_ts > 0 /\ ToCome' = ToCome
    BY <1>2, <1>n DEF Nums
  <2>2. ToCome <= SlotLen /\ ToCome - timer >= 2 * next_ts - 2 * SlotLen - 1
    BY <2>1 DEF OnRequest, ToShorten
  <2>3. timer' = next_ts
    BY <2>1, <1>1
  <2> QED
    BY <2>1, <2>2, <2>3, <1>0, <1>1, <1>n DEF Nums
<1>14. Agreed'
  <2> SUFFICES ASSUME synced' PROVE Agreed'
    BY DEF Agreed
  <2>1. CASE set
    <3>1. Lead' = ToCome + SlotLen /\ timer' = SlotLen /\ elapsed' = 0
      BY <2>1, <1>1, <1>2
    <3>2. ToCome <= SlotLen /\ ToCome >= -2 * SlotLen
      <4>1. CASE writing = 0
        BY <4>1, <2>1, <1>0, <1>1, <1>n DEF OnRequest, ToTake, Nums
      <4>2. CASE writing # 0
        <5>1. writing > 0 /\ ToCome <= SlotLen /\ ToCome >= 2 * writing - SlotLen - 1
          BY <4>2, <2>1, <1>n DEF OnRequest, Answered, Nums
        <5> QED
          BY <5>1, <1>0, <1>n DEF Nums
      <4> QED
        BY <4>1, <4>2
    <3> QED
      BY <3>1, <3>2, <1>0, <1>n DEF Agreed, Nums
  <2>2. CASE ~set
    <3>1. synced /\ Lead' = Lead - elapsed + SlotLen /\ elapsed' = 0
      BY <2>2, <1>1, <1>2
    <3>2. /\ Lead >= -SlotLen /\ Lead <= 3 * SlotLen
          /\ ~Pending => Lead - elapsed - timer <= 2 * SlotLen
      BY <3>1 DEF OnRequest, Agreed
    <3>3. CASE next_ts > 0
      <4>1. elapsed = SlotLen /\ timer' = next_ts
        BY <3>3, <1>1, <1>n DEF OnRequest, ToShorten, Nums
      <4>2. ~Pending => Lead <= 2 * SlotLen + next_ts
        BY <3>3, <3>1 DEF OnRequest, ToShorten
      <4>3. Lead' = Lead /\ (Pending' <=> Pending)
        BY <4>1, <3>1, <2>2, <1>0, <1>2, <1>n DEF Nums
      <4> QED
        BY <4>1, <4>2, <4>3, <3>1, <3>2, <1>0, <1>n DEF Agreed, Nums
    <3>4. CASE next_ts = 0
      <4>1. ~Pending /\ ~Pending' /\ timer' = SlotLen
        BY <3>4, <2>2, <1>1, <1>2
      <4>2. elapsed <= SlotLen /\ Lead - elapsed <= 2 * SlotLen
        BY <4>1, <3>2, <1>0, <1>1, <1>n DEF OnRequest, Nums
      <4> QED
        BY <4>1, <4>2, <3>1, <3>2, <1>0, <1>n DEF Agreed, Nums
    <3> QED
      BY <3>3, <3>4, <1>n DEF Nums
  <2> QED
    BY <2>1, <2>2
<1>15. elapsed' + timer' <= SlotLen
  BY <1>1, <1>n DEF OnRequest, ToShorten, Nums
<1>16. Pending' => new_tstamp' <= 1
  BY <1>2 DEF OnRequest
<1>17. WholeSlots'
  BY <1>1 DEF OnRequest, WholeSlots
<1> QED
  BY <1>7, <1>10, <1>11, <1>12, <1>13, <1>14, <1>15, <1>16, <1>17 DEF OnRequest

\* a request is sent at the start of a slot of the slave
LEMMA RequestAsk ==
  ASSUME TypeInv, ~Continuous, OnRequest, period_sync
  PROVE  OnRequest'
<1>n. Nums
  BY NumsHold
<1>1. /\ signalled /\ signalled' = FALSE
      /\ UNCHANGED <<usec, phase, ahead, elapsed, timer, new_tstamp, next_ts, cnt, writing, synced, setup>>
  BY DEF period_sync
<1>2. /\ ~Pending /\ next_ts = 0 /\ writing = 0 /\ net = <<>>
      /\ elapsed = 0 /\ timer = SlotLen /\ cnt = 0
  BY <1>1 DEF OnRequest, AtRequest
<1>3. Lead' = Lead /\ (Pending' <=> Pending)
  BY <1>1 DEF Lead, Pending
<1>4. Travelling'
  <2>1. CASE MayAsk
    <3>1. rtt' = 0 /\ net' = <<[to |-> "master", age |-> 0, next_ts |-> 0, stamp |-> 0]>>
      BY <2>1, <1>2 DEF period_sync
    <3>2. net'[1].to = "master" /\ net'[1].age = 0
      BY <3>1
    <3>3. rtt' = cnt' * SlotLen + elapsed'
      BY <3>1, <1>1, <1>2, <1>n DEF Nums
    <3>4. elapsed' + timer' = SlotLen
      BY <1>1, <1>2, <1>n DEF Nums
    <3> QED
      BY <3>1, <3>2, <3>3, <3>4, <1>1, <1>2, <1>3 DEF Travelling
  <2>2. CASE ~MayAsk
    BY <2>2, <1>2 DEF period_sync, Travelling
  <2> QED
    BY <2>1, <2>2
<1>5. AtRequest' /\ Answered' /\ ToShorten' /\ ToTake'
  BY <1>1, <1>2, <1>3 DEF AtRequest, Answered, ToShorten, ToTake
<1>6. Agreed'
  BY <1>1, <1>3 DEF OnRequest, Agreed
<1>7. elapsed' + timer' <= SlotLen /\ (Pending' => new_tstamp' <= 1) /\ WholeSlots'
  BY <1>1, <1>3 DEF OnRequest, WholeSlots
<1> QED
  BY <1>4, <1>5, <1>6, <1>7 DEF OnRequest

\* what the master answers: the time to its next slot
LEMMA AnswerIs ==
  ASSUME TypeInv, Regular, WholeSlots
  PROVE  Answer = [to |-> "slave", age |-> 0, next_ts |-> SlotLen - phase, stamp |-> 1]
<1>n. Nums
  BY NumsHold
<1>1. PICK m \in Nat : Second = m * SlotLen
  BY DEF Regular
<1>2. PICK k \in Nat : usec = k * SlotLen
  BY DEF WholeSlots
<1>3. k < m
  BY <1>1, <1>2, <1>n, TimesLess DEF Nums
<1>4. usec + SlotLen <= Second
  <2>1. PICK d \in Nat : m = k + 1 + d
    <3>1. m - (k + 1) \in Nat /\ m = k + 1 + (m - (k + 1))
      BY <1>3
    <3> QED
      BY <3>1
  <2>2. Second = k * SlotLen + SlotLen + d * SlotLen /\ d * SlotLen >= 0 /\ k * SlotLen \in Int
    BY <2>1, <1>1, <1>n DEF Nums
  <2> QED
    BY <2>2, <1>2, <1>n DEF Nums
<1>5. (usec + phase) % Second = usec + phase
  <2>1. \A i \in Nat : i < Second => i % Second = i
    BY <1>n DEF Nums
  <2>2. usec + phase \in Nat /\ usec + phase < Second
    BY <1>4, <1>n DEF Nums
  <2> QED
    BY <2>1, <2>2
<1>6. SlotLen - ((usec + phase) % Second) + usec = SlotLen - phase
  BY <1>5, <1>n DEF Nums
<1> QED
  BY <1>6 DEF Answer

\* the answer tells the time to the master's next slot
LEMMA RequestReply ==
  ASSUME TypeInv, Regular, ~Continuous, OnRequest, answer_packet_master
  PROVE  OnRequest'
<1>n. Nums
  BY NumsHold
<1>1. /\ net # <<>> /\ Head(net).to = "master" /\ net' = Append(Tail(net), Answer)
      /\ UNCHANGED <<usec, phase, ahead, elapsed, timer, new_tstamp, next_ts, cnt, signalled, rtt, writing, synced, setup>>
  BY DEF answer_packet_master, kernelVars
<1>2. Lead' = Lead /\ (Pending' <=> Pending) /\ ToCome' = ToCome
  BY <1>1 DEF Lead, Pending, ToCome
<1>3. net[1].to = "master" /\ Tail(net) = <<>> /\ net[1].age \in 0..setup.delay
  <2>1. 1 \in 1..Len(net) /\ Head(net) = net[1] /\ Tail(net) = <<>>
    BY <1>1, OnePacket
  <2> QED
    BY <2>1, <1>1, PktsHold DEF Pkts
<1>4. net' = <<[to |-> "slave", age |-> 0, next_ts |-> SlotLen - phase, stamp |-> 1]>>
  <2>1. net' = Append(<<>>, [to |-> "slave", age |-> 0, next_ts |-> SlotLen - phase, stamp |-> 1])
    BY <1>1, <1>3, AnswerIs DEF OnRequest
  <2> QED
    BY <2>1
<1>5. net'[1].to = "slave" /\ net'[1].age = 0 /\ net'[1].next_ts = SlotLen - phase /\ net'[1].stamp = 1
  BY <1>4
<1>6. net[1].age = rtt
  BY <1>1, <1>3 DEF OnRequest, Travelling
<1>7. /\ net'[1].age <= rtt' /\ rtt' <= net'[1].age + setup'.delay
      /\ net'[1].next_ts \in 1..SlotLen
      /\ net'[1].stamp * SlotLen - phase' = net'[1].next_ts - net'[1].age
  <2>1. rtt >= 0 /\ rtt <= setup.delay
    BY <1>3, <1>6, <1>n DEF Nums
  <2>2. setup' = setup /\ rtt' = rtt /\ phase' = phase
    BY <1>1
  <2>3. SlotLen - phase \in 1..SlotLen
    BY <1>n DEF Nums
  <2>4. 1 * SlotLen - phase = SlotLen - phase - 0
    BY <1>n DEF Nums
  <2> QED
    BY <2>1, <2>2, <2>3, <2>4, <1>5, <1>n DEF Nums
<1>8. Travelling'
  <2>1. /\ ~Pending /\ next_ts = 0 /\ ~signalled
        /\ elapsed + timer = SlotLen /\ rtt = cnt * SlotLen + elapsed
    BY <1>1 DEF OnRequest, Travelling
  <2> QED
    BY <2>1, <1>1, <1>2, <1>5, <1>7 DEF Travelling
<1>9. writing = 0 /\ ~signalled
  BY <1>1, OnePacket DEF OnRequest, Travelling
<1>10. AtRequest' /\ Answered' /\ ToShorten' /\ ToTake' /\ Agreed'
  BY <1>1, <1>2, <1>9 DEF OnRequest, AtRequest, Answered, ToShorten, ToTake, Agreed
<1>11. elapsed' + timer' <= SlotLen /\ (Pending' => new_tstamp' <= 1) /\ WholeSlots'
  BY <1>1, <1>2 DEF OnRequest, WholeSlots
<1> QED
  BY <1>8, <1>10, <1>11 DEF OnRequest

\* an answer that is taken is right to within half the round trip, and leaves a slot before the next request
LEMMA RequestTaken ==
  ASSUME TypeInv, ~Continuous, Prompt, OnRequest, answer_packet
  PROVE  OnRequest'
<1>n. Nums
  BY NumsHold
<1>1. /\ net # <<>> /\ Head(net).to = "slave" /\ net' = Tail(net)
      /\ UNCHANGED <<usec, phase, ahead, elapsed, timer, next_ts, cnt, signalled, synced, setup>>
  BY DEF answer_packet
<1>2. 1 \in 1..Len(net) /\ Head(net) = net[1] /\ net' = <<>> /\ writing = 0
  BY <1>1, OnePacket
<1>3. /\ ~Pending /\ next_ts = 0 /\ ~signalled
      /\ elapsed + timer = SlotLen /\ rtt = cnt * SlotLen + elapsed
  BY <1>1 DEF OnRequest, Travelling
<1>4. net[1].to = "slave"
  BY <1>1, <1>2
<1>5. /\ net[1].age <= rtt /\ rtt <= net[1].age + setup.delay
      /\ net[1].next_ts \in 1..SlotLen
      /\ net[1].stamp * SlotLen - phase = net[1].next_ts - net[1].age
  BY <1>1, <1>4 DEF OnRequest, Travelling
<1>6. net[1].age \in 0..setup.delay /\ net[1].age \in Nat /\ net[1].stamp \in Int /\ net[1].next_ts \in Int
  <2>1. net[1].age \in 0..setup.delay /\ net[1].stamp \in Int /\ net[1].next_ts \in Int
    BY <1>2, PktsHold DEF Pkts
  <2> QED
    BY <2>1, <1>n DEF Nums
<1> DEFINE half == rtt \div 2
           good == net[1].next_ts > half /\ rtt >= 0 /\ rtt < Limit
<1>7. /\ writing' = IF good THEN net[1].next_ts - half ELSE 0
      /\ new_tstamp' = IF good THEN net[1].stamp ELSE new_tstamp
  BY <1>2 DEF answer_packet
<1>8. Lead' = Lead /\ WholeSlots' /\ elapsed' + timer' <= SlotLen
  BY <1>1 DEF Lead, OnRequest, WholeSlots
<1>9. Travelling' /\ AtRequest' /\ ToShorten'
  BY <1>1, <1>2, <1>3, <1>n DEF Travelling, AtRequest, ToShorten, Nums
<1>10. CASE good
  <2>1. rtt \in Nat /\ half \in Nat /\ rtt <= 2 * half + 1 /\ 2 * half <= rtt
    BY <1>10, <1>n DEF Nums
  <2>2. net[1].next_ts > half
    BY <1>10
  <2> HIDE DEF half
  <2>3. PICK c \in Int : c = net[1].next_ts
    <3>1. net[1].next_ts \in Int
      BY <1>6
    <3> QED
      BY <3>1
  <2>4. PICK a \in Nat : a = net[1].age
    <3>1. net[1].age \in Nat
      BY <1>6
    <3> QED
      BY <3>1
  <2>5. writing' = c - half /\ new_tstamp' = net[1].stamp
    BY <1>7, <1>10, <2>3
  <2>6. ToCome' = c - a
    BY <2>3, <2>4, <2>5, <1>1, <1>5 DEF ToCome
  <2>7. writing' > 0 /\ writing' <= SlotLen
    BY <2>1, <2>2, <2>3, <2>5, <1>5, <1>n DEF Nums
  <2>8. ToCome' <= SlotLen /\ ToCome' >= 2 * writing' - SlotLen - 1
    <3>1. a <= rtt /\ c <= SlotLen /\ rtt <= 2 * half + 1
      BY <2>1, <2>3, <2>4, <1>5, <1>n DEF Nums
    <3>2. a \in Nat /\ c \in Int /\ half \in Nat /\ SlotLen \in Nat /\ rtt \in Int
      BY <2>1, <1>n DEF Nums
    <3>3. c - a <= SlotLen /\ c - a >= 2 * (c - half) - SlotLen - 1
      BY <3>1, <3>2
    <3> QED
      BY <3>3, <2>5, <2>6
  <2>9. new_tstamp' <= 1 /\ Pending'
    <3>1. net[1].stamp * SlotLen < 2 * SlotLen
      <4>0. net[1].stamp \in Int /\ SlotLen \in Nat
        BY <1>6, <1>n DEF Nums
      <4>1. PICK x \in Int : x = net[1].stamp * SlotLen
        <5>1. net[1].stamp * SlotLen \in Int
          BY <4>0, Times
        <5> QED
          BY <5>1
      <4>2. x - phase = c - a
        BY <4>1, <2>3, <2>4, <1>5
      <4>3. x < 2 * SlotLen
        BY <4>2, <2>3, <1>5, <1>n DEF Nums
      <4> QED
        BY <4>1, <4>3
    <3>2. net[1].stamp < 2
      BY <3>1, <1>6, <1>n, TimesLess DEF Nums
    <3> QED
      BY <3>2, <2>5, <1>6 DEF Pending, NoStamp
  <2>10. rtt < (Period - 1) * SlotLen
    <3>1. (Period - 1) * SlotLen = Period * SlotLen - SlotLen /\ Period * SlotLen \in Int
      BY <1>n, Times DEF Nums
    <3>2. rtt <= 2 * setup.delay
      BY <1>5, <1>6, <1>n DEF Nums
    <3> QED
      BY <3>1, <3>2, <1>n DEF Prompt, Nums
  <2>11. cnt < Period - 1
    <3>1. cnt * SlotLen < (Period - 1) * SlotLen
      <4>1. cnt * SlotLen \in Int /\ (Period - 1) * SlotLen \in Int
        BY <1>n DEF Nums
      <4> QED
        BY <4>1, <2>10, <1>3, <1>n DEF Nums
    <3>2. cnt \in Int /\ Period - 1 \in Int
      BY <1>n DEF Nums
    <3> QED
      BY <3>1, <3>2, <1>n, TimesLess DEF Nums
  <2>12. timer = 0 => cnt + 1 < Period - 1
    <3> SUFFICES ASSUME timer = 0 PROVE cnt + 1 < Period - 1
      OBVIOUS
    <3>1. (cnt + 1) * SlotLen < (Period - 1) * SlotLen
      <4>1. cnt * SlotLen \in Int /\ (cnt + 1) * SlotLen = cnt * SlotLen + SlotLen /\ (Period - 1) * SlotLen \in Int
        BY <1>n, Times DEF Nums
      <4>2. elapsed = SlotLen
        BY <1>3, <1>n DEF Nums
      <4> QED
        BY <4>1, <4>2, <2>10, <1>3, <1>n DEF Nums
    <3>2. cnt + 1 \in Int /\ Period - 1 \in Int
      BY <1>n DEF Nums
    <3> QED
      BY <3>1, <3>2, <1>n, TimesLess DEF Nums
  <2>13. Answered'
    BY <2>7, <2>8, <2>9, <2>11, <2>12, <1>1, <1>3 DEF Answered
  <2>14. ToTake' /\ Agreed'
    <3>1. ToTake'
      BY <2>7, <2>5, <2>1, <2>3 DEF ToTake
    <3>2. Agreed'
      BY <2>9, <1>1, <1>8 DEF OnRequest, Agreed
    <3> QED
      BY <3>1, <3>2
  <2> QED
    BY <2>9, <2>13, <2>14, <1>8, <1>9 DEF OnRequest
<1>11. CASE ~good
  <2>1. writing' = 0 /\ new_tstamp' = new_tstamp
    BY <1>7, <1>11
  <2>2. ~Pending'
    BY <2>1, <1>3 DEF Pending
  <2> QED
    BY <2>1, <2>2, <1>1, <1>3, <1>8, <1>9 DEF OnRequest, Answered, ToTake, Agreed
<1> QED
  BY <1>10, <1>11

\* the slot is shortened only after the number has been taken over or together with it
LEMMA RequestWrite ==
  ASSUME TypeInv, ~Continuous, OnRequest, time_sync
  PROVE  OnRequest'
<1>n. Nums
  BY NumsHold
<1>1. /\ writing > 0 /\ writing' = 0 /\ next_ts' = writing
      /\ UNCHANGED <<usec, phase, ahead, elapsed, timer, new_tstamp, cnt, signalled, rtt, net, synced, setup>>
  BY DEF time_sync
<1>2. Lead' = Lead /\ (Pending' <=> Pending) /\ ToCome' = ToCome /\ Lead \in Int /\ ToCome \in Int
  BY <1>1, LeadInt DEF Lead, Pending, ToCome
<1>3. /\ next_ts = 0 /\ elapsed + timer = SlotLen /\ writing <= SlotLen
      /\ cnt < Period - 1
      /\ IF Pending THEN ToCome <= SlotLen /\ ToCome >= 2 * writing - SlotLen - 1
                    ELSE timer > 0 /\ (synced => Lead <= 2 * SlotLen + writing)
  BY <1>1 DEF OnRequest, Answered
<1>4. net = <<>> /\ ~signalled
  <2>1. net = <<>>
    <3>1. net # <<>> => writing = 0
      BY OnePacket
    <3> QED
      BY <3>1, <1>1, <1>n DEF Nums
  <2>2. ~signalled
    BY <1>1, <1>n DEF OnRequest, AtRequest, Nums
  <2> QED
    BY <2>1, <2>2
<1>5. ToShorten'
  <2>1. Pending => ToCome - timer >= 2 * writing - 2 * SlotLen - 1
    BY <1>2, <1>3, <1>n DEF Nums
  <2> QED
    BY <2>1, <1>1, <1>2, <1>3 DEF ToShorten
<1>6. Travelling' /\ AtRequest' /\ Answered'
  BY <1>1, <1>4 DEF Travelling, AtRequest, Answered
<1>7. ToTake' /\ Agreed' /\ WholeSlots'
  BY <1>1, <1>2, <1>n DEF OnRequest, ToTake, Agreed, WholeSlots, Nums
<1>8. elapsed' + timer' <= SlotLen /\ (Pending' => new_tstamp' <= 1)
  BY <1>1, <1>2 DEF OnRequest
<1> QED
  BY <1>5, <1>6, <1>7, <1>8 DEF OnRequest

\* a lost packet leaves the slave as it is
LEMMA RequestLost ==
  ASSUME TypeInv, ~Continuous, OnRequest, lose
  PROVE  OnRequest'
<1>1. /\ net # <<>> /\ net' = Tail(net)
      /\ UNCHANGED <<usec, phase, ahead, elapsed, timer, new_tstamp, next_ts, cnt, signalled, rtt, writing, synced, setup>>
  BY DEF lose, kernelVars
<1>2. Lead' = Lead /\ (Pending' <=> Pending) /\ ToCome' = ToCome /\ net' = <<>> /\ ~signalled
  BY <1>1, OnePacket DEF Lead, Pending, ToCome, OnRequest, Travelling
<1> QED
  BY <1>1, <1>2 DEF OnRequest, WholeSlots, Travelling, AtRequest, Answered, ToShorten, ToTake, Agreed

-----------------------------------------------------------------------------
(* A continuous master. *)
LEMMA DrivenFacts ==
  ASSUME TypeInv, Regular, Continuous
  PROVE  /\ setup.tasks <= 1 /\ setup.tasks \in Nat /\ dac + Len(net) <= 2 /\ Len(net) \in Nat /\ dac \in Nat
         /\ writing = 0 /\ next_ts = 0
<1>n. Nums
  BY NumsHold
<1>1. setup.tasks <= 1
  BY PktsHold DEF Pkts, Regular, Continuous
<1>2. PICK k \in 0..setup.tasks : Waves(k)
  BY DEF TypeInv, Steady
<1>3. dac + Len(net) <= 2
  BY <1>1, <1>2, <1>n DEF Waves, Nums
<1>4. writing = 0 /\ next_ts = 0
  BY DEF TypeInv, Steady
<1> QED
  BY <1>1, <1>3, <1>4, <1>n DEF Nums

\* without clients nothing is sent
LEMMA IdleIsEmpty ==
  ASSUME TypeInv, Continuous, setup.tasks = 0
  PROVE  Len(net) = 0
<1>n. Nums
  BY NumsHold
<1>1. PICK k \in 0..setup.tasks : Waves(k)
  BY DEF TypeInv, Steady
<1> QED
  BY <1>1, <1>n DEF Waves, Nums

\* the packet at the head
LEMMA FirstPacket ==
  ASSUME TypeInv, net # <<>>
  PROVE  1 \in 1..Len(net) /\ Head(net) = net[1]
<1>1. net \in Seq(Packet(setup))
  BY PktsHold DEF Pkts
<1> QED
  BY <1>1, HeadTailProperties

\* a new slot of the master puts the slave a slot back, and a packet under way
LEMMA DrivenTick ==
  ASSUME TypeInv, TypeInv', Regular, Continuous, Driven, Tick
  PROVE  Driven'
<1>n. Nums
  BY NumsHold
<1>p. Pkts
  BY PktsHold
<1>1. /\ dac = 0 /\ dac' = 0 /\ setup' = setup /\ synced' = synced
      /\ ahead' = IF MasterSlot THEN ahead - 1 ELSE ahead
      /\ new_tstamp' = IF MasterSlot /\ new_tstamp # NoStamp THEN new_tstamp - 1 ELSE new_tstamp
  BY DEF Tick
<1>2. ~Pending /\ ~Pending'
  BY <1>1, <1>n DEF Driven, Pending, Nums
<1>f. setup.tasks \in {0, 1} /\ Len(net) \in Nat
  BY DrivenFacts
<1> DEFINE old == [i \in 1..Len(net) |-> Later(net[i])]
           fresh == [to |-> "slave", age |-> 0, next_ts |-> 0, stamp |-> 0]
<1>3. old \in Seq({Later(net[i]) : i \in 1..Len(net)}) /\ Len(old) = Len(net)
  <2>1. old \in [1..Len(net) -> {Later(net[i]) : i \in 1..Len(net)}]
    OBVIOUS
  <2> QED
    BY <2>1, <1>f, SeqDef
<1>4. \A i \in 1..Len(net) : old[i].stamp = IF MasterSlot THEN net[i].stamp - 1 ELSE net[i].stamp
  BY DEF Later
<1> HIDE DEF old
<1>5. CASE MasterSlot /\ setup.tasks = 1
  <2>1. continuous_sync = [i \in 1..1 |-> fresh]
    BY <1>5 DEF continuous_sync
  <2>2. net' = old \o <<fresh>>
    <3>1. [i \in 1..1 |-> fresh] = <<fresh>>
      OBVIOUS
    <3> QED
      BY <2>1, <3>1 DEF Tick, old
  <2> HIDE DEF fresh
  <2>3. /\ Len(net') = Len(net) + 1 /\ net'[Len(net) + 1] = fresh
        /\ \A i \in 1..Len(net) : net'[i] = old[i]
    BY <2>2, <1>3, SMTT(30)
  <2>4. \A n \in 1..Len(net') : net'[n].stamp = n - Len(net')
    <3> SUFFICES ASSUME NEW n \in 1..Len(net') PROVE net'[n].stamp = n - Len(net')
      OBVIOUS
    <3>1. CASE n = Len(net) + 1
      BY <3>1, <2>3, <1>f DEF fresh
    <3>2. CASE n # Len(net) + 1
      <4>1. n \in 1..Len(net)
        BY <3>2, <2>3, <1>f
      <4>2. net'[n].stamp = net[n].stamp - 1 /\ net[n].stamp = n - Len(net)
        BY <4>1, <2>3, <1>4, <1>5 DEF Driven
      <4> QED
        BY <4>1, <4>2, <2>3, <1>f
    <3> QED
      BY <3>1, <3>2
  <2>5. Calm' <=> Calm
    BY <1>1 DEF Calm
  <2>6. synced => ahead' <= 2 /\ (Calm => ahead' >= 1 - Len(net'))
    <3>1. ahead' = ahead - 1
      BY <1>1, <1>5
    <3>2. synced => ahead <= 2 /\ (Calm => ahead >= 1 - Len(net))
      BY <1>2, <1>f, <1>n DEF Driven, Nums
    <3>3. ASSUME synced PROVE ahead' <= 2 /\ (Calm => ahead' >= 1 - Len(net'))
      BY <3>1, <3>2, <3>3, <2>3, <1>f, <1>n DEF Nums
    <3> QED
      BY <3>3
  <2>7. Len(net') \in Int /\ ahead' \in Int
    BY <2>3, <1>f, <1>1, <1>n DEF Nums
  <2> QED
    BY <2>4, <2>5, <2>6, <2>7, <1>1, <1>2 DEF Driven
<1>6. CASE ~(MasterSlot /\ setup.tasks = 1)
  <2>1. ~MasterSlot \/ setup.tasks = 0
    BY <1>6, <1>f
  <2>2. continuous_sync = <<>>
    <3>1. CASE ~MasterSlot
      BY <3>1 DEF continuous_sync
    <3>2. CASE setup.tasks = 0
      <4>1. [i \in 1..0 |-> fresh] = <<>>
        OBVIOUS
      <4> QED
        BY <3>2, <4>1 DEF continuous_sync
    <3> QED
      BY <2>1, <3>1, <3>2
  <2>3. net' = old
    <3>1. net' = old \o <<>>
      BY <2>2 DEF Tick, old
    <3> QED
      BY <3>1, <1>3, ConcatEmptySeq
  <2>4. synced => ahead' = ahead /\ ~MasterSlot
    BY <1>1, <2>1, <1>f DEF Driven
  <2>5. \A n \in 1..Len(net') : net'[n].stamp = n - Len(net')
    <3> SUFFICES ASSUME NEW n \in 1..Len(net) PROVE net'[n].stamp = n - Len(net)
      BY <2>3, <1>3
    <3>1. net[n].stamp = n - Len(net)
      BY DEF Driven
    <3>2. net'[n].stamp = IF MasterSlot THEN net[n].stamp - 1 ELSE net[n].stamp
      BY <2>3, <1>4
    <3>3. ~MasterSlot
      <4>1. setup.tasks # 0
        <5> SUFFICES ASSUME setup.tasks = 0 PROVE FALSE
          OBVIOUS
        <5>1. Len(net) = 0
          BY IdleIsEmpty, <1>f
        <5> QED
          BY <5>1
      <4> QED
        BY <2>1, <4>1
    <3> QED
      BY <3>1, <3>2, <3>3
  <2>6. Len(net') = Len(net) /\ (Calm' <=> Calm)
    BY <2>3, <1>3, <1>1 DEF Calm
  <2>7. synced => /\ setup.tasks > 0 /\ ahead <= 2 /\ (Calm => ahead >= 1 - Len(net))
    BY <1>2, <1>f, <1>n DEF Driven, Nums
  <2> QED
    BY <2>4, <2>5, <2>6, <2>7, <1>1, <1>2, <1>f, <1>n DEF Driven, Nums
<1> QED
  BY <1>5, <1>6

\* a post of sem_dac is a slot of the slave, with the number that came with it if none has overtaken it
LEMMA DrivenSlot ==
  ASSUME TypeInv, Regular, Continuous, Driven, syncTslot
  PROVE  Driven'
<1>n. Nums
  BY NumsHold
<1>1. /\ setup.tasks > 0 /\ dac + Len(net) <= 2 /\ Len(net) \in Nat /\ dac \in Nat /\ next_ts = 0
  <2>1. dac > 0 /\ setup.tasks \in Nat /\ dac \in Nat /\ dac <= 2 * setup.tasks
    BY DrivenFacts, <1>n DEF syncTslot, TypeInv, STypeOK, Nums
  <2> QED
    BY <2>1, DrivenFacts
<1>2. /\ dac > 0 /\ dac' = dac - 1 /\ UNCHANGED <<net, setup>> /\ ~Pending'
      /\ ahead' = IF Pending THEN new_tstamp + 1 ELSE ahead + 1
  <2>1. Pending => new_tstamp' = NoStamp
    BY <1>1 DEF syncTslot, Pending
  <2>2. ~Pending => new_tstamp' = NoStamp
    BY DEF syncTslot, Pending
  <2>3. ahead' = IF Pending THEN new_tstamp + 1 ELSE ahead + 1
    BY <1>1 DEF syncTslot, Pending, TakenOver
  <2> QED
    BY <2>1, <2>2, <2>3 DEF syncTslot, Pending
<1>3. \A n \in 1..Len(net') : net'[n].stamp = n - Len(net')
  BY <1>2 DEF Driven
<1>4. Calm' <=> Calm
  BY <1>2 DEF Calm
<1>5. dac' <= 1
  BY <1>1, <1>2
<1>6. synced' => /\ ahead' <= 2 /\ (dac' = 1 => ahead' <= 1) /\ (Calm => ahead' >= 1 - Len(net))
  <2>1. CASE Pending
    <3>1. new_tstamp <= 0 /\ (Calm => new_tstamp >= -Len(net)) /\ ahead' = new_tstamp + 1
      BY <2>1, <1>2 DEF Driven
    <3> QED
      BY <3>1, <1>1, <1>n DEF Nums
  <2>2. CASE ~Pending
    <3>1. synced' = synced /\ ahead' = ahead + 1
      BY <2>2, <1>2, <1>n DEF syncTslot, Pending, TypeInv, STypeOK
    <3>2. dac = 1 /\ dac' = 0
      BY <2>2, <1>1, <1>2 DEF Driven
    <3>3. synced => ahead <= 1 /\ (Calm => ahead >= 1 - Len(net))
      BY <2>2, <3>2, <1>1, <1>n DEF Driven, Nums
    <3> QED
      BY <3>1, <3>2, <3>3, <1>1, <1>n DEF Nums
  <2> QED
    BY <2>1, <2>2
<1>7. Len(net') = Len(net) /\ setup'.tasks > 0
  BY <1>1, <1>2
<1> QED
  BY <1>1, <1>2, <1>3, <1>4, <1>5, <1>6, <1>7 DEF Driven

\* the number of a packet is as old as the packets behind it are many
LEMMA DrivenTaken ==
  ASSUME TypeInv, Regular, Continuous, Driven, sync_tslot
  PROVE  Driven'
<1>n. Nums
  BY NumsHold
<1>1. /\ net # <<>> /\ net' = Tail(net) /\ new_tstamp' = Head(net).stamp /\ dac' = dac + 1
      /\ UNCHANGED <<ahead, synced, setup>>
  BY DEF sync_tslot
<1>2. /\ 1 \in 1..Len(net) /\ Head(net) = net[1] /\ Len(net') = Len(net) - 1 /\ Len(net') \in Nat
      /\ \A n \in 1..Len(net') : net'[n] = net[n + 1] /\ n + 1 \in 1..Len(net)
  <2>1. /\ 1 \in 1..Len(net) /\ Head(net) = net[1] /\ Len(net') = Len(net) - 1 /\ Len(net') \in Nat
        /\ \A n \in 1..Len(net') : net'[n] = net[n + 1]
    BY <1>1, TailFacts
  <2> QED
    BY <2>1, <1>n DEF Nums
<1>3. \A n \in 1..Len(net') : net'[n].stamp = n - Len(net')
  <2> SUFFICES ASSUME NEW n \in 1..Len(net') PROVE net'[n].stamp = n - Len(net')
    OBVIOUS
  <2>1. net[n + 1].stamp = n + 1 - Len(net)
    BY <1>2 DEF Driven
  <2> QED
    BY <2>1, <1>2, <1>n DEF Nums
<1>4. new_tstamp' = -Len(net') /\ new_tstamp' <= 0
  <2>1. net[1].stamp = 1 - Len(net)
    BY <1>2 DEF Driven
  <2> QED
    BY <2>1, <1>1, <1>2, <1>n DEF Nums
<1>5. Pending' /\ dac' > 0 /\ (Calm' <=> Calm)
  <2>1. new_tstamp' # 1000
    BY <1>4, <1>2
  <2> QED
    BY <2>1, <1>1, <1>n DEF Pending, NoStamp, Calm, Nums
<1>6. synced => /\ setup.tasks > 0 /\ ahead <= 2 /\ (Calm => ahead >= 1 - Len(net') - dac')
  <2>1. synced => /\ setup.tasks > 0 /\ ahead <= 2
                  /\ Calm => ahead >= 1 - Len(net) - (IF Pending THEN dac ELSE 0)
    BY DEF Driven
  <2>2. 1 - Len(net') - dac' = 1 - Len(net) - dac
    BY <1>1, <1>2, <1>n DEF Nums
  <2>3. 1 - Len(net) - (IF Pending THEN dac ELSE 0) >= 1 - Len(net) - dac
    BY <1>n DEF Nums
  <2>4. ASSUME synced, Calm PROVE ahead >= 1 - Len(net') - dac'
    <3>1. ahead >= 1 - Len(net) - (IF Pending THEN dac ELSE 0)
      BY <2>1, <2>4
    <3> QED
      BY <3>1, <2>2, <2>3, <1>n DEF Nums
  <2> QED
    BY <2>1, <2>4
<1>7. Calm => new_tstamp' >= -Len(net')
  BY <1>4, <1>2
<1> QED
  BY <1>1, <1>3, <1>4, <1>5, <1>6, <1>7 DEF Driven

\* nothing is said of a slave that loses packets but that it is not ahead
LEMMA DrivenLost ==
  ASSUME TypeInv, Regular, Continuous, Driven, lose
  PROVE  Driven'
<1>n. Nums
  BY NumsHold
<1>1. /\ net # <<>> /\ net' = Tail(net) /\ setup.lost
      /\ UNCHANGED <<ahead, synced, setup, new_tstamp, dac>>
  BY DEF lose, kernelVars
<1>2. ~Calm' /\ (Pending' <=> Pending)
  BY <1>1 DEF Calm, Pending
<1>3. /\ Len(net') = Len(net) - 1 /\ Len(net') \in Nat
      /\ \A n \in 1..Len(net') : net'[n] = net[n + 1] /\ n + 1 \in 1..Len(net)
  <2>1. /\ Len(net') = Len(net) - 1 /\ Len(net') \in Nat
        /\ \A n \in 1..Len(net') : net'[n] = net[n + 1]
    BY <1>1, TailFacts
  <2> QED
    BY <2>1, <1>n DEF Nums
<1>4. \A n \in 1..Len(net') : net'[n].stamp = n - Len(net')
  <2> SUFFICES ASSUME NEW n \in 1..Len(net') PROVE net'[n].stamp = n - Len(net')
    OBVIOUS
  <2>1. net[n + 1].stamp = n + 1 - Len(net)
    BY <1>3 DEF Driven
  <2> QED
    BY <2>1, <1>3, <1>n DEF Nums
<1> QED
  BY <1>1, <1>2, <1>4 DEF Driven

-----------------------------------------------------------------------------
\* nothing has been taken over in the beginning
LEMMA SyncInit == SInit /\ Near => SyncInv
<1> SUFFICES ASSUME SInit, Near PROVE SyncInv
  OBVIOUS
<1>t. TypeInv
  BY TypeInit
<1>n. Nums
  BY <1>t, NumsHold
<1>1. /\ usec = 0 /\ elapsed = 0 /\ timer \in 1..SlotLen /\ dac = 0 /\ new_tstamp = NoStamp /\ next_ts = 0
      /\ signalled = FALSE /\ writing = 0 /\ net = <<>> /\ synced = FALSE
  BY DEF SInit
<1>2. ~Pending
  BY <1>1 DEF Pending
<1>3. elapsed + timer <= SlotLen
  BY <1>1, <1>n DEF Nums
<1>4. WholeSlots
  <2>1. 0 \in Nat /\ usec = 0 * SlotLen
    BY <1>1, <1>n DEF Nums
  <2> QED
    BY <2>1 DEF WholeSlots
<1>5. OnRequest
  BY <1>1, <1>2, <1>3, <1>4 DEF OnRequest, Travelling, AtRequest, Answered, ToShorten, ToTake, Agreed
<1>6. Driven
  <2>1. Len(net) = 0
    BY <1>1
  <2> QED
    BY <2>1, <1>1, <1>2 DEF Driven
<1> QED
  BY <1>t, <1>5, <1>6 DEF SyncInv

\* every step keeps the invariant
LEMMA SyncStep ==
  ASSUME SyncInv, Near, Regular, [SNext]_svars
  PROVE  SyncInv'
<1>t. TypeInv /\ TypeInv'
  BY TypeStep DEF SyncInv
<1>1. setup' = setup /\ (Prompt' <=> Prompt) /\ (Continuous' <=> Continuous)
  <2>1. setup' = setup
    BY DEF SNext, svars, Tick, syncTslot, period_sync, answer_packet_master, answer_packet, time_sync,
           sync_tslot, lose
  <2> QED
    BY <2>1 DEF Prompt, Continuous
<1>2. ASSUME ~Continuous, Prompt PROVE OnRequest'
  <2>1. OnRequest
    BY <1>2 DEF SyncInv
  <2>2. CASE UNCHANGED svars
    BY <2>1, <2>2 DEF svars, kernelVars, OnRequest, WholeSlots, Travelling, AtRequest, Answered, ToShorten,
                      ToTake, Agreed, Pending, Lead, ToCome
  <2>3. ~sync_tslot
    BY <1>2 DEF sync_tslot
  <2> QED
    BY <1>2, <1>t, <2>1, <2>2, <2>3, RequestTick, RequestSlot, RequestAsk, RequestReply, RequestTaken,
       RequestWrite, RequestLost DEF SNext
<1>3. ASSUME Continuous PROVE Driven'
  <2>1. Driven
    BY <1>3 DEF SyncInv
  <2>2. CASE UNCHANGED svars
    BY <2>1, <2>2 DEF svars, kernelVars, Driven, Pending, Calm
  <2>3. ~signalled /\ writing = 0
    BY <1>3, <1>t DEF TypeInv, Steady
  <2>4. ~period_sync /\ ~answer_packet /\ ~time_sync
    BY <1>3, <2>3 DEF period_sync, answer_packet, time_sync
  <2>5. ~answer_packet_master
    <3> SUFFICES ASSUME answer_packet_master PROVE FALSE
      OBVIOUS
    <3>1. net # <<>> /\ Head(net).to = "master"
      BY DEF answer_packet_master
    <3>2. PICK k \in 0..setup.tasks : Waves(k)
      BY <1>3, <1>t DEF TypeInv, Steady
    <3>3. 1 \in 1..Len(net) /\ Head(net) = net[1]
      BY <1>t, <3>1, FirstPacket
    <3>4. net[1].to = "slave"
      BY <3>2, <3>3 DEF Waves
    <3> QED
      BY <3>1, <3>3, <3>4
  <2> QED
    BY <1>3, <1>t, <2>1, <2>2, <2>4, <2>5, DrivenTick, DrivenSlot, DrivenTaken, DrivenLost DEF SNext
<1> QED
  BY <1>1, <1>2, <1>3, <1>t DEF SyncInv

\* what is known of the times bounds the numbers
LEMMA SyncAgrees ==
  ASSUME SyncInv, Regular
  PROVE  SlotsAgree
<1> SUFFICES ASSUME synced, timer > 0, Prompt, Continuous => Calm
             PROVE  ahead \in -1..3
  BY DEF SlotsAgree
<1>t. TypeInv
  BY DEF SyncInv
<1>n. Nums
  BY <1>t, NumsHold
<1>1. CASE ~Continuous
  <2>1. Lead >= -SlotLen /\ Lead <= 3 * SlotLen /\ elapsed + timer <= SlotLen
    BY <1>1 DEF SyncInv, OnRequest, Agreed
  <2>2. ahead * SlotLen \in Int /\ (-2) * SlotLen = -(2 * SlotLen) /\ 4 * SlotLen = 3 * SlotLen + SlotLen
    BY <1>n DEF Nums
  <2>3. ahead * SlotLen > -(2 * SlotLen) /\ ahead * SlotLen < 3 * SlotLen + SlotLen
    BY <2>1, <2>2, <1>n DEF Lead, Nums
  <2>4. -2 < ahead
    BY <2>2, <2>3, <1>n, TimesLess DEF Nums
  <2>5. ahead < 4
    BY <2>2, <2>3, <1>n, TimesLess DEF Nums
  <2> QED
    BY <2>4, <2>5, <1>n DEF Nums
<1>2. CASE Continuous
  <2>1. ahead <= 2 /\ ahead >= 1 - Len(net) - (IF Pending THEN dac ELSE 0)
    BY <1>2 DEF SyncInv, Driven
  <2>2. dac + Len(net) <= 2
    BY <1>2, <1>t, DrivenFacts
  <2> QED
    BY <2>1, <2>2, <1>n DEF Nums
<1> QED
  BY <1>1, <1>2

\* Once the slave has taken over a slot number it is at most one slot behind the master and three ahead, for any
\* lengths, periods, delays and limits and however far apart they began: if the answers are there before
\* the next request (Prompt), the master's second is whole slots, and a continuous master has one
\* client, whose packets arrive and are not two slots late.
THEOREM SlotsAgreeEver ==
  ASSUME Near, Regular
  PROVE  SSpec => []SlotsAgree
<1>1. SInit => SyncInv
  BY SyncInit
<1>2. SyncInv /\ [SNext]_svars => SyncInv'
  BY SyncStep
<1>3. SyncInv => SlotsAgree
  BY SyncAgrees
<1> QED
  BY <1>1, <1>2, <1>3, PTL DEF SSpec
=============================================================================
