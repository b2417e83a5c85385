---------------------------- MODULE DaemonProofs ----------------------------
(***************************************************************************)
(* Proofs about the daemons that work by packets: Frontend, for every tree *)
(* of PEs, wires, faults and room in the queues, and Stats, for every set  *)
(* of objects, every size of the tables and every environment.             *)
(*                                                                         *)
(* Frontend. Ids are unique because the root gives each once, and because  *)
(* only one answer with it is ever on its way, down the tree, to a PE that *)
(* has none: FInv says so of the packets in all queues at once.            *)
(*                                                                         *)
(* Stats. The inductive invariant OInv follows every variable from the     *)
(* call that makes it to the request that closes it, wherever that is: in  *)
(* the table, in one of the two queues, or taken by STATS; at most one     *)
(* packet of a call is on its way, and STATSMAN's record of an object says *)
(* what the object, its variables and the packets say. It holds where the  *)
(* environment is Orderly; TInv holds in every environment.                *)
(***************************************************************************)
EXTENDS Frontend, Stats, Counting, SequenceTheorems

\* The master gives an id with REGISTERACK; only the registration packets matter to the invariant
IsAnswer(m) == m.cmd = "REGISTERACK"
\* the packets that carry an id to be
Registration == {"REGISTERSON", "REGISTERACK"}
\* what the master has given away
Given == {e.id : e \in Range(f_pedb[Root])}

\* the queues of the network, as the type invariant has them
Typed(Q) == Q \in [Queues(net) -> Seq(Packets)] /\ \A k \in Queues(net) : Len(Q[k]) <= Room

\* requests climb with the id their sender asks for, answers come down with one that was given
PlaceOf(k, m, G) ==
  /\ m.cmd = "REGISTERSON" => k[1] = "up" /\ m.id >= FirstId
  /\ IsAnswer(m) => k[1] = "down" /\ m.id \in G
Places(Q, G) == \A k \in DOMAIN Q : \A n \in 1..Len(Q[k]) : PlaceOf(k, Q[k][n], G)

\* no id is on its way to two PEs, or twice
Single(Q) ==
  \A k \in DOMAIN Q, l \in DOMAIN Q : \A n \in 1..Len(Q[k]), j \in 1..Len(Q[l]) :
    IsAnswer(Q[k][n]) /\ IsAnswer(Q[l][j]) /\ Q[k][n].id = Q[l][j].id => k = l /\ n = j

\* no answer with this id is on its way
Unused(Q, i) == \A k \in DOMAIN Q : \A n \in 1..Len(Q[k]) : IsAnswer(Q[k][n]) => Q[k][n].id # i

\* an id in use was given by the master, is used by one PE that is up, and is on its way to no other
Owned ==
  /\ \A i \in Given : i >= FirstId
  /\ id[Root] \in {0, LocalMaster}
  /\ \A p \in Pes : id[p] # 0 =>
       /\ p \in up /\ Unused(q, id[p])
       /\ p # Root => id[p] \in Given
  /\ \A p, r \in Pes : id[p] = id[r] /\ id[p] # 0 => p = r

\* the inductive invariant
FInv == FTypeOK /\ Places(q, Given) /\ Single(q) /\ Owned

\* queues that differ from those of now by packets which are no new answers
Keeps(Q) ==
  /\ Typed(Q) /\ Places(Q, Given) /\ Single(Q)
  /\ \A i : Unused(q, i) => Unused(Q, i)

\* what is left of the registration packets of now, in their order
Older(Q) ==
  \A k \in Queues(net) : \E d \in Nat : \A n \in 1..Len(Q[k]) :
    Q[k][n].cmd \in Registration => n + d \in 1..Len(q[k]) /\ Q[k][n] = q[k][n + d]

\* search by the id that was asked for: the first entry that has it, if there is one
LEMMA FindReqIdFinds ==
  ASSUME NEW p, NEW S, f_pedb[p] \in Seq(S), NEW x
  PROVE  FindReqId(p, x) \in 0..Len(f_pedb[p])
<1> DEFINE I == {i \in 1..Len(f_pedb[p]) : f_pedb[p][i].reqid = x}
<1>1. CASE I = {}
  BY <1>1 DEF FindReqId, SelectInSeq
<1>2. CASE I # {}
  <2>1. I \subseteq Nat
    OBVIOUS
  <2>2. \E m \in I : \A n \in I : m <= n
    BY <2>1, <1>2, LeastNat
  <2>3. Min(I) \in I
    BY <2>2 DEF Min
  <2>4. FindReqId(p, x) = Min(I)
    BY <1>2 DEF FindReqId, SelectInSeq
  <2> QED
    BY <2>3, <2>4
<1> QED
  BY <1>1, <1>2

\* the window of FreeId always holds an id that neither the PE nor an entry has: more ids than entries
LEMMA FreeIdIsFree ==
  ASSUME NEW p, NEW S, f_pedb[p] \in Seq(S), NEW i \in Nat
  PROVE  /\ FreeId(p, i) \in Nat /\ FreeId(p, i) >= i /\ FreeId(p, i) # id[p]
         /\ \A e \in Range(f_pedb[p]) : e.id # FreeId(p, i)
<1> DEFINE L == Len(f_pedb[p])
           g == [n \in 0..L |-> IF n = 0 THEN id[p] ELSE f_pedb[p][n].id]
           InUse(n) == n = id[p] \/ \E e \in Range(f_pedb[p]) : e.id = n
           T == {k \in i..i + L + 1 : ~InUse(k)}
<1>1. L \in Nat /\ DOMAIN f_pedb[p] = 1..L
  OBVIOUS
<1>2. IsFiniteSet(0..L) /\ Cardinality(0..L) = L + 1
  BY <1>1, FS_Interval
<1>3. IsFiniteSet(Range(g)) /\ Cardinality(Range(g)) <= L + 1
  <2>1. DOMAIN g = 0..L /\ g = [n \in 0..L |-> g[n]]
    OBVIOUS
  <2> HIDE DEF g
  <2>2. g \in Surjection(0..L, Range(g))
    BY <2>1 DEF Surjection, Range
  <2>3. Cardinality(Range(g)) <= Cardinality(0..L) /\ IsFiniteSet(Range(g))
    BY <1>2, <2>2, FS_Surjection
  <2> QED
    BY <1>2, <2>3
<1>4. \A n : InUse(n) => n \in Range(g)
  <2> SUFFICES ASSUME NEW n, InUse(n) PROVE n \in Range(g)
    OBVIOUS
  <2>1. CASE n = id[p]
    <3>1. g[0] = n /\ 0 \in DOMAIN g
      BY <2>1, <1>1
    <3> QED
      BY <3>1 DEF Range
  <2>2. CASE \E e \in Range(f_pedb[p]) : e.id = n
    <3>1. PICK j \in 1..L : f_pedb[p][j].id = n
      BY <2>2, <1>1 DEF Range
    <3>2. g[j] = n /\ j \in DOMAIN g
      BY <3>1, <1>1
    <3> QED
      BY <3>2 DEF Range
  <2> QED
    BY <2>1, <2>2
<1>5. T # {}
  <2> SUFFICES ASSUME T = {} PROVE FALSE
    OBVIOUS
  <2> HIDE DEF g
  <2>1. i..i + L + 1 \subseteq Range(g)
    BY <1>4
  <2>2. Cardinality(i..i + L + 1) <= Cardinality(Range(g))
    BY <2>1, <1>3, FS_Subset
  <2>3. Cardinality(i..i + L + 1) = L + 2
    <3>1. PICK w \in Int : w = i + L + 1
      BY <1>1
    <3>2. Cardinality(i..w) = IF i > w THEN 0 ELSE w - i + 1
      BY FS_Interval
    <3>3. ~(i > w) /\ w - i + 1 = L + 2
      BY <3>1, <1>1
    <3> QED
      BY <3>1, <3>2, <3>3
  <2> QED
    <3>1. Cardinality(Range(g)) \in Nat
      BY <1>3, FS_CardinalityType
    <3> QED
      BY <2>2, <2>3, <1>3, <1>1, <3>1
<1>6. PICK m \in T : \A n \in T : m <= n
  <2>1. T \subseteq Nat
    BY <1>1
  <2> HIDE DEF T
  <2> QED
    BY <2>1, <1>5, LeastNat
<1> DEFINE Lowest(k) == ~InUse(k) /\ \A j \in i..k - 1 : InUse(j)
<1>7. m \in i..i + L + 1 /\ Lowest(m)
  BY <1>6, <1>1
<1>8. FreeId(p, i) = CHOOSE k \in i..i + L + 1 : Lowest(k)
  BY DEF FreeId
<1>9. FreeId(p, i) \in i..i + L + 1 /\ Lowest(FreeId(p, i))
  <2> HIDE DEF Lowest
  <2> QED
    BY <1>7, <1>8
<1> QED
  BY <1>9, <1>1

\* a packet and its fields
LEMMA PacketKeeps ==
  ASSUME NEW c \in Cmds, NEW d \in Ids, NEW i \in Ids, NEW o \in Ids
  PROVE  Pkt(c, d, i, o) \in Packets /\ Pkt(c, d, i, o).cmd = c /\ Pkt(c, d, i, o).id = i
BY DEF Pkt, Packets

\* what Put does to the queues
LEMMA PutValue ==
  ASSUME NEW Q, Typed(Q), NEW m \in Packets, NEW k
  PROVE  /\ Typed(Put(Q, k, m)) /\ DOMAIN Put(Q, k, m) = Queues(net)
         /\ \A l \in Queues(net) : \A n \in 1..Len(Put(Q, k, m)[l]) :
              \/ n \in 1..Len(Q[l]) /\ Put(Q, k, m)[l][n] = Q[l][n]
              \/ l = k /\ n = Len(Q[k]) + 1 /\ Put(Q, k, m)[l][n] = m
<1>1. CASE k \in Queues(net) /\ Len(Q[k]) < Room
  <2>1. Put(Q, k, m) = [Q EXCEPT ![k] = Append(Q[k], m)]
    BY <1>1 DEF Put
  <2>2. Append(Q[k], m) \in Seq(Packets) /\ Len(Append(Q[k], m)) = Len(Q[k]) + 1 /\ Len(Q[k]) \in Nat
        /\ \A n \in 1..Len(Q[k]) : Append(Q[k], m)[n] = Q[k][n]
        /\ Append(Q[k], m)[Len(Q[k]) + 1] = m
    BY <1>1 DEF Typed
  <2>3. Room \in Nat
    BY FrontendAssumption
  <2>4. Put(Q, k, m) \in [Queues(net) -> Seq(Packets)]
    BY <2>1, <2>2 DEF Typed
  <2>5. \A l \in Queues(net) : Put(Q, k, m)[l] = IF l = k THEN Append(Q[k], m) ELSE Q[l]
    BY <2>1 DEF Typed
  <2>6. \A l \in Queues(net) : Len(Put(Q, k, m)[l]) <= Room
    <3> SUFFICES ASSUME NEW l \in Queues(net) PROVE Len(Put(Q, k, m)[l]) <= Room
      OBVIOUS
    <3>1. CASE l = k
      <4>1. Put(Q, k, m)[l] = Append(Q[k], m)
        BY <3>1, <2>5
      <4>2. Len(Q[k]) + 1 <= Room
        BY <2>2, <2>3, <1>1
      <4> QED
        BY <4>1, <4>2, <2>2
    <3>2. CASE l # k
      BY <3>2, <2>5 DEF Typed
    <3> QED
      BY <3>1, <3>2
  <2> QED
    BY <2>4, <2>5, <2>6, <2>2 DEF Typed
<1>2. CASE ~(k \in Queues(net) /\ Len(Q[k]) < Room)
  <2>1. Put(Q, k, m) = Q
    BY <1>2 DEF Put, Typed
  <2> QED
    BY <2>1 DEF Typed
<1> QED
  BY <1>1, <1>2

\* sending a packet that is no answer keeps the queues right
LEMMA PutKeeps ==
  ASSUME NEW Q, Typed(Q), Single(Q), NEW m \in Packets, NEW k, NEW G, Places(Q, G),
         IsAnswer(m) => Unused(Q, m.id), PlaceOf(k, m, G)
  PROVE  /\ Typed(Put(Q, k, m)) /\ Places(Put(Q, k, m), G) /\ Single(Put(Q, k, m))
         /\ \A i : Unused(Q, i) /\ (IsAnswer(m) => m.id # i) => Unused(Put(Q, k, m), i)
<1> DEFINE P == Put(Q, k, m)
<1>1. /\ Typed(P) /\ DOMAIN P = Queues(net)
      /\ \A l \in Queues(net) : \A n \in 1..Len(P[l]) :
           \/ n \in 1..Len(Q[l]) /\ P[l][n] = Q[l][n]
           \/ l = k /\ n = Len(Q[k]) + 1 /\ P[l][n] = m
  BY PutValue
<1> HIDE DEF P
<1>2. DOMAIN Q = Queues(net)
  BY DEF Typed
<1>3. Places(P, G)
  BY <1>1, <1>2 DEF Places
<1>4. ASSUME NEW i, Unused(Q, i), IsAnswer(m) => m.id # i PROVE Unused(P, i)
  BY <1>1, <1>2, <1>4 DEF Unused
<1>5. Single(P)
  <2> SUFFICES ASSUME NEW l \in Queues(net), NEW r \in Queues(net),
                      NEW n \in 1..Len(P[l]), NEW j \in 1..Len(P[r]),
                      IsAnswer(P[l][n]), IsAnswer(P[r][j]), P[l][n].id = P[r][j].id
               PROVE  l = r /\ n = j
    BY <1>1 DEF Single
  <2>1. CASE n \in 1..Len(Q[l]) /\ P[l][n] = Q[l][n] /\ j \in 1..Len(Q[r]) /\ P[r][j] = Q[r][j]
    BY <2>1, <1>2 DEF Single
  <2>2. CASE n \in 1..Len(Q[l]) /\ P[l][n] = Q[l][n] /\ P[r][j] = m
    BY <2>2, <1>2 DEF Unused
  <2>3. CASE P[l][n] = m /\ j \in 1..Len(Q[r]) /\ P[r][j] = Q[r][j]
    BY <2>3, <1>2 DEF Unused
  <2>4. CASE l = k /\ n = Len(Q[k]) + 1 /\ r = k /\ j = Len(Q[k]) + 1
    BY <2>4
  <2> QED
    BY <1>1, <2>1, <2>2, <2>3, <2>4
<1> QED
  BY <1>1, <1>3, <1>4, <1>5 DEF P
\* removing packets, and passing on none that registers, keeps the queues right
LEMMA OlderKeeps ==
  ASSUME FInv, NEW Q, Typed(Q), Older(Q)
  PROVE  Keeps(Q)
<1>1. Typed(q) /\ Places(q, Given) /\ Single(q)
  BY DEF FInv, FTypeOK, Typed
<1>2. DOMAIN Q = Queues(net) /\ DOMAIN q = Queues(net)
  BY <1>1 DEF Typed
<1>3. Places(Q, Given)
  <2> SUFFICES ASSUME NEW k \in Queues(net), NEW n \in 1..Len(Q[k]) PROVE PlaceOf(k, Q[k][n], Given)
    BY <1>2 DEF Places
  <2>1. CASE Q[k][n].cmd \notin Registration
    BY <2>1 DEF PlaceOf, IsAnswer, Registration
  <2>2. CASE Q[k][n].cmd \in Registration
    <3>1. PICK d \in Nat : n + d \in 1..Len(q[k]) /\ Q[k][n] = q[k][n + d]
      BY <2>2 DEF Older
    <3>2. PlaceOf(k, q[k][n + d], Given)
      BY <3>1, <1>1, <1>2 DEF Places
    <3> QED
      BY <3>1, <3>2
  <2> QED
    BY <2>1, <2>2
<1>4. Single(Q)
  <2> SUFFICES ASSUME NEW l \in Queues(net), NEW r \in Queues(net),
                      NEW n \in 1..Len(Q[l]), NEW j \in 1..Len(Q[r]),
                      IsAnswer(Q[l][n]), IsAnswer(Q[r][j]), Q[l][n].id = Q[r][j].id
               PROVE  l = r /\ n = j
    BY <1>2 DEF Single
  <2>0. Q[l][n].cmd \in Registration /\ Q[r][j].cmd \in Registration
    BY DEF IsAnswer, Registration
  <2>1. PICK d \in Nat : \A x \in 1..Len(Q[l]) :
          Q[l][x].cmd \in Registration => x + d \in 1..Len(q[l]) /\ Q[l][x] = q[l][x + d]
    BY DEF Older
  <2>2. PICK e \in Nat : \A x \in 1..Len(Q[r]) :
          Q[r][x].cmd \in Registration => x + e \in 1..Len(q[r]) /\ Q[r][x] = q[r][x + e]
    BY DEF Older
  <2>3. n + d \in 1..Len(q[l]) /\ Q[l][n] = q[l][n + d]
    BY <2>0, <2>1
  <2>4. j + e \in 1..Len(q[r]) /\ Q[r][j] = q[r][j + e]
    BY <2>0, <2>2
  <2>5. l = r /\ n + d = j + e
    BY <2>3, <2>4, <1>1, <1>2 DEF Single
  <2>6. j + d \in 1..Len(q[l]) /\ Q[r][j] = q[l][j + d]
    BY <2>5, <2>0, <2>1
  <2>7. n + d = j + d
    BY <2>3, <2>6, <1>1, <1>2 DEF Single
  <2> QED
    BY <2>5, <2>7
<1>5. ASSUME NEW i, Unused(q, i) PROVE Unused(Q, i)
  <2> SUFFICES ASSUME NEW k \in Queues(net), NEW n \in 1..Len(Q[k]), IsAnswer(Q[k][n])
               PROVE  Q[k][n].id # i
    BY <1>2 DEF Unused
  <2>1. PICK d \in Nat : n + d \in 1..Len(q[k]) /\ Q[k][n] = q[k][n + d]
    BY DEF Older, IsAnswer, Registration
  <2> QED
    BY <2>1, <1>2, <1>5 DEF Unused
<1> QED
  BY <1>3, <1>4, <1>5 DEF Keeps

\* taking a packet from its queue keeps them right, and what was taken is no longer on its way
LEMMA TookKeeps ==
  ASSUME FInv, NEW k \in Queues(net), q[k] # <<>>
  PROVE  /\ Keeps(Took(k)) /\ Older(Took(k))
         /\ Head(q[k]) \in Packets /\ Head(q[k]) = q[k][1] /\ PlaceOf(k, Head(q[k]), Given)
         /\ IsAnswer(Head(q[k])) => Unused(Took(k), Head(q[k]).id)
         /\ Took(k)[k] = Tail(q[k]) /\ Len(Tail(q[k])) = Len(q[k]) - 1
         /\ \A l \in Queues(net) : l # k => Took(k)[l] = q[l]
<1> DEFINE Q == Took(k)
<1>1. q \in [Queues(net) -> Seq(Packets)] /\ \A l \in Queues(net) : Len(q[l]) <= Room
  BY DEF FInv, FTypeOK
<1>2. /\ Tail(q[k]) \in Seq(Packets) /\ Len(Tail(q[k])) = Len(q[k]) - 1 /\ Len(q[k]) \in Nat
      /\ \A n \in 1..Len(Tail(q[k])) : Tail(q[k])[n] = q[k][n + 1]
      /\ 1 \in 1..Len(q[k]) /\ Head(q[k]) = q[k][1] /\ q[k][1] \in Packets
  BY <1>1
<1>3. Q \in [Queues(net) -> Seq(Packets)] /\ Q[k] = Tail(q[k])
      /\ \A l \in Queues(net) : l # k => Q[l] = q[l]
  BY <1>1, <1>2 DEF Took
<1> HIDE DEF Q
<1>4. \A l \in Queues(net) : Len(Q[l]) <= Room
  <2> SUFFICES ASSUME NEW l \in Queues(net) PROVE Len(Q[l]) <= Room
    OBVIOUS
  <2>1. Room \in Nat
    BY FrontendAssumption
  <2>2. CASE l = k
    <3>1. Len(q[k]) <= Room
      BY <1>1
    <3> QED
      BY <3>1, <2>1, <2>2, <1>2, <1>3
  <2>3. CASE l # k
    BY <2>3, <1>1, <1>3
  <2> QED
    BY <2>2, <2>3
<1>5. Typed(Q)
  BY <1>3, <1>4 DEF Typed
<1>6. Older(Q)
  <2> SUFFICES ASSUME NEW l \in Queues(net)
               PROVE  \E d \in Nat : \A n \in 1..Len(Q[l]) :
                        Q[l][n].cmd \in Registration => n + d \in 1..Len(q[l]) /\ Q[l][n] = q[l][n + d]
    BY DEF Older
  <2>1. CASE l = k
    <3>1. \A n \in 1..Len(Q[l]) : n + 1 \in 1..Len(q[l]) /\ Q[l][n] = q[l][n + 1]
      BY <2>1, <1>2, <1>3
    <3> QED
      BY <3>1
  <2>2. CASE l # k
    <3>1. \A n \in 1..Len(Q[l]) : n + 0 \in 1..Len(q[l]) /\ Q[l][n] = q[l][n + 0]
      BY <2>2, <1>1, <1>3
    <3> QED
      BY <3>1
  <2> QED
    BY <2>1, <2>2
<1>7. Keeps(Q)
  BY <1>5, <1>6, OlderKeeps
<1>8. Places(q, Given) /\ Single(q) /\ DOMAIN q = Queues(net) /\ DOMAIN Q = Queues(net)
  BY <1>1, <1>3 DEF FInv
<1>9. PlaceOf(k, Head(q[k]), Given)
  BY <1>2, <1>8 DEF Places
<1>10. IsAnswer(Head(q[k])) => Unused(Q, Head(q[k]).id)
  <2> SUFFICES ASSUME IsAnswer(q[k][1]), NEW l \in Queues(net), NEW n \in 1..Len(Q[l]),
                      IsAnswer(Q[l][n]), Q[l][n].id = q[k][1].id
               PROVE  FALSE
    BY <1>2, <1>8 DEF Unused
  <2>1. CASE l = k
    <3>1. n + 1 \in 1..Len(q[k]) /\ Q[l][n] = q[k][n + 1]
      BY <2>1, <1>2, <1>3
    <3>2. n + 1 = 1
      BY <3>1, <1>2, <1>8 DEF Single
    <3> QED
      BY <3>2
  <2>2. CASE l # k
    <3>1. n \in 1..Len(q[l]) /\ Q[l][n] = q[l][n]
      BY <2>2, <1>3
    <3>2. l = k
      BY <3>1, <1>2, <1>8 DEF Single
    <3> QED
      BY <3>2, <2>2
  <2> QED
    BY <2>1, <2>2
<1> QED
  BY <1>2, <1>3, <1>6, <1>7, <1>9, <1>10 DEF Q

\* the same for one packet more
LEMMA SentKeeps ==
  ASSUME NEW Q, Keeps(Q), NEW m \in Packets, NEW k, m.cmd \notin Registration
  PROVE  Keeps(Put(Q, k, m))
<1>1. Typed(Q) /\ Single(Q) /\ Places(Q, Given) /\ ~IsAnswer(m) /\ PlaceOf(k, m, Given)
  BY DEF Keeps, IsAnswer, PlaceOf, Registration
<1>2. /\ Typed(Put(Q, k, m)) /\ Places(Put(Q, k, m), Given) /\ Single(Put(Q, k, m))
      /\ \A i : Unused(Q, i) /\ (IsAnswer(m) => m.id # i) => Unused(Put(Q, k, m), i)
  BY <1>1, PutKeeps
<1> QED
  BY <1>1, <1>2 DEF Keeps

\* queues that are right and ids that stay as they are give the invariant of the next state
LEMMA QueuesKept ==
  ASSUME FInv, Keeps(q'), UNCHANGED <<net, id, f_pedb>>, up \subseteq up', up' \subseteq Here,
         attached' \subseteq up', reported' \subseteq up', pedb' \in Seq(Ids), xitfs' \subseteq Ids \X Ids
  PROVE  FInv'
<1>1. Queues(net)' = Queues(net) /\ Given' = Given /\ Here' = Here
  BY DEF Queues, Given, Here, Sons
<1>2. FTypeOK'
  BY <1>1 DEF FInv, FTypeOK, Keeps, Typed
<1>3. Places(q', Given') /\ Single(q')
  BY <1>1 DEF Keeps
<1>4. Owned'
  BY <1>1 DEF FInv, Owned, Keeps
<1> QED
  BY <1>2, <1>3, <1>4 DEF FInv, Places, Single

\* what the type invariant says of the network and of the PEs
LEMMA NetworkFacts ==
  ASSUME FInv
  PROVE  /\ Sons \subseteq Pes \ {Root} /\ Root \in Here /\ Here \subseteq Pes /\ up \subseteq Pes
         /\ \A s \in Sons : <<"up", s>> \in Queues(net) /\ <<"down", s>> \in Queues(net)
         /\ \A p \in Pes : /\ <<"input", p>> \in Queues(net) /\ <<"hwman", p>> \in Queues(net)
                           /\ <<"bridge", p>> \in Queues(net)
         /\ net.wires \subseteq Queues(net) /\ net.wires \subseteq Pes \X Pes
         /\ \A w \in net.wires : w[1] \notin {"up", "down", "input", "hwman", "bridge"}
<1>1. net \in Networks
  BY DEF FInv, FTypeOK
<1> QED
  BY <1>1, FrontendAssumption DEF FInv, FTypeOK, Sons, Here, Queues

\* It holds at the start: nobody has an id, and nothing is on its way.
LEMMA InitFInv == FInit => FInv
<1> SUFFICES ASSUME FInit PROVE FInv
  OBVIOUS
<1>1. /\ q = [k \in Queues(net) |-> <<>>] /\ net \in Networks
      /\ id = [p \in Pes |-> 0] /\ f_pedb = [p \in Pes |-> <<>>] /\ Root \in Pes /\ Room \in Nat
  BY FrontendAssumption DEF FInit
<1>2. \A k \in Queues(net) : q[k] = <<>> /\ Len(q[k]) = 0
  BY <1>1
<1>3. FTypeOK
  BY <1>1, <1>2 DEF FInit, FTypeOK, Ids
<1>4. Places(q, Given) /\ Single(q)
  BY <1>1, <1>2 DEF Places, Single
<1>5. Owned
  <2>1. Given = {}
    BY <1>1 DEF Given, Range
  <2> QED
    BY <1>1, <2>1 DEF Owned
<1> QED
  BY <1>3, <1>4, <1>5 DEF FInv

\* an id that is given is no reserved one
LEMMA IdFacts ==
  ASSUME FInv
  PROVE  /\ \A p \in Pes : id[p] \in Ids
         /\ id \in [Pes -> Ids] /\ f_pedb \in [Pes -> Seq([id : Ids, reqid : Ids, itf : Pes])]
         /\ FirstId \in Ids /\ 0 \in Ids /\ LocalMaster \in Ids /\ LocalMaster < FirstId
         /\ Root \in Pes
<1>1. id \in [Pes -> Ids] /\ f_pedb \in [Pes -> Seq([id : Ids, reqid : Ids, itf : Pes])]
  BY DEF FInv, FTypeOK
<1>2. FirstId \in Ids /\ 0 \in Ids /\ LocalMaster \in Ids /\ LocalMaster < FirstId
  BY DEF Ids, FirstId, LocalMaster
<1> QED
  BY <1>1, <1>2, FrontendAssumption

\* what the master has given, entry by entry
LEMMA GivenFacts ==
  ASSUME FInv
  PROVE  \A i \in Given : i >= FirstId /\ i \in Ids
<1> SUFFICES ASSUME NEW i \in Given PROVE i \in Ids
  BY DEF FInv, Owned
<1> DEFINE Entries == [id : Ids, reqid : Ids, itf : Pes]
<1>1. f_pedb[Root] \in Seq(Entries)
  BY IdFacts
<1>2. PICK n \in DOMAIN f_pedb[Root] : i = f_pedb[Root][n].id
  BY DEF Given, Range
<1>3. f_pedb[Root][n] \in Entries
  <2> HIDE DEF Entries
  <2> QED
    BY <1>1, <1>2
<1> QED
  BY <1>2, <1>3

\* a FRONTEND starts: the root takes the id of the local master, others ask for one
LEMMA StartStep ==
  ASSUME FInv, NEW p \in Here, Start(p)
  PROVE  FInv'
<1>0. /\ p \in Pes /\ p \notin up /\ up' = up \cup {p} /\ id[p] = 0 /\ Here \subseteq Pes
      /\ UNCHANGED <<net, attached, f_pedb, reported, pedb, xitfs>>
  BY NetworkFacts DEF Start, FInv, Owned
<1>1. Given' = Given /\ Queues(net)' = Queues(net) /\ Here' = Here
  BY <1>0 DEF Given, Queues, Here, Sons
<1>2. CASE p = Root
  <2>1. id' = [id EXCEPT ![p] = LocalMaster] /\ q' = q
    BY <1>2 DEF Start
  <2>2. FTypeOK'
    BY <1>0, <1>1, <2>1, IdFacts DEF FInv, FTypeOK
  <2>3. Places(q', Given') /\ Single(q')
    BY <1>1, <2>1 DEF FInv
  <2>4. \A r \in Pes : id'[r] = IF r = p THEN LocalMaster ELSE id[r]
    BY <2>1, IdFacts
  <2>5. \A i \in Given : i >= FirstId /\ i \in Ids
    BY GivenFacts
  <2>6. \A r \in Pes \ {p} : id[r] # LocalMaster
    BY <1>2, <2>5, IdFacts DEF FInv, Owned, Ids, LocalMaster, FirstId
  <2>7. Unused(q, LocalMaster)
    BY <2>5, IdFacts DEF FInv, Unused, Places, PlaceOf, LocalMaster, FirstId
  <2>8. Owned'
    <3>1. \A i \in Given' : i >= FirstId
      BY <1>1 DEF FInv, Owned
    <3>2. id'[Root] = LocalMaster
      BY <1>2, <2>4, IdFacts
    <3>3. \A r \in Pes : id'[r] # 0 => r \in up' /\ Unused(q', id'[r]) /\ (r # Root => id'[r] \in Given')
      BY <1>0, <1>1, <1>2, <2>1, <2>4, <2>7 DEF FInv, Owned
    <3>4. \A r \in Pes, t \in Pes : id'[r] = id'[t] /\ id'[r] # 0 => r = t
      BY <2>4, <2>6 DEF FInv, Owned
    <3> QED
      BY <3>1, <3>2, <3>3, <3>4 DEF Owned, Unused
  <2> QED
    BY <2>2, <2>3, <2>8 DEF FInv, Places, Single
<1>3. CASE p # Root
  <2> DEFINE m == Pkt("REGISTERSON", 0, FirstId, FirstId)
  <2>1. q' = Put(q, <<"up", p>>, m) /\ id' = id
    BY <1>3 DEF Start
  <2>2. m \in Packets /\ m.cmd = "REGISTERSON" /\ m.id = FirstId
    BY PacketKeeps, IdFacts DEF Cmds
  <2> HIDE DEF m
  <2>3. Typed(q) /\ Single(q) /\ Places(q, Given)
    BY DEF FInv, FTypeOK, Typed
  <2>4. PlaceOf(<<"up", p>>, m, Given) /\ ~IsAnswer(m)
    BY <2>2 DEF PlaceOf, IsAnswer, FirstId
  <2>5. Keeps(q')
    BY <2>1, <2>2, <2>3, <2>4, PutKeeps DEF Keeps
  <2> QED
    BY <1>0, <2>1, <2>5, QueuesKept DEF FInv, FTypeOK
<1> QED
  BY <1>2, <1>3

\* the daemons of a PE attach: no packet and no id changes
LEMMA AttachStep ==
  ASSUME FInv, NEW p \in Here, Attach(p)
  PROVE  FInv'
<1>1. /\ attached' = attached \cup {p} /\ p \in up
      /\ UNCHANGED <<net, q, up, id, f_pedb, reported, pedb, xitfs>>
  BY DEF Attach
<1>2. Keeps(q)
  BY DEF FInv, FTypeOK, Keeps, Typed
<1> QED
  BY <1>1, <1>2, QueuesKept DEF FInv, FTypeOK

\* report_hwstatus sends no registration
LEMMA ReportStep ==
  ASSUME FInv, NEW p \in Here, report_hwstatus(p)
  PROVE  FInv'
<1>1. /\ id[p] > 1 /\ reported' = reported \cup {p}
      /\ UNCHANGED <<net, up, attached, id, f_pedb, pedb, xitfs>>
  BY DEF report_hwstatus
<1>2. PICK k \in Above(p) : \/ q' = Put(q, k, Pkt("ADDCPU", 0, id[p], 0))
                            \/ q' = Put(q, k, Pkt("UPDCPU", 0, id[p], 0))
  BY DEF report_hwstatus
<1>3. p \in Pes /\ p \in up
  BY <1>1, NetworkFacts, IdFacts DEF FInv, Owned
<1>4. Keeps(q)
  BY DEF FInv, FTypeOK, Keeps, Typed
<1>5. /\ Pkt("ADDCPU", 0, id[p], 0) \in Packets /\ Pkt("ADDCPU", 0, id[p], 0).cmd \notin Registration
      /\ Pkt("UPDCPU", 0, id[p], 0) \in Packets /\ Pkt("UPDCPU", 0, id[p], 0).cmd \notin Registration
  BY <1>3, PacketKeeps, IdFacts DEF Cmds, Registration
<1>6. Keeps(q')
  BY <1>2, <1>4, <1>5, SentKeeps
<1> QED
  BY <1>1, <1>3, <1>6, QueuesKept DEF FInv, FTypeOK

\* new_neighbour passes on what it heard on a wire, no registration
LEMMA NeighbourStep ==
  ASSUME FInv, NEW w \in net.wires, new_neighbour(w)
  PROVE  FInv'
<1> DEFINE m == Pkt("ADDITF", 0, id[w[2]], Head(q[w]).id)
<1>1. /\ q[w] # <<>> /\ q' = Put(Took(w), <<"input", w[2]>>, m)
      /\ UNCHANGED <<net, up, attached, id, f_pedb, reported, pedb, xitfs>>
  BY DEF new_neighbour
<1>2. w \in Queues(net) /\ w[2] \in Pes
  BY NetworkFacts
<1>3. Keeps(Took(w)) /\ Head(q[w]) \in Packets
  BY <1>1, <1>2, TookKeeps
<1>4. Head(q[w]).id \in Ids
  BY <1>3 DEF Packets
<1>5. m \in Packets /\ m.cmd \notin Registration
  <2>1. id[w[2]] \in Ids
    BY <1>2, IdFacts
  <2>2. "ADDITF" \in Cmds /\ "ADDITF" \notin Registration /\ 0 \in Ids
    BY IdFacts DEF Cmds, Registration
  <2> QED
    BY <2>1, <2>2, <1>4, PacketKeeps
<1> HIDE DEF m
<1>6. Keeps(q')
  BY <1>1, <1>3, <1>5, SentKeeps
<1> QED
  BY <1>1, <1>6, QueuesKept DEF FInv, FTypeOK

\* bridge_incmd_ident writes to the wires, no registration
LEMMA IdentStep ==
  ASSUME FInv, NEW p \in Here, bridge_incmd_ident(p)
  PROVE  FInv'
<1> DEFINE m == Pkt("BIDENT", 0, id[p], 0)
           b == <<"bridge", p>>
<1>1. /\ q[b] # <<>>
      /\ q' = [k \in DOMAIN q |->
             IF k = b THEN Tail(q[k])
             ELSE IF k \in net.wires /\ k[1] = p THEN Put(q, k, m)[k]
             ELSE q[k]]
      /\ UNCHANGED <<net, up, attached, id, f_pedb, reported, pedb, xitfs>>
  BY DEF bridge_incmd_ident
<1>2. b \in Queues(net) /\ p \in Pes /\ Typed(q) /\ DOMAIN q = Queues(net)
  BY NetworkFacts DEF FInv, FTypeOK, Typed
<1>3. m \in Packets /\ m.cmd \notin Registration
  BY <1>2, PacketKeeps, IdFacts DEF Cmds, Registration
<1> HIDE DEF m, b
<1>4. Typed(Took(b)) /\ Older(Took(b)) /\ Took(b)[b] = Tail(q[b])
  BY <1>1, <1>2, TookKeeps DEF Keeps
<1>5. \A k \in Queues(net) :
        \/ q'[k] = Took(b)[k] /\ k = b
        \/ q'[k] = Put(q, k, m)[k]
        \/ q'[k] = q[k]
  BY <1>1, <1>2, <1>4
<1>6. \A k \in Queues(net) : Typed(Put(q, k, m))
  BY <1>2, <1>3, PutValue
<1>7. \A k \in Queues(net) : q'[k] \in Seq(Packets) /\ Len(q'[k]) <= Room
  BY <1>2, <1>4, <1>5, <1>6 DEF Typed
<1>8. Typed(q')
  BY <1>1, <1>2, <1>7 DEF Typed
<1>9. Older(q')
  <2> SUFFICES ASSUME NEW k \in Queues(net)
               PROVE  \E d \in Nat : \A n \in 1..Len(q'[k]) :
                        q'[k][n].cmd \in Registration => n + d \in 1..Len(q[k]) /\ q'[k][n] = q[k][n + d]
    BY DEF Older
  <2>1. CASE q'[k] = Took(b)[k]
    BY <2>1, <1>4 DEF Older
  <2>2. CASE q'[k] = Put(q, k, m)[k]
    <3>1. \A n \in 1..Len(q'[k]) : \/ n \in 1..Len(q[k]) /\ q'[k][n] = q[k][n]
                                   \/ q'[k][n] = m
      BY <2>2, <1>2, <1>3, PutValue
    <3>2. \A n \in 1..Len(q'[k]) : n + 0 = n
      OBVIOUS
    <3> QED
      BY <3>1, <3>2, <1>3
  <2>3. CASE q'[k] = q[k]
    <3>1. \A n \in 1..Len(q'[k]) : n + 0 = n
      OBVIOUS
    <3> QED
      BY <3>1, <2>3
  <2> QED
    BY <2>1, <2>2, <2>3, <1>5
<1>10. Keeps(q')
  BY <1>8, <1>9, OlderKeeps
<1> QED
  BY <1>1, <1>10, QueuesKept DEF FInv, FTypeOK

\* REGISTERSON: the root gives a free id and answers, another PE passes the request on
LEMMA RegisterStep ==
  ASSUME FInv, NEW p \in up, NEW k \in Queues(net), q[k] # <<>>, NEW son \in Pes,
         register_son(Took(k), p, son, Head(q[k])), Head(q[k]).cmd = "REGISTERSON",
         UNCHANGED <<net, up, attached, reported, pedb, xitfs>>
  PROVE  FInv'
<1> DEFINE m == Head(q[k])
           new == FreeId(p, m.id)
           e == [id |-> new, reqid |-> m.of, itf |-> son]
           Entries == [id : Ids, reqid : Ids, itf : Pes]
           ack == Pkt("REGISTERACK", 0, new, m.of)
           req == Pkt("REGISTERSON", 0, new, m.of)
           Q == Took(k)
<1>1. m \in Packets /\ PlaceOf(k, m, Given) /\ Keeps(Q) /\ m.cmd = "REGISTERSON"
  BY TookKeeps
<1>2. m.id \in Nat /\ m.of \in Ids /\ m.id >= FirstId
  BY <1>1 DEF Packets, PlaceOf, Ids
<1>3. p \in Pes /\ f_pedb[p] \in Seq(Entries) /\ f_pedb \in [Pes -> Seq(Entries)]
  BY NetworkFacts, IdFacts
<1>4. /\ new \in Nat /\ new >= m.id /\ new # id[p]
      /\ \A x \in Range(f_pedb[p]) : x.id # new
  BY <1>2, <1>3, FreeIdIsFree
<1>5. /\ f_pedb' = [f_pedb EXCEPT ![p] = <<e>> \o f_pedb[p]] /\ id' = id
      /\ q' = IF p = Root THEN Put(Q, <<"down", son>>, ack) ELSE Put(Q, <<"up", p>>, req)
  BY DEF register_son
<1> HIDE DEF m, new, Q
<1>6. new \in Ids /\ new >= FirstId
  BY <1>2, <1>4 DEF Ids, FirstId
<1>7. e \in Entries
  BY <1>2, <1>6
<1>8. ack \in Packets /\ ack.cmd = "REGISTERACK" /\ ack.id = new
      /\ req \in Packets /\ req.cmd = "REGISTERSON" /\ req.id = new
  <2>1. "REGISTERACK" \in Cmds /\ "REGISTERSON" \in Cmds /\ 0 \in Ids
    BY IdFacts DEF Cmds
  <2> QED
    BY <2>1, <1>2, <1>6, PacketKeeps
<1> HIDE DEF e, ack, req, Entries
<1>9. <<e>> \o f_pedb[p] \in Seq(Entries) /\ Range(<<e>> \o f_pedb[p]) = {e} \cup Range(f_pedb[p])
  <2> DEFINE s == f_pedb[p]
             t == <<e>> \o s
  <2>0. s \in Seq(Entries)
    BY <1>3
  <2> HIDE DEF s
  <2>1. /\ t \in Seq(Entries) /\ Len(t) = Len(s) + 1 /\ Len(s) \in Nat /\ t[1] = e
        /\ \A n \in 1..Len(s) : t[n + 1] = s[n]
    BY <2>0, <1>7
  <2> HIDE DEF t
  <2>2. DOMAIN t = 1..Len(s) + 1 /\ DOMAIN s = 1..Len(s)
    BY <2>0, <2>1
  <2>3. \A n \in 1..Len(s) + 1 : n = 1 \/ (n - 1 \in 1..Len(s) /\ t[n] = s[n - 1])
    <3> SUFFICES ASSUME NEW n \in 1..Len(s) + 1, n # 1 PROVE n - 1 \in 1..Len(s) /\ t[n] = s[n - 1]
      OBVIOUS
    <3>1. n - 1 \in 1..Len(s) /\ (n - 1) + 1 = n
      BY <2>1
    <3> QED
      BY <3>1, <2>1
  <2>4. \A n \in 1..Len(s) : n + 1 \in 1..Len(s) + 1
    BY <2>1
  <2>5. 1 \in 1..Len(s) + 1
    BY <2>1
  <2>6. Range(t) \subseteq {e} \cup Range(s)
    <3> SUFFICES ASSUME NEW n \in 1..Len(s) + 1 PROVE t[n] = e \/ t[n] \in Range(s)
      BY <2>2 DEF Range
    <3>1. CASE n = 1
      BY <3>1, <2>1
    <3>2. CASE n - 1 \in 1..Len(s) /\ t[n] = s[n - 1]
      BY <3>2, <2>2 DEF Range
    <3> QED
      BY <3>1, <3>2, <2>3
  <2>7. {e} \cup Range(s) \subseteq Range(t)
    BY <2>1, <2>2, <2>4, <2>5 DEF Range
  <2> QED
    BY <2>1, <2>6, <2>7 DEF s, t
<1>10. f_pedb' \in [Pes -> Seq(Entries)]
  BY <1>3, <1>5, <1>9
<1>11. e.id = new
  BY DEF e
<1>12. Given' = IF p = Root THEN Given \cup {new} ELSE Given
  <2>1. CASE p = Root
    <3>1. f_pedb'[Root] = <<e>> \o f_pedb[p]
      BY <2>1, <1>3, <1>5
    <3>2. Range(f_pedb'[Root]) = {e} \cup Range(f_pedb[Root])
      BY <3>1, <1>9, <2>1
    <3> QED
      BY <3>2, <1>11, <2>1 DEF Given
  <2>2. CASE p # Root
    <3>1. f_pedb'[Root] = f_pedb[Root]
      BY <2>2, <1>3, <1>5, IdFacts
    <3> QED
      BY <3>1, <2>2 DEF Given
  <2> QED
    BY <2>1, <2>2
<1>13. p = Root => new \notin Given
  BY <1>4 DEF Given
<1>14. Typed(Q) /\ Single(Q) /\ Places(Q, Given) /\ \A i : Unused(q, i) => Unused(Q, i)
  BY <1>1 DEF Keeps
<1>15. Places(Q, Given')
  <2>1. Given \subseteq Given'
    BY <1>12
  <2> QED
    BY <1>14, <2>1 DEF Places, PlaceOf
<1>16. p = Root => Unused(q, new) /\ Unused(Q, new)
  <2>1. DOMAIN q = Queues(net)
    BY DEF FInv, FTypeOK
  <2> QED
    BY <1>13, <1>14, <2>1 DEF FInv, Places, PlaceOf, Unused
<1>17. /\ Typed(q') /\ Places(q', Given') /\ Single(q')
       /\ \A i : Unused(q, i) /\ (p = Root => i # new) => Unused(q', i)
  <2>1. CASE p = Root
    <3>1. PlaceOf(<<"down", son>>, ack, Given') /\ IsAnswer(ack)
      BY <2>1, <1>8, <1>12 DEF PlaceOf, IsAnswer
    <3>2. /\ Typed(Put(Q, <<"down", son>>, ack)) /\ Places(Put(Q, <<"down", son>>, ack), Given')
          /\ Single(Put(Q, <<"down", son>>, ack))
          /\ \A i : Unused(Q, i) /\ (IsAnswer(ack) => ack.id # i) => Unused(Put(Q, <<"down", son>>, ack), i)
      BY <3>1, <2>1, <1>8, <1>14, <1>15, <1>16, PutKeeps
    <3> QED
      BY <3>1, <3>2, <2>1, <1>5, <1>8, <1>14
  <2>2. CASE p # Root
    <3>1. PlaceOf(<<"up", p>>, req, Given') /\ ~IsAnswer(req)
      BY <2>2, <1>6, <1>8 DEF PlaceOf, IsAnswer
    <3>2. /\ Typed(Put(Q, <<"up", p>>, req)) /\ Places(Put(Q, <<"up", p>>, req), Given')
          /\ Single(Put(Q, <<"up", p>>, req))
          /\ \A i : Unused(Q, i) /\ (IsAnswer(req) => req.id # i) => Unused(Put(Q, <<"up", p>>, req), i)
      BY <3>1, <2>2, <1>8, <1>14, <1>15, PutKeeps
    <3> QED
      BY <3>1, <3>2, <2>2, <1>5, <1>14
  <2> QED
    BY <2>1, <2>2
<1>18. Queues(net)' = Queues(net) /\ Here' = Here
  BY DEF Queues, Here, Sons
<1>19. FTypeOK'
  BY <1>5, <1>10, <1>17, <1>18 DEF FInv, FTypeOK, Typed, Entries
<1>20. \A r \in Pes : id[r] # 0 => ~(p = Root /\ id[r] = new)
  <2> SUFFICES ASSUME NEW r \in Pes, id[r] # 0, p = Root, id[r] = new PROVE FALSE
    OBVIOUS
  <2>1. CASE r = Root
    BY <2>1, <1>4
  <2>2. CASE r # Root
    BY <2>2, <1>13 DEF FInv, Owned
  <2> QED
    BY <2>1, <2>2
<1>21. Owned'
  <2>1. \A i \in Given' : i >= FirstId
    BY <1>6, <1>12 DEF FInv, Owned
  <2>2. \A r \in Pes : id'[r] # 0 => r \in up' /\ Unused(q', id'[r]) /\ (r # Root => id'[r] \in Given')
    BY <1>5, <1>12, <1>17, <1>20 DEF FInv, Owned
  <2> QED
    BY <1>5, <2>1, <2>2 DEF FInv, Owned, Unused
<1> QED
  BY <1>17, <1>19, <1>21 DEF FInv, Places, Single

\* REGISTERACK: the PE it is for takes the id, another passes the answer down
LEMMA AckStep ==
  ASSUME FInv, NEW p \in up, p # Root, NEW k \in Queues(net), q[k] # <<>>,
         register_ack(Took(k), p, Head(q[k])), Head(q[k]).cmd = "REGISTERACK",
         UNCHANGED <<net, up, attached, reported, pedb, xitfs>>
  PROVE  FInv'
<1> DEFINE m == Head(q[k])
           Q == Took(k)
           Entries == [id : Ids, reqid : Ids, itf : Pes]
           n == FindReqId(p, m.of)
<1>1. m \in Packets /\ m = q[k][1] /\ IsAnswer(m) /\ PlaceOf(k, m, Given) /\ Keeps(Q) /\ Unused(Q, m.id)
  BY TookKeeps DEF IsAnswer
<1>2. m.id \in Ids /\ m.of \in Ids /\ m.id \in Given /\ m.id >= FirstId
  BY <1>1, GivenFacts DEF Packets, PlaceOf
<1>3. p \in Pes /\ f_pedb[p] \in Seq(Entries) /\ f_pedb \in [Pes -> Seq(Entries)] /\ id \in [Pes -> Ids]
  BY NetworkFacts, IdFacts
<1>4. Typed(Q) /\ Single(Q) /\ Places(Q, Given) /\ \A i : Unused(q, i) => Unused(Q, i)
  BY <1>1 DEF Keeps
<1>5. \A i : Unused(q, i) => i # m.id
  <2>1. 1 \in 1..Len(q[k]) /\ k \in DOMAIN q
    <3>1. q \in [Queues(net) -> Seq(Packets)]
      BY DEF FInv, FTypeOK
    <3> QED
      BY <3>1
  <2> QED
    BY <2>1, <1>1 DEF Unused
<1>6. n \in 0..Len(f_pedb[p])
  <2> HIDE DEF Entries, m
  <2> QED
    BY <1>3, FindReqIdFinds
<1>7. \/ /\ id[p] = 0 /\ id' = [id EXCEPT ![p] = m.id] /\ q' = Q /\ UNCHANGED f_pedb
      \/ n = 0 /\ q' = Q /\ UNCHANGED <<id, f_pedb>>
      \/ /\ n # 0 /\ UNCHANGED id /\ f_pedb' = [f_pedb EXCEPT ![p][n] = Acked(@, m.id)]
         /\ q' = Put(Q, <<"down", f_pedb[p][n].itf>>, Pkt("REGISTERACK", 0, m.id, m.of))
  BY DEF register_ack
<1> HIDE DEF m, Q, n, Entries
<1>8. CASE /\ id[p] = 0 /\ id' = [id EXCEPT ![p] = m.id] /\ q' = Q /\ UNCHANGED f_pedb
  <2>1. Given' = Given /\ Queues(net)' = Queues(net) /\ Here' = Here
    BY <1>8 DEF Given, Queues, Here, Sons
  <2>2. FTypeOK'
    BY <1>2, <1>3, <1>4, <1>8, <2>1 DEF FInv, FTypeOK, Typed
  <2>3. \A r \in Pes : id'[r] = IF r = p THEN m.id ELSE id[r]
    BY <1>8, <1>3
  <2>4. \A r \in Pes : id[r] # 0 => id[r] # m.id
    BY <1>5 DEF FInv, Owned
  <2>5. Owned'
    <3>1. \A i \in Given' : i >= FirstId
      BY <2>1 DEF FInv, Owned
    <3>2. id'[Root] \in {0, LocalMaster}
      BY <2>3, IdFacts DEF FInv, Owned
    <3>3. \A r \in Pes : id'[r] # 0 => r \in up' /\ Unused(q', id'[r]) /\ (r # Root => id'[r] \in Given')
      BY <1>1, <1>2, <1>4, <1>8, <2>1, <2>3 DEF FInv, Owned
    <3>4. m.id # 0
      BY <1>2 DEF FirstId
    <3>5. \A r \in Pes, t \in Pes : id'[r] = id'[t] /\ id'[r] # 0 => r = t
      BY <2>3, <2>4, <3>4 DEF FInv, Owned
    <3> QED
      BY <3>1, <3>2, <3>3, <3>5 DEF Owned, Unused
  <2> QED
    BY <1>4, <1>8, <2>1, <2>2, <2>5 DEF FInv, Places, Single
<1>9. CASE n = 0 /\ q' = Q /\ UNCHANGED <<id, f_pedb>>
  BY <1>1, <1>9, QueuesKept DEF FInv, FTypeOK
<1>10. CASE /\ n # 0 /\ UNCHANGED id /\ f_pedb' = [f_pedb EXCEPT ![p][n] = Acked(@, m.id)]
            /\ q' = Put(Q, <<"down", f_pedb[p][n].itf>>, Pkt("REGISTERACK", 0, m.id, m.of))
  <2> DEFINE a == Pkt("REGISTERACK", 0, m.id, m.of)
             d == <<"down", f_pedb[p][n].itf>>
             s == [f_pedb[p] EXCEPT ![n] = Acked(@, m.id)]
  <2>1. a \in Packets /\ a.cmd = "REGISTERACK" /\ a.id = m.id
    <3>1. "REGISTERACK" \in Cmds /\ 0 \in Ids
      BY IdFacts DEF Cmds
    <3> QED
      BY <3>1, <1>2, PacketKeeps
  <2>2. q' = Put(Q, d, a) /\ f_pedb' = [f_pedb EXCEPT ![p] = s]
    BY <1>10, <1>3
  <2>3. s \in Seq(Entries)
    <3>1. n \in 1..Len(f_pedb[p])
      BY <1>6, <1>10, <1>3
    <3>2. f_pedb[p][n] \in Entries
      BY <3>1, <1>3
    <3>3. Acked(f_pedb[p][n], m.id) \in Entries
      BY <3>2, <1>2 DEF Acked, Entries
    <3> QED
      BY <3>1, <3>3, <1>3
  <2> HIDE DEF a, s, d
  <2>4. PlaceOf(<<"down", f_pedb[p][n].itf>>, a, Given) /\ IsAnswer(a)
    BY <2>1, <1>2 DEF PlaceOf, IsAnswer
  <2>5. PlaceOf(d, a, Given)
    BY <2>4 DEF d
  <2>6. /\ Typed(Put(Q, d, a)) /\ Places(Put(Q, d, a), Given) /\ Single(Put(Q, d, a))
        /\ \A i : Unused(Q, i) /\ (IsAnswer(a) => a.id # i) => Unused(Put(Q, d, a), i)
    BY <2>1, <2>4, <2>5, <1>1, <1>4, PutKeeps
  <2>7. \A i : Unused(q, i) => Unused(q', i)
    BY <2>1, <2>2, <2>6, <1>4, <1>5
  <2>8. f_pedb' \in [Pes -> Seq(Entries)] /\ f_pedb'[Root] = f_pedb[Root]
    BY <2>2, <2>3, <1>3, IdFacts
  <2>9. Given' = Given /\ Queues(net)' = Queues(net) /\ Here' = Here
    BY <2>8 DEF Given, Queues, Here, Sons
  <2>10. FTypeOK'
    BY <2>2, <2>6, <2>8, <2>9, <1>10 DEF FInv, FTypeOK, Typed, Entries
  <2>11. Owned'
    <3>1. \A r \in Pes : id'[r] # 0 => r \in up' /\ Unused(q', id'[r]) /\ (r # Root => id'[r] \in Given')
      BY <2>7, <2>9, <1>10 DEF FInv, Owned
    <3>2. id' = id
      BY <1>10
    <3> QED
      BY <3>1, <3>2, <2>9 DEF FInv, Owned, Unused
  <2> QED
    BY <2>2, <2>6, <2>9, <2>10, <2>11 DEF FInv, Places, Single
<1> QED
  BY <1>7, <1>8, <1>9, <1>10

\* every packet that FRONTEND receives
LEMMA ReceiveStep ==
  ASSUME FInv, NEW p \in Here, NEW k \in Queues(net), NEW son \in Pes, frontend_rcv(p, k, son),
         k[1] = "down" => p # Root
  PROVE  FInv'
<1> DEFINE m == Head(q[k])
<1>1. p \in up /\ q[k] # <<>> /\ UNCHANGED <<net, up, attached, reported, pedb, xitfs>>
  BY DEF frontend_rcv
<1>2. m \in Packets /\ PlaceOf(k, m, Given) /\ Keeps(Took(k))
  BY <1>1, TookKeeps
<1>3. CASE m.cmd = "REGISTERSON"
  <2>1. register_son(Took(k), p, son, m)
    BY <1>3 DEF frontend_rcv
  <2> QED
    BY <1>1, <1>3, <2>1, RegisterStep
<1>4. CASE m.cmd = "REGISTERACK"
  <2>1. register_ack(Took(k), p, m)
    BY <1>4 DEF frontend_rcv
  <2>2. p # Root
    BY <1>2, <1>4 DEF PlaceOf, IsAnswer
  <2> QED
    BY <1>1, <1>4, <2>1, <2>2, AckStep
<1>5. CASE m.cmd \notin Registration
  <2>1. q' = Route(Took(k), p, m) /\ UNCHANGED <<id, f_pedb>>
    BY <1>5 DEF frontend_rcv, Registration
  <2>2. Keeps(q')
    BY <1>2, <1>5, <2>1, SentKeeps DEF Route
  <2> QED
    BY <1>1, <2>1, <2>2, QueuesKept DEF FInv, FTypeOK
<1> QED
  BY <1>3, <1>4, <1>5 DEF Registration

\* removing an element of a sequence leaves a sequence of the same elements
LEMMA RemovedSeq ==
  ASSUME NEW S, NEW s \in Seq(S), NEW x
  PROVE  RemoveFirst(s, x) \in Seq(S)
<1> DEFINE I == {i \in 1..Len(s) : s[i] = x}
           k == SelectInSeq(s, LAMBDA v : v = x)
<1>1. CASE I = {}
  BY <1>1 DEF RemoveFirst
<1>2. CASE I # {}
  <2>1. I \subseteq Nat
    OBVIOUS
  <2>2. \E m \in I : \A n \in I : m <= n
    BY <2>1, <1>2, LeastNat
  <2>3. Min(I) \in I
    BY <2>2 DEF Min
  <2>4. k = Min(I)
    BY <1>2 DEF SelectInSeq
  <2>5. RemoveFirst(s, x) = RemoveAt(s, k)
    BY <1>2 DEF RemoveFirst
  <2>6. k \in 1..Len(s)
    BY <2>3, <2>4
  <2> HIDE DEF k, I
  <2>7. RemoveAt(s, k) = SubSeq(s, 1, k - 1) \o SubSeq(s, k + 1, Len(s))
    BY DEF RemoveAt
  <2>8. SubSeq(s, 1, k - 1) \in Seq(S)
    BY <2>6, SubSeqProperties
  <2>9. SubSeq(s, k + 1, Len(s)) \in Seq(S)
    BY <2>6, SubSeqProperties
  <2> QED
    BY <2>5, <2>7, <2>8, <2>9
<1> QED
  BY <1>1, <1>2

\* send_sons_ident adds packets that register nobody
LEMMA AskKeeps ==
  ASSUME FInv, NEW Q, Typed(Q), Older(Q), pedb' \in Seq(Ids), send_sons_ident(Q)
  PROVE  Keeps(q')
<1> DEFINE asked == [n \in DOMAIN Asked(pedb') |-> Pkt("IDENT", pedb'[n], 0, 0)]
           k == <<"input", Root>>
<1>1. Len(Q[k]) + Len(asked) <= Room /\ q' = [Q EXCEPT ![k] = Q[k] \o asked]
  BY DEF send_sons_ident
<1>2. k \in Queues(net) /\ Room \in Nat
  BY NetworkFacts, IdFacts, FrontendAssumption
<1>3. Q \in [Queues(net) -> Seq(Packets)] /\ \A l \in Queues(net) : Len(Q[l]) <= Room
  BY DEF Typed
<1>4. \A n \in 1..Len(pedb') : /\ Pkt("IDENT", pedb'[n], 0, 0) \in Packets
                               /\ Pkt("IDENT", pedb'[n], 0, 0).cmd \notin Registration
  <2>1. "IDENT" \in Cmds /\ 0 \in Ids /\ "IDENT" \notin Registration
    BY IdFacts DEF Cmds, Registration
  <2> SUFFICES ASSUME NEW n \in 1..Len(pedb')
               PROVE  /\ Pkt("IDENT", pedb'[n], 0, 0) \in Packets
                      /\ Pkt("IDENT", pedb'[n], 0, 0).cmd \notin Registration
    OBVIOUS
  <2>2. pedb'[n] \in Ids
    OBVIOUS
  <2> QED
    BY <2>1, <2>2, PacketKeeps
<1>5. /\ asked \in Seq(Packets) /\ Len(asked) \in Nat
      /\ \A n \in 1..Len(asked) : asked[n].cmd \notin Registration
  <2>1. DOMAIN Asked(pedb') = 1..Len(pedb') /\ Len(pedb') \in Nat
    BY DEF Asked
  <2>2. asked \in [1..Len(pedb') -> Packets]
    BY <1>4, <2>1
  <2>3. asked \in Seq(Packets) /\ Len(asked) = Len(pedb')
    BY <2>1, <2>2, IsASeq, SeqDef
  <2> QED
    BY <1>4, <2>1, <2>3
<1> HIDE DEF asked, k
<1>6. /\ Q[k] \in Seq(Packets) /\ Q[k] \o asked \in Seq(Packets)
      /\ Len(Q[k] \o asked) = Len(Q[k]) + Len(asked) /\ Len(Q[k]) \in Nat
      /\ \A n \in 1..Len(Q[k]) : (Q[k] \o asked)[n] = Q[k][n]
      /\ \A n \in 1..Len(asked) : (Q[k] \o asked)[n + Len(Q[k])] = asked[n]
  BY <1>2, <1>3, <1>5
<1>7. /\ q' \in [Queues(net) -> Seq(Packets)] /\ q'[k] = Q[k] \o asked
      /\ \A l \in Queues(net) : l # k => q'[l] = Q[l]
  BY <1>1, <1>2, <1>3, <1>6
<1>8. Typed(q')
  <2> SUFFICES ASSUME NEW l \in Queues(net) PROVE Len(q'[l]) <= Room
    BY <1>7 DEF Typed
  <2>1. CASE l = k
    BY <2>1, <1>1, <1>6, <1>7
  <2>2. CASE l # k
    BY <2>2, <1>3, <1>7
  <2> QED
    BY <2>1, <2>2
<1>9. Older(q')
  <2> SUFFICES ASSUME NEW l \in Queues(net)
               PROVE  \E d \in Nat : \A n \in 1..Len(q'[l]) :
                        q'[l][n].cmd \in Registration => n + d \in 1..Len(q[l]) /\ q'[l][n] = q[l][n + d]
    BY DEF Older
  <2>1. PICK d \in Nat : \A n \in 1..Len(Q[l]) :
          Q[l][n].cmd \in Registration => n + d \in 1..Len(q[l]) /\ Q[l][n] = q[l][n + d]
    BY DEF Older
  <2>2. \A n \in 1..Len(q'[l]) : q'[l][n].cmd \in Registration => n \in 1..Len(Q[l]) /\ q'[l][n] = Q[l][n]
    <3> SUFFICES ASSUME NEW n \in 1..Len(q'[l]), q'[l][n].cmd \in Registration
                 PROVE  n \in 1..Len(Q[l]) /\ q'[l][n] = Q[l][n]
      OBVIOUS
    <3>1. CASE l # k
      BY <3>1, <1>7
    <3>2. CASE l = k /\ n \in 1..Len(Q[k])
      BY <3>2, <1>6, <1>7
    <3>3. CASE l = k /\ n \notin 1..Len(Q[k])
      <4>1. n \in 1..Len(Q[k]) + Len(asked)
        BY <3>3, <1>6, <1>7
      <4>2. n - Len(Q[k]) \in 1..Len(asked) /\ (n - Len(Q[k])) + Len(Q[k]) = n
        BY <4>1, <3>3, <1>5, <1>6
      <4>3. q'[l][n] = asked[n - Len(Q[k])]
        BY <4>2, <3>3, <1>6, <1>7
      <4> QED
        BY <4>2, <4>3, <1>5
    <3> QED
      BY <3>1, <3>2, <3>3
  <2> QED
    BY <2>1, <2>2
<1> QED
  BY <1>8, <1>9, OlderKeeps

\* every step of HWMAN
LEMMA HwmanStep ==
  ASSUME FInv, Hwman
  PROVE  FInv'
<1> DEFINE k == <<"hwman", Root>>
           m == Head(q[k])
<1>0. /\ UNCHANGED <<net, up, attached, id, f_pedb, reported>>
      /\ \/ q[k] # <<>> /\ hwman_incmd_addcpu(m)
         \/ q[k] # <<>> /\ hwman_incmd_additf(m)
         \/ q[k] # <<>> /\ hwman_incmd_updcpu(m)
         \/ \E i \in Range(pedb) : hwman_background(i)
  BY DEF Hwman
<1>1. k \in Queues(net) /\ pedb \in Seq(Ids) /\ xitfs \subseteq Ids \X Ids
  BY NetworkFacts, IdFacts DEF FInv, FTypeOK
<1>2. q[k] # <<>> => /\ Keeps(Took(k)) /\ Older(Took(k)) /\ Typed(Took(k))
                     /\ m.id \in Ids /\ m.of \in Ids
  BY <1>1, TookKeeps DEF Keeps, Packets
<1>3. up \subseteq Here /\ attached \subseteq up /\ reported \subseteq up
  BY DEF FInv, FTypeOK
<1> HIDE DEF k, m
<1>4. CASE q[k] # <<>> /\ hwman_incmd_addcpu(m)
  <2>1. /\ pedb' = IF Known(m.id) THEN RemoveFirst(pedb, m.id) ELSE <<m.id>> \o pedb
        /\ xitfs' = {w \in xitfs : w[2] # m.id}
        /\ send_sons_ident(Took(k))
    BY <1>4 DEF hwman_incmd_addcpu, k
  <2>2. pedb' \in Seq(Ids)
    <3>1. RemoveFirst(pedb, m.id) \in Seq(Ids)
      BY <1>1, RemovedSeq
    <3>2. <<m.id>> \o pedb \in Seq(Ids)
      BY <1>1, <1>2, <1>4
    <3> QED
      BY <2>1, <3>1, <3>2
  <2>3. Keeps(q')
    BY <2>1, <2>2, <1>2, <1>4, AskKeeps
  <2> QED
    BY <2>1, <2>2, <2>3, <1>0, <1>1, <1>3, QueuesKept
<1>5. CASE q[k] # <<>> /\ hwman_incmd_additf(m)
  <2>1. /\ xitfs' = IF Known(m.id) THEN xitfs \cup {<<m.of, m.id>>} ELSE xitfs
        /\ q' = Took(k) /\ UNCHANGED pedb
    BY <1>5 DEF hwman_incmd_additf, k
  <2>2. xitfs' \subseteq Ids \X Ids
    BY <2>1, <1>1, <1>2, <1>5
  <2> QED
    BY <2>1, <2>2, <1>0, <1>1, <1>2, <1>3, <1>5, QueuesKept
<1>6. CASE q[k] # <<>> /\ hwman_incmd_updcpu(m)
  <2>1. q' = Took(k) /\ UNCHANGED <<pedb, xitfs>>
    BY <1>6 DEF hwman_incmd_updcpu, k
  <2> QED
    BY <2>1, <1>0, <1>1, <1>2, <1>3, <1>6, QueuesKept
<1>7. CASE \E i \in Range(pedb) : hwman_background(i)
  <2>1. PICK i \in Range(pedb) : hwman_background(i)
    BY <1>7
  <2>2. /\ pedb' = RemoveFirst(pedb, i) /\ xitfs' = {w \in xitfs : w[2] # i}
        /\ send_sons_ident(q)
    BY <2>1 DEF hwman_background
  <2>3. pedb' \in Seq(Ids)
    BY <2>2, <1>1, RemovedSeq
  <2>4. Typed(q) /\ Older(q)
    <3>1. Typed(q)
      BY DEF FInv, FTypeOK, Typed
    <3>2. \A l \in Queues(net) : \A n \in 1..Len(q[l]) : n + 0 \in 1..Len(q[l]) /\ q[l][n] = q[l][n + 0]
      BY <3>1 DEF Typed
    <3> QED
      BY <3>1, <3>2 DEF Older
  <2>5. Keeps(q')
    BY <2>2, <2>3, <2>4, AskKeeps
  <2> QED
    BY <2>2, <2>3, <2>5, <1>0, <1>1, <1>3, QueuesKept
<1> QED
  BY <1>0, <1>4, <1>5, <1>6, <1>7

\* Every step keeps the invariant.
LEMMA StepFInv == FInv /\ [FNext]_fvars => FInv'
<1> SUFFICES ASSUME FInv, [FNext]_fvars PROVE FInv'
  OBVIOUS
<1>0. Here \subseteq Pes /\ Root \notin Sons /\ Sons \subseteq Pes
      /\ \A p \in Pes : <<"input", p>> \in Queues(net)
      /\ \A s \in Sons : <<"up", s>> \in Queues(net) /\ <<"down", s>> \in Queues(net)
  BY NetworkFacts
<1>1. CASE Hwman
  BY <1>1, HwmanStep
<1>2. ASSUME NEW p \in Here, Frontend(p) PROVE FInv'
  <2>1. CASE Start(p)
    BY <2>1, StartStep
  <2>2. CASE report_hwstatus(p)
    BY <2>2, ReportStep
  <2>3. CASE frontend_rcv(p, <<"input", p>>, p)
    <3>1. p \in Pes /\ <<"input", p>> \in Queues(net) /\ <<"input", p>>[1] # "down"
      BY <1>0
    <3> QED
      BY <2>3, <3>1, ReceiveStep
  <2>4. CASE p \in Sons /\ frontend_rcv(p, <<"down", p>>, p)
    <3>1. p \in Pes /\ <<"down", p>> \in Queues(net) /\ p # Root
      BY <1>0, <2>4
    <3> QED
      BY <2>4, <3>1, ReceiveStep
  <2>5. ASSUME NEW son \in Sons, frontend_rcv(p, <<"up", son>>, son) PROVE FInv'
    <3>1. son \in Pes /\ <<"up", son>> \in Queues(net) /\ <<"up", son>>[1] # "down"
      BY <1>0
    <3> QED
      BY <2>5, <3>1, ReceiveStep
  <2> QED
    BY <1>2, <2>1, <2>2, <2>3, <2>4, <2>5 DEF Frontend
<1>3. ASSUME NEW p \in Here, Attach(p) PROVE FInv'
  BY <1>3, AttachStep
<1>4. ASSUME NEW p \in Here, Bridge(p) PROVE FInv'
  BY <1>4, IdentStep, NeighbourStep DEF Bridge
<1>5. CASE UNCHANGED fvars
  <2>1. Keeps(q)
    BY DEF FInv, FTypeOK, Keeps, Typed
  <2> QED
    BY <1>5, <2>1, QueuesKept DEF fvars, FInv, FTypeOK
<1> QED
  BY <1>1, <1>2, <1>3, <1>4, <1>5 DEF FNext

\* However the PEs start and whatever the links lose, the FRONTENDs' tables, the ids in use and the
\* ids on their way agree.
THEOREM FrontendInvariant == FSpec => []FInv
<1>1. FInit => FInv
  BY InitFInv
<1>2. FInv /\ [FNext]_fvars => FInv'
  BY StepFInv
<1> QED
  BY <1>1, <1>2, PTL DEF FSpec

\* Every variable of the network keeps its type, and no queue holds more than Room packets.
THEOREM FrontendTypes == FSpec => []FTypeOK
<1>1. FInv => FTypeOK
  BY DEF FInv
<1> QED
  BY <1>1, FrontendInvariant, PTL

\* No two PEs ever have the same id, in any tree and with any room in the queues: what register_ack
\* takes for its id the root has given to it alone.
THEOREM IdsAreUnique == FSpec => []UniqueIds
<1>1. FInv => UniqueIds
  BY NetworkFacts DEF FInv, Owned, UniqueIds
<1> QED
  BY <1>1, FrontendInvariant, PTL
-----------------------------------------------------------------------------

Calls == DOMAIN Good                   \* requests an object waits for
KindOf(c) == IF c = "STINIT" THEN "stat" ELSE "params"
Closes == {"STCLOSE", "PMCLOSE"}
Owns(o, k, i) == var_db[i].used /\ var_db[i].of = <<o, k>>   \* the variable i is the one for k of o

\* The variables: what an object has of a kind, and that it is the only one
Kept(o, k, i) ==
  Owns(o, k, i) =>
    /\ k \in env.uses[o] /\ var_db[i].obj = ObjId(o)
    /\ var_db[i].opts \in Closes \/ obj[o].id = i \/ obj[o].stat = i
    /\ var_db[i].opts = "STCLOSE" => k = "stat" /\ obj[o].stat = 0 /\ obj[o].call # "STINIT"
    /\ var_db[i].opts = "PMCLOSE" =>
         k = "params" /\ ~obj[o].params /\ obj[o].call \notin {"PMINIT", "PMGET"}
Table == \A o \in Objects, k \in Kinds, i \in VarIds : Kept(o, k, i)
OneEach == \A o \in Objects, k \in Kinds, i, j \in VarIds : Owns(o, k, i) /\ Owns(o, k, j) => i = j

\* The calls and what the objects have open
Called(o) ==
  LET c == obj[o].call i == obj[o].id IN
  c # "" => /\ c \in Calls /\ obj[o].on /\ i \in VarIds
            /\ Owns(o, KindOf(c), i) /\ var_db[i].opts \in {c, "", Good[c]}
            /\ c = "STINIT" => obj[o].stat = 0 /\ (var_db[i].opts = c => app_db[o].stats = <<>>)
            /\ c = "STINIT" => (var_db[i].opts = "STOK" => app_db[o].stats = <<i>>)
            /\ c = "PMINIT" => ~obj[o].params /\ (var_db[i].opts = "PMINITOK" => app_db[o].params)
            /\ c = "PMGET" => obj[o].params
\* what it has open is in its variable and on STATSMAN's record
Open(o) ==
  /\ obj[o].stat # 0 => /\ obj[o].on /\ Owns(o, "stat", obj[o].stat) /\ var_db[obj[o].stat].opts = "STOK"
                        /\ app_db[o].stats = <<obj[o].stat>>
  /\ obj[o].params => obj[o].on /\ app_db[o].params /\ "params" \in env.uses[o]

\* STATSMAN's records
Leaving(i) == at = i /\ seen = "delete"
ClosesStat(o, i) == Msg("STCLOSE", o, ObjId(o), i) \in Range(statsman_q)
ClosesParams(o) == \E p \in Range(statsman_q) : p.cmd = "PMCLOSE" /\ p.of = o /\ p.obj = ObjId(o)
\* STATSMAN serves the parameters of an object until its request to close has been taken
Stays(o) ==
  \/ obj[o].params \/ obj[o].call = "PMINIT" \/ ClosesParams(o)
  \/ \E i \in VarIds : Owns(o, "params", i) /\ var_db[i].opts = "PMCLOSE" /\ ~Leaving(i)
\* a record is of the object as it is now, and all on it is open or about to be closed
Recorded(o) ==
  /\ app_db[o] # None => app_db[o].obj = ObjId(o) /\ ~Nothing(app_db[o])
  /\ app_db[o].stats # <<>> =>
       \E i \in VarIds : app_db[o].stats = <<i>> /\ ((Owns(o, "stat", i) /\ ~Leaving(i)) \/ ClosesStat(o, i))
  /\ app_db[o].params => Stays(o)

\* The packets
Carried(p, c) ==
  /\ p.id \in VarIds /\ var_db[p.id].used /\ var_db[p.id].opts = ""
  /\ obj[p.of].call = c /\ obj[p.of].id = p.id /\ p.obj = ObjId(p.of)
\* a request is of an object that waits for it, or of one that has closed what it names
Request(p) ==
  /\ p.cmd \in Calls => Carried(p, p.cmd)
  /\ p.cmd = "STINIT" => app_db[p.of].stats = <<>>
  /\ p.cmd \in Closes => p.obj # NoObj
  /\ p.cmd = "STCLOSE" /\ p.obj = ObjId(p.of) =>
       /\ obj[p.of].stat = 0 /\ obj[p.of].call # "STINIT"
       /\ \A i \in VarIds : Owns(p.of, "stat", i) => var_db[i].opts = "STCLOSE"
  /\ p.cmd = "PMCLOSE" =>
       p.obj = ObjId(p.of) /\ ~obj[p.of].params /\ obj[p.of].call \notin {"PMINIT", "PMGET"}
\* an answer is for an object that waits for it, and STATSMAN has done what it says
Answer(p) ==
  /\ p.cmd \in Answers => \E c \in Calls : p.cmd = Good[c] /\ Carried(p, c)
  /\ p.cmd = "STOK" => app_db[p.of].stats = <<p.id>>
  /\ p.cmd = "PMINITOK" => app_db[p.of].params
  /\ p.cmd = "STREPORT" => p.obj # NoObj
\* all that is on its way
Mail ==
  /\ \A p \in Range(statsman_q) : Request(p)
  /\ \A p \in Range(stats_q) : Answer(p)
\* the packets of a call: an object that waits has at most one of them on its way
IsCall(p) == p.cmd \in Calls \cup Answers
\* no two packets are about one call
Alone(Q, R) ==
  /\ \A n, m \in 1..Len(Q) : IsCall(Q[n]) /\ IsCall(Q[m]) /\ Q[n].id = Q[m].id => n = m
  /\ \A n, m \in 1..Len(R) : IsCall(R[n]) /\ IsCall(R[m]) /\ R[n].id = R[m].id => n = m
  /\ \A n \in 1..Len(Q), m \in 1..Len(R) : IsCall(Q[n]) /\ IsCall(R[m]) => Q[n].id # R[m].id

\* STATS
Seeing ==
  seen # "" => var_db[at].used /\ var_db[at].opts \in IF seen = "delete" THEN Closes ELSE {seen}
\* a report is of an object, and below the limit where the table is too small to hide one
Reporting ==
  \A i \in Slots : Used(i) => reports[i].obj # NoObj /\ (MaxReports <= 2 => i < max_report_idx)

\* the inductive invariant where things are in order
OInv ==
  /\ sem_var = {} /\ Table /\ OneEach /\ Mail /\ Alone(stats_q, statsman_q) /\ Seeing /\ Reporting
  /\ \A o \in Objects : Called(o) /\ Open(o) /\ Recorded(o)

\* Types
VarRecs == [used : BOOLEAN, opts : Requests \cup Answers \cup {""}, of : Objects \X Kinds,
            obj : ObjIds \cup {NoObj}]
ObjRecs == [life : Nat, on : BOOLEAN, call : Requests \cup {""}, id : 0..MaxVars,
            stat : 0..MaxVars, params : BOOLEAN]
ReportRecs == [id : 0..MaxVars, obj : ObjIds \cup {NoObj}]
EntryRecs == [obj : ObjIds \cup {NoObj}, stats : Seq(0..MaxVars), params : BOOLEAN]
ToStats == Msgs(Answers \cup {"STREPORT", "STSTOP", "STSET"})
ToStatsman == Msgs(Requests \cup {"STREPORT", "STSTOP", "STSET"})

\* an object is in a call exactly as long as it has a variable for it
ObjOK(o) ==
  /\ obj[o].life <= env.lives[o] /\ (obj[o].call = "") = (obj[o].id = 0)
  /\ obj[o].on => obj[o].life > 0
  /\ obj[o].call # "" => obj[o].on
\* at most one object fills an entry
SemOK ==
  /\ sem_var \subseteq Objects /\ Cardinality(sem_var) <= 1
  /\ \A o \in sem_var : obj[o].call # "" /\ var_db[obj[o].id].used
\* the inductive type invariant
TInv == VTypeOK /\ \A o \in Objects : ObjOK(o)
\* the inductive invariant
VInv == TInv /\ (Orderly /\ ~lost => OInv)

\* the type invariant, with its records named
LEMMA TypeFacts ==
  ASSUME TInv
  PROVE  /\ var_db \in [VarIds -> VarRecs] /\ obj \in [Objects -> ObjRecs] /\ SemOK
         /\ stats_q \in Seq(ToStats) /\ Len(stats_q) <= MaxQueue
         /\ statsman_q \in Seq(ToStatsman) /\ Len(statsman_q) <= MaxQueue
         /\ lost \in BOOLEAN
         /\ at \in 0..MaxVars /\ seen \in Requests \cup {"", "delete"} /\ (at = 0 => seen = "")
         /\ reports \in [Slots -> ReportRecs] /\ max_report_idx \in 0..MaxReports + 1
         /\ app_db \in [Objects -> EntryRecs] /\ cmds \in 0..env.cmds /\ env \in Environments
         /\ \A o \in Objects : ObjOK(o)
BY DEF TInv, VTypeOK, VarRecs, ObjRecs, SemOK, ToStats, ToStatsman, ReportRecs, EntryRecs

\* what a step has to establish of it
LEMMA TypesAgain ==
  ASSUME env' = env, TInv,
         var_db' \in [VarIds -> VarRecs], obj' \in [Objects -> ObjRecs], SemOK',
         stats_q' \in Seq(ToStats), Len(stats_q') <= MaxQueue,
         statsman_q' \in Seq(ToStatsman), Len(statsman_q') <= MaxQueue, lost' \in BOOLEAN,
         at' \in 0..MaxVars, seen' \in Requests \cup {"", "delete"}, at' = 0 => seen' = "",
         reports' \in [Slots -> ReportRecs], max_report_idx' \in 0..MaxReports + 1,
         app_db' \in [Objects -> EntryRecs], cmds' \in 0..env.cmds, \A o \in Objects : ObjOK(o)'
  PROVE  TInv'
<1>1. ObjIds' = ObjIds
  BY DEF ObjIds
<1>2. env \in Environments
  BY TypeFacts
<1>3. VTypeOK'
  BY <1>1, <1>2 DEF VTypeOK, VarRecs, ObjRecs, SemOK, ToStats, ToStatsman, ReportRecs, EntryRecs, ObjOK, Msgs
<1> QED
  BY <1>3 DEF TInv

\* what the assumptions on the constants give
LEMMA ConstantFacts ==
  ASSUME TInv
  PROVE  /\ MaxVars \in Nat /\ MaxReports \in Nat \ {0} /\ MaxQueue \in Nat \ {0}
         /\ env.uses \in [Objects -> SUBSET Kinds] /\ env.lives \in [Objects -> Nat] /\ env.cmds \in Nat
         /\ VarIds = 1..MaxVars /\ VarIds \subseteq 0..MaxVars /\ 0 \notin VarIds
         /\ \A i \in 0..MaxVars : i # 0 => i \in VarIds
<1>1. env \in [uses : [Objects -> SUBSET Kinds], params : SUBSET Objects, lives : [Objects -> Nat],
               cmds : Nat, faults : SUBSET {"crash", "slow", "torn", "soon"}]
  BY TypeFacts, StatsAssumption
<1> QED
  BY <1>1, StatsAssumption DEF VarIds

\* the least of a set of numbers
LEMMA FirstFacts ==
  ASSUME NEW S, S \subseteq Nat, S # {}
  PROVE  First(S) \in S /\ \A j \in S : First(S) <= j
<1>1. \E i \in S : \A j \in S : i <= j
  BY LeastNat
<1> QED
  BY <1>1 DEF First

\* an object that runs has an obj_id
LEMMA ObjIdType ==
  ASSUME TInv, NEW o \in Objects, obj[o].on
  PROVE  ObjId(o) \in ObjIds
<1>0. obj[o] \in ObjRecs /\ ObjOK(o)
  BY TypeFacts
<1>2. obj[o].life \in Nat /\ obj[o].life > 0 /\ obj[o].life <= env.lives[o]
  BY <1>0 DEF ObjOK, ObjRecs
<1>1. obj[o].life \in 1..env.lives[o]
  <2>1. env.lives[o] \in Nat
    BY ConstantFacts
  <2> QED
    BY <1>2, <2>1
<1> QED
  BY <1>1 DEF ObjId, ObjIds

\* the owner of an obj_id
LEMMA OwnerOf ==
  ASSUME TInv, NEW i, i \in ObjIds \cup {NoObj}
  PROVE  Owner(i) \in Objects /\ (i # NoObj => i[1] = Owner(i))
<1>1. CASE i = NoObj
  <2>1. \E o \in Objects : (i # NoObj => o = i[1])
    BY <1>1, StatsAssumption
  <2> QED
    BY <2>1, <1>1 DEF Owner
<1>2. CASE i # NoObj
  <2>1. i \in ObjIds
    BY <1>2
  <2>2. PICK o \in Objects : i \in {o} \X (1..env.lives[o])
    BY <2>1 DEF ObjIds
  <2>3. i[1] = o
    BY <2>2
  <2> QED
    BY <2>3, <1>2 DEF Owner
<1> QED
  BY <1>1, <1>2

\* marking a variable changes its opts only
LEMMA OptsValue ==
  ASSUME TInv, NEW i \in 0..MaxVars, NEW x \in Requests \cup Answers \cup {""}
  PROVE  /\ Opts(i, x) \in [VarIds -> VarRecs]
         /\ \A j \in VarIds : /\ Opts(i, x)[j].used = var_db[j].used /\ Opts(i, x)[j].of = var_db[j].of
                           /\ Opts(i, x)[j].obj = var_db[j].obj
                           /\ Opts(i, x)[j].opts = IF j = i THEN x ELSE var_db[j].opts
<1>1. var_db \in [VarIds -> VarRecs]
  BY TypeFacts
<1>0. 0 \notin VarIds /\ (i # 0 => i \in VarIds)
  BY ConstantFacts
<1>2. CASE i = 0
  BY <1>0, <1>1, <1>2 DEF Opts
<1>3. CASE i # 0
  BY <1>0, <1>1, <1>3 DEF Opts, VarRecs
<1> QED
  BY <1>2, <1>3

\* deleting a variable frees its entry and leaves its opts
LEMMA DeletedValue ==
  ASSUME TInv, NEW i \in VarIds
  PROVE  /\ Deleted(i) \in [VarIds -> VarRecs]
         /\ \A j \in VarIds : /\ Deleted(i)[j].used = (var_db[j].used /\ j # i) /\ Deleted(i)[j].of = var_db[j].of
                           /\ Deleted(i)[j].opts = var_db[j].opts
                           /\ j # i => Deleted(i)[j].obj = var_db[j].obj
<1>1. var_db \in [VarIds -> VarRecs]
  BY TypeFacts
<1> QED
  BY <1>1 DEF Deleted, VarRecs

\* filling an entry changes no other
LEMMA FilledValue ==
  ASSUME TInv, NEW i \in VarIds, NEW o \in Objects, obj[o].on, NEW c \in Requests
  PROVE  /\ [var_db EXCEPT ![i] = Filled(o, c)] \in [VarIds -> VarRecs]
         /\ \A j \in VarIds : [var_db EXCEPT ![i] = Filled(o, c)][j] = IF j = i THEN Filled(o, c) ELSE var_db[j]
<1>1. var_db \in [VarIds -> VarRecs] /\ ObjId(o) \in ObjIds
  BY TypeFacts, ObjIdType
<1>2. Filled(o, c) \in VarRecs
  BY <1>1 DEF Filled, VarRecs, Kinds
<1> QED
  BY <1>1, <1>2

\* the type of a packet and its fields
LEMMA MsgType ==
  ASSUME NEW S, NEW c \in S, NEW o \in Objects, NEW i \in ObjIds \cup {NoObj}, NEW d \in 0..MaxVars
  PROVE  /\ Msg(c, o, i, d) \in Msgs(S)
         /\ Msg(c, o, i, d).cmd = c /\ Msg(c, o, i, d).of = o /\ Msg(c, o, i, d).obj = i /\ Msg(c, o, i, d).id = d
BY DEF Msg, Msgs

\* a packet sent is the last of the queue, or is dropped
LEMMA SendType ==
  ASSUME TInv, NEW p \in ToStatsman, Send(p)
  PROVE  statsman_q' \in Seq(ToStatsman) /\ Len(statsman_q') <= MaxQueue /\ lost' \in BOOLEAN
<1>1. statsman_q \in Seq(ToStatsman) /\ MaxQueue \in Nat /\ Len(statsman_q) <= MaxQueue /\ lost \in BOOLEAN
  BY TypeFacts, ConstantFacts
<1>2. CASE Len(statsman_q) < MaxQueue
  <2>1. statsman_q' = Append(statsman_q, p) /\ lost' = lost
    BY <1>2 DEF Send
  <2> QED
    BY <1>1, <1>2, <2>1
<1>3. CASE ~(Len(statsman_q) < MaxQueue)
  <2>1. statsman_q' = statsman_q /\ lost' = TRUE
    BY <1>3 DEF Send
  <2> QED
    BY <1>1, <2>1
<1> QED
  BY <1>2, <1>3

\* What the calls of the objects do to the types
LEMMA ObjsAgain ==
  ASSUME TInv, env' = env, NEW o \in Objects,
         \A p \in Objects \ {o} : /\ obj'[p].life = obj[p].life /\ obj'[p].on = obj[p].on
                                  /\ obj'[p].call = obj[p].call /\ obj'[p].id = obj[p].id,
         obj'[o].life <= env.lives[o], (obj'[o].call = "") = (obj'[o].id = 0),
         obj'[o].on => obj'[o].life > 0, obj'[o].call # "" => obj'[o].on
  PROVE  \A p \in Objects : ObjOK(p)'
<1> SUFFICES ASSUME NEW p \in Objects PROVE ObjOK(p)'
  OBVIOUS
<1>1. CASE p = o
  BY <1>1 DEF ObjOK
<1>2. CASE p # o
  <2>1. ObjOK(p)
    BY TypeFacts
  <2>2. /\ obj'[p].life = obj[p].life /\ obj'[p].on = obj[p].on
        /\ obj'[p].call = obj[p].call /\ obj'[p].id = obj[p].id
    BY <1>2
  <2> QED
    BY <2>1, <2>2 DEF ObjOK
<1> QED
  BY <1>1, <1>2

\* only one object changes
LEMMA RecordSet ==
  ASSUME TInv, NEW o \in Objects, NEW r \in ObjRecs, obj' = [obj EXCEPT ![o] = r]
  PROVE  obj' \in [Objects -> ObjRecs] /\ obj'[o] = r /\ \A p \in Objects \ {o} : obj'[p] = obj[p]
<1>1. obj \in [Objects -> ObjRecs]
  BY TypeFacts
<1> QED
  BY <1>1

\* a free entry, where there is one
LEMMA FreeFacts ==
  ASSUME TInv, Free # {}
  PROVE  First(Free) \in VarIds /\ ~var_db[First(Free)].used
<1>1. Free \subseteq Nat /\ Free \subseteq VarIds
  BY ConstantFacts DEF Free
<1>2. First(Free) \in Free
  BY <1>1, FirstFacts
<1> QED
  BY <1>1, <1>2 DEF Free

\* hwapi_var_create2 keeps the types
LEMMA CreateTypes ==
  ASSUME TInv, NEW o \in Objects, NEW c \in Requests, hwapi_var_create2(o, c)
  PROVE  TInv'
<1> DEFINE i == First(Free)
<1>0. /\ obj[o].on /\ obj[o].call = "" /\ sem_var = {} /\ i \in VarIds /\ i # 0
      /\ UNCHANGED <<stats, stats_q, statsman_q, lost, app_db, cmds, env>>
  BY FreeFacts, ConstantFacts DEF hwapi_var_create2
<1>1. i \in 0..MaxVars
  BY <1>0, ConstantFacts
<1>2. var_db \in [VarIds -> VarRecs] /\ obj \in [Objects -> ObjRecs]
  BY TypeFacts
<1>3. Free = {j \in VarIds : ~var_db[j].used}
  BY DEF Free
<1>4. /\ obj' \in [Objects -> ObjRecs] /\ \A p \in Objects : ObjOK(p)'
      /\ var_db' \in [VarIds -> VarRecs] /\ SemOK'
  <2>1. CASE "torn" \in env.faults
    <3>1. /\ var_db' = [var_db EXCEPT ![i].used = TRUE] /\ sem_var' = {o}
          /\ obj' = [obj EXCEPT ![o].call = c, ![o].id = i]
      BY <2>1 DEF hwapi_var_create2
    <3> HIDE DEF i
    <3>2. var_db' \in [VarIds -> VarRecs] /\ var_db'[i].used
      BY <3>1, <1>0, <1>2 DEF VarRecs
    <3>3. obj' \in [Objects -> ObjRecs] /\ obj'[o].call = c /\ obj'[o].id = i /\ obj'[o].on
          /\ obj'[o].life = obj[o].life /\ \A p \in Objects \ {o} : obj'[p] = obj[p]
      BY <3>1, <1>0, <1>1, <1>2 DEF ObjRecs
    <3>4. c # ""
      BY DEF Requests
    <3>5. \A p \in Objects : ObjOK(p)'
      <4>1. ObjOK(o)
        BY TypeFacts
      <4>2. obj'[o].life <= env.lives[o] /\ obj'[o].life > 0
        BY <3>3, <4>1, <1>0 DEF ObjOK
      <4> QED
        BY <3>3, <3>4, <4>2, <1>0, ObjsAgain
    <3>6. SemOK'
      <4>1. Cardinality({o}) <= 1
        BY FS_Singleton
      <4>2. sem_var' \subseteq Objects /\ Cardinality(sem_var') <= 1
        BY <3>1, <4>1
      <4>3. \A p \in sem_var' : p = o
        BY <3>1
      <4>4. obj'[o].call # "" /\ var_db'[obj'[o].id].used
        BY <3>2, <3>3, <3>4
      <4> QED
        BY <4>2, <4>3, <4>4 DEF SemOK
    <3> QED
      BY <3>2, <3>3, <3>5, <3>6
  <2>2. CASE "torn" \notin env.faults
    <3>1. var_db' = [var_db EXCEPT ![i] = Filled(o, c)] /\ obj' = Waits(o, c) /\ sem_var' = sem_var
      BY <2>2 DEF hwapi_var_create2
    <3>2. \/ obj' = [obj EXCEPT ![o].params = FALSE]
          \/ obj' = [obj EXCEPT ![o].call = c, ![o].id = i]
      BY <3>1 DEF Waits
    <3> HIDE DEF i
    <3>3. var_db' \in [VarIds -> VarRecs]
      BY <3>1, <1>0, FilledValue
    <3>4. /\ obj' \in [Objects -> ObjRecs] /\ obj'[o].on /\ obj'[o].life = obj[o].life
          /\ (obj'[o].call = c /\ obj'[o].id = i) \/ (obj'[o].call = "" /\ obj'[o].id = obj[o].id)
          /\ \A p \in Objects \ {o} : obj'[p] = obj[p]
      <4>1. CASE obj' = [obj EXCEPT ![o].params = FALSE]
        BY <4>1, <1>0, <1>2 DEF ObjRecs
      <4>2. CASE obj' = [obj EXCEPT ![o].call = c, ![o].id = i]
        BY <4>2, <1>0, <1>1, <1>2 DEF ObjRecs
      <4> QED
        BY <3>2, <4>1, <4>2
    <3>5. c # ""
      BY DEF Requests
    <3>6. \A p \in Objects : ObjOK(p)'
      <4>1. ObjOK(o)
        BY TypeFacts
      <4>2. obj'[o].life <= env.lives[o] /\ obj'[o].life > 0 /\ (obj'[o].call = "" <=> obj'[o].id = 0)
        BY <3>4, <3>5, <4>1, <1>0 DEF ObjOK
      <4> QED
        BY <3>4, <4>2, <1>0, ObjsAgain
    <3>7. SemOK'
      BY <3>1, <1>0, TypeFacts DEF SemOK
    <3> QED
      BY <3>3, <3>4, <3>6, <3>7
  <2> QED
    BY <2>1, <2>2
<1> QED
  BY <1>0, <1>4, TypeFacts, TypesAgain DEF stats

\* hwapi_var_created keeps the types
LEMMA CreatedTypes ==
  ASSUME TInv, NEW o \in Objects, hwapi_var_created(o)
  PROVE  TInv'
<1> DEFINE c == obj[o].call
           i == obj[o].id
<1>0. /\ sem_var' = {} /\ c # "" /\ obj[o].on /\ i # 0
      /\ var_db' = [var_db EXCEPT ![i] = Filled(o, c)]
      /\ UNCHANGED <<stats, stats_q, statsman_q, lost, app_db, cmds, env>>
  BY TypeFacts DEF hwapi_var_created, SemOK, ObjOK
<1>1. var_db \in [VarIds -> VarRecs] /\ obj \in [Objects -> ObjRecs]
  BY TypeFacts
<1>2. c \in Requests /\ i \in 0..MaxVars
  BY <1>0, <1>1 DEF ObjRecs
<1>3. i \in VarIds
  BY <1>0, <1>2, ConstantFacts
<1>4. var_db' \in [VarIds -> VarRecs]
  BY <1>0, <1>2, <1>3, FilledValue
<1>5. obj' \in [Objects -> ObjRecs] /\ \A p \in Objects : ObjOK(p)'
  <2>1. CASE c = "PMCLOSE"
    <3>1. obj' = [[obj EXCEPT ![o].params = FALSE] EXCEPT ![o].call = "", ![o].id = 0]
      BY <2>1 DEF hwapi_var_created, Waits
    <3>2. 0 \in 0..MaxVars
      BY ConstantFacts
    <3>3. obj' \in [Objects -> ObjRecs] /\ obj'[o].call = "" /\ obj'[o].id = 0 /\ obj'[o].on = obj[o].on
          /\ obj'[o].life = obj[o].life /\ \A p \in Objects \ {o} : obj'[p] = obj[p]
      BY <3>1, <3>2, <1>1 DEF ObjRecs
    <3>4. ObjOK(o) /\ env' = env
      BY <1>0, TypeFacts
    <3>5. obj'[o].life <= env.lives[o] /\ (obj'[o].on => obj'[o].life > 0)
      BY <3>3, <3>4 DEF ObjOK
    <3> QED
      BY <3>3, <3>4, <3>5, ObjsAgain
  <2>2. CASE c # "PMCLOSE"
    <3>1. obj' = obj /\ env' = env
      BY <2>2, <1>0 DEF hwapi_var_created
    <3>2. obj \in [Objects -> ObjRecs] /\ ObjOK(o)
      BY TypeFacts
    <3>3. \A p \in Objects : ObjOK(p)'
      BY <3>1, <3>2, ObjsAgain DEF ObjOK
    <3> QED
      BY <3>1, <3>2, <3>3
  <2> QED
    BY <2>1, <2>2
<1>6. SemOK'
  <2>1. Cardinality({}) <= 1
    BY FS_EmptySet
  <2>2. sem_var' \subseteq Objects /\ Cardinality(sem_var') <= 1
    BY <1>0, <2>1
  <2> QED
    BY <1>0, <2>2 DEF SemOK
<1> QED
  BY <1>0, <1>4, <1>5, <1>6, TypeFacts, TypesAgain DEF stats

\* what the end of a call does to its object
LEMMA DoneValue ==
  ASSUME TInv, NEW o \in Objects, NEW got, obj' = Done(o, got)
  PROVE  /\ obj' \in [Objects -> ObjRecs] /\ \A p \in Objects \ {o} : obj'[p] = obj[p]
         /\ obj'[o].call = "" /\ obj'[o].id = 0 /\ obj'[o].on = obj[o].on /\ obj'[o].life = obj[o].life
         /\ obj'[o].stat = (IF got = "STOK" THEN obj[o].id ELSE obj[o].stat)
         /\ obj'[o].params = (got = "PMINITOK" \/ obj[o].params)
<1> DEFINE r == [obj[o] EXCEPT !.call = "", !.id = 0, !.stat = IF got = "STOK" THEN obj[o].id ELSE obj[o].stat,
                               !.params = obj[o].params \/ got = "PMINITOK"]
<1>1. obj \in [Objects -> ObjRecs]
  BY TypeFacts
<1>2. 0 \in 0..MaxVars
  BY ConstantFacts
<1>3. obj[o] \in ObjRecs
  BY <1>1
<1>4. r \in ObjRecs
  BY <1>2, <1>3 DEF ObjRecs
<1>5. /\ r.call = "" /\ r.id = 0 /\ r.on = obj[o].on /\ r.life = obj[o].life
      /\ r.stat = (IF got = "STOK" THEN obj[o].id ELSE obj[o].stat)
      /\ r.params = (got = "PMINITOK" \/ obj[o].params)
  BY <1>3 DEF ObjRecs
<1>6. obj' = [obj EXCEPT ![o] = r]
  BY DEF Done
<1> HIDE DEF r
<1>7. obj' \in [Objects -> ObjRecs] /\ obj'[o] = r /\ \A p \in Objects \ {o} : obj'[p] = obj[p]
  BY <1>4, <1>6, RecordSet
<1> QED
  BY <1>5, <1>7

\* Return keeps the types
LEMMA ReturnTypes ==
  ASSUME TInv, NEW o \in Objects, Return(o)
  PROVE  TInv'
<1> DEFINE c == obj[o].call
           i == obj[o].id
           got == var_db[i].opts
<1>0. /\ sem_var = {} /\ sem_var' = {} /\ c # "" /\ i # 0 /\ obj[o].on /\ obj' = Done(o, got)
      /\ var_db' = var_db \/ var_db' = Deleted(i)
      /\ UNCHANGED <<sem_var, stats, stats_q, statsman_q, lost, app_db, cmds, env>>
  BY TypeFacts DEF Return, ObjOK
<1>1. var_db \in [VarIds -> VarRecs] /\ obj \in [Objects -> ObjRecs]
  BY TypeFacts
<1>2. i \in 0..MaxVars
  BY <1>1 DEF ObjRecs
<1>3. i \in VarIds
  BY <1>0, <1>2, ConstantFacts
<1>4. var_db' \in [VarIds -> VarRecs]
  BY <1>0, <1>1, <1>3, DeletedValue
<1>5. 0 \in 0..MaxVars
  BY ConstantFacts
<1>6. obj' \in [Objects -> ObjRecs] /\ obj'[o].call = "" /\ obj'[o].id = 0 /\ obj'[o].on = obj[o].on
      /\ obj'[o].life = obj[o].life /\ \A p \in Objects \ {o} : obj'[p] = obj[p]
  BY <1>0, DoneValue
<1>7. \A p \in Objects : ObjOK(p)'
  <2>1. ObjOK(o)
    BY TypeFacts
  <2>2. obj'[o].life <= env.lives[o] /\ (obj'[o].on => obj'[o].life > 0)
    BY <1>6, <2>1 DEF ObjOK
  <2> QED
    BY <1>0, <1>6, <2>2, ObjsAgain
<1>8. SemOK'
  BY <1>0, TypeFacts DEF SemOK
<1> QED
  BY <1>0, <1>4, <1>6, <1>7, <1>8, TypeFacts, TypesAgain DEF stats

\* CloseStat keeps the types
LEMMA CloseStatTypes ==
  ASSUME TInv, NEW o \in Objects, CloseStat(o)
  PROVE  TInv'
<1>0. /\ obj[o].call = "" /\ var_db' = Opts(obj[o].stat, "STCLOSE") /\ obj' = [obj EXCEPT ![o].stat = 0]
      /\ UNCHANGED <<sem_var, stats, stats_q, statsman_q, lost, app_db, cmds, env>>
  BY DEF CloseStat
<1>1. obj \in [Objects -> ObjRecs]
  BY TypeFacts
<1>8. 0 \in 0..MaxVars
  BY ConstantFacts
<1>2. obj[o].stat \in 0..MaxVars
  BY <1>1 DEF ObjRecs
<1>3. "STCLOSE" \in Requests \cup Answers \cup {""}
  BY DEF Requests
<1>4. /\ var_db' \in [VarIds -> VarRecs]
      /\ \A j \in VarIds : var_db'[j].used = var_db[j].used
  BY <1>0, <1>2, <1>3, OptsValue
<1>5. /\ obj' \in [Objects -> ObjRecs]
      /\ \A p \in Objects : /\ obj'[p].call = obj[p].call /\ obj'[p].id = obj[p].id
                            /\ obj'[p].on = obj[p].on /\ obj'[p].life = obj[p].life
  BY <1>0, <1>1, <1>8 DEF ObjRecs
<1>6. \A p \in Objects : ObjOK(p)'
  <2>1. ObjOK(o)
    BY TypeFacts
  <2>2. /\ obj'[o].life <= env.lives[o] /\ (obj'[o].on => obj'[o].life > 0)
        /\ (obj'[o].call = "" <=> obj'[o].id = 0) /\ (obj'[o].call # "" => obj'[o].on)
    BY <1>5, <2>1 DEF ObjOK
  <2> QED
    BY <1>0, <1>5, <2>2, ObjsAgain
<1>7. SemOK'
  <2> SUFFICES ASSUME NEW p \in sem_var PROVE obj'[p].call # "" /\ var_db'[obj'[p].id].used
    BY <1>0, TypeFacts DEF SemOK
  <2>1. p \in Objects /\ obj[p].call # "" /\ var_db[obj[p].id].used /\ ObjOK(p)
    BY TypeFacts DEF SemOK
  <2>2. obj[p].id \in 0..MaxVars /\ obj[p].id # 0
    BY <2>1, <1>1 DEF ObjOK, ObjRecs
  <2>3. obj[p].id \in VarIds
    BY <2>2, ConstantFacts
  <2> QED
    BY <2>1, <2>3, <1>4, <1>5
<1> QED
  BY <1>0, <1>4, <1>5, <1>6, <1>7, TypeFacts, TypesAgain DEF stats

\* ClosePHAL and Crash keep the types
LEMMA OffTypes ==
  ASSUME TInv, NEW o \in Objects, obj' = Off(o), o \notin sem_var,
         UNCHANGED <<var_db, sem_var, stats, stats_q, statsman_q, lost, app_db, cmds, env>>
  PROVE  TInv'
<1> DEFINE r == [life |-> obj[o].life, on |-> FALSE, call |-> "", id |-> 0, stat |-> 0, params |-> FALSE]
<1>1. obj \in [Objects -> ObjRecs]
  BY TypeFacts
<1>5. 0 \in 0..MaxVars
  BY ConstantFacts
<1>6. r \in ObjRecs
  BY <1>1, <1>5 DEF ObjRecs
<1>7. obj' = [obj EXCEPT ![o] = r]
  BY DEF Off
<1>2. /\ obj' \in [Objects -> ObjRecs] /\ \A p \in Objects \ {o} : obj'[p] = obj[p]
      /\ obj'[o].life = obj[o].life /\ ~obj'[o].on /\ obj'[o].call = "" /\ obj'[o].id = 0
  <2>2. r.life = obj[o].life /\ ~r.on /\ r.call = "" /\ r.id = 0
    OBVIOUS
  <2> HIDE DEF r
  <2>1. obj' \in [Objects -> ObjRecs] /\ obj'[o] = r /\ \A p \in Objects \ {o} : obj'[p] = obj[p]
    BY <1>6, <1>7, RecordSet
  <2> QED
    BY <2>1, <2>2
<1>3. \A p \in Objects : ObjOK(p)'
  <2>1. ObjOK(o)
    BY TypeFacts
  <2>2. obj'[o].life <= env.lives[o]
    BY <1>2, <2>1 DEF ObjOK
  <2> QED
    BY <1>2, <2>2, ObjsAgain
<1>4. SemOK'
  <2>1. SemOK
    BY TypeFacts
  <2> QED
    BY <1>2, <2>1 DEF SemOK
<1> QED
  BY <1>2, <1>3, <1>4, TypeFacts, TypesAgain DEF stats

\* what Launch does to its object
LEMMA LaunchValue ==
  ASSUME TInv, NEW o \in Objects, Launch(o)
  PROVE  /\ obj' \in [Objects -> ObjRecs] /\ \A p \in Objects \ {o} : obj'[p] = obj[p]
         /\ obj'[o].life = obj[o].life + 1 /\ obj'[o].on /\ obj'[o].call = obj[o].call /\ obj'[o].id = obj[o].id
         /\ obj'[o].stat = obj[o].stat /\ obj'[o].params = obj[o].params
<1> DEFINE r == [obj[o] EXCEPT !.life = obj[o].life + 1, !.on = TRUE]
<1>1. obj \in [Objects -> ObjRecs]
  BY TypeFacts
<1>3. obj[o] \in ObjRecs
  BY <1>1
<1>2. obj[o].life \in Nat
  BY <1>3 DEF ObjRecs
<1>8. obj[o].life + 1 \in Nat
  BY <1>2
<1>4. r \in ObjRecs
  BY <1>8, <1>3 DEF ObjRecs
<1>5. /\ r.life = obj[o].life + 1 /\ r.on /\ r.call = obj[o].call /\ r.id = obj[o].id
      /\ r.stat = obj[o].stat /\ r.params = obj[o].params
  BY <1>3 DEF ObjRecs
<1>6. obj' = [obj EXCEPT ![o] = r]
  BY DEF Launch
<1> HIDE DEF r
<1>7. obj' \in [Objects -> ObjRecs] /\ obj'[o] = r /\ \A p \in Objects \ {o} : obj'[p] = obj[p]
  BY <1>4, <1>6, RecordSet
<1> QED
  BY <1>5, <1>7

\* Launch keeps the types
LEMMA LaunchTypes ==
  ASSUME TInv, NEW o \in Objects, Launch(o)
  PROVE  TInv'
<1>0. /\ obj[o].life < env.lives[o] /\ obj' = [obj EXCEPT ![o] = [@ EXCEPT !.life = obj[o].life + 1, !.on = TRUE]]
      /\ UNCHANGED <<var_db, sem_var, stats, stats_q, statsman_q, lost, app_db, cmds, env>>
  BY DEF Launch
<1>1. obj \in [Objects -> ObjRecs]
  BY TypeFacts
<1>2. obj[o].life \in Nat /\ env.lives[o] \in Nat
  BY <1>1, ConstantFacts DEF ObjRecs
<1>3. /\ obj' \in [Objects -> ObjRecs] /\ \A p \in Objects \ {o} : obj'[p] = obj[p]
      /\ obj'[o].life = obj[o].life + 1 /\ obj'[o].on /\ obj'[o].call = obj[o].call /\ obj'[o].id = obj[o].id
  BY LaunchValue
<1>4. \A p \in Objects : ObjOK(p)'
  <2>1. ObjOK(o)
    BY TypeFacts
  <2>2. obj[o].call = "" <=> obj[o].id = 0
    BY <2>1 DEF ObjOK
  <2>3. obj'[o].life <= env.lives[o] /\ obj'[o].life > 0
    BY <1>0, <1>2, <1>3
  <2> QED
    BY <1>0, <1>3, <2>2, <2>3, ObjsAgain
<1>5. SemOK'
  <2>1. SemOK
    BY TypeFacts
  <2>2. \A p \in Objects : obj'[p].call = obj[p].call /\ obj'[p].id = obj[p].id
    BY <1>3
  <2> QED
    BY <1>0, <2>1, <2>2 DEF SemOK
<1> QED
  BY <1>0, <1>3, <1>4, <1>5, TypeFacts, TypesAgain DEF stats

\* every step of an object keeps the types
LEMMA ObjectTypes ==
  ASSUME TInv, NEW o \in Objects, Object(o)
  PROVE  TInv'
<1>1. CASE InitStat(o)
  BY <1>1, CreateTypes DEF InitStat, Requests
<1>2. CASE InitParamFile(o)
  BY <1>2, CreateTypes DEF InitParamFile, Requests
<1>3. CASE GetParam(o)
  BY <1>3, CreateTypes DEF GetParam, Requests
<1>4. CASE CloseParamFile(o)
  BY <1>4, CreateTypes DEF CloseParamFile, Requests
<1>5. CASE ClosePHAL(o)
  <2>1. o \notin sem_var
    BY <1>5, TypeFacts DEF ClosePHAL, SemOK
  <2> QED
    BY <1>5, <2>1, OffTypes DEF ClosePHAL
<1>6. CASE Crash(o)
  BY <1>6, OffTypes DEF Crash
<1> QED
  BY <1>1, <1>2, <1>3, <1>4, <1>5, <1>6, CloseStatTypes, CreatedTypes, ReturnTypes, LaunchTypes DEF Object

\* What the daemons do to the types
LEMMA CallFacts ==
  /\ Calls = {"STINIT", "PMINIT", "PMGET"} /\ Calls \subseteq Requests
  /\ Good["STINIT"] = "STOK" /\ Good["PMINIT"] = "PMINITOK" /\ Good["PMGET"] = "PMVALOK"
  /\ Bad["STINIT"] = "STERR" /\ Bad["PMINIT"] = "PMINITERR" /\ Bad["PMGET"] = "PMVALERR"
  /\ Answers = {"STOK", "PMINITOK", "PMVALOK", "STERR", "PMINITERR", "PMVALERR"}
<1>1. DOMAIN Good = {"STINIT", "PMINIT", "PMGET"} /\ DOMAIN Bad = {"STINIT", "PMINIT", "PMGET"}
  BY DEF Good, Bad
<1>2. /\ Good["STINIT"] = "STOK" /\ Good["PMINIT"] = "PMINITOK" /\ Good["PMGET"] = "PMVALOK"
      /\ Bad["STINIT"] = "STERR" /\ Bad["PMINIT"] = "PMINITERR" /\ Bad["PMGET"] = "PMVALERR"
  BY DEF Good, Bad
<1>3. Calls \subseteq Requests
  BY <1>1 DEF Calls, Requests
<1>4. Answers = {"STOK", "PMINITOK", "PMVALOK", "STERR", "PMINITERR", "PMVALERR"}
  BY <1>1, <1>2 DEF Answers
<1> QED
  BY <1>1, <1>2, <1>3, <1>4 DEF Calls

\* the limit that report_rmi computes is behind the entry it removed
LEMMA LimitFacts ==
  ASSUME TInv, NEW i \in Slots
  PROVE  Limit(i) \in Nat /\ i + 2 <= Limit(i) /\ Limit(i) <= MaxReports + 1
<1> DEFINE S == {k \in i + 1..MaxReports : k = MaxReports \/ ~Used(k)}
<1>1. MaxReports \in Nat \ {0}
  BY StatsAssumption
<1>2. i \in Nat /\ i + 1 <= MaxReports
  BY <1>1 DEF Slots
<1>3. S \subseteq Nat /\ MaxReports \in S
  BY <1>1, <1>2
<1>4. First(S) \in S
  BY <1>3, FirstFacts
<1>5. First(S) \in i + 1..MaxReports
  BY <1>4
<1>6. Limit(i) = First(S) + 1
  BY DEF Limit
<1> HIDE DEF S
<1> QED
  BY <1>1, <1>2, <1>5, <1>6

\* removing a report clears its entry only
LEMMA RemoveReportValue ==
  ASSUME TInv, NEW i \in Slots, RemoveReport(i)
  PROVE  /\ reports' \in [Slots -> ReportRecs] /\ reports'[i] = NoReport
         /\ \A j \in Slots \ {i} : reports'[j] = reports[j]
         /\ max_report_idx' \in 0..MaxReports + 1 /\ i + 2 <= max_report_idx'
<1>1. reports \in [Slots -> ReportRecs]
  BY TypeFacts
<1>2. 0 \in 0..MaxVars
  BY ConstantFacts
<1>3. NoReport \in ReportRecs
  BY <1>2 DEF NoReport, ReportRecs
<1>4. reports' = [reports EXCEPT ![i] = NoReport] /\ max_report_idx' = Limit(i)
  BY DEF RemoveReport
<1>5. Limit(i) \in Nat /\ i + 2 <= Limit(i) /\ Limit(i) <= MaxReports + 1 /\ MaxReports \in Nat
  BY LimitFacts, StatsAssumption
<1>6. max_report_idx' \in 0..MaxReports + 1 /\ i + 2 <= max_report_idx'
  BY <1>4, <1>5
<1> QED
  BY <1>1, <1>3, <1>4, <1>6

\* the first of some slots is one of them
LEMMA FirstSlot ==
  ASSUME NEW S, S \subseteq Slots, S # {}
  PROVE  First(S) \in S
<1>1. S \subseteq Nat
  BY StatsAssumption DEF Slots
<1> QED
  BY <1>1, FirstFacts

\* a table of reports after a change
ReportsOK ==
  /\ reports' \in [Slots -> ReportRecs] /\ max_report_idx' \in 0..MaxReports + 1

\* report_rmid removes one report or none
LEMMA RmidTypes ==
  ASSUME TInv, NEW i, report_rmid(i)
  PROVE  /\ ReportsOK
         /\ \/ UNCHANGED <<reports, max_report_idx>>
            \/ \E k \in Slots : RemoveReport(k)
<1> DEFINE those == {k \in Slots : reports[k].id = i /\ Used(k)}
<1>1. CASE those = {}
  <2>1. UNCHANGED <<reports, max_report_idx>>
    BY <1>1 DEF report_rmid
  <2>2. reports \in [Slots -> ReportRecs] /\ max_report_idx \in 0..MaxReports + 1
    BY TypeFacts
  <2> QED
    BY <2>1, <2>2 DEF ReportsOK
<1>2. CASE those # {}
  <2>1. RemoveReport(First(those))
    BY <1>2 DEF report_rmid
  <2>2. First(those) \in Slots
    BY <1>2, FirstSlot
  <2> HIDE DEF those
  <2> QED
    BY <2>1, <2>2, RemoveReportValue DEF ReportsOK
<1> QED
  BY <1>1, <1>2

\* report_add fills one entry or none, below the limit
LEMMA AddTypes ==
  ASSUME TInv, NEW m \in ToStats, report_add(m)
  PROVE  /\ ReportsOK
         /\ \/ UNCHANGED <<reports, max_report_idx>>
            \/ \E k \in Slots : /\ reports' = [reports EXCEPT ![k] = [id |-> m.id, obj |-> m.obj]]
                                /\ k + 1 <= max_report_idx'
                                /\ max_report_idx <= max_report_idx' \/ k + 2 <= max_report_idx'
<1> DEFINE same == {k \in Slots : reports[k].id = m.id /\ Used(k)}
           free == {k \in Slots : ~Used(k)}
           i == First(IF same # {} THEN same ELSE free)
           limit == IF same # {} THEN Limit(i) ELSE max_report_idx
<1>0. reports \in [Slots -> ReportRecs] /\ max_report_idx \in 0..MaxReports + 1 /\ MaxReports \in Nat
  BY TypeFacts, StatsAssumption
<1>1. CASE same \cup free = {}
  <2>1. UNCHANGED <<reports, max_report_idx>>
    BY <1>1 DEF report_add
  <2> QED
    BY <1>0, <2>1 DEF ReportsOK
<1>2. CASE same \cup free # {}
  <2>1. /\ reports' = [reports EXCEPT ![i] = [id |-> m.id, obj |-> m.obj]]
        /\ max_report_idx' = IF i + 1 > limit THEN i + 1 ELSE limit
    BY <1>2 DEF report_add
  <2>2. i \in Slots
    <3>1. CASE same # {}
      <4>1. First(same) \in same
        BY <3>1, FirstSlot
      <4> QED
        BY <3>1, <4>1
    <3>2. CASE same = {}
      <4>1. First(free) \in free
        BY <3>2, <1>2, FirstSlot
      <4> QED
        BY <3>2, <4>1
    <3> QED
      BY <3>1, <3>2
  <2>3. /\ limit \in 0..MaxReports + 1
        /\ limit = max_report_idx \/ i + 2 <= limit
    <3> HIDE DEF i
    <3>1. Limit(i) \in Nat /\ i + 2 <= Limit(i) /\ Limit(i) <= MaxReports + 1
      BY <2>2, LimitFacts
    <3>2. Limit(i) \in 0..MaxReports + 1
      BY <3>1, <1>0
    <3> QED
      BY <3>1, <3>2, <1>0
  <2>4. [id |-> m.id, obj |-> m.obj] \in ReportRecs
    BY DEF ToStats, Msgs, ReportRecs
  <2>5. i \in Nat /\ i + 1 <= MaxReports
    BY <2>2, <1>0 DEF Slots
  <2> HIDE DEF i, limit
  <2>6. max_report_idx' \in 0..MaxReports + 1
    BY <2>1, <2>3, <2>5, <1>0
  <2>7. i + 1 <= max_report_idx' /\ (max_report_idx <= max_report_idx' \/ i + 2 <= max_report_idx')
    BY <2>1, <2>3, <2>5, <1>0
  <2>8. reports' \in [Slots -> ReportRecs]
    BY <2>1, <2>2, <2>4, <1>0
  <2> QED
    BY <2>1, <2>2, <2>6, <2>7, <2>8 DEF ReportsOK
<1> QED
  BY <1>1, <1>2

\* the packet at the head of a queue, and the queue without it
LEMMA TakenFrom ==
  ASSUME NEW S, NEW s \in Seq(S), s # <<>>
  PROVE  /\ Head(s) \in S /\ Head(s) = s[1] /\ Tail(s) \in Seq(S) /\ Len(Tail(s)) = Len(s) - 1
         /\ Len(s) \in Nat \ {0} /\ \A n \in 1..Len(s) - 1 : Tail(s)[n] = s[n + 1]
OBVIOUS

\* the pass stays in the table
LEMMA FurtherFacts ==
  ASSUME TInv, at > 0
  PROVE  /\ at \in VarIds /\ (Further => at' \in 0..MaxVars)
<1>1. at \in 0..MaxVars /\ MaxVars \in Nat
  BY TypeFacts, StatsAssumption
<1>2. at \in VarIds
  BY <1>1 DEF VarIds
<1>3. Further => at' \in 0..MaxVars
  BY <1>1 DEF Further
<1> QED
  BY <1>2, <1>3

\* the variables may change as long as they stay used
LEMMA SemAgain ==
  ASSUME TInv, sem_var' = sem_var, obj' = obj,
         \A i \in VarIds : var_db[i].used => var_db'[i].used
  PROVE  SemOK'
<1> SUFFICES ASSUME NEW o \in sem_var PROVE obj[o].call # "" /\ var_db'[obj[o].id].used
  BY TypeFacts DEF SemOK
<1>1. o \in Objects /\ obj[o].call # "" /\ var_db[obj[o].id].used /\ ObjOK(o) /\ obj \in [Objects -> ObjRecs]
  BY TypeFacts DEF SemOK
<1>2. obj[o].id \in 0..MaxVars /\ obj[o].id # 0
  BY <1>1 DEF ObjOK, ObjRecs
<1>3. obj[o].id \in VarIds
  BY <1>2, ConstantFacts
<1> QED
  BY <1>1, <1>3

\* objects that do not change keep their types
LEMMA ObjsSame ==
  ASSUME TInv, env' = env, obj' = obj
  PROVE  obj' \in [Objects -> ObjRecs] /\ \A o \in Objects : ObjOK(o)'
<1>1. obj \in [Objects -> ObjRecs]
  BY TypeFacts
<1>2. \A o \in Objects : ObjOK(o)'
  <2> SUFFICES ASSUME NEW o \in Objects PROVE ObjOK(o)'
    OBVIOUS
  <2>1. ObjOK(o)
    BY TypeFacts
  <2> QED
    BY <2>1 DEF ObjOK
<1> QED
  BY <1>1, <1>2

\* stats_process_cmd keeps the types
LEMMA ProcessTypes ==
  ASSUME TInv, stats_process_cmd
  PROVE  TInv'
<1>0. /\ at = 0 /\ stats_q # <<>> /\ stats_q' = Tail(stats_q)
      /\ UNCHANGED <<objects, at, seen, statsman_q, lost, app_db, cmds, env>>
  BY DEF stats_process_cmd
<1>1. /\ stats_q \in Seq(ToStats) /\ Len(stats_q) <= MaxQueue /\ MaxQueue \in Nat
  BY TypeFacts, ConstantFacts
<1>2. Head(stats_q) \in ToStats /\ stats_q' \in Seq(ToStats) /\ Len(stats_q') <= MaxQueue
  BY <1>0, <1>1, TakenFrom
<1> DEFINE m == Head(stats_q)
<1>3. m.id \in 0..MaxVars
  BY <1>2 DEF ToStats, Msgs
<1>4. /\ var_db' \in [VarIds -> VarRecs] /\ \A i \in VarIds : var_db[i].used => var_db'[i].used
      /\ ReportsOK
  <2>0. /\ var_db \in [VarIds -> VarRecs] /\ reports \in [Slots -> ReportRecs]
        /\ max_report_idx \in 0..MaxReports + 1
    BY TypeFacts
  <2>1. CASE m.cmd \in Answers /\ var_db' = Opts(m.id, m.cmd) /\ UNCHANGED <<reports, max_report_idx>>
    <3>1. m.cmd \in Requests \cup Answers \cup {""}
      BY <2>1
    <3> HIDE DEF m
    <3>2. /\ Opts(m.id, m.cmd) \in [VarIds -> VarRecs]
          /\ \A i \in VarIds : Opts(m.id, m.cmd)[i].used = var_db[i].used
      BY <1>3, <3>1, OptsValue
    <3>3. reports' = reports /\ max_report_idx' = max_report_idx
      BY <2>1
    <3>4. ReportsOK
      BY <2>0, <3>3 DEF ReportsOK
    <3> QED
      BY <2>1, <3>2, <3>4
  <2>2. CASE report_add(m) /\ UNCHANGED var_db
    BY <1>2, <2>0, <2>2, AddTypes
  <2>3. CASE report_rmid(m.id) /\ UNCHANGED var_db
    BY <2>0, <2>3, RmidTypes
  <2>4. CASE UNCHANGED <<var_db, reports, max_report_idx>>
    BY <2>0, <2>4 DEF ReportsOK
  <2> QED
    BY <2>1, <2>2, <2>3, <2>4 DEF stats_process_cmd
<1>5. SemOK' /\ obj' \in [Objects -> ObjRecs] /\ \A o \in Objects : ObjOK(o)'
  BY <1>0, <1>4, SemAgain, ObjsSame DEF objects
<1> QED
  BY <1>0, <1>2, <1>4, <1>5, TypeFacts, TypesAgain DEF objects, ReportsOK

\* do_reports keeps the types
LEMMA ReportsTypes ==
  ASSUME TInv, do_reports
  PROVE  TInv'
<1> DEFINE gone == {i \in Slots : i < max_report_idx /\ Used(i) /\ ~Alive(reports[i].obj)}
           r == reports[First(gone)]
<1>0. /\ at = 0 /\ at' = 1 /\ seen = "" /\ UNCHANGED <<var_db, objects, seen, stats_q, app_db, cmds, env>>
  BY TypeFacts DEF do_reports
<1>1. reports \in [Slots -> ReportRecs] /\ max_report_idx \in 0..MaxReports + 1
  BY TypeFacts
<1>2. statsman_q' \in Seq(ToStatsman) /\ Len(statsman_q') <= MaxQueue /\ lost' \in BOOLEAN /\ ReportsOK
  <2>1. CASE gone = {}
    <3>1. UNCHANGED <<reports, max_report_idx, statsman_q, lost>>
      BY <2>1 DEF do_reports
    <3> QED
      BY <1>1, <3>1, TypeFacts DEF ReportsOK
  <2>2. CASE gone # {}
    <3>1. First(gone) \in Slots
      BY <2>2, FirstSlot
    <3>2. r \in ReportRecs
      BY <3>1, <1>1
    <3>3. Send(Msg("STCLOSE", Owner(r.obj), r.obj, r.id)) /\ RemoveReport(First(gone))
      BY <2>2 DEF do_reports
    <3> HIDE DEF r, gone
    <3>4. r.obj \in ObjIds \cup {NoObj} /\ r.id \in 0..MaxVars
      BY <3>2 DEF ReportRecs
    <3>5. Owner(r.obj) \in Objects
      BY <3>4, OwnerOf
    <3>6. "STCLOSE" \in Requests \cup {"STREPORT", "STSTOP", "STSET"}
      BY DEF Requests
    <3>7. Msg("STCLOSE", Owner(r.obj), r.obj, r.id) \in ToStatsman
      BY <3>4, <3>5, <3>6, MsgType DEF ToStatsman
    <3> QED
      BY <3>1, <3>3, <3>7, SendType, RemoveReportValue DEF ReportsOK
  <2> QED
    BY <2>1, <2>2
<1>3. SemOK' /\ obj' \in [Objects -> ObjRecs] /\ \A o \in Objects : ObjOK(o)'
  BY <1>0, SemAgain, ObjsSame DEF objects
<1>4. at' \in 0..MaxVars
  <2>1. MaxVars \in Nat /\ MaxVars >= 1
    BY StatsAssumption
  <2>2. 1 \in 0..MaxVars
    BY <2>1
  <2> QED
    BY <1>0, <2>2
<1> QED
  BY <1>0, <1>2, <1>3, <1>4, TypeFacts, TypesAgain DEF objects, ReportsOK

\* Look keeps the types
LEMMA LookTypes ==
  ASSUME TInv, Look
  PROVE  TInv'
<1>0. /\ at > 0 /\ seen = "" /\ (at' = at \/ Further)
      /\ UNCHANGED <<var_db, objects, reports, max_report_idx, stats_q, statsman_q, lost, app_db, cmds, env>>
  BY DEF Look
<1>1. at \in 0..MaxVars /\ at \in VarIds
  BY <1>0, TypeFacts, FurtherFacts
<1>2. at' \in 0..MaxVars
  BY <1>0, <1>1, FurtherFacts
<1>3. seen' \in Requests \cup {"", "delete"} /\ (at' = 0 => seen' = "")
  <2>1. 0 \notin VarIds
    BY ConstantFacts
  <2> QED
    BY <1>0, <1>1, <2>1 DEF Look, Pending
<1>4. SemOK' /\ obj' \in [Objects -> ObjRecs] /\ \A o \in Objects : ObjOK(o)'
  BY <1>0, SemAgain, ObjsSame DEF objects
<1> QED
  BY <1>0, <1>2, <1>3, <1>4, TypeFacts, TypesAgain DEF objects

\* Forward keeps the types
LEMMA ForwardTypes ==
  ASSUME TInv, Forward
  PROVE  TInv'
<1> DEFINE v == var_db[at]
<1>0. /\ at > 0 /\ seen \in Calls /\ seen' = "" /\ Further
      /\ UNCHANGED <<objects, reports, max_report_idx, stats_q, app_db, cmds, env>>
  BY DEF Forward, Calls
<1>1. at \in 0..MaxVars /\ at \in VarIds /\ at' \in 0..MaxVars /\ var_db \in [VarIds -> VarRecs]
  BY <1>0, TypeFacts, FurtherFacts
<1>2. /\ var_db' \in [VarIds -> VarRecs] /\ \A i \in VarIds : var_db[i].used => var_db'[i].used
      /\ statsman_q' \in Seq(ToStatsman) /\ Len(statsman_q') <= MaxQueue /\ lost' \in BOOLEAN
  <2>0. /\ Opts(at, "STERR") \in [VarIds -> VarRecs] /\ Opts(at, "") \in [VarIds -> VarRecs]
        /\ \A i \in VarIds : /\ Opts(at, "STERR")[i].used = var_db[i].used
                             /\ Opts(at, "")[i].used = var_db[i].used
    <3>1. \A x \in Requests \cup Answers \cup {""} :
            /\ Opts(at, x) \in [VarIds -> VarRecs]
            /\ \A i \in VarIds : Opts(at, x)[i].used = var_db[i].used
      BY <1>1, OptsValue
    <3>4. "STERR" \in Requests \cup Answers \cup {""} /\ "" \in Requests \cup Answers \cup {""}
      BY CallFacts
    <3>2. /\ Opts(at, "STERR") \in [VarIds -> VarRecs]
          /\ \A i \in VarIds : Opts(at, "STERR")[i].used = var_db[i].used
      BY <3>1, <3>4
    <3>3. /\ Opts(at, "") \in [VarIds -> VarRecs]
          /\ \A i \in VarIds : Opts(at, "")[i].used = var_db[i].used
      BY <3>1, <3>4
    <3> QED
      BY <3>2, <3>3
  <2>1. CASE seen = "STINIT" /\ v.of[2] # "stat"
    <3>1. (var_db' = Opts(at, "STERR") \/ var_db' = var_db) /\ UNCHANGED <<statsman_q, lost>>
      BY <2>1 DEF Forward
    <3> QED
      BY <1>1, <2>0, <3>1, TypeFacts
  <2>2. CASE ~(seen = "STINIT" /\ v.of[2] # "stat")
    <3>1. Send(Msg(seen, v.of[1], v.obj, IF v.used THEN at ELSE 0)) /\ var_db' = Taken
      BY <2>2 DEF Forward
    <3>2. v \in VarRecs
      BY <1>1
    <3> HIDE DEF v
    <3>3. v.of[1] \in Objects /\ v.obj \in ObjIds \cup {NoObj}
      BY <3>2 DEF VarRecs
    <3>4. seen \in Requests \cup {"STREPORT", "STSTOP", "STSET"}
      BY <1>0, CallFacts
    <3>5. (IF v.used THEN at ELSE 0) \in 0..MaxVars
      BY <1>1, ConstantFacts
    <3>6. Msg(seen, v.of[1], v.obj, IF v.used THEN at ELSE 0) \in ToStatsman
      BY <3>3, <3>4, <3>5, MsgType DEF ToStatsman
    <3>7. var_db' = Opts(at, "") \/ var_db' = var_db
      BY <3>1 DEF Taken
    <3> QED
      BY <1>1, <2>0, <3>1, <3>6, <3>7, SendType
  <2> QED
    BY <2>1, <2>2
<1>3. SemOK' /\ obj' \in [Objects -> ObjRecs] /\ \A o \in Objects : ObjOK(o)'
  BY <1>0, <1>2, SemAgain, ObjsSame DEF objects
<1> QED
  BY <1>0, <1>1, <1>2, <1>3, TypeFacts, TypesAgain DEF objects

\* Close keeps the types
LEMMA CloseTypes ==
  ASSUME TInv, Close
  PROVE  TInv'
<1>0. /\ at > 0 /\ seen \in Closes /\ seen' = "delete"
      /\ Send(Msg(seen, var_db[at].of[1], var_db[at].obj, at))
      /\ UNCHANGED <<var_db, objects, at, stats_q, app_db, cmds, env>>
  BY DEF Close, Closes
<1>1. at \in 0..MaxVars /\ at \in VarIds /\ var_db \in [VarIds -> VarRecs]
  BY <1>0, TypeFacts, FurtherFacts
<1>5. at # 0
  BY <1>1, ConstantFacts
<1>2. statsman_q' \in Seq(ToStatsman) /\ Len(statsman_q') <= MaxQueue /\ lost' \in BOOLEAN
  <2>1. var_db[at] \in VarRecs
    BY <1>1
  <2>2. var_db[at].of[1] \in Objects /\ var_db[at].obj \in ObjIds \cup {NoObj}
    BY <2>1 DEF VarRecs
  <2>3. seen \in Requests \cup {"STREPORT", "STSTOP", "STSET"}
    BY <1>0 DEF Closes, Requests
  <2>4. Msg(seen, var_db[at].of[1], var_db[at].obj, at) \in ToStatsman
    BY <1>1, <2>2, <2>3, MsgType DEF ToStatsman
  <2> QED
    BY <1>0, <2>4, SendType
<1>3. ReportsOK
  <2>1. reports \in [Slots -> ReportRecs] /\ max_report_idx \in 0..MaxReports + 1
    BY TypeFacts
  <2>2. report_rmid(at) \/ UNCHANGED <<reports, max_report_idx>>
    BY DEF Close
  <2> QED
    BY <2>1, <2>2, RmidTypes DEF ReportsOK
<1>4. SemOK' /\ obj' \in [Objects -> ObjRecs] /\ \A o \in Objects : ObjOK(o)'
  BY <1>0, SemAgain, ObjsSame DEF objects
<1> QED
  BY <1>0, <1>1, <1>5, <1>2, <1>3, <1>4, TypeFacts, TypesAgain DEF objects, ReportsOK

\* DeleteVar keeps the types
LEMMA DeleteTypes ==
  ASSUME TInv, DeleteVar
  PROVE  TInv'
<1>0. /\ at > 0 /\ sem_var = {} /\ seen' = "" /\ Further /\ var_db' = Deleted(at)
      /\ UNCHANGED <<objects, reports, max_report_idx, stats_q, statsman_q, lost, app_db, cmds, env>>
  BY DEF DeleteVar
<1>1. at \in VarIds /\ at' \in 0..MaxVars
  BY <1>0, FurtherFacts
<1>2. var_db' \in [VarIds -> VarRecs]
  BY <1>0, <1>1, DeletedValue
<1>3. obj' \in [Objects -> ObjRecs] /\ \A o \in Objects : ObjOK(o)'
  BY <1>0, ObjsSame DEF objects
<1>4. SemOK'
  BY <1>0, TypeFacts DEF SemOK, objects
<1> QED
  BY <1>0, <1>1, <1>2, <1>3, <1>4, TypeFacts, TypesAgain DEF objects

\* what STATSMAN puts on record
LEMMA EntryFacts ==
  ASSUME TInv, NEW m \in ToStatsman
  PROVE  /\ None \in EntryRecs /\ app_db[m.of] \in EntryRecs /\ Entry(m) \in EntryRecs
         /\ m.of \in Objects /\ m.id \in 0..MaxVars /\ m.obj \in ObjIds \cup {NoObj}
<1>1. m.of \in Objects /\ m.id \in 0..MaxVars /\ m.obj \in ObjIds \cup {NoObj}
  BY DEF ToStatsman, Msgs
<1>2. app_db \in [Objects -> EntryRecs]
  BY TypeFacts
<1>3. <<>> \in Seq(0..MaxVars)
  OBVIOUS
<1>4. None \in EntryRecs
  BY <1>3 DEF None, EntryRecs
<1>5. app_db[m.of] \in EntryRecs
  BY <1>1, <1>2
<1>6. [None EXCEPT !.obj = m.obj] \in EntryRecs
  BY <1>1, <1>4 DEF EntryRecs
<1> QED
  BY <1>1, <1>4, <1>5, <1>6 DEF Entry

\* only one record changes
LEMMA EntrySet ==
  ASSUME TInv, NEW o \in Objects, NEW e \in EntryRecs, app_db' = [app_db EXCEPT ![o] = e]
  PROVE  app_db' \in [Objects -> EntryRecs] /\ app_db'[o] = e /\ \A p \in Objects \ {o} : app_db'[p] = app_db[p]
<1>1. app_db \in [Objects -> EntryRecs]
  BY TypeFacts
<1> QED
  BY <1>1

\* a record with a statistic more or less, and with its parameters changed
LEMMA WithStat ==
  ASSUME TInv, NEW e \in EntryRecs, NEW i \in 0..MaxVars, NEW b \in BOOLEAN
  PROVE  /\ [e EXCEPT !.stats = <<i>> \o RemoveFirst(e.stats, i)] \in EntryRecs
         /\ [e EXCEPT !.stats = RemoveFirst(e.stats, i)] \in EntryRecs
         /\ [e EXCEPT !.params = b] \in EntryRecs
<1>1. e.stats \in Seq(0..MaxVars)
  BY DEF EntryRecs
<1>2. RemoveFirst(e.stats, i) \in Seq(0..MaxVars)
  BY <1>1, RemovedSeq
<1>3. <<i>> \o RemoveFirst(e.stats, i) \in Seq(0..MaxVars)
  BY <1>2
<1> QED
  BY <1>2, <1>3 DEF EntryRecs

\* STATSMAN's answer is the last of the queue, or is dropped
LEMMA AnswerTypes ==
  ASSUME TInv, NEW m \in ToStats, Reply(m)
  PROVE  stats_q' \in Seq(ToStats) /\ Len(stats_q') <= MaxQueue /\ lost' \in BOOLEAN
<1>1. stats_q \in Seq(ToStats) /\ MaxQueue \in Nat /\ Len(stats_q) <= MaxQueue /\ lost \in BOOLEAN
  BY TypeFacts, ConstantFacts
<1>2. CASE Len(stats_q) < MaxQueue
  <2>1. stats_q' = Append(stats_q, m) /\ lost' = lost
    BY <1>2 DEF Reply
  <2> QED
    BY <1>1, <1>2, <2>1
<1>3. CASE ~(Len(stats_q) < MaxQueue)
  <2>1. stats_q' = stats_q /\ lost' = TRUE
    BY <1>3 DEF Reply
  <2> QED
    BY <1>1, <2>1
<1> QED
  BY <1>2, <1>3

\* Statsman keeps the types
LEMMA StatsmanTypes ==
  ASSUME TInv, Statsman
  PROVE  TInv'
<1> DEFINE m == Head(statsman_q)
<1>0. /\ statsman_q # <<>> /\ statsman_q' = Tail(statsman_q)
      /\ UNCHANGED <<var_db, objects, stats, cmds, env>>
      /\ statsman_incmd_init(m) \/ statsman_incmd_close(m) \/ statsman_incmd_pmget(m) \/ statsman_incmd_stact(m)
  BY DEF Statsman
<1>1. statsman_q \in Seq(ToStatsman) /\ Len(statsman_q) <= MaxQueue /\ MaxQueue \in Nat
  BY TypeFacts, ConstantFacts
<1>2. m \in ToStatsman /\ statsman_q' \in Seq(ToStatsman) /\ Len(statsman_q') <= MaxQueue
  BY <1>0, <1>1, TakenFrom
<1> HIDE DEF m
<1>3. /\ app_db[m.of] \in EntryRecs /\ Entry(m) \in EntryRecs /\ m.of \in Objects
      /\ m.id \in 0..MaxVars /\ m.obj \in ObjIds \cup {NoObj} /\ None \in EntryRecs
  BY <1>2, EntryFacts
<1>4. app_db \in [Objects -> EntryRecs] /\ stats_q \in Seq(ToStats) /\ Len(stats_q) <= MaxQueue /\ lost \in BOOLEAN
  BY TypeFacts
<1>5. /\ app_db' \in [Objects -> EntryRecs] /\ stats_q' \in Seq(ToStats) /\ Len(stats_q') <= MaxQueue
      /\ lost' \in BOOLEAN
  <2>1. CASE statsman_incmd_init(m)
    <3>1. m.cmd \in {"STINIT", "PMINIT"}
      BY <2>1 DEF statsman_incmd_init
    <3> DEFINE c == IF m.cmd = "PMINIT" /\ m.of \notin env.params THEN Bad[m.cmd] ELSE Good[m.cmd]
    <3>2. c \in Answers \cup {"STREPORT", "STSTOP", "STSET"}
      BY <3>1, CallFacts
    <3>3. Reply(Msg(c, m.of, m.obj, m.id))
      BY <2>1 DEF statsman_incmd_init
    <3> HIDE DEF c
    <3>4. Msg(c, m.of, m.obj, m.id) \in ToStats
      BY <1>3, <3>2, MsgType DEF ToStats
    <3>5. stats_q' \in Seq(ToStats) /\ Len(stats_q') <= MaxQueue /\ lost' \in BOOLEAN
      BY <1>0, <3>3, <3>4, AnswerTypes
    <3> DEFINE e == IF m.cmd = "STINIT" THEN [Entry(m) EXCEPT !.stats = <<m.id>> \o RemoveFirst(@, m.id)]
                                        ELSE [Entry(m) EXCEPT !.params = m.of \in env.params]
    <3>6. app_db' = [app_db EXCEPT ![m.of] = e]
      BY <2>1 DEF statsman_incmd_init
    <3>7. e \in EntryRecs
      <4>1. [Entry(m) EXCEPT !.stats = <<m.id>> \o RemoveFirst(@, m.id)] \in EntryRecs
        BY <1>3, WithStat
      <4>2. \A b \in BOOLEAN : [Entry(m) EXCEPT !.params = b] \in EntryRecs
        BY <1>3 DEF EntryRecs
      <4>3. (m.of \in env.params) \in BOOLEAN
        OBVIOUS
      <4>4. [Entry(m) EXCEPT !.params = m.of \in env.params] \in EntryRecs
        BY <4>2, <4>3
      <4> QED
        BY <4>1, <4>4
    <3> HIDE DEF e
    <3>8. app_db' \in [Objects -> EntryRecs]
      BY <1>3, <3>6, <3>7, EntrySet
    <3> QED
      BY <3>5, <3>8
  <2>2. CASE statsman_incmd_close(m)
    <3> DEFINE r == app_db[m.of]
               n == IF m.cmd = "STCLOSE" THEN [r EXCEPT !.stats = RemoveFirst(@, m.id)] ELSE [r EXCEPT !.params = FALSE]
    <3>1. stats_q' = stats_q /\ lost' = lost /\ (app_db' = app_db \/ app_db' = [app_db EXCEPT ![m.of] = Forgotten(n)])
      BY <2>2 DEF statsman_incmd_close
    <3>2. n \in EntryRecs
      <4>1. /\ [r EXCEPT !.stats = RemoveFirst(@, m.id)] \in EntryRecs
            /\ [r EXCEPT !.params = FALSE] \in EntryRecs
        BY <1>3, WithStat
      <4> QED
        BY <4>1
    <3> HIDE DEF n
    <3>3. Forgotten(n) \in EntryRecs
      BY <1>3, <3>2 DEF Forgotten
    <3>4. app_db' \in [Objects -> EntryRecs]
      BY <1>3, <1>4, <3>1, <3>3, EntrySet
    <3> QED
      BY <1>4, <3>1, <3>4
  <2>3. CASE statsman_incmd_pmget(m)
    <3> DEFINE c == IF app_db[m.of].obj = m.obj /\ app_db[m.of].params THEN Good[m.cmd] ELSE Bad[m.cmd]
    <3>1. m.cmd = "PMGET" /\ app_db' = app_db /\ Reply(Msg(c, m.of, m.obj, m.id))
      BY <2>3 DEF statsman_incmd_pmget
    <3>2. c \in Answers \cup {"STREPORT", "STSTOP", "STSET"}
      BY <3>1, CallFacts
    <3> HIDE DEF c
    <3>4. Msg(c, m.of, m.obj, m.id) \in ToStats
      BY <1>3, <3>2, MsgType DEF ToStats
    <3> QED
      BY <1>0, <1>4, <3>1, <3>4, AnswerTypes
  <2>4. CASE statsman_incmd_stact(m)
    <3> DEFINE r == app_db[m.of]
    <3>1. m.cmd \in {"STREPORT", "STSTOP", "STSET"} /\ app_db' = app_db
          /\ IF r.stats = <<>> THEN UNCHANGED <<stats_q, lost>>
             ELSE Reply(Msg(m.cmd, m.of, r.obj, Head(r.stats)))
      BY <2>4 DEF statsman_incmd_stact
    <3>2. r.stats \in Seq(0..MaxVars) /\ r.obj \in ObjIds \cup {NoObj}
      BY <1>3 DEF EntryRecs
    <3>3. CASE r.stats = <<>>
      BY <1>4, <3>1, <3>3
    <3>4. CASE r.stats # <<>>
      <4>1. Head(r.stats) \in 0..MaxVars
        BY <3>2, <3>4, TakenFrom
      <4>2. m.cmd \in Answers \cup {"STREPORT", "STSTOP", "STSET"}
        BY <3>1
      <4>3. Reply(Msg(m.cmd, m.of, r.obj, Head(r.stats)))
        BY <3>1, <3>4
      <4> HIDE DEF r
      <4>4. Msg(m.cmd, m.of, r.obj, Head(r.stats)) \in ToStats
        BY <1>3, <3>2, <4>1, <4>2, MsgType DEF ToStats
      <4> QED
        BY <1>0, <1>4, <3>1, <4>3, <4>4, AnswerTypes
    <3> QED
      BY <3>3, <3>4
  <2> QED
    BY <1>0, <2>1, <2>2, <2>3, <2>4
<1>6. SemOK' /\ obj' \in [Objects -> ObjRecs] /\ \A o \in Objects : ObjOK(o)'
  BY <1>0, SemAgain, ObjsSame DEF objects
<1> QED
  BY <1>0, <1>2, <1>5, <1>6, TypeFacts, TypesAgain DEF objects, stats

\* User keeps the types
LEMMA UserTypes ==
  ASSUME TInv, User
  PROVE  TInv'
<1>0. /\ cmds < env.cmds /\ cmds' = cmds + 1 /\ UNCHANGED <<var_db, objects, stats, stats_q, app_db, env>>
  BY DEF User
<1>1. PICK o \in Objects, c \in {"STREPORT", "STSTOP", "STSET"} : Send(Msg(c, o, NoObj, 0))
  BY DEF User
<1>2. c \in Requests \cup {"STREPORT", "STSTOP", "STSET"} /\ 0 \in 0..MaxVars
  BY <1>1, ConstantFacts
<1>3. Msg(c, o, NoObj, 0) \in ToStatsman
  BY <1>2, MsgType DEF ToStatsman
<1>4. statsman_q' \in Seq(ToStatsman) /\ Len(statsman_q') <= MaxQueue /\ lost' \in BOOLEAN
  BY <1>1, <1>3, SendType
<1>5. cmds' \in 0..env.cmds
  <2>1. cmds \in 0..env.cmds
    BY TypeFacts
  <2>2. env.cmds \in Nat
    BY ConstantFacts
  <2> QED
    BY <1>0, <2>1, <2>2
<1>6. SemOK' /\ obj' \in [Objects -> ObjRecs] /\ \A p \in Objects : ObjOK(p)'
  BY <1>0, SemAgain, ObjsSame DEF objects
<1> QED
  BY <1>0, <1>4, <1>5, <1>6, TypeFacts, TypesAgain DEF objects, stats

\* Every step keeps the types.
LEMMA StepTypes ==
  ASSUME TInv, [VNext]_vvars
  PROVE  TInv'
<1>1. CASE Stats
  BY <1>1, ProcessTypes, ReportsTypes, LookTypes, ForwardTypes, CloseTypes, DeleteTypes DEF Stats
<1>2. CASE \E o \in Objects : Object(o)
  BY <1>2, ObjectTypes
<1>3. CASE UNCHANGED vvars
  <2>1. SemOK' /\ obj' \in [Objects -> ObjRecs] /\ \A p \in Objects : ObjOK(p)'
    BY <1>3, SemAgain, ObjsSame DEF vvars, objects
  <2> QED
    BY <1>3, <2>1, TypeFacts, TypesAgain DEF vvars, objects, stats
<1> QED
  BY <1>1, <1>2, <1>3, StatsmanTypes, UserTypes DEF VNext

\* The initial state has them.
LEMMA InitTypes ==
  ASSUME VInit
  PROVE  TInv
<1>1. env \in Environments /\ sem_var = {} /\ stats_q = <<>> /\ statsman_q = <<>> /\ at = 0 /\ seen = "" /\ cmds = 0
      /\ max_report_idx = 0 /\ lost = FALSE
  BY DEF VInit
<1>2. env \in [uses : [Objects -> SUBSET Kinds], params : SUBSET Objects, lives : [Objects -> Nat],
               cmds : Nat, faults : SUBSET {"crash", "slow", "torn", "soon"}]
  BY <1>1, StatsAssumption
<1>3. env.lives \in [Objects -> Nat] /\ env.cmds \in Nat
  BY <1>2
<1>4. /\ MaxVars \in Nat /\ MaxReports \in Nat /\ MaxQueue \in Nat /\ 0 \in 0..MaxVars
      /\ 0 \in 0..MaxReports + 1 /\ 0 <= MaxQueue /\ \E o \in Objects : TRUE
  BY StatsAssumption
<1>5. var_db \in [VarIds -> VarRecs]
  <2> DEFINE o == CHOOSE o \in Objects : TRUE
  <2>1. o \in Objects
    BY <1>4
  <2>2. var_db = [i \in VarIds |-> [used |-> FALSE, opts |-> "", obj |-> NoObj, of |-> <<o, "stat">>]]
    BY DEF VInit
  <2> HIDE DEF o
  <2>3. [used |-> FALSE, opts |-> "", obj |-> NoObj, of |-> <<o, "stat">>] \in VarRecs
    BY <2>1 DEF VarRecs, Kinds
  <2> QED
    BY <2>2, <2>3
<1> DEFINE r == [life |-> 0, on |-> FALSE, call |-> "", id |-> 0, stat |-> 0, params |-> FALSE]
<1>6. obj = [o \in Objects |-> r]
  BY DEF VInit
<1>7. r \in ObjRecs
  BY <1>4 DEF ObjRecs
<1>8. obj \in [Objects -> ObjRecs]
  BY <1>6, <1>7
<1>9. \A o \in Objects : ObjOK(o)
  <2> SUFFICES ASSUME NEW o \in Objects PROVE ObjOK(o)
    OBVIOUS
  <2>1. obj[o] = r
    BY <1>6
  <2>2. env.lives[o] \in Nat
    BY <1>3
  <2>5. r.life = 0 /\ ~r.on /\ r.call = "" /\ r.id = 0
    OBVIOUS
  <2> HIDE DEF r
  <2>3. obj[o].life = 0 /\ ~obj[o].on /\ obj[o].call = "" /\ obj[o].id = 0
    BY <2>1, <2>5
  <2>6. 0 <= env.lives[o]
    BY <2>2
  <2>4. obj[o].life <= env.lives[o]
    BY <2>3, <2>6
  <2> QED
    BY <2>3, <2>4 DEF ObjOK
<1>10. SemOK
  <2>1. Cardinality({}) <= 1
    BY FS_EmptySet
  <2>2. sem_var \subseteq Objects /\ Cardinality(sem_var) <= 1
    BY <1>1, <2>1
  <2> QED
    BY <1>1, <2>2 DEF SemOK
<1>11. reports \in [Slots -> ReportRecs]
  <2>1. NoReport \in ReportRecs
    BY <1>4 DEF NoReport, ReportRecs
  <2> QED
    BY <2>1 DEF VInit
<1>12. app_db \in [Objects -> EntryRecs]
  <2>1. <<>> \in Seq(0..MaxVars)
    OBVIOUS
  <2>2. None \in EntryRecs
    BY <2>1 DEF None, EntryRecs
  <2> QED
    BY <2>2 DEF VInit
<1>13. /\ stats_q \in Seq(ToStats) /\ Len(stats_q) <= MaxQueue
       /\ statsman_q \in Seq(ToStatsman) /\ Len(statsman_q) <= MaxQueue
  <2>1. <<>> \in Seq(ToStats) /\ <<>> \in Seq(ToStatsman) /\ Len(<<>>) = 0
    OBVIOUS
  <2> QED
    BY <1>1, <1>4, <2>1
<1>14. cmds \in 0..env.cmds /\ at \in 0..MaxVars /\ max_report_idx \in 0..MaxReports + 1
  <2>1. 0 \in 0..env.cmds
    BY <1>3
  <2> QED
    BY <1>1, <1>4, <2>1
<1> HIDE DEF r
<1> QED
  BY <1>1, <1>5, <1>8, <1>9, <1>10, <1>11, <1>12, <1>13, <1>14
  DEF TInv, VTypeOK, VarRecs, ObjRecs, SemOK, ReportRecs, EntryRecs, ToStats, ToStatsman, ObjOK

\* Every variable of STATS, STATSMAN and of the objects keeps its type, whatever fails; in it, an
\* object is in a call exactly as long as it has a variable for it.
THEOREM StatsTypes == VSpec => []VTypeOK
<1>1. VInit => TInv
  BY InitTypes
<1>2. TInv /\ [VNext]_vvars => TInv'
  BY StepTypes
<1>3. TInv => VTypeOK
  BY DEF TInv
<1> QED
  BY <1>1, <1>2, <1>3, PTL DEF VSpec

\* Queues as sets of packets
LEMMA RangeTail ==
  ASSUME NEW S, NEW s \in Seq(S), s # <<>>
  PROVE  /\ Range(Tail(s)) \subseteq Range(s) /\ Head(s) \in Range(s)
         /\ \A p \in Range(s) : p = Head(s) \/ p \in Range(Tail(s))
<1>1. /\ Head(s) = s[1] /\ Len(s) \in Nat /\ Len(s) >= 1 /\ Len(Tail(s)) = Len(s) - 1
      /\ \A n \in 1..Len(s) - 1 : Tail(s)[n] = s[n + 1]
  BY TakenFrom
<1>2. DOMAIN s = 1..Len(s) /\ DOMAIN Tail(s) = 1..Len(s) - 1
  BY <1>1
<1>3. \A n \in 1..Len(s) : n = 1 \/ (n - 1 \in 1..Len(s) - 1 /\ s[n] = Tail(s)[n - 1])
  BY <1>1
<1>4. (\A n \in 1..Len(s) - 1 : n + 1 \in 1..Len(s)) /\ 1 \in 1..Len(s)
  BY <1>1
<1>5. ASSUME NEW x \in Range(Tail(s)) PROVE x \in Range(s)
  <2>1. PICK n \in 1..Len(s) - 1 : x = Tail(s)[n]
    BY <1>2 DEF Range
  <2>2. n + 1 \in DOMAIN s /\ x = s[n + 1]
    BY <1>1, <1>2, <1>4, <2>1
  <2> QED
    BY <2>2 DEF Range
<1>6. Head(s) \in Range(s)
  BY <1>1, <1>2, <1>4 DEF Range
<1>7. ASSUME NEW x \in Range(s), x # Head(s) PROVE x \in Range(Tail(s))
  <2>1. PICK n \in 1..Len(s) : x = s[n]
    BY <1>2, <1>7 DEF Range
  <2>2. n - 1 \in DOMAIN Tail(s) /\ x = Tail(s)[n - 1]
    BY <1>1, <1>2, <1>3, <1>7, <2>1
  <2> QED
    BY <2>2 DEF Range
<1> QED
  BY <1>5, <1>6, <1>7

\* what is in a queue after a packet was appended
LEMMA RangeAppend ==
  ASSUME NEW S, NEW s \in Seq(S), NEW m \in S
  PROVE  Range(Append(s, m)) = Range(s) \cup {m}
<1>1. /\ Len(s) \in Nat /\ DOMAIN s = 1..Len(s) /\ DOMAIN Append(s, m) = 1..Len(s) + 1
      /\ \A n \in 1..Len(s) : Append(s, m)[n] = s[n]
      /\ Append(s, m)[Len(s) + 1] = m
  OBVIOUS
<1>2. \A n \in 1..Len(s) + 1 : n \in 1..Len(s) \/ n = Len(s) + 1
  BY <1>1
<1>3. \A n \in 1..Len(s) : n \in 1..Len(s) + 1
  BY <1>1
<1>4. Len(s) + 1 \in 1..Len(s) + 1
  BY <1>1
<1>5. ASSUME NEW x \in Range(Append(s, m)) PROVE x \in Range(s) \cup {m}
  <2>1. PICK n \in 1..Len(s) + 1 : x = Append(s, m)[n]
    BY <1>1 DEF Range
  <2> QED
    BY <1>1, <1>2, <2>1 DEF Range
<1>6. ASSUME NEW x \in Range(s) PROVE x \in Range(Append(s, m))
  <2>1. PICK n \in 1..Len(s) : x = s[n]
    BY <1>1 DEF Range
  <2>2. n \in DOMAIN Append(s, m) /\ x = Append(s, m)[n]
    BY <1>1, <1>3, <2>1
  <2> QED
    BY <2>2 DEF Range
<1>7. m \in Range(Append(s, m))
  BY <1>1, <1>4 DEF Range
<1> QED
  BY <1>5, <1>6, <1>7

\* Of the packets about one call there is one only, wherever it is
LEMMA AloneTailQ ==
  ASSUME NEW S, NEW Q \in Seq(S), NEW R \in Seq(S), Alone(Q, R), Q # <<>>
  PROVE  /\ Alone(Tail(Q), R)
         /\ \A m \in Range(Tail(Q)) \cup Range(R) : IsCall(Head(Q)) /\ IsCall(m) => m.id # Head(Q).id
<1>1. /\ Head(Q) = Q[1] /\ Len(Q) \in Nat /\ Len(Q) >= 1 /\ Len(Tail(Q)) = Len(Q) - 1
      /\ \A n \in 1..Len(Q) - 1 : Tail(Q)[n] = Q[n + 1]
  BY TakenFrom
<1>2. \A n \in 1..Len(Q) - 1 : n + 1 \in 1..Len(Q) /\ n + 1 # 1
  BY <1>1
<1>3. \A n, k \in 1..Len(Q) - 1 : n + 1 = k + 1 => n = k
  BY <1>1
<1>4. DOMAIN Tail(Q) = 1..Len(Q) - 1 /\ DOMAIN R = 1..Len(R) /\ 1 \in 1..Len(Q)
  BY <1>1
<1>5. Alone(Tail(Q), R)
  BY <1>1, <1>2, <1>3 DEF Alone
<1>6. ASSUME NEW m \in Range(Tail(Q)) \cup Range(R), IsCall(Head(Q)), IsCall(m), m.id = Head(Q).id
      PROVE  FALSE
  <2>1. CASE m \in Range(R)
    <3>1. PICK n \in 1..Len(R) : m = R[n]
      BY <1>4, <2>1 DEF Range
    <3> QED
      BY <1>1, <1>4, <1>6, <3>1 DEF Alone
  <2>2. CASE m \in Range(Tail(Q))
    <3>1. PICK n \in 1..Len(Q) - 1 : m = Tail(Q)[n]
      BY <1>4, <2>2 DEF Range
    <3>2. n + 1 \in 1..Len(Q) /\ n + 1 # 1 /\ m = Q[n + 1]
      BY <1>1, <1>2, <3>1
    <3> QED
      BY <1>1, <1>4, <1>6, <3>2 DEF Alone
  <2> QED
    BY <1>6, <2>1, <2>2
<1> QED
  BY <1>5, <1>6

\* the two queues are alike in this
LEMMA AloneBoth ==
  ASSUME NEW Q, NEW R
  PROVE  Alone(Q, R) <=> Alone(R, Q)
BY DEF Alone

\* a packet may be appended if no other is of the same call
LEMMA AloneAppend ==
  ASSUME NEW S, NEW Q \in Seq(S), NEW R \in Seq(S), Alone(Q, R), NEW m \in S,
         \A p \in Range(Q) \cup Range(R) : IsCall(m) /\ IsCall(p) => m.id # p.id
  PROVE  Alone(Append(Q, m), R)
<1>1. /\ Len(Q) \in Nat /\ Len(Append(Q, m)) = Len(Q) + 1
      /\ \A n \in 1..Len(Q) : Append(Q, m)[n] = Q[n]
      /\ Append(Q, m)[Len(Q) + 1] = m
  OBVIOUS
<1>2. \A n \in 1..Len(Q) + 1 : n \in 1..Len(Q) \/ n = Len(Q) + 1
  BY <1>1
<1>3. (\A n \in 1..Len(Q) : Q[n] \in Range(Q)) /\ (\A n \in 1..Len(R) : R[n] \in Range(R))
  BY DEF Range
<1> HIDE DEF Alone
<1>4. \A n \in 1..Len(Q) : IsCall(m) /\ IsCall(Q[n]) => m.id # Q[n].id
  BY <1>3
<1>5. \A n \in 1..Len(R) : IsCall(m) /\ IsCall(R[n]) => m.id # R[n].id
  BY <1>3
<1> QED
  BY <1>1, <1>2, <1>4, <1>5 DEF Alone

\* Facts about the state as long as nothing fails
OK == TInv /\ Orderly /\ OInv   \* and no packet is dropped

\* what is in order stays in order, as the environment never changes
LEMMA OrderlyAgain ==
  ASSUME Orderly, env' = env
  PROVE  Orderly'
BY DEF Orderly, Wanted

\* every used variable is owned by one object, for one kind
LEMMA OfFacts ==
  ASSUME TInv, NEW i \in VarIds
  PROVE  /\ var_db[i].of[1] \in Objects /\ var_db[i].of[2] \in Kinds
         /\ var_db[i].of = <<var_db[i].of[1], var_db[i].of[2]>>
         /\ var_db[i].used => Owns(var_db[i].of[1], var_db[i].of[2], i)
<1>1. var_db[i] \in VarRecs
  BY TypeFacts
<1>2. var_db[i].of \in Objects \X Kinds
  BY <1>1 DEF VarRecs
<1> QED
  BY <1>2 DEF Owns

\* by one only
LEMMA OwnsOne ==
  ASSUME NEW o \in Objects, NEW k \in Kinds, NEW p \in Objects, NEW l \in Kinds, NEW i \in VarIds,
         Owns(o, k, i), Owns(p, l, i)
  PROVE  o = p /\ k = l
BY DEF Owns

\* an object in a call owns the variable of it, which is not being closed
LEMMA CallOf ==
  ASSUME OK, NEW o \in Objects, obj[o].call # ""
  PROVE  /\ obj[o].call \in Calls /\ obj[o].on /\ obj[o].id \in VarIds /\ obj[o].id # 0
         /\ KindOf(obj[o].call) \in Kinds /\ Owns(o, KindOf(obj[o].call), obj[o].id)
         /\ var_db[obj[o].id].opts \in {obj[o].call, "", Good[obj[o].call]}
         /\ var_db[obj[o].id].opts \notin Closes
<1>1. Called(o)
  BY DEF OK, OInv
<1>2. /\ obj[o].call \in Calls /\ obj[o].on /\ obj[o].id \in VarIds
      /\ Owns(o, KindOf(obj[o].call), obj[o].id)
      /\ var_db[obj[o].id].opts \in {obj[o].call, "", Good[obj[o].call]}
  BY <1>1 DEF Called
<1>3. obj[o].id # 0
  BY <1>2, ConstantFacts DEF OK
<1>4. KindOf(obj[o].call) \in Kinds
  BY DEF KindOf, Kinds
<1>5. var_db[obj[o].id].opts \notin Closes
  BY <1>2, CallFacts DEF Closes
<1> QED
  BY <1>2, <1>3, <1>4, <1>5

\* the statistic that is open has its variable and its record
LEMMA StatOf ==
  ASSUME OK, NEW o \in Objects, obj[o].stat # 0
  PROVE  /\ obj[o].stat \in VarIds /\ obj[o].on /\ Owns(o, "stat", obj[o].stat)
         /\ var_db[obj[o].stat].opts = "STOK" /\ app_db[o].stats = <<obj[o].stat>>
<1>1. Open(o)
  BY DEF OK, OInv
<1>2. obj[o] \in ObjRecs
  BY TypeFacts DEF OK
<1>3. obj[o].stat \in 0..MaxVars
  BY <1>2 DEF ObjRecs
<1>4. obj[o].stat \in VarIds
  BY <1>3, ConstantFacts DEF OK
<1> QED
  BY <1>1, <1>4 DEF Open

\* what holds of the owner of a variable
LEMMA OwnedBy ==
  ASSUME OK, NEW o \in Objects, NEW k \in Kinds, NEW i \in VarIds, Owns(o, k, i)
  PROVE  /\ k \in env.uses[o] /\ var_db[i].obj = ObjId(o) /\ i # 0
         /\ var_db[i].opts \in Closes \/ obj[o].id = i \/ obj[o].stat = i
         /\ (var_db[i].opts = "STCLOSE" => k = "stat" /\ obj[o].stat = 0 /\ obj[o].call # "STINIT")
         /\ (var_db[i].opts = "PMCLOSE" =>
               k = "params" /\ ~obj[o].params /\ obj[o].call \notin {"PMINIT", "PMGET"})
<1>1. Kept(o, k, i)
  BY DEF OK, OInv, Table
<1>2. i # 0
  BY ConstantFacts DEF OK
<1> QED
  BY <1>1, <1>2 DEF Kept

\* the variable of a call is of its kind
LEMMA IdOwner ==
  ASSUME OK, NEW o \in Objects, NEW k \in Kinds, NEW i \in VarIds, Owns(o, k, i), obj[o].id = i
  PROVE  obj[o].call # "" /\ k = KindOf(obj[o].call) /\ var_db[i].opts \notin Closes
<1>1. i # 0
  BY OwnedBy
<1>4. ObjOK(o)
  BY TypeFacts DEF OK
<1>2. obj[o].call # ""
  BY <1>1, <1>4 DEF ObjOK
<1>3. Owns(o, KindOf(obj[o].call), i) /\ KindOf(obj[o].call) \in Kinds /\ var_db[i].opts \notin Closes
  BY <1>2, CallOf
<1> QED
  BY <1>2, <1>3, OwnsOne

\* the variable of a statistic is of its kind
LEMMA StatOwner ==
  ASSUME OK, NEW o \in Objects, NEW k \in Kinds, NEW i \in VarIds, Owns(o, k, i), obj[o].stat = i
  PROVE  k = "stat" /\ var_db[i].opts = "STOK"
<1>1. i # 0
  BY OwnedBy
<1>2. Owns(o, "stat", i) /\ "stat" \in Kinds /\ var_db[i].opts = "STOK"
  BY <1>1, StatOf DEF Kinds
<1> QED
  BY <1>2, OwnsOne

\* a used variable is an object's: closed, or of its call, or its statistic
LEMMA OwnedCases ==
  ASSUME OK, NEW o \in Objects, NEW k \in Kinds, NEW i \in VarIds, Owns(o, k, i)
  PROVE  \/ var_db[i].opts \in Closes
         \/ obj[o].id = i /\ obj[o].call # "" /\ k = KindOf(obj[o].call)
         \/ obj[o].stat = i /\ k = "stat" /\ obj[o].stat # 0
<1>1. i # 0 /\ (var_db[i].opts \in Closes \/ obj[o].id = i \/ obj[o].stat = i)
  BY OwnedBy
<1>2. CASE obj[o].id = i
  BY <1>2, IdOwner
<1>3. CASE obj[o].stat = i
  BY <1>1, <1>3, StatOwner
<1> QED
  BY <1>1, <1>2, <1>3

\* what an object that is not running has
LEMMA GoneFacts ==
  ASSUME OK, NEW o \in Objects, ~obj[o].on
  PROVE  /\ obj[o].call = "" /\ obj[o].id = 0 /\ obj[o].stat = 0 /\ ~obj[o].params
         /\ \A k \in Kinds, i \in VarIds : Owns(o, k, i) => var_db[i].opts \in Closes
<1>1. ObjOK(o) /\ Open(o)
  BY TypeFacts DEF OK, OInv
<1>2. obj[o].call = "" /\ obj[o].id = 0 /\ obj[o].stat = 0 /\ ~obj[o].params
  BY <1>1 DEF ObjOK, Open
<1>3. \A k \in Kinds, i \in VarIds : Owns(o, k, i) => var_db[i].opts \in Closes
  BY <1>2, OwnedCases
<1> QED
  BY <1>2, <1>3

\* where things are in order no entry is seen half filled
LEMMA NoFaults ==
  ASSUME OK
  PROVE  /\ "torn" \notin env.faults /\ "slow" \notin env.faults /\ "crash" \notin env.faults
         /\ "soon" \notin env.faults /\ sem_var = {}
BY DEF OK, Orderly, OInv

\* the fields of what is on its way
LEMMA MailFacts ==
  ASSUME TInv, NEW p \in Range(stats_q) \cup Range(statsman_q)
  PROVE  p.of \in Objects /\ p.id \in 0..MaxVars /\ p.obj \in ObjIds \cup {NoObj}
<1>1. stats_q \in Seq(ToStats) /\ statsman_q \in Seq(ToStatsman)
  BY TypeFacts
<1>2. p \in ToStats \/ p \in ToStatsman
  BY <1>1 DEF Range
<1> QED
  BY <1>2 DEF ToStats, ToStatsman, Msgs

\* An object that ends or is launched: what it has open does not change, as there is nothing
LEMMA ObjIdSame ==
  ASSUME NEW o, obj'[o].life = obj[o].life
  PROVE  ObjId(o)' = ObjId(o)
BY DEF ObjId

\* Only who is running changes, and the obj_id of objects of which there is nothing left
NothingOf(o) ==
  /\ \A k \in Kinds, i \in VarIds : ~Owns(o, k, i)
  /\ \A p \in Range(stats_q) \cup Range(statsman_q) : p.of # o
  /\ app_db[o] = None
OnlyRuns(o) ==
  /\ \A p \in Objects :
       /\ obj'[p].call = obj[p].call /\ obj'[p].id = obj[p].id
       /\ obj'[p].stat = obj[p].stat /\ obj'[p].params = obj[p].params
       /\ (p # o => obj'[p] = obj[p])
  /\ obj[o].call = "" /\ obj[o].stat = 0 /\ ~obj[o].params
  /\ obj'[o].life = obj[o].life \/ NothingOf(o)

\* such a change keeps the invariant
LEMMA RunKeeps ==
  ASSUME OK, NEW o \in Objects, OnlyRuns(o),
         UNCHANGED <<var_db, sem_var, stats, stats_q, statsman_q, lost, app_db, cmds, env>>
  PROVE  OInv'
<1>0. /\ Table /\ OneEach /\ Mail /\ Alone(stats_q, statsman_q) /\ Seeing /\ Reporting
      /\ \A p \in Objects : Called(p) /\ Open(p) /\ Recorded(p)
  BY DEF OK, OInv
<1>a. sem_var = {} /\ TInv
  BY DEF OK, OInv
<1>1. /\ var_db' = var_db /\ sem_var' = sem_var /\ at' = at /\ seen' = seen /\ reports' = reports
      /\ max_report_idx' = max_report_idx /\ stats_q' = stats_q /\ statsman_q' = statsman_q
      /\ app_db' = app_db /\ env' = env
  BY DEF stats
<1>2. \A p \in Objects : p # o => ObjId(p)' = ObjId(p)
  BY DEF ObjId, OnlyRuns
<1>3. ObjId(o)' = ObjId(o) \/ NothingOf(o)
  BY ObjIdSame DEF OnlyRuns
<1>b. \A p \in Objects :
        /\ obj'[p].call = obj[p].call /\ obj'[p].id = obj[p].id
        /\ obj'[p].stat = obj[p].stat /\ obj'[p].params = obj[p].params
        /\ (p # o => obj'[p] = obj[p])
  BY DEF OnlyRuns
<1>c. obj'[o].call = "" /\ obj'[o].stat = 0 /\ ~obj'[o].params
  BY DEF OnlyRuns
<1>d. \A p \in Objects, k \in Kinds, i \in VarIds : Owns(p, k, i)' = Owns(p, k, i)
  BY <1>1 DEF Owns
<1>4. Table'
  <2> SUFFICES ASSUME NEW p \in Objects, NEW k \in Kinds, NEW i \in VarIds PROVE Kept(p, k, i)'
    BY DEF Table
  <2>1. CASE ~Owns(p, k, i)
    BY <1>d, <2>1 DEF Kept
  <2>2. CASE Owns(p, k, i)
    <3>1. Kept(p, k, i)
      BY <1>0 DEF Table
    <3>2. ObjId(p)' = ObjId(p)
      BY <1>2, <1>3, <2>2 DEF NothingOf
    <3> QED
      BY <1>1, <1>b, <2>2, <3>1, <3>2 DEF Kept
  <2> QED
    BY <2>1, <2>2
<1>5. OneEach'
  BY <1>0, <1>d DEF OneEach
<1>6. Mail'
  <2>1. ASSUME NEW p \in Range(statsman_q) PROVE Request(p)'
    <3>3. p \in Range(stats_q) \cup Range(statsman_q)
      BY <2>1
    <3>4. p.of \in Objects
      BY <1>a, <3>3, MailFacts
    <3>5. ObjId(p.of)' = ObjId(p.of)
      BY <1>2, <1>3, <3>3, <3>4 DEF NothingOf
    <3>1. Request(p) /\ p.of \in Objects /\ ObjId(p.of)' = ObjId(p.of)
      BY <1>0, <2>1, <3>4, <3>5 DEF Mail
    <3>2. Carried(p, p.cmd) => Carried(p, p.cmd)'
      BY <1>1, <1>b, <3>1 DEF Carried
    <3> QED
      BY <1>1, <1>b, <3>1, <3>2 DEF Request, Owns
  <2>2. ASSUME NEW p \in Range(stats_q) PROVE Answer(p)'
    <3>3. p \in Range(stats_q) \cup Range(statsman_q)
      BY <2>2
    <3>4. p.of \in Objects
      BY <1>a, <3>3, MailFacts
    <3>5. ObjId(p.of)' = ObjId(p.of)
      BY <1>2, <1>3, <3>3, <3>4 DEF NothingOf
    <3>1. Answer(p) /\ p.of \in Objects /\ ObjId(p.of)' = ObjId(p.of)
      BY <1>0, <2>2, <3>4, <3>5 DEF Mail
    <3>2. \A c \in Calls : Carried(p, c) => Carried(p, c)'
      BY <1>1, <1>b, <3>1 DEF Carried
    <3> QED
      BY <1>1, <3>1, <3>2 DEF Answer
  <2> QED
    BY <1>1, <2>1, <2>2 DEF Mail
<1>7. Alone(stats_q, statsman_q)' /\ Seeing' /\ Reporting' /\ sem_var' = {}
  <2>1. Alone(stats_q, statsman_q)'
    BY <1>0, <1>1 DEF Alone, IsCall
  <2>2. Seeing'
    BY <1>0, <1>1 DEF Seeing
  <2>3. Reporting'
    BY <1>0, <1>1 DEF Reporting, Used
  <2> QED
    BY <1>a, <1>1, <2>1, <2>2, <2>3
<1>8. ASSUME NEW p \in Objects PROVE Called(p)'
  <2>1. CASE p = o
    BY <1>c, <2>1 DEF Called
  <2>2. CASE p # o
    <3>1. Called(p) /\ obj'[p] = obj[p]
      BY <1>0, <1>b, <2>2
    <3> QED
      BY <1>1, <3>1 DEF Called, Owns
  <2> QED
    BY <2>1, <2>2
<1>9. ASSUME NEW p \in Objects PROVE Open(p)'
  <2>1. CASE p = o
    BY <1>c, <2>1 DEF Open
  <2>2. CASE p # o
    BY <1>0, <1>1, <1>b, <2>2 DEF Open, Owns
  <2> QED
    BY <2>1, <2>2
<1>10. ASSUME NEW p \in Objects PROVE Recorded(p)'
  <2>1. CASE ObjId(p)' = ObjId(p)
    <3>1. /\ ClosesParams(p)' = ClosesParams(p)
          /\ \A i \in VarIds : /\ ClosesStat(p, i)' = ClosesStat(p, i) /\ Leaving(i)' = Leaving(i)
                               /\ Owns(p, "stat", i)' = Owns(p, "stat", i)
                               /\ Owns(p, "params", i)' = Owns(p, "params", i)
      BY <1>1, <2>1 DEF ClosesParams, ClosesStat, Leaving, Owns, Msg
    <3>2. Stays(p) => Stays(p)'
      BY <1>1, <1>b, <3>1 DEF Stays
    <3>3. Recorded(p)
      BY <1>0
    <3> QED
      BY <1>1, <2>1, <3>1, <3>2, <3>3 DEF Recorded
  <2>2. CASE ObjId(p)' # ObjId(p)
    <3>1. app_db'[p] = None
      BY <1>1, <1>2, <1>3, <2>2 DEF NothingOf
    <3>2. app_db'[p].stats = <<>> /\ ~app_db'[p].params
      BY <3>1 DEF None
    <3> QED
      BY <3>1, <3>2 DEF Recorded
  <2> QED
    BY <2>1, <2>2
<1> QED
  BY <1>4, <1>5, <1>6, <1>7, <1>8, <1>9, <1>10 DEF OInv

\* Launch: what was open before has been closed, so nothing is left under the old obj_id
LEMMA LaunchKeeps ==
  ASSUME OK, NEW o \in Objects, Launch(o)
  PROVE  OInv'
<1>0. /\ ~obj[o].on /\ UNCHANGED <<var_db, sem_var, stats, stats_q, statsman_q, lost, app_db, cmds, env>>
      /\ TInv
  BY DEF Launch, OK
<1>1. /\ \A p \in Objects \ {o} : obj'[p] = obj[p]
      /\ obj'[o].call = obj[o].call /\ obj'[o].id = obj[o].id
      /\ obj'[o].stat = obj[o].stat /\ obj'[o].params = obj[o].params
  BY <1>0, LaunchValue
<1>2. \A k \in Kinds :
        /\ \A i \in VarIds : var_db[i].of = <<o, k>> => ~Pending(i)
        /\ \A p \in Range(stats_q) \cup Range(statsman_q) : p.of # o
  BY NoFaults DEF Launch, Settled
<1>3. /\ obj[o].call = "" /\ obj[o].stat = 0 /\ ~obj[o].params
      /\ \A k \in Kinds, i \in VarIds : Owns(o, k, i) => var_db[i].opts \in Closes
  BY <1>0, GoneFacts
<1>4. \A k \in Kinds, i \in VarIds : ~Owns(o, k, i)
  <2> SUFFICES ASSUME NEW k \in Kinds, NEW i \in VarIds, Owns(o, k, i) PROVE FALSE
    OBVIOUS
  <2>1. var_db[i].opts \in Requests /\ var_db[i].used /\ var_db[i].of = <<o, k>>
    BY <1>3 DEF Closes, Requests, Owns
  <2> QED
    BY <1>2, <2>1 DEF Pending
<1>5. "stat" \in Kinds /\ "params" \in Kinds
  BY DEF Kinds
<1>6. \A p \in Range(stats_q) \cup Range(statsman_q) : p.of # o
  BY <1>2, <1>5
<1>7. app_db[o] = None
  <2> SUFFICES ASSUME app_db[o] # None PROVE FALSE
    OBVIOUS
  <2>1. Recorded(o)
    BY DEF OK, OInv
  <2>2. app_db[o].stats = <<>>
    <3> SUFFICES ASSUME app_db[o].stats # <<>> PROVE FALSE
      OBVIOUS
    <3>1. PICK i \in VarIds : Owns(o, "stat", i) \/ ClosesStat(o, i)
      BY <2>1 DEF Recorded
    <3>2. ClosesStat(o, i)
      BY <1>4, <1>5, <3>1
    <3>3. Msg("STCLOSE", o, ObjId(o), i).of = o
      BY DEF Msg
    <3> QED
      BY <1>6, <3>2, <3>3 DEF ClosesStat
  <2>3. ~app_db[o].params
    <3> SUFFICES ASSUME app_db[o].params PROVE FALSE
      OBVIOUS
    <3>1. Stays(o)
      BY <2>1 DEF Recorded
    <3> QED
      BY <1>3, <1>4, <1>5, <1>6, <3>1 DEF Stays, ClosesParams
  <2> QED
    BY <2>1, <2>2, <2>3 DEF Recorded, Nothing
<1>8. NothingOf(o)
  BY <1>4, <1>6, <1>7 DEF NothingOf
<1>9. OnlyRuns(o)
  BY <1>1, <1>3, <1>8 DEF OnlyRuns
<1> QED
  BY <1>0, <1>9, RunKeeps

\* There is room in the table for all objects want: when it is full, all of it is there
LEMMA FullTable ==
  ASSUME OK, Free = {}, NEW w \in Wanted
  PROVE  \E i \in VarIds : Owns(w[1], w[2], i)
<1>0. TInv /\ Table /\ OneEach /\ Cardinality(Wanted) <= MaxVars
  BY DEF OK, OInv, Orderly
<1>1. \A i \in VarIds : var_db[i].used
  BY <1>0 DEF Free
<1> DEFINE f == [i \in VarIds |-> var_db[i].of]
<1>2. IsFiniteSet(Objects \X Kinds) /\ IsFiniteSet(Wanted)
  <2>1. IsFiniteSet(Kinds)
    <3>1. Kinds = {"stat"} \cup {"params"}
      BY DEF Kinds
    <3> QED
      BY <3>1, FS_Singleton, FS_AddElement
  <2>2. IsFiniteSet(Objects)
    BY StatsAssumption
  <2>3. IsFiniteSet(Objects \X Kinds)
    BY <2>1, <2>2, FS_Product
  <2>4. Wanted \subseteq Objects \X Kinds
    BY DEF Wanted
  <2> QED
    BY <2>3, <2>4, FS_Subset
<1>3. \A i \in VarIds : /\ var_db[i].of \in Wanted
                        /\ Owns(var_db[i].of[1], var_db[i].of[2], i)
                        /\ var_db[i].of[1] \in Objects /\ var_db[i].of[2] \in Kinds
  <2> SUFFICES ASSUME NEW i \in VarIds
               PROVE /\ var_db[i].of \in Wanted /\ Owns(var_db[i].of[1], var_db[i].of[2], i)
                     /\ var_db[i].of[1] \in Objects /\ var_db[i].of[2] \in Kinds
    OBVIOUS
  <2>1. /\ var_db[i].of[1] \in Objects /\ var_db[i].of[2] \in Kinds
        /\ var_db[i].of = <<var_db[i].of[1], var_db[i].of[2]>>
        /\ Owns(var_db[i].of[1], var_db[i].of[2], i)
    BY <1>0, <1>1, OfFacts
  <2>2. var_db[i].of[2] \in env.uses[var_db[i].of[1]]
    BY <2>1, OwnedBy
  <2>3. var_db[i].of \in Objects \X Kinds
    BY <2>1
  <2> QED
    BY <2>1, <2>2, <2>3 DEF Wanted
<1>4. f \in Injection(VarIds, Wanted)
  <2>1. f \in [VarIds -> Wanted]
    BY <1>3
  <2>2. ASSUME NEW i \in VarIds, NEW j \in VarIds, f[i] = f[j] PROVE i = j
    <3>1. var_db[i].of = var_db[j].of
      BY <2>2
    <3>2. Owns(var_db[i].of[1], var_db[i].of[2], i) /\ Owns(var_db[i].of[1], var_db[i].of[2], j)
      BY <1>3, <3>1
    <3> QED
      BY <1>0, <1>3, <3>2 DEF OneEach
  <2> QED
    BY <2>1, <2>2 DEF Injection, IsInjective
<1>5. IsFiniteSet(VarIds) /\ Cardinality(VarIds) = MaxVars
  <2>1. MaxVars \in Nat /\ VarIds = 1..MaxVars
    BY StatsAssumption DEF VarIds
  <2> QED
    BY <2>1, FS_Interval
<1>6. Cardinality(Wanted) \in Nat
  BY <1>2, FS_CardinalityType
<1> HIDE DEF f
<1>7. /\ Cardinality(VarIds) <= Cardinality(Wanted)
      /\ Cardinality(VarIds) = Cardinality(Wanted) => f \in Surjection(VarIds, Wanted)
  BY <1>2, <1>4, FS_Injection
<1>8. MaxVars \in Nat
  BY StatsAssumption
<1>9. f \in Surjection(VarIds, Wanted)
  BY <1>0, <1>5, <1>6, <1>7, <1>8
<1>10. PICK i \in VarIds : f[i] = w
  BY <1>9 DEF Surjection
<1>11. var_db[i].of = w
  BY <1>10 DEF f
<1> QED
  BY <1>3, <1>11

\* ClosePHAL: a full table holds a variable for the parameters, so CloseParamFile has not failed
LEMMA ClosePHALKeeps ==
  ASSUME OK, NEW o \in Objects, ClosePHAL(o)
  PROVE  OInv'
<1>0. /\ obj[o].call = "" /\ obj[o].stat = 0 /\ (obj[o].params => Free = {}) /\ obj' = Off(o)
      /\ UNCHANGED <<var_db, sem_var, stats, stats_q, statsman_q, lost, app_db, cmds, env>> /\ TInv
  BY DEF ClosePHAL, OK
<1>1. ~obj[o].params
  <2> SUFFICES ASSUME obj[o].params PROVE FALSE
    OBVIOUS
  <2>1. Open(o)
    BY DEF OK, OInv
  <2>2. "params" \in env.uses[o] /\ "params" \in Kinds
    BY <2>1 DEF Open, Kinds
  <2>3. <<o, "params">> \in Wanted
    BY <2>2 DEF Wanted
  <2>4. PICK i \in VarIds : Owns(o, "params", i)
    BY <1>0, <2>3, FullTable
  <2>5. PICK k \in Kinds : k = "params"
    BY <2>2
  <2>7. Owns(o, k, i)
    BY <2>4, <2>5
  <2>8. var_db[i].opts \in Closes
    BY <1>0, <2>2, <2>4, <2>5, <2>7, OwnedCases
  <2>9. (var_db[i].opts = "STCLOSE" => k = "stat") /\ (var_db[i].opts = "PMCLOSE" => ~obj[o].params)
    BY <2>4, <2>7, OwnedBy
  <2> QED
    BY <2>5, <2>8, <2>9 DEF Closes
<1>2. obj[o].id = 0
  <2>1. ObjOK(o)
    BY <1>0, TypeFacts
  <2> QED
    BY <1>0, <2>1 DEF ObjOK
<1> DEFINE r == [life |-> obj[o].life, on |-> FALSE, call |-> "", id |-> 0, stat |-> 0, params |-> FALSE]
<1>3. obj' = [obj EXCEPT ![o] = r] /\ obj \in [Objects -> ObjRecs]
  BY <1>0, TypeFacts DEF Off
<1>4. r.life = obj[o].life /\ r.call = "" /\ r.id = 0 /\ r.stat = 0 /\ r.params = FALSE
  OBVIOUS
<1> HIDE DEF r
<1>5. obj'[o] = r /\ \A p \in Objects : p # o => obj'[p] = obj[p]
  BY <1>3
<1>6. obj[o].params = FALSE
  <2>1. obj[o] \in ObjRecs
    BY <1>3
  <2> QED
    BY <1>1, <2>1 DEF ObjRecs
<1>7. OnlyRuns(o)
  BY <1>0, <1>1, <1>2, <1>4, <1>5, <1>6 DEF OnlyRuns
<1> QED
  BY <1>0, <1>7, RunKeeps

\* Changes of variables
LEMMA CreateValue ==
  ASSUME OK, NEW o \in Objects, NEW c \in Requests \ {"STCLOSE"}, hwapi_var_create2(o, c)
  PROVE  /\ First(Free) \in VarIds /\ ~var_db[First(Free)].used
         /\ \A j \in VarIds : j # First(Free) => var_db'[j] = var_db[j]
         /\ var_db'[First(Free)] = Filled(o, c)
         /\ \A p \in Objects : p # o => obj'[p] = obj[p]
         /\ obj'[o].life = obj[o].life /\ obj'[o].on = obj[o].on /\ obj'[o].stat = obj[o].stat
         /\ IF c = "PMCLOSE" THEN obj'[o].call = "" /\ obj'[o].id = 0 /\ ~obj'[o].params
                             ELSE obj'[o].call = c /\ obj'[o].id = First(Free) /\ obj'[o].params = obj[o].params
         /\ obj[o].on /\ obj[o].call = "" /\ obj[o].id = 0
<1> DEFINE i == First(Free)
<1>0. TInv
  BY DEF OK
<1>1. obj[o].on /\ obj[o].call = "" /\ i \in VarIds /\ ~var_db[i].used
  BY <1>0, FreeFacts DEF hwapi_var_create2
<1>2. var_db' = [var_db EXCEPT ![i] = Filled(o, c)] /\ obj' = Waits(o, c)
  BY NoFaults DEF hwapi_var_create2
<1>3. obj \in [Objects -> ObjRecs] /\ var_db \in [VarIds -> VarRecs] /\ ObjOK(o)
  BY <1>0, TypeFacts
<1>4. obj[o].id = 0
  BY <1>1, <1>3 DEF ObjOK
<1>5. CASE c = "PMCLOSE"
  <2>1. obj' = [obj EXCEPT ![o].params = FALSE]
    BY <1>2, <1>5 DEF Waits
  <2> HIDE DEF i
  <2>2. /\ \A p \in Objects : p # o => obj'[p] = obj[p]
        /\ obj'[o].life = obj[o].life /\ obj'[o].on = obj[o].on /\ obj'[o].stat = obj[o].stat
        /\ obj'[o].call = "" /\ obj'[o].id = 0 /\ ~obj'[o].params
    BY <1>1, <1>3, <1>4, <2>1 DEF ObjRecs
  <2> QED
    BY <1>1, <1>2, <1>3, <1>4, <1>5, <2>2 DEF i
<1>6. CASE c # "PMCLOSE"
  <2>1. obj' = [obj EXCEPT ![o].call = c, ![o].id = i]
    BY <1>2, <1>6 DEF Waits
  <2> HIDE DEF i
  <2>2. /\ \A p \in Objects : p # o => obj'[p] = obj[p]
        /\ obj'[o].life = obj[o].life /\ obj'[o].on = obj[o].on /\ obj'[o].stat = obj[o].stat
        /\ obj'[o].call = c /\ obj'[o].id = i /\ obj'[o].params = obj[o].params
    BY <1>3, <2>1 DEF ObjRecs
  <2> QED
    BY <1>1, <1>2, <1>3, <1>4, <1>6, <2>2 DEF i
<1> QED
  BY <1>5, <1>6

\* what is in a new variable
LEMMA FilledFacts ==
  ASSUME NEW o, NEW c
  PROVE  /\ Filled(o, c).used /\ Filled(o, c).opts = c /\ Filled(o, c).obj = ObjId(o)
         /\ Filled(o, c).of = <<o, KindOf(c)>>
BY DEF Filled, KindOf

\* what an object may open: the calls that make a variable
Opens(o, c) ==
  \/ c = "STINIT" /\ "stat" \in env.uses[o] /\ obj[o].stat = 0 /\ Settled(o, "stat")
  \/ c = "PMINIT" /\ "params" \in env.uses[o] /\ ~obj[o].params /\ Settled(o, "params")
  \/ c \in {"PMGET", "PMCLOSE"} /\ obj[o].params

\* what it opens has no variable yet, and no record but the one it is served from
LEMMA OpensFacts ==
  ASSUME OK, NEW o \in Objects, NEW c, Opens(o, c), obj[o].call = "", obj[o].id = 0
  PROVE  /\ c \in Requests \ {"STCLOSE"} /\ KindOf(c) \in Kinds /\ KindOf(c) \in env.uses[o]
         /\ \A i \in VarIds : ~Owns(o, KindOf(c), i)
         /\ c = "STINIT" => obj[o].stat = 0
         /\ c = "PMINIT" => ~obj[o].params
         /\ c \in {"PMGET", "PMCLOSE"} => obj[o].params
         /\ c = "STINIT" => app_db[o].stats = <<>>
         /\ c \in {"STINIT", "PMINIT"} => \A p \in Range(stats_q) \cup Range(statsman_q) : p.of # o
<1>1. c \in Requests \ {"STCLOSE"} /\ KindOf(c) \in Kinds
  BY DEF Opens, KindOf, Kinds, Requests
<1>2. KindOf(c) \in env.uses[o]
  <2>1. Open(o)
    BY DEF OK, OInv
  <2> QED
    BY <2>1 DEF Opens, Open, KindOf
<1>3. c \in {"STINIT", "PMINIT"} =>
        /\ \A i \in VarIds : var_db[i].of = <<o, KindOf(c)>> => ~Pending(i)
        /\ \A p \in Range(stats_q) \cup Range(statsman_q) : p.of # o
  BY NoFaults DEF Opens, Settled, KindOf
<1>4. ASSUME NEW i \in VarIds, Owns(o, KindOf(c), i) PROVE FALSE
  <2> DEFINE k == KindOf(c)
  <2>0. k \in Kinds
    BY <1>1
  <2> HIDE DEF k
  <2>1. k = "stat" => c = "STINIT" /\ obj[o].stat = 0
    BY DEF k, KindOf, Opens
  <2>2. var_db[i].opts \in Closes
    BY <1>1, <1>4, <2>0, <2>1, OwnedCases DEF k
  <2>3. CASE c \in {"STINIT", "PMINIT"}
    BY <1>3, <1>4, <2>2, <2>3 DEF Owns, Pending, Closes, Requests
  <2>4. CASE c \in {"PMGET", "PMCLOSE"}
    <3>1. obj[o].params /\ k = "params"
      BY <2>4 DEF Opens, k, KindOf
    <3>2. (var_db[i].opts = "STCLOSE" => k = "stat") /\ (var_db[i].opts = "PMCLOSE" => ~obj[o].params)
      BY <1>4, <2>0, OwnedBy DEF k
    <3> QED
      BY <2>2, <3>1, <3>2 DEF Closes
  <2> QED
    BY <2>3, <2>4 DEF Opens
<1>5. c = "STINIT" => app_db[o].stats = <<>>
  <2> SUFFICES ASSUME c = "STINIT", app_db[o].stats # <<>> PROVE FALSE
    OBVIOUS
  <2>1. Recorded(o) /\ KindOf(c) = "stat"
    BY DEF OK, OInv, KindOf
  <2>2. PICK i \in VarIds : Owns(o, "stat", i) \/ ClosesStat(o, i)
    BY <2>1 DEF Recorded
  <2>3. ClosesStat(o, i)
    BY <1>4, <2>1, <2>2
  <2>4. Msg("STCLOSE", o, ObjId(o), i).of = o
    BY DEF Msg
  <2> QED
    BY <1>3, <2>3, <2>4 DEF ClosesStat
<1>6. /\ c = "STINIT" => obj[o].stat = 0
      /\ c = "PMINIT" => ~obj[o].params
      /\ c \in {"PMGET", "PMCLOSE"} => obj[o].params
  BY DEF Opens
<1> QED
  BY <1>1, <1>2, <1>3, <1>4, <1>5, <1>6

\* hwapi_var_create2 keeps the invariant: no other owns the entry, no packet names it
LEMMA CreateKeeps ==
  ASSUME OK, NEW o \in Objects, NEW c, hwapi_var_create2(o, c), Opens(o, c)
  PROVE  OInv'
<1> DEFINE k == KindOf(c)
<1>a. TInv /\ sem_var = {}
  BY DEF OK, OInv
<1>b. obj[o].call = "" /\ obj[o].id = 0 /\ obj[o].on
  <2>1. ObjOK(o)
    BY <1>a, TypeFacts
  <2> QED
    BY <2>1 DEF ObjOK, hwapi_var_create2
<1>c. /\ c \in Requests \ {"STCLOSE"} /\ k \in Kinds /\ k \in env.uses[o]
      /\ \A j \in VarIds : ~Owns(o, k, j)
  BY <1>b, OpensFacts
<1>d. /\ c = "STINIT" => obj[o].stat = 0
      /\ c = "PMINIT" => ~obj[o].params
      /\ c \in {"PMGET", "PMCLOSE"} => obj[o].params
      /\ c = "STINIT" => app_db[o].stats = <<>>
      /\ c \in {"STINIT", "PMINIT"} => \A p \in Range(stats_q) \cup Range(statsman_q) : p.of # o
  BY <1>b, OpensFacts
<1>0. PICK i \in VarIds : i = First(Free)
  BY <1>c, CreateValue
<1>e. i \in VarIds /\ ~var_db[i].used /\ \A j \in VarIds : j # i => var_db'[j] = var_db[j]
  BY <1>0, <1>c, CreateValue
<1>f. var_db'[i].used /\ var_db'[i].opts = c /\ var_db'[i].obj = ObjId(o) /\ var_db'[i].of = <<o, k>>
  <2>1. var_db'[i] = Filled(o, c)
    BY <1>0, <1>c, CreateValue
  <2> QED
    BY <2>1, FilledFacts
<1>g. /\ \A p \in Objects : p # o => obj'[p] = obj[p]
      /\ obj'[o].life = obj[o].life /\ obj'[o].on = obj[o].on /\ obj'[o].stat = obj[o].stat
  BY <1>c, CreateValue
<1>h. \/ c = "PMCLOSE" /\ obj'[o].call = "" /\ obj'[o].id = 0 /\ ~obj'[o].params
      \/ c # "PMCLOSE" /\ obj'[o].call = c /\ obj'[o].id = i /\ obj'[o].params = obj[o].params
  BY <1>0, <1>c, CreateValue
<1>i. /\ at' = at /\ seen' = seen /\ reports' = reports /\ max_report_idx' = max_report_idx
      /\ stats_q' = stats_q /\ statsman_q' = statsman_q /\ app_db' = app_db /\ env' = env /\ sem_var' = {}
  BY <1>a, NoFaults DEF hwapi_var_create2, stats
<1>j. \A p \in Objects : ObjId(p)' = ObjId(p)
  BY <1>g DEF ObjId
<1>k. k = KindOf(c) /\ i # 0
  BY <1>a, <1>e, ConstantFacts
<1> HIDE DEF k
<1>l. ASSUME NEW p \in Objects, NEW l \in Kinds, NEW j \in VarIds
      PROVE  /\ Owns(p, l, j)' <=> Owns(p, l, j) \/ (p = o /\ l = k /\ j = i)
             /\ Owns(p, l, j) => j # i
  <2>1. CASE j # i
    BY <1>e, <2>1 DEF Owns
  <2>2. CASE j = i
    <3>1. ~Owns(p, l, j)
      BY <1>e, <2>2 DEF Owns
    <3>2. Owns(p, l, j)' <=> <<o, k>> = <<p, l>>
      BY <1>f, <2>2 DEF Owns
    <3>3. <<o, k>> = <<p, l>> <=> p = o /\ l = k
      OBVIOUS
    <3> QED
      BY <2>2, <3>1, <3>2, <3>3
  <2> QED
    BY <2>1, <2>2
<1>1. Table'
  <2> SUFFICES ASSUME NEW p \in Objects, NEW l \in Kinds, NEW j \in VarIds, Owns(p, l, j)' PROVE Kept(p, l, j)'
    BY DEF Table, Kept
  <2>1. CASE p = o /\ l = k /\ j = i
    <3>1. CASE c = "PMCLOSE"
      <4>1. k = "params" /\ ~obj'[o].params /\ obj'[o].call = ""
        BY <1>h, <1>k, <3>1 DEF KindOf
      <4> QED
        BY <1>c, <1>f, <1>i, <1>j, <2>1, <3>1, <4>1 DEF Kept, Closes
    <3>2. CASE c # "PMCLOSE"
      <4>1. c # "STCLOSE" /\ obj'[o].id = i
        BY <1>c, <1>h, <3>2
      <4> QED
        BY <1>c, <1>f, <1>i, <1>j, <2>1, <3>2, <4>1 DEF Kept
    <3> QED
      BY <3>1, <3>2
  <2>2. CASE Owns(p, l, j)
    <3>1. Kept(p, l, j) /\ j # i /\ var_db'[j] = var_db[j] /\ ObjId(p)' = ObjId(p)
      BY <1>e, <1>j, <1>l, <2>2 DEF OK, OInv, Table
    <3>2. CASE p # o
      BY <1>g, <1>i, <2>2, <3>1, <3>2 DEF Kept
    <3>3. CASE p = o
      <4>1. obj[o].id # j
        BY <1>b, <1>a, <1>e, ConstantFacts
      <4>2. obj'[o].stat = obj[o].stat
        BY <1>g
      <4>3. ~(l = k)
        BY <1>c, <2>2, <3>3
      <4>4. var_db[j].opts = "STCLOSE" => l = "stat" /\ obj'[o].call # "STINIT"
        BY <1>h, <1>k, <2>2, <3>1, <3>3, <4>3 DEF Kept, KindOf
      <4>5. var_db[j].opts = "PMCLOSE" => ~obj'[o].params /\ obj'[o].call \notin {"PMINIT", "PMGET"}
        BY <1>d, <1>h, <1>k, <2>2, <3>1, <3>3, <4>3 DEF Kept, KindOf
      <4> QED
        BY <1>i, <2>2, <3>1, <3>3, <4>1, <4>2, <4>4, <4>5 DEF Kept
    <3> QED
      BY <3>2, <3>3
  <2> QED
    BY <1>l, <2>1, <2>2
<1>2. OneEach'
  <2> SUFFICES ASSUME NEW p \in Objects, NEW l \in Kinds, NEW j \in VarIds, NEW m \in VarIds,
                      Owns(p, l, j)', Owns(p, l, m)'
               PROVE  j = m
    BY DEF OneEach
  <2>1. OneEach
    BY DEF OK, OInv
  <2>2. Owns(p, l, j) \/ (p = o /\ l = k /\ j = i)
    BY <1>l
  <2>3. Owns(p, l, m) \/ (p = o /\ l = k /\ m = i)
    BY <1>l
  <2> QED
    BY <1>c, <2>1, <2>2, <2>3 DEF OneEach
<1>3. ASSUME NEW p \in Objects PROVE Called(p)'
  <2>1. CASE p = o
    <3>1. CASE c = "PMCLOSE"
      <4>1. obj'[o].call = ""
        BY <1>h, <3>1
      <4> QED
        BY <2>1, <4>1 DEF Called
    <3>2. CASE c # "PMCLOSE"
      <4>1. obj'[o].call = c /\ obj'[o].id = i /\ obj'[o].params = obj[o].params /\ obj'[o].on /\ obj'[o].stat = obj[o].stat
        BY <1>b, <1>g, <1>h, <3>2
      <4>2. var_db'[i].used /\ var_db'[i].of = <<o, KindOf(c)>>
        BY <1>f, <1>k
      <4>3. c \in Calls
        BY <1>c, <3>2, CallFacts DEF Requests
      <4>4. c # "STOK" /\ c # "PMINITOK"
        BY <4>3, CallFacts
      <4>5. app_db' = app_db /\ i \in VarIds /\ var_db'[i].opts = c
        BY <1>e, <1>f, <1>i
      <4> QED
        BY <1>d, <2>1, <4>1, <4>2, <4>3, <4>4, <4>5 DEF Called, Owns
    <3> QED
      BY <3>1, <3>2
  <2>2. CASE p # o
    <3>1. Called(p) /\ obj'[p] = obj[p]
      BY <1>g, <2>2 DEF OK, OInv
    <3>2. CASE obj[p].call = ""
      BY <3>1, <3>2 DEF Called
    <3>3. CASE obj[p].call # ""
      <4>1. obj[p].id \in VarIds /\ Owns(p, KindOf(obj[p].call), obj[p].id) /\ KindOf(obj[p].call) \in Kinds
        BY <3>3, CallOf
      <4>2. obj[p].id # i /\ var_db'[obj[p].id] = var_db[obj[p].id]
        BY <1>e, <1>l, <4>1
      <4> QED
        BY <1>i, <3>1, <4>2 DEF Called, Owns
    <3> QED
      BY <3>2, <3>3
  <2> QED
    BY <2>1, <2>2
<1>4. ASSUME NEW p \in Objects PROVE Open(p)'
  <2>1. Open(p)
    BY DEF OK, OInv
  <2>2. obj'[p].stat = obj[p].stat /\ obj'[p].on = obj[p].on /\ (obj'[p].params => obj[p].params)
    BY <1>d, <1>g, <1>h
  <2>3. ASSUME obj[p].stat # 0 PROVE var_db'[obj[p].stat] = var_db[obj[p].stat]
    <3>1. obj[p].stat \in VarIds /\ Owns(p, "stat", obj[p].stat) /\ "stat" \in Kinds
      BY <2>3, StatOf DEF Kinds
    <3> QED
      BY <1>e, <1>l, <3>1
  <2> QED
    BY <1>i, <2>1, <2>2, <2>3 DEF Open, Owns
<1>5. ASSUME NEW p \in Objects PROVE Recorded(p)'
  <2>1. Recorded(p) /\ "stat" \in Kinds /\ "params" \in Kinds
    BY DEF OK, OInv, Kinds
  <2>2. /\ ClosesParams(p)' = ClosesParams(p)
        /\ \A j \in VarIds : /\ ClosesStat(p, j)' = ClosesStat(p, j) /\ Leaving(j)' = Leaving(j)
                             /\ Owns(p, "stat", j) => Owns(p, "stat", j)'
                             /\ Owns(p, "params", j) => Owns(p, "params", j)' /\ var_db'[j] = var_db[j]
    <3>1. ClosesParams(p)' = ClosesParams(p)
      BY <1>i, <1>j DEF ClosesParams
    <3>2. ASSUME NEW j \in VarIds PROVE ClosesStat(p, j)' = ClosesStat(p, j) /\ Leaving(j)' = Leaving(j)
      BY <1>i, <1>j DEF ClosesStat, Leaving, Msg
    <3>3. ASSUME NEW j \in VarIds, NEW l \in Kinds, Owns(p, l, j) PROVE Owns(p, l, j)' /\ var_db'[j] = var_db[j]
      BY <1>e, <1>l, <3>3
    <3> QED
      BY <2>1, <3>1, <3>2, <3>3
  <2>3. Stays(p) => Stays(p)'
    <3>1. CASE p = o /\ obj[o].params /\ c = "PMCLOSE"
      <4>1. k = "params"
        BY <1>k, <3>1 DEF KindOf
      <4>2. Owns(p, "params", i)' /\ var_db'[i].opts = "PMCLOSE"
        BY <1>f, <3>1, <4>1 DEF Owns
      <4>3. ~Leaving(i)'
        <5>1. Seeing
          BY DEF OK, OInv
        <5>2. seen # "" => at # i
          BY <1>e, <5>1 DEF Seeing
        <5> QED
          BY <1>i, <5>2 DEF Leaving
      <4> QED
        BY <1>e, <4>2, <4>3 DEF Stays
    <3>2. CASE ~(p = o /\ obj[o].params /\ c = "PMCLOSE")
      <4>1. (obj[p].params => obj'[p].params) /\ (obj[p].call = "PMINIT" => obj'[p].call = "PMINIT")
        BY <1>b, <1>g, <1>h, <3>2
      <4> QED
        BY <2>2, <4>1 DEF Stays
    <3> QED
      BY <3>1, <3>2
  <2> QED
    BY <1>i, <1>j, <2>1, <2>2, <2>3 DEF Recorded
<1>6. ASSUME NEW m, m.id \in VarIds, m.of \in Objects, NEW d, d # "", Carried(m, d)
      PROVE  Carried(m, d)' /\ m.of # o
  <2>1. m.of # o
    BY <1>6, <1>b DEF Carried
  <2>2. m.id # i
    BY <1>6, <1>e DEF Carried
  <2> QED
    BY <1>6, <1>e, <1>g, <1>j, <2>1, <2>2 DEF Carried
<1>7. Mail'
  <2>1. ASSUME NEW m \in Range(statsman_q) PROVE Request(m)'
    <3>1. Request(m) /\ m.of \in Objects
      BY <1>a, MailFacts DEF OK, OInv, Mail
    <3>2. m.cmd \in Calls => Carried(m, m.cmd)'
      <4> SUFFICES ASSUME m.cmd \in Calls PROVE Carried(m, m.cmd)'
        OBVIOUS
      <4>1. Carried(m, m.cmd) /\ m.cmd # ""
        BY <3>1, CallFacts DEF Request
      <4>2. m.id \in VarIds
        BY <4>1 DEF Carried
      <4> QED
        BY <1>6, <3>1, <4>1, <4>2
    <3>3. CASE m.of # o
      <4>1. \A j \in VarIds : Owns(m.of, "stat", j)' <=> Owns(m.of, "stat", j)
        BY <1>l, <3>1, <3>3 DEF Kinds
      <4>2. \A j \in VarIds : Owns(m.of, "stat", j) => var_db'[j] = var_db[j]
        BY <1>e, <1>l, <3>1 DEF Kinds
      <4> QED
        BY <1>g, <1>i, <1>j, <3>1, <3>2, <3>3, <4>1, <4>2 DEF Request
    <3>4. CASE m.of = o
      <4>1. c \notin {"STINIT", "PMINIT"}
        BY <1>d, <3>4
      <4>2. k # "stat"
        BY <1>k, <4>1 DEF KindOf
      <4>3. \A j \in VarIds : Owns(m.of, "stat", j)' <=> Owns(m.of, "stat", j)
        BY <1>l, <3>1, <4>2 DEF Kinds
      <4>4. \A j \in VarIds : Owns(m.of, "stat", j) => var_db'[j] = var_db[j]
        BY <1>e, <1>l, <3>1 DEF Kinds
      <4>5. m.cmd = "PMCLOSE" => ~obj'[o].params /\ obj'[o].call \notin {"PMINIT", "PMGET"}
        BY <1>d, <1>h, <3>1, <3>4, <4>1 DEF Request
      <4>6. obj'[o].stat = obj[o].stat /\ obj'[o].call # "STINIT"
        BY <1>g, <1>h, <4>1
      <4> QED
        BY <1>i, <1>j, <3>1, <3>2, <3>4, <4>3, <4>4, <4>5, <4>6 DEF Request
    <3> QED
      BY <3>3, <3>4
  <2>2. ASSUME NEW m \in Range(stats_q) PROVE Answer(m)'
    <3>1. Answer(m) /\ m.of \in Objects
      BY <1>a, MailFacts DEF OK, OInv, Mail
    <3>2. m.cmd \in Answers => \E d \in Calls : m.cmd = Good[d] /\ Carried(m, d)'
      <4> SUFFICES ASSUME m.cmd \in Answers PROVE \E d \in Calls : m.cmd = Good[d] /\ Carried(m, d)'
        OBVIOUS
      <4>1. PICK d \in Calls : m.cmd = Good[d] /\ Carried(m, d)
        BY <3>1 DEF Answer
      <4>2. Carried(m, d)'
        BY <1>6, <3>1, <4>1, CallFacts DEF Carried
      <4> QED
        BY <4>1, <4>2
    <3> QED
      BY <1>i, <3>1, <3>2 DEF Answer
  <2> QED
    BY <1>i, <2>1, <2>2 DEF Mail
<1>8. Alone(stats_q, statsman_q)' /\ Seeing' /\ Reporting'
  <2>0. Alone(stats_q, statsman_q) /\ Seeing /\ Reporting
    BY DEF OK, OInv
  <2>1. Alone(stats_q, statsman_q)'
    BY <1>i, <2>0 DEF Alone, IsCall
  <2>2. Seeing'
    <3>1. seen # "" => at \in VarIds
      <4>1. at \in 0..MaxVars /\ (at = 0 => seen = "")
        BY <1>a, TypeFacts
      <4> QED
        BY <1>a, <4>1, ConstantFacts
    <3>2. seen # "" => at # i
      BY <1>e, <2>0 DEF Seeing
    <3> QED
      BY <1>e, <1>i, <2>0, <3>1, <3>2 DEF Seeing
  <2>3. Reporting'
    BY <1>i, <2>0 DEF Reporting, Used
  <2> QED
    BY <2>1, <2>2, <2>3
<1> QED
  BY <1>i, <1>1, <1>2, <1>3, <1>4, <1>5, <1>7, <1>8 DEF OInv

\* Steps that change neither the variables nor the objects
LEMMA SameVars ==
  ASSUME OK, UNCHANGED <<var_db, obj, env>>
  PROVE  /\ Table' /\ OneEach'
         /\ \A o \in Objects : ObjId(o)' = ObjId(o)
         /\ \A o, k, i : Owns(o, k, i)' <=> Owns(o, k, i)
         /\ \A m, c : Carried(m, c)' <=> Carried(m, c)
         /\ app_db' = app_db => \A o \in Objects : Called(o)' /\ Open(o)'
<1>0. Table /\ OneEach /\ \A o \in Objects : Called(o) /\ Open(o)
  BY DEF OK, OInv
<1>1. \A o : ObjId(o)' = ObjId(o)
  BY DEF ObjId
<1>2. \A o, k, i : Owns(o, k, i)' <=> Owns(o, k, i)
  BY DEF Owns
<1>3. Table'
  <2> SUFFICES ASSUME NEW o \in Objects, NEW k \in Kinds, NEW i \in VarIds PROVE Kept(o, k, i)'
    BY DEF Table
  <2>1. Kept(o, k, i)
    BY <1>0 DEF Table
  <2> QED
    BY <1>1, <1>2, <2>1 DEF Kept
<1>4. OneEach'
  BY <1>0, <1>2 DEF OneEach
<1>5. \A m, c : Carried(m, c)' <=> Carried(m, c)
  BY <1>1 DEF Carried
<1>6. ASSUME app_db' = app_db, NEW o \in Objects PROVE Called(o)' /\ Open(o)'
  <2>1. Called(o) /\ Open(o)
    BY <1>0
  <2>2. Called(o)'
    BY <1>6, <2>1 DEF Called, Owns
  <2>3. Open(o)'
    BY <1>6, <2>1 DEF Open, Owns
  <2> QED
    BY <2>2, <2>3
<1> QED
  BY <1>1, <1>2, <1>3, <1>4, <1>5, <1>6

\* packets mean the same when variables, objects and records stay
LEMMA SameMail ==
  ASSUME OK, UNCHANGED <<var_db, obj, env, app_db>>
  PROVE  /\ \A m : Request(m)' <=> Request(m)
         /\ \A m : Answer(m)' <=> Answer(m)
<1>1. \A m, c : Carried(m, c)' <=> Carried(m, c)
  BY SameVars
<1>2. \A o : ObjId(o)' = ObjId(o)
  BY DEF ObjId
<1>3. \A o, k, i : Owns(o, k, i)' <=> Owns(o, k, i)
  BY DEF Owns
<1>4. ASSUME NEW m PROVE Request(m)' <=> Request(m)
  <2>1. \A c : Carried(m, c)' <=> Carried(m, c)
    BY <1>1
  <2>2. \A i : Owns(m.of, "stat", i)' <=> Owns(m.of, "stat", i)
    BY <1>3
  <2> QED
    BY <1>2, <2>1, <2>2 DEF Request
<1>5. ASSUME NEW m PROVE Answer(m)' <=> Answer(m)
  <2>1. \A c : Carried(m, c)' <=> Carried(m, c)
    BY <1>1
  <2> QED
    BY <2>1 DEF Answer
<1> QED
  BY <1>4, <1>5

\* what is on record stays right as long as requests are only added, and the variable that is now to
\* be deleted has a request about it
LEMMA SameRecords ==
  ASSUME OK, UNCHANGED <<var_db, obj, app_db>>,
         Range(statsman_q) \subseteq Range(statsman_q)',
         \A o \in Objects, i \in VarIds : Leaving(i)' /\ ~Leaving(i) =>
           /\ Owns(o, "stat", i) => ClosesStat(o, i)'
           /\ Owns(o, "params", i) => ClosesParams(o)'
  PROVE  \A o \in Objects : Recorded(o)'
<1> SUFFICES ASSUME NEW o \in Objects PROVE Recorded(o)'
  OBVIOUS
<1>0. Recorded(o)
  BY DEF OK, OInv
<1>1. \A p : ObjId(p)' = ObjId(p)
  BY DEF ObjId
<1>2. \A k, i : Owns(o, k, i)' <=> Owns(o, k, i)
  BY DEF Owns
<1>3. ClosesParams(o) => ClosesParams(o)'
  BY <1>1 DEF ClosesParams
<1>4. \A i \in VarIds : ClosesStat(o, i) => ClosesStat(o, i)'
  BY <1>1 DEF ClosesStat, Msg
<1>5. \A i \in VarIds : Leaving(i)' => Leaving(i) \/ ((Owns(o, "stat", i) => ClosesStat(o, i)') /\ (Owns(o, "params", i) => ClosesParams(o)'))
  OBVIOUS
<1>6. Stays(o) => Stays(o)'
  BY <1>2, <1>3, <1>5 DEF Stays
<1>7. ASSUME app_db[o].stats # <<>>
      PROVE  \E i \in VarIds : app_db'[o].stats = <<i>> /\ ((Owns(o, "stat", i)' /\ ~Leaving(i)') \/ ClosesStat(o, i)')
  <2>1. PICK i \in VarIds : app_db[o].stats = <<i>> /\ ((Owns(o, "stat", i) /\ ~Leaving(i)) \/ ClosesStat(o, i))
    BY <1>0, <1>7 DEF Recorded
  <2>2. app_db'[o].stats = <<i>> /\ ((Owns(o, "stat", i)' /\ ~Leaving(i)') \/ ClosesStat(o, i)')
    BY <1>2, <1>4, <1>5, <2>1
  <2> QED
    BY <2>2
<1> QED
  BY <1>0, <1>1, <1>6, <1>7 DEF Recorded

\* A request is sent, and not dropped
LEMMA SentMail ==
  ASSUME OK, ~lost', NEW m \in ToStatsman, Send(m), stats_q' = stats_q,
         \A p \in Range(stats_q) \cup Range(statsman_q) : IsCall(m) /\ IsCall(p) => m.id # p.id
  PROVE  /\ Alone(stats_q, statsman_q)'
         /\ Range(statsman_q)' = Range(statsman_q) \cup {m}
<1>0. TInv /\ Alone(stats_q, statsman_q)
  BY DEF OK, OInv
<1>1. stats_q \in Seq(ToStats) /\ statsman_q \in Seq(ToStatsman)
  BY <1>0, TypeFacts
<1>2. statsman_q' = Append(statsman_q, m)
  BY DEF Send
<1>3. Range(Append(statsman_q, m)) = Range(statsman_q) \cup {m}
  BY <1>1, RangeAppend
<1>4. statsman_q \in Seq(ToStats \cup ToStatsman) /\ stats_q \in Seq(ToStats \cup ToStatsman)
  BY <1>1
<1>5. Alone(statsman_q, stats_q)
  BY <1>0, AloneBoth
<1>6. Alone(Append(statsman_q, m), stats_q)
  <2>1. m \in ToStats \cup ToStatsman
    OBVIOUS
  <2>2. \A p \in Range(statsman_q) \cup Range(stats_q) : IsCall(m) /\ IsCall(p) => m.id # p.id
    OBVIOUS
  <2> HIDE DEF ToStats, ToStatsman
  <2> QED
    BY <1>4, <1>5, <2>1, <2>2, AloneAppend
<1>7. Alone(stats_q, Append(statsman_q, m))
  BY <1>6, AloneBoth
<1>8. Alone(stats_q, statsman_q)'
  BY <1>2, <1>7 DEF Alone, IsCall
<1> QED
  BY <1>2, <1>3, <1>8

\* Reports are removed
LEMMA RemovedReports ==
  ASSUME OK, \/ UNCHANGED <<reports, max_report_idx>>
             \/ \E k \in Slots : RemoveReport(k)
  PROVE  Reporting'
<1>0. TInv /\ Reporting
  BY DEF OK, OInv
<1>1. CASE UNCHANGED <<reports, max_report_idx>>
  BY <1>0, <1>1 DEF Reporting, Used
<1>2. ASSUME NEW k \in Slots, RemoveReport(k) PROVE Reporting'
  <2>1. /\ reports'[k] = NoReport /\ \A j \in Slots \ {k} : reports'[j] = reports[j]
        /\ max_report_idx' \in 0..MaxReports + 1 /\ k + 2 <= max_report_idx'
    BY <1>0, <1>2, RemoveReportValue
  <2>2. MaxReports \in Nat
    BY StatsAssumption
  <2>3. ASSUME MaxReports <= 2, NEW i \in Slots PROVE i < max_report_idx'
    BY <2>1, <2>2, <2>3 DEF Slots
  <2> SUFFICES ASSUME NEW i \in Slots, Used(i)'
               PROVE  reports'[i].obj # NoObj /\ (MaxReports <= 2 => i < max_report_idx')
    BY DEF Reporting
  <2>4. i # k /\ reports'[i] = reports[i]
    BY <2>1 DEF Used
  <2> QED
    BY <1>0, <2>3, <2>4 DEF Reporting, Used
<1> QED
  BY <1>1, <1>2

\* User keeps the invariant
LEMMA UserKeeps ==
  ASSUME OK, ~lost', User
  PROVE  OInv'
<1>0. /\ UNCHANGED <<var_db, objects, stats, stats_q, app_db, env>> /\ TInv
  BY DEF User, OK
<1>1. PICK o \in Objects, c \in {"STREPORT", "STSTOP", "STSET"} : Send(Msg(c, o, NoObj, 0))
  BY DEF User
<1>2. c \in Requests \cup {"STREPORT", "STSTOP", "STSET"} /\ 0 \in 0..MaxVars
  <2>1. MaxVars \in Nat
    BY <1>0, ConstantFacts
  <2>2. 0 \in 0..MaxVars
    BY <2>1
  <2> QED
    BY <1>1, <2>2
<1>3. Msg(c, o, NoObj, 0) \in ToStatsman /\ Msg(c, o, NoObj, 0).cmd = c
  <2> DEFINE S == Requests \cup {"STREPORT", "STSTOP", "STSET"}
             T == ObjIds \cup {NoObj}
  <2>1. c \in S /\ NoObj \in T /\ 0 \in 0..MaxVars /\ o \in Objects
    BY <1>1, <1>2
  <2>2. ToStatsman = [cmd : S, of : Objects, obj : T, id : 0..MaxVars]
    BY DEF ToStatsman, Msgs
  <2> HIDE DEF S, T
  <2>3. Msg(c, o, NoObj, 0) = [cmd |-> c, of |-> o, obj |-> NoObj, id |-> 0]
    BY DEF Msg
  <2> QED
    BY <2>1, <2>2, <2>3
<1>4. PICK m \in ToStatsman : m = Msg(c, o, NoObj, 0)
  BY <1>3
<1>5. Send(m) /\ m.cmd \in {"STREPORT", "STSTOP", "STSET"}
  BY <1>1, <1>3, <1>4
<1>6. m.cmd \notin Calls /\ ~IsCall(m)
  BY <1>5, CallFacts DEF IsCall
<1>7. Alone(stats_q, statsman_q)' /\ Range(statsman_q)' = Range(statsman_q) \cup {m}
  BY <1>0, <1>5, <1>6, SentMail
<1>8. /\ Table' /\ OneEach' /\ \A p \in Objects : Called(p)' /\ Open(p)'
  BY <1>0, SameVars DEF objects
<1>9. Request(m)
  BY <1>5, <1>6 DEF Request, Closes
<1>10. Mail'
  <2>1. Mail /\ \A p : (Request(p)' <=> Request(p)) /\ (Answer(p)' <=> Answer(p))
    BY <1>0, SameMail DEF objects, OK, OInv
  <2> QED
    BY <1>0, <1>7, <1>9, <2>1 DEF Mail
<1>11. \A p \in Objects : Recorded(p)'
  BY <1>0, <1>7, SameRecords DEF objects, Leaving, stats
<1>12. Seeing' /\ Reporting' /\ sem_var' = {}
  <2>1. Seeing /\ Reporting /\ sem_var = {}
    BY DEF OK, OInv
  <2> QED
    BY <1>0, <2>1 DEF Seeing, Reporting, Used, objects, stats
<1> QED
  BY <1>7, <1>8, <1>10, <1>11, <1>12 DEF OInv

\* Look keeps the invariant: what was seen is what is in the entry
LEMMA LookKeeps ==
  ASSUME OK, Look
  PROVE  OInv'
<1>0. /\ UNCHANGED <<var_db, objects, reports, max_report_idx, stats_q, statsman_q, lost, app_db, cmds, env>>
      /\ TInv /\ at > 0 /\ seen = ""
  BY DEF Look, OK
<1>1. /\ Table' /\ OneEach' /\ \A p \in Objects : Called(p)' /\ Open(p)'
  BY <1>0, SameVars DEF objects
<1>2. Mail'
  <2>1. Mail /\ \A p : (Request(p)' <=> Request(p)) /\ (Answer(p)' <=> Answer(p))
    BY <1>0, SameMail DEF objects, OK, OInv
  <2> QED
    BY <1>0, <2>1 DEF Mail
<1>3. seen' # "delete"
  BY <1>0 DEF Look, Pending, Requests
<1>4. \A p \in Objects : Recorded(p)'
  BY <1>0, <1>3, SameRecords DEF objects, Leaving
<1>5. Seeing'
  <2>1. CASE Pending(at)
    <3>1. seen' = var_db[at].opts /\ at' = at
      BY <2>1 DEF Look
    <3> QED
      BY <1>0, <1>3, <2>1, <3>1 DEF Seeing, Pending
  <2>2. CASE ~Pending(at)
    <3>1. seen' = ""
      BY <1>0, <2>2 DEF Look
    <3> QED
      BY <3>1 DEF Seeing
  <2> QED
    BY <2>1, <2>2
<1>6. Alone(stats_q, statsman_q)' /\ Reporting' /\ sem_var' = {}
  <2>1. Alone(stats_q, statsman_q) /\ Reporting /\ sem_var = {}
    BY DEF OK, OInv
  <2>2. Alone(stats_q, statsman_q)'
    BY <1>0, <2>1 DEF Alone, IsCall
  <2> QED
    BY <1>0, <2>1, <2>2 DEF Reporting, Used, objects
<1> QED
  BY <1>1, <1>2, <1>4, <1>5, <1>6 DEF OInv

\* do_reports keeps the invariant
LEMMA ReportsKeep ==
  ASSUME OK, ~lost', do_reports
  PROVE  OInv'
<1> DEFINE gone == {i \in Slots : i < max_report_idx /\ Used(i) /\ ~Alive(reports[i].obj)}
<1>0. /\ TInv /\ at = 0 /\ at' = 1 /\ seen = ""
      /\ UNCHANGED <<var_db, objects, seen, stats_q, app_db, cmds, env>>
  BY TypeFacts DEF do_reports, OK
<1>1. /\ Table' /\ OneEach' /\ \A p \in Objects : Called(p)' /\ Open(p)'
  BY <1>0, SameVars DEF objects
<1>2. Mail /\ \A p : (Request(p)' <=> Request(p)) /\ (Answer(p)' <=> Answer(p))
  BY <1>0, SameMail DEF objects, OK, OInv
<1>3. Seeing' /\ sem_var' = {}
  <2>1. sem_var = {}
    BY DEF OK, OInv
  <2> QED
    BY <1>0, <2>1 DEF Seeing, objects
<1>4. /\ Range(statsman_q) \subseteq Range(statsman_q)' /\ Alone(stats_q, statsman_q)' /\ Reporting' /\ Mail'
  <2>1. CASE gone = {}
    <3>1. UNCHANGED <<reports, max_report_idx, statsman_q, lost>>
      BY <2>1 DEF do_reports
    <3>2. Alone(stats_q, statsman_q)
      BY DEF OK, OInv
    <3>3. Alone(stats_q, statsman_q)'
      BY <1>0, <3>1, <3>2 DEF Alone, IsCall
    <3>4. Reporting'
      BY <3>1, RemovedReports
    <3>5. Mail'
      BY <1>0, <1>2, <3>1 DEF Mail
    <3> QED
      BY <3>1, <3>3, <3>4, <3>5
  <2>2. CASE gone # {}
    <3>1. PICK k \in Slots : k = First(gone)
      BY <2>2, FirstSlot
    <3>2. First(gone) \in gone
      BY <2>2, FirstSlot
    <3>3. Send(Msg("STCLOSE", Owner(reports[k].obj), reports[k].obj, reports[k].id)) /\ RemoveReport(k)
      BY <2>2, <3>1 DEF do_reports
    <3>4. Used(k) /\ ~Alive(reports[k].obj)
      BY <3>1, <3>2
    <3> HIDE DEF gone
    <3>5. reports[k] \in ReportRecs
      BY <1>0, TypeFacts
    <3>6. PICK b \in ObjIds \cup {NoObj}, d \in 0..MaxVars : b = reports[k].obj /\ d = reports[k].id
      BY <3>5 DEF ReportRecs
    <3>7. PICK o \in Objects : o = Owner(b) /\ (b # NoObj => b[1] = o)
      BY <1>0, <3>6, OwnerOf
    <3>8. "STCLOSE" \in Requests \cup {"STREPORT", "STSTOP", "STSET"}
      BY DEF Requests
    <3>18. Msg("STCLOSE", o, b, d) \in ToStatsman
      BY <3>8, MsgType DEF ToStatsman
    <3>19. PICK m \in ToStatsman : m = Msg("STCLOSE", o, b, d)
      BY <3>18
    <3>9. m = Msg("STCLOSE", o, b, d) /\ m.cmd = "STCLOSE" /\ m.of = o /\ m.obj = b
      BY <3>19 DEF Msg
    <3>10. Send(m)
      BY <3>3, <3>6, <3>7, <3>9
    <3>11. "STCLOSE" \notin Calls /\ "STCLOSE" \notin Answers
      BY CallFacts
    <3>12. Alone(stats_q, statsman_q)' /\ Range(statsman_q)' = Range(statsman_q) \cup {m}
      BY <1>0, <3>9, <3>10, <3>11, SentMail DEF IsCall
    <3>13. b # NoObj
      BY <3>4, <3>6 DEF OK, OInv, Reporting
    <3>14. b = ObjId(o) => ~obj[o].on
      BY <3>4, <3>6, <3>7, <3>13 DEF Alive
    <3>15. Request(m)
      <4>1. ASSUME b = ObjId(o)
            PROVE  /\ obj[o].stat = 0 /\ obj[o].call # "STINIT"
                   /\ \A i \in VarIds : Owns(o, "stat", i) => var_db[i].opts = "STCLOSE"
        <5>1. /\ obj[o].stat = 0 /\ obj[o].call = ""
              /\ \A l \in Kinds, i \in VarIds : Owns(o, l, i) => var_db[i].opts \in Closes
          BY <3>14, <4>1, GoneFacts
        <5>2. PICK l \in Kinds : l = "stat"
          BY DEF Kinds
        <5>3. ASSUME NEW i \in VarIds, Owns(o, "stat", i) PROVE var_db[i].opts = "STCLOSE"
          <6>1. Owns(o, l, i)
            BY <5>2, <5>3
          <6>3. var_db[i].opts \in Closes
            BY <5>1, <6>1
          <6>2. var_db[i].opts \in Closes /\ (var_db[i].opts = "PMCLOSE" => l = "params")
            BY <6>1, <6>3, OwnedBy
          <6> QED
            BY <5>2, <6>2 DEF Closes
        <5> QED
          BY <5>1, <5>3
      <4> QED
        BY <3>9, <3>11, <3>13, <4>1 DEF Request
    <3>16. Mail'
      BY <1>0, <1>2, <3>12, <3>15 DEF Mail
    <3>17. Reporting'
      BY <3>3, RemovedReports
    <3> QED
      BY <3>12, <3>16, <3>17
  <2> QED
    BY <2>1, <2>2
<1>5. \A p \in Objects : Recorded(p)'
  BY <1>0, <1>4, SameRecords DEF objects, Leaving
<1> QED
  BY <1>1, <1>3, <1>4, <1>5 DEF OInv

\* The entry STATS looks at
LEMMA SeenFacts ==
  ASSUME OK, seen # ""
  PROVE  /\ at \in VarIds /\ at # 0 /\ var_db[at].used
         /\ var_db[at].opts \in IF seen = "delete" THEN Closes ELSE {seen}
         /\ \E o \in Objects, k \in Kinds : /\ Owns(o, k, at) /\ var_db[at].of[1] = o /\ var_db[at].of[2] = k
                                            /\ var_db[at].obj = ObjId(o)
<1>0. TInv /\ Seeing
  BY DEF OK, OInv
<1>1. at \in 0..MaxVars /\ at # 0
  BY <1>0, TypeFacts
<1>2. at \in VarIds
  BY <1>0, <1>1, ConstantFacts
<1>3. var_db[at].used /\ var_db[at].opts \in IF seen = "delete" THEN Closes ELSE {seen}
  BY <1>0 DEF Seeing
<1>4. PICK o \in Objects, k \in Kinds : o = var_db[at].of[1] /\ k = var_db[at].of[2]
  BY <1>0, <1>2, OfFacts
<1>5. Owns(o, k, at)
  BY <1>0, <1>2, <1>3, <1>4, OfFacts
<1>6. var_db[at].obj = ObjId(o)
  BY <1>2, <1>5, OwnedBy
<1> QED
  BY <1>1, <1>2, <1>3, <1>4, <1>5, <1>6

\* a packet about a call is about the variable of that call, whose mark has been taken
LEMMA CallMail ==
  ASSUME OK, NEW m \in Range(stats_q) \cup Range(statsman_q), IsCall(m)
  PROVE  /\ m.of \in Objects /\ m.id \in VarIds /\ var_db[m.id].used /\ var_db[m.id].opts = ""
         /\ obj[m.of].call \in Calls /\ obj[m.of].id = m.id /\ m.obj = ObjId(m.of)
         /\ (m \in Range(stats_q) => m.cmd = Good[obj[m.of].call])
<1>0. TInv /\ Mail
  BY DEF OK, OInv
<1>1. m.of \in Objects
  BY <1>0, MailFacts
<1>2. CASE m \in Range(stats_q)
  <2>1. Answer(m) /\ m \in ToStats
    <3>1. stats_q \in Seq(ToStats)
      BY <1>0, TypeFacts
    <3> QED
      BY <1>0, <1>2, <3>1 DEF Mail, Range
  <2>2. m.cmd \in Answers
    <3>1. m.cmd \in Answers \cup {"STREPORT", "STSTOP", "STSET"}
      BY <2>1 DEF ToStats, Msgs
    <3> QED
      BY <3>1, CallFacts DEF IsCall
  <2>3. PICK c \in Calls : m.cmd = Good[c] /\ Carried(m, c)
    BY <2>1, <2>2 DEF Answer
  <2> QED
    BY <1>1, <2>3 DEF Carried
<1>3. CASE m \in Range(statsman_q) /\ m \notin Range(stats_q)
  <2>1. Request(m) /\ m \in ToStatsman
    <3>1. statsman_q \in Seq(ToStatsman)
      BY <1>0, TypeFacts
    <3> QED
      BY <1>0, <1>3, <3>1 DEF Mail, Range
  <2>2. m.cmd \in Calls
    <3>1. m.cmd \in Requests \cup {"STREPORT", "STSTOP", "STSET"}
      BY <2>1 DEF ToStatsman, Msgs
    <3> QED
      BY <3>1, CallFacts DEF IsCall, Requests
  <2>3. Carried(m, m.cmd)
    BY <2>1, <2>2 DEF Request
  <2> QED
    BY <1>1, <1>3, <2>2, <2>3 DEF Carried
<1> QED
  BY <1>2, <1>3

\* a record that stays, with what it stands on
LEMMA RecordKept ==
  ASSUME OK, NEW o \in Objects, ObjId(o)' = ObjId(o), app_db'[o] = app_db[o],
         \A i \in VarIds : (Owns(o, "stat", i) /\ ~Leaving(i)) \/ ClosesStat(o, i)
                             => (Owns(o, "stat", i)' /\ ~Leaving(i)') \/ ClosesStat(o, i)',
         Stays(o) => Stays(o)'
  PROVE  Recorded(o)'
<1>0. Recorded(o)
  BY DEF OK, OInv
<1>1. ASSUME app_db[o].stats # <<>>
      PROVE  \E i \in VarIds : app_db'[o].stats = <<i>> /\ ((Owns(o, "stat", i)' /\ ~Leaving(i)') \/ ClosesStat(o, i)')
  <2>1. PICK i \in VarIds : app_db[o].stats = <<i>> /\ ((Owns(o, "stat", i) /\ ~Leaving(i)) \/ ClosesStat(o, i))
    BY <1>0, <1>1 DEF Recorded
  <2>2. app_db'[o].stats = <<i>> /\ ((Owns(o, "stat", i)' /\ ~Leaving(i)') \/ ClosesStat(o, i)')
    BY <2>1
  <2> QED
    BY <2>2
<1> QED
  BY <1>0, <1>1 DEF Recorded

\* Close keeps the invariant: the request to close is sent before the variable goes
LEMMA CloseKeeps ==
  ASSUME OK, ~lost', Close
  PROVE  OInv'
<1>0. /\ TInv /\ seen \in Closes /\ seen' = "delete" /\ at' = at /\ UNCHANGED <<var_db, objects, stats_q, app_db, cmds, env>>
      /\ Send(Msg(seen, var_db[at].of[1], var_db[at].obj, at))
  BY DEF Close, Closes, OK
<1>a. seen # "" /\ seen # "delete"
  BY <1>0 DEF Closes
<1>b. PICK i \in VarIds, s \in Closes : i = at /\ s = seen
  BY <1>0, <1>a, SeenFacts
<1>1. PICK o \in Objects, k \in Kinds : /\ Owns(o, k, i) /\ var_db[i].of[1] = o
                                        /\ var_db[i].obj = ObjId(o)
  BY <1>a, <1>b, SeenFacts
<1>2. var_db[i].opts = s /\ var_db[i].used
  BY <1>a, <1>b, SeenFacts
<1>3. /\ (s = "STCLOSE" => k = "stat" /\ obj[o].stat = 0 /\ obj[o].call # "STINIT")
      /\ (s = "PMCLOSE" => k = "params" /\ ~obj[o].params /\ obj[o].call \notin {"PMINIT", "PMGET"})
  BY <1>1, <1>2, OwnedBy
<1>4. s \in Requests \cup {"STREPORT", "STSTOP", "STSET"} /\ i \in 0..MaxVars
  BY <1>0, ConstantFacts DEF Closes, Requests
<1>5. PICK b \in ObjIds \cup {NoObj} : b = ObjId(o)
  <2>1. var_db[i] \in VarRecs
    BY <1>0, TypeFacts
  <2> QED
    BY <1>1, <2>1 DEF VarRecs
<1>6. Msg(s, o, b, i) \in ToStatsman
  BY <1>4, MsgType DEF ToStatsman
<1>7. PICK m \in ToStatsman : m = Msg(s, o, b, i)
  BY <1>6
<1>8. m.cmd = s /\ m.of = o /\ m.obj = b /\ m.id = i
  BY <1>7 DEF Msg
<1>9. Send(m)
  BY <1>0, <1>b, <1>1, <1>5, <1>7
<1>10. s \notin Calls /\ s \notin Answers
  BY CallFacts DEF Closes
<1>11. Alone(stats_q, statsman_q)' /\ Range(statsman_q)' = Range(statsman_q) \cup {m}
  BY <1>0, <1>8, <1>9, <1>10, SentMail DEF IsCall
<1>12. b # NoObj
  BY <1>5 DEF ObjId, NoObj
<1>13. Request(m)
  <2>1. ASSUME s = "STCLOSE", NEW j \in VarIds, Owns(o, "stat", j) PROVE var_db[j].opts = "STCLOSE"
    <3>1. j = i
      BY <1>1, <1>3, <2>1 DEF OK, OInv, OneEach
    <3> QED
      BY <1>2, <2>1, <3>1
  <2>2. s \in {"STCLOSE", "PMCLOSE"} /\ m.cmd \notin Calls /\ m.obj # NoObj
    BY <1>8, <1>10, <1>12 DEF Closes
  <2>3. m.cmd = "STCLOSE" => /\ obj[m.of].stat = 0 /\ obj[m.of].call # "STINIT"
                             /\ \A j \in VarIds : Owns(m.of, "stat", j) => var_db[j].opts = "STCLOSE"
    BY <1>3, <1>8, <2>1
  <2>4. m.cmd = "PMCLOSE" =>
          m.obj = ObjId(m.of) /\ ~obj[m.of].params /\ obj[m.of].call \notin {"PMINIT", "PMGET"}
    BY <1>3, <1>5, <1>8
  <2>5. m.cmd # "STINIT"
    BY <1>8, <2>2
  <2> QED
    BY <2>2, <2>3, <2>4, <2>5 DEF Request
<1>14. /\ Table' /\ OneEach' /\ \A p \in Objects : Called(p)' /\ Open(p)'
  BY <1>0, SameVars DEF objects
<1>15. Mail'
  <2>1. Mail /\ \A p : (Request(p)' <=> Request(p)) /\ (Answer(p)' <=> Answer(p))
    BY <1>0, SameMail DEF objects, OK, OInv
  <2> QED
    BY <1>0, <1>11, <1>13, <2>1 DEF Mail
<1>16. \A p \in Objects : Recorded(p)'
  <2>1. \A p : ObjId(p)' = ObjId(p)
    BY <1>0 DEF ObjId, objects
  <2>2. ASSUME NEW p \in Objects, NEW j \in VarIds, Leaving(j)'
        PROVE  /\ Owns(p, "stat", j) => ClosesStat(p, j)'
               /\ Owns(p, "params", j) => ClosesParams(p)'
    <3>1. j = i
      BY <1>0, <1>b, <2>2 DEF Leaving
    <3>2. ASSUME Owns(p, "stat", j) PROVE ClosesStat(p, j)'
      <4>1. p = o /\ k = "stat"
        BY <1>1, <3>1, <3>2 DEF Owns
      <4>2. s = "STCLOSE"
        BY <1>3, <4>1 DEF Closes
      <4> QED
        BY <1>5, <1>7, <1>11, <2>1, <3>1, <4>1, <4>2 DEF ClosesStat, Msg
    <3>3. ASSUME Owns(p, "params", j) PROVE ClosesParams(p)'
      <4>1. p = o /\ k = "params"
        BY <1>1, <3>1, <3>3 DEF Owns
      <4>2. s = "PMCLOSE"
        BY <1>3, <4>1 DEF Closes
      <4> QED
        BY <1>5, <1>8, <1>11, <2>1, <3>1, <4>1, <4>2 DEF ClosesParams
    <3> QED
      BY <3>2, <3>3
  <2> QED
    BY <1>0, <1>11, <2>2, SameRecords DEF objects
<1>17. Reporting'
  <2>1. CASE seen = "STCLOSE"
    <3>1. report_rmid(at)
      BY <2>1 DEF Close
    <3> QED
      BY <1>0, <3>1, RmidTypes, RemovedReports
  <2>2. CASE seen # "STCLOSE"
    <3>1. UNCHANGED <<reports, max_report_idx>>
      BY <2>2 DEF Close
    <3> QED
      BY <3>1, RemovedReports
  <2> QED
    BY <2>1, <2>2
<1>18. Seeing' /\ sem_var' = {}
  <2>1. sem_var = {}
    BY DEF OK, OInv
  <2> QED
    BY <1>0, <1>b, <1>2, <2>1 DEF Seeing, objects
<1> QED
  BY <1>11, <1>14, <1>15, <1>16, <1>17, <1>18 DEF OInv

\* The mark of the variable of a call changes: it is taken by STATS, or answered
Marks(o, i, x) ==
  /\ obj[o].call # "" /\ obj[o].id = i /\ x \in {"", Good[obj[o].call]}
  /\ \A j \in VarIds :
       /\ var_db'[j].used = var_db[j].used /\ var_db'[j].of = var_db[j].of /\ var_db'[j].obj = var_db[j].obj
       /\ var_db'[j].opts = IF j = i THEN x ELSE var_db[j].opts
  /\ x = "STOK" => app_db[o].stats = <<i>>
  /\ x = "PMINITOK" => app_db[o].params

\* marking a variable keeps what is said of the table, the calls and the packets of other calls
LEMMA MarkKeeps ==
  ASSUME OK, NEW o \in Objects, NEW i \in VarIds, NEW x, Marks(o, i, x), UNCHANGED <<obj, app_db, env>>
  PROVE  /\ Table' /\ OneEach'
         /\ \A p \in Objects : Called(p)' /\ Open(p)' /\ ObjId(p)' = ObjId(p)
         /\ \A p \in Objects, k \in Kinds, j \in VarIds : Owns(p, k, j)' <=> Owns(p, k, j)
         /\ \A j \in VarIds : var_db[j].opts \in Closes => var_db'[j].opts = var_db[j].opts
         /\ \A m \in ToStatsman : (IsCall(m) => m.id # i) /\ Request(m) => Request(m)'
         /\ \A m \in ToStats : (IsCall(m) => m.id # i) /\ Answer(m) => Answer(m)'
<1>a. obj[o].call \in Calls
  BY CallOf DEF Marks
<1>b. PICK c \in Calls : c = obj[o].call
  BY <1>a
<1>0. /\ TInv /\ Table /\ OneEach /\ \A p \in Objects : Called(p) /\ Open(p)
  BY DEF OK, OInv
<1>1. /\ c # "" /\ obj[o].id = i /\ x \in {"", Good[c]}
      /\ (x = "STOK" => app_db[o].stats = <<i>>) /\ (x = "PMINITOK" => app_db[o].params)
  <2>1. /\ obj[o].call # "" /\ obj[o].id = i /\ x \in {"", Good[obj[o].call]}
        /\ (x = "STOK" => app_db[o].stats = <<i>>) /\ (x = "PMINITOK" => app_db[o].params)
    BY DEF Marks
  <2> QED
    BY <1>b, <2>1
<1>2. \A j \in VarIds :
        /\ var_db'[j].used = var_db[j].used /\ var_db'[j].of = var_db[j].of /\ var_db'[j].obj = var_db[j].obj
        /\ var_db'[j].opts = IF j = i THEN x ELSE var_db[j].opts
  BY DEF Marks
<1>3. c \in Calls /\ KindOf(c) \in Kinds /\ Owns(o, KindOf(c), i) /\ var_db[i].opts \notin Closes
  BY <1>b, <1>1, CallOf
<1>4. x \notin Closes
  BY <1>1, <1>3, CallFacts DEF Closes
<1>5. \A p : ObjId(p)' = ObjId(p)
  BY DEF ObjId
<1>6. \A p, k, j : j \in VarIds => (Owns(p, k, j)' <=> Owns(p, k, j))
  BY <1>2 DEF Owns
<1>7. \A j \in VarIds : (var_db'[j].opts \in Closes \/ var_db[j].opts \in Closes) => j # i /\ var_db'[j].opts = var_db[j].opts
  BY <1>2, <1>3, <1>4
<1>8. Table'
  <2> SUFFICES ASSUME NEW p \in Objects, NEW k \in Kinds, NEW j \in VarIds, Owns(p, k, j)' PROVE Kept(p, k, j)'
    BY DEF Table, Kept
  <2>1. Kept(p, k, j) /\ Owns(p, k, j)
    BY <1>0, <1>6 DEF Table
  <2>2. obj'[p] = obj[p] /\ env' = env /\ var_db'[j].obj = var_db[j].obj /\ ObjId(p)' = ObjId(p)
    BY <1>2, <1>5
  <2>3. var_db[j].opts \in Closes => var_db'[j].opts \in Closes
    BY <1>7
  <2>4. /\ var_db'[j].opts = "STCLOSE" => var_db[j].opts = "STCLOSE"
        /\ var_db'[j].opts = "PMCLOSE" => var_db[j].opts = "PMCLOSE"
    BY <1>7 DEF Closes
  <2> QED
    BY <2>1, <2>2, <2>3, <2>4 DEF Kept
<1>9. OneEach'
  BY <1>0, <1>6 DEF OneEach
<1>10. ASSUME NEW p \in Objects PROVE Called(p)'
  <2>1. CASE p = o
    <3>1. Called(o) /\ c = obj[o].call
      BY <1>0, <1>b
    <3>2. var_db'[i].opts = x /\ x # c
      BY <1>1, <1>2, <1>3, CallFacts
    <3>3. Owns(o, KindOf(c), i)'
      BY <1>3, <1>6
    <3>4. obj'[o] = obj[o] /\ app_db' = app_db
      OBVIOUS
    <3>5. var_db'[i].used /\ var_db'[i].of = <<o, KindOf(c)>>
      BY <3>3 DEF Owns
    <3> QED
      BY <1>1, <2>1, <3>1, <3>2, <3>4, <3>5 DEF Called, Owns
  <2>2. CASE p # o
    <3>1. Called(p) /\ obj'[p] = obj[p]
      BY <1>0
    <3>2. CASE obj[p].call = ""
      BY <3>1, <3>2 DEF Called
    <3>3. CASE obj[p].call # ""
      <4>1. PICK l \in Kinds, j \in VarIds : Owns(p, l, j) /\ l = KindOf(obj[p].call) /\ j = obj[p].id
        BY <3>3, CallOf
      <4>2. j # i
        BY <1>3, <2>2, <4>1, OwnsOne
      <4>3. /\ var_db'[j].opts = var_db[j].opts /\ var_db'[j].used = var_db[j].used
            /\ var_db'[j].of = var_db[j].of
        BY <1>2, <4>2
      <4> QED
        BY <3>1, <4>1, <4>3 DEF Called, Owns
    <3> QED
      BY <3>2, <3>3
  <2> QED
    BY <2>1, <2>2
<1>11. ASSUME NEW p \in Objects PROVE Open(p)'
  <2>1. Open(p) /\ obj'[p] = obj[p]
    BY <1>0
  <2>2. CASE obj[p].stat = 0
    BY <2>1, <2>2 DEF Open
  <2>3. CASE obj[p].stat # 0
    <3>0. "stat" \in Kinds
      BY DEF Kinds
    <3>1. PICK j \in VarIds : j = obj[p].stat /\ Owns(p, "stat", j) /\ var_db[j].opts = "STOK"
      BY <2>3, StatOf
    <3>2. j # i
      <4> SUFFICES ASSUME j = i PROVE FALSE
        OBVIOUS
      <4>1. p = o /\ KindOf(c) = "stat"
        BY <1>3, <3>0, <3>1, OwnsOne
      <4>2. c = "STINIT"
        BY <4>1 DEF KindOf
      <4>3. obj[o].stat = 0
        <5>1. Called(o)
          BY <1>0
        <5> QED
          BY <1>1, <1>b, <4>2, <5>1 DEF Called
      <4> QED
        BY <2>3, <4>1, <4>3
    <3>3. /\ var_db'[j].opts = var_db[j].opts /\ var_db'[j].used = var_db[j].used
          /\ var_db'[j].of = var_db[j].of
      BY <1>2, <3>2
    <3> QED
      BY <2>1, <3>1, <3>3 DEF Open, Owns
  <2> QED
    BY <2>2, <2>3
<1>12. ASSUME NEW m, NEW d, m.id # i, Carried(m, d) PROVE Carried(m, d)'
  <2>1. m.id \in VarIds /\ var_db'[m.id].used = var_db[m.id].used /\ var_db'[m.id].opts = var_db[m.id].opts
    BY <1>2, <1>12 DEF Carried
  <2> QED
    BY <1>5, <1>12, <2>1 DEF Carried
<1>13. ASSUME NEW m \in ToStatsman, IsCall(m) => m.id # i, Request(m) PROVE Request(m)'
  <2>1. m.cmd \in Calls => Carried(m, m.cmd)'
    BY <1>12, <1>13 DEF Request, IsCall
  <2>2. ObjId(m.of)' = ObjId(m.of) /\ obj'[m.of] = obj[m.of] /\ app_db'[m.of] = app_db[m.of]
    BY <1>5
  <2>3. ASSUME NEW j \in VarIds, Owns(m.of, "stat", j)', \A n \in VarIds : Owns(m.of, "stat", n) => var_db[n].opts = "STCLOSE"
        PROVE  var_db'[j].opts = "STCLOSE"
    <3>1. var_db[j].opts = "STCLOSE"
      BY <1>6, <2>3
    <3> QED
      BY <1>7, <3>1 DEF Closes
  <2> QED
    BY <1>13, <2>1, <2>2, <2>3 DEF Request
<1>14. ASSUME NEW m \in ToStats, IsCall(m) => m.id # i, Answer(m) PROVE Answer(m)'
  <2>1. m.cmd \in Answers => \E d \in Calls : m.cmd = Good[d] /\ Carried(m, d)'
    BY <1>12, <1>14 DEF Answer, IsCall
  <2> QED
    BY <1>14, <2>1 DEF Answer
<1> QED
  BY <1>5, <1>6, <1>7, <1>8, <1>9, <1>10, <1>11, <1>13, <1>14

\* and what is said of the records
LEMMA MarkRecords ==
  ASSUME OK, NEW o \in Objects, NEW i \in VarIds, NEW x, Marks(o, i, x), UNCHANGED <<obj, app_db, env>>,
         Range(statsman_q) \subseteq Range(statsman_q)', \A j \in VarIds : Leaving(j)' => Leaving(j)
  PROVE  \A p \in Objects : Recorded(p)'
<1> SUFFICES ASSUME NEW p \in Objects PROVE Recorded(p)'
  OBVIOUS
<1>1. /\ ObjId(p)' = ObjId(p)
      /\ \A k \in Kinds, j \in VarIds : Owns(p, k, j)' <=> Owns(p, k, j)
      /\ \A j \in VarIds : var_db[j].opts \in Closes => var_db'[j].opts = var_db[j].opts
  BY MarkKeeps
<1>2. "stat" \in Kinds /\ "params" \in Kinds
  BY DEF Kinds
<1>3. \A j \in VarIds : (Owns(p, "stat", j)' <=> Owns(p, "stat", j)) /\ (Owns(p, "params", j)' <=> Owns(p, "params", j))
  BY <1>1, <1>2
<1>4. ClosesParams(p) => ClosesParams(p)'
  BY <1>1 DEF ClosesParams
<1>5. \A j \in VarIds : ClosesStat(p, j) => ClosesStat(p, j)'
  BY <1>1 DEF ClosesStat, Msg
<1>6. \A j \in VarIds : var_db[j].opts = "PMCLOSE" => var_db'[j].opts = "PMCLOSE"
  BY <1>1 DEF Closes
<1>7. Stays(p) => Stays(p)'
  BY <1>3, <1>4, <1>6 DEF Stays
<1>8. \A j \in VarIds : (Owns(p, "stat", j) /\ ~Leaving(j)) \/ ClosesStat(p, j)
                          => (Owns(p, "stat", j)' /\ ~Leaving(j)') \/ ClosesStat(p, j)'
  BY <1>3, <1>5
<1> QED
  BY <1>1, <1>7, <1>8, RecordKept

\* Forward keeps the invariant: the call is now in the packet
LEMMA ForwardKeeps ==
  ASSUME OK, ~lost', Forward
  PROVE  OInv'
<1>0. /\ TInv /\ seen \in Calls /\ seen' = "" /\ UNCHANGED <<objects, reports, max_report_idx, stats_q, app_db, cmds, env>>
      /\ IF seen = "STINIT" /\ var_db[at].of[2] # "stat"
         THEN TRUE
         ELSE /\ Send(Msg(seen, var_db[at].of[1], var_db[at].obj, IF var_db[at].used THEN at ELSE 0))
              /\ var_db' = Taken
  BY DEF Forward, Calls, OK
<1>a. seen # "" /\ seen # "delete" /\ seen \notin Closes
  BY <1>0, CallFacts DEF Closes
<1>b. PICK i \in VarIds, c \in Calls : i = at /\ c = seen
  BY <1>0, <1>a, SeenFacts
<1>1. PICK o \in Objects, k \in Kinds : /\ Owns(o, k, i) /\ var_db[i].of[1] = o /\ var_db[i].of[2] = k
                                        /\ var_db[i].obj = ObjId(o)
  BY <1>a, <1>b, SeenFacts
<1>2. var_db[i].opts = c /\ var_db[i].used
  BY <1>a, <1>b, SeenFacts
<1>3. obj[o].id = i /\ obj[o].call # "" /\ k = KindOf(obj[o].call)
  <2>1. var_db[i].opts \notin Closes
    BY <1>2, <1>a, <1>b
  <2>2. var_db[i].opts # "STOK"
    BY <1>2, CallFacts
  <2>3. obj[o].stat = i => var_db[i].opts = "STOK"
    BY <1>1, StatOwner
  <2>4. \/ var_db[i].opts \in Closes
        \/ obj[o].id = i /\ obj[o].call # "" /\ k = KindOf(obj[o].call)
        \/ obj[o].stat = i /\ k = "stat" /\ obj[o].stat # 0
    <3>1. o \in Objects /\ k \in Kinds /\ i \in VarIds /\ Owns(o, k, i)
      BY <1>1, <1>b
    <3> QED
      BY <3>1, OwnedCases
  <2> QED
    BY <2>1, <2>2, <2>3, <2>4
<1>4. obj[o].call = c
  <2>1. obj[o].call \in Calls /\ var_db[i].opts \in {obj[o].call, "", Good[obj[o].call]}
    BY <1>3, CallOf
  <2> QED
    BY <1>2, <2>1, CallFacts
<1>5. c = "STINIT" => k = "stat"
  BY <1>3, <1>4 DEF KindOf
<1>6. Send(Msg(c, o, ObjId(o), i)) /\ var_db' = Opts(i, "")
  BY <1>0, <1>b, <1>1, <1>2, <1>5 DEF Taken
<1>7. PICK b \in ObjIds \cup {NoObj} : b = ObjId(o)
  <2>1. var_db[i] \in VarRecs
    BY <1>0, TypeFacts
  <2> QED
    BY <1>1, <2>1 DEF VarRecs
<1>8. c \in Requests \cup {"STREPORT", "STSTOP", "STSET"} /\ i \in 0..MaxVars
  BY <1>0, ConstantFacts, CallFacts
<1>9. Msg(c, o, b, i) \in ToStatsman
  BY <1>8, MsgType DEF ToStatsman
<1>10. PICK m \in ToStatsman : m = Msg(c, o, b, i)
  BY <1>9
<1>11. m.cmd = c /\ m.of = o /\ m.obj = b /\ m.id = i
  BY <1>10 DEF Msg
<1>12. Send(m)
  BY <1>6, <1>7, <1>10
<1>13. \A p \in Range(stats_q) \cup Range(statsman_q) : IsCall(p) => p.id # i
  <2> SUFFICES ASSUME NEW p \in Range(stats_q) \cup Range(statsman_q), IsCall(p) PROVE p.id # i
    OBVIOUS
  <2>1. var_db[p.id].opts = ""
    BY CallMail
  <2>2. c # ""
    BY CallFacts
  <2> QED
    BY <1>2, <2>1, <2>2
<1>14. Alone(stats_q, statsman_q)' /\ Range(statsman_q)' = Range(statsman_q) \cup {m}
  BY <1>0, <1>11, <1>12, <1>13, SentMail
<1>15. \A j \in VarIds :
        /\ var_db'[j].used = var_db[j].used /\ var_db'[j].of = var_db[j].of /\ var_db'[j].obj = var_db[j].obj
        /\ var_db'[j].opts = IF j = i THEN "" ELSE var_db[j].opts
  <2>1. "" \in Requests \cup Answers \cup {""}
    OBVIOUS
  <2>2. \A j \in VarIds :
          /\ Opts(i, "")[j].used = var_db[j].used /\ Opts(i, "")[j].of = var_db[j].of
          /\ Opts(i, "")[j].obj = var_db[j].obj
          /\ Opts(i, "")[j].opts = IF j = i THEN "" ELSE var_db[j].opts
    BY <1>0, <1>8, <2>1, OptsValue
  <2> QED
    BY <1>6, <2>2
<1>16. Marks(o, i, "") /\ UNCHANGED <<obj, app_db, env>>
  BY <1>0, <1>3, <1>15 DEF Marks, objects
<1>17. /\ Table' /\ OneEach' /\ \A p \in Objects : Called(p)' /\ Open(p)' /\ ObjId(p)' = ObjId(p)
       /\ \A p \in ToStatsman : (IsCall(p) => p.id # i) /\ Request(p) => Request(p)'
       /\ \A p \in ToStats : (IsCall(p) => p.id # i) /\ Answer(p) => Answer(p)'
  BY <1>16, MarkKeeps
<1>18. Request(m)'
  <2>1. Carried(m, c)'
    BY <1>2, <1>3, <1>4, <1>7, <1>11, <1>15, <1>16, <1>17 DEF Carried
  <2>2. c = "STINIT" => app_db'[o].stats = <<>>
    <3>1. Called(o)
      BY DEF OK, OInv
    <3> QED
      BY <1>2, <1>3, <1>4, <1>16, <3>1 DEF Called
  <2>3. c # "STCLOSE" /\ c # "PMCLOSE"
    BY CallFacts
  <2> QED
    BY <1>11, <2>1, <2>2, <2>3 DEF Request, Closes
<1>19. Mail'
  <2>0. Mail /\ stats_q \in Seq(ToStats) /\ statsman_q \in Seq(ToStatsman)
    BY <1>0, TypeFacts DEF OK, OInv
  <2>1. ASSUME NEW p \in Range(statsman_q)' PROVE Request(p)'
    <3>1. CASE p = m
      BY <1>18, <3>1
    <3>2. CASE p \in Range(statsman_q)
      <4>1. p \in ToStatsman /\ Request(p)
        BY <2>0, <3>2 DEF Range, Mail
      <4> QED
        BY <1>13, <1>17, <3>2, <4>1
    <3> QED
      BY <1>14, <2>1, <3>1, <3>2
  <2>2. ASSUME NEW p \in Range(stats_q)' PROVE Answer(p)'
    <3>1. p \in Range(stats_q)
      BY <1>0, <2>2
    <3>2. p \in ToStats /\ Answer(p)
      BY <2>0, <3>1 DEF Range, Mail
    <3> QED
      BY <1>13, <1>17, <3>1, <3>2
  <2> QED
    BY <2>1, <2>2 DEF Mail
<1>20. \A p \in Objects : Recorded(p)'
  <2>1. Range(statsman_q) \subseteq Range(statsman_q)' /\ \A j \in VarIds : Leaving(j)' => Leaving(j)
    BY <1>0, <1>14 DEF Leaving
  <2> QED
    BY <1>16, <2>1, MarkRecords
<1>21. Seeing' /\ Reporting' /\ sem_var' = {}
  <2>1. Reporting /\ sem_var = {}
    BY DEF OK, OInv
  <2> QED
    BY <1>0, <2>1 DEF Seeing, Reporting, Used, objects
<1> QED
  BY <1>14, <1>17, <1>19, <1>20, <1>21 DEF OInv

\* stats_process_cmd keeps the invariant: the answer reaches the variable it was asked for
LEMMA ProcessKeeps ==
  ASSUME OK, stats_process_cmd
  PROVE  OInv'
<1>0. /\ TInv /\ at = 0 /\ seen = "" /\ stats_q # <<>> /\ stats_q' = Tail(stats_q)
      /\ UNCHANGED <<objects, at, seen, statsman_q, lost, app_db, cmds, env>>
  BY TypeFacts DEF stats_process_cmd, OK
<1>1. Mail /\ Reporting /\ sem_var = {} /\ stats_q \in Seq(ToStats) /\ statsman_q \in Seq(ToStatsman)
  BY <1>0, TypeFacts DEF OK, OInv
<1>a. Head(stats_q) \in ToStats
  BY <1>0, <1>1, TakenFrom
<1>2. PICK m \in ToStats : m = Head(stats_q)
  BY <1>a
<1>3. /\ Range(Tail(stats_q)) \subseteq Range(stats_q) /\ m \in Range(stats_q)
  BY <1>0, <1>1, <1>2, RangeTail
<1>b. Alone(Tail(stats_q), statsman_q)
      /\ \A p \in Range(Tail(stats_q)) \cup Range(statsman_q) : IsCall(m) /\ IsCall(p) => p.id # m.id
  <2>1. stats_q \in Seq(ToStats \cup ToStatsman) /\ statsman_q \in Seq(ToStats \cup ToStatsman)
    BY <1>1
  <2>2. Alone(stats_q, statsman_q)
    BY DEF OK, OInv
  <2> HIDE DEF ToStats, ToStatsman
  <2> QED
    BY <1>0, <1>2, <2>1, <2>2, AloneTailQ
<1>4. Alone(stats_q, statsman_q)'
  BY <1>0, <1>b DEF Alone, IsCall
<1>5. Answer(m)
  BY <1>1, <1>3 DEF Mail
<1>6. Seeing' /\ sem_var' = {}
  BY <1>0, <1>1 DEF Seeing, objects
<1>7. CASE m.cmd \in Answers
  <2>1. UNCHANGED <<reports, max_report_idx>> /\ var_db' = Opts(m.id, m.cmd)
    BY <1>2, <1>7, CallFacts DEF stats_process_cmd
  <2>2. PICK o \in Objects, i \in VarIds, c \in Calls :
          o = m.of /\ i = m.id /\ m.cmd = Good[c] /\ obj[o].call = c /\ obj[o].id = i
    <3>1. IsCall(m) /\ m \in Range(stats_q) \cup Range(statsman_q) /\ m \in Range(stats_q)
      BY <1>3, <1>7 DEF IsCall
    <3>2. /\ m.of \in Objects /\ m.id \in VarIds /\ obj[m.of].call \in Calls /\ obj[m.of].id = m.id
          /\ m.cmd = Good[obj[m.of].call]
      BY <3>1, CallMail
    <3> QED
      BY <3>2
  <2>3. \A j \in VarIds :
        /\ var_db'[j].used = var_db[j].used /\ var_db'[j].of = var_db[j].of /\ var_db'[j].obj = var_db[j].obj
        /\ var_db'[j].opts = IF j = i THEN m.cmd ELSE var_db[j].opts
    <3>1. i \in 0..MaxVars
      BY <1>0, ConstantFacts
    <3>2. m.cmd \in Requests \cup Answers \cup {""} /\ var_db' = Opts(i, m.cmd)
      BY <1>7, <2>1, <2>2
    <3>3. PICK x \in Requests \cup Answers \cup {""} : x = m.cmd
      BY <3>2
    <3>4. \A j \in VarIds :
            /\ Opts(i, x)[j].used = var_db[j].used /\ Opts(i, x)[j].of = var_db[j].of
            /\ Opts(i, x)[j].obj = var_db[j].obj
            /\ Opts(i, x)[j].opts = IF j = i THEN x ELSE var_db[j].opts
      BY <1>0, <3>1, OptsValue
    <3> QED
      BY <3>2, <3>3, <3>4
  <2>4. Marks(o, i, m.cmd) /\ UNCHANGED <<obj, app_db, env>>
    <3>1. (m.cmd = "STOK" => app_db[o].stats = <<i>>) /\ (m.cmd = "PMINITOK" => app_db[o].params)
      BY <1>5, <2>2 DEF Answer
    <3>2. obj[o].call # ""
      BY <2>2, CallFacts
    <3> QED
      BY <1>0, <2>2, <2>3, <3>1, <3>2 DEF Marks, objects
  <2>5. /\ Table' /\ OneEach' /\ \A p \in Objects : Called(p)' /\ Open(p)' /\ ObjId(p)' = ObjId(p)
        /\ \A p \in ToStatsman : (IsCall(p) => p.id # i) /\ Request(p) => Request(p)'
        /\ \A p \in ToStats : (IsCall(p) => p.id # i) /\ Answer(p) => Answer(p)'
    BY <2>4, MarkKeeps
  <2>6. \A p \in Range(Tail(stats_q)) \cup Range(statsman_q) : IsCall(p) => p.id # i
    BY <1>b, <1>7, <2>2 DEF IsCall
  <2>7. Mail'
    <3>1. ASSUME NEW p \in Range(statsman_q)' PROVE Request(p)'
      <4>1. p \in Range(statsman_q)
        BY <1>0, <3>1
      <4>2. p \in ToStatsman /\ Request(p)
        BY <1>1, <4>1 DEF Range, Mail
      <4> QED
        BY <2>5, <2>6, <4>1, <4>2
    <3>2. ASSUME NEW p \in Range(stats_q)' PROVE Answer(p)'
      <4>1. p \in Range(Tail(stats_q)) /\ p \in Range(stats_q)
        BY <1>0, <1>3, <3>2
      <4>2. p \in ToStats /\ Answer(p)
        BY <1>1, <4>1 DEF Range, Mail
      <4> QED
        BY <2>5, <2>6, <4>1, <4>2
    <3> QED
      BY <3>1, <3>2 DEF Mail
  <2>8. \A p \in Objects : Recorded(p)'
    <3>1. Range(statsman_q) \subseteq Range(statsman_q)' /\ \A j \in VarIds : Leaving(j)' => Leaving(j)
      BY <1>0 DEF Leaving
    <3> QED
      BY <2>4, <3>1, MarkRecords
  <2>9. Reporting'
    BY <1>1, <2>1 DEF Reporting, Used
  <2> QED
    BY <1>4, <1>6, <2>5, <2>7, <2>8, <2>9 DEF OInv
<1>8. CASE m.cmd \notin Answers
  <2>1. var_db' = var_db
    BY <1>2, <1>8 DEF stats_process_cmd
  <2>2. /\ Table' /\ OneEach' /\ \A p \in Objects : Called(p)' /\ Open(p)'
    BY <1>0, <2>1, SameVars DEF objects
  <2>3. \A p : (Request(p)' <=> Request(p)) /\ (Answer(p)' <=> Answer(p))
    BY <1>0, <2>1, SameMail DEF objects
  <2>4. Mail'
    BY <1>0, <1>1, <1>3, <2>3 DEF Mail
  <2>5. \A p \in Objects : Recorded(p)'
    BY <1>0, <2>1, SameRecords DEF objects, Leaving
  <2>6. Reporting'
    <3>1. CASE m.cmd = "STREPORT"
      <4>1. report_add(m) /\ m.obj # NoObj
        BY <1>2, <1>5, <1>8, <3>1 DEF stats_process_cmd, Answer
      <4>2. CASE UNCHANGED <<reports, max_report_idx>>
        BY <4>2, RemovedReports
      <4>3. CASE ~UNCHANGED <<reports, max_report_idx>>
        <5>1. ReportsOK
          BY <1>0, <4>1, AddTypes
        <5>2. PICK n \in Slots :
                /\ reports' = [reports EXCEPT ![n] = [id |-> m.id, obj |-> m.obj]] /\ n + 1 <= max_report_idx'
                /\ max_report_idx <= max_report_idx' \/ n + 2 <= max_report_idx'
          BY <1>0, <4>1, <4>3, AddTypes
        <5>3. reports \in [Slots -> ReportRecs] /\ MaxReports \in Nat /\ max_report_idx \in Nat /\ max_report_idx' \in Nat
          <6>1. reports \in [Slots -> ReportRecs] /\ max_report_idx \in 0..MaxReports + 1
            BY <1>0, TypeFacts
          <6>2. max_report_idx' \in 0..MaxReports + 1 /\ MaxReports \in Nat
            BY <5>1, StatsAssumption DEF ReportsOK
          <6> QED
            BY <6>1, <6>2
        <5>4. ASSUME MaxReports <= 2, NEW l \in Slots, l = n \/ (Used(l) /\ l < max_report_idx) PROVE l < max_report_idx'
          BY <5>2, <5>3, <5>4 DEF Slots
        <5>5. reports'[n].obj = m.obj /\ \A l \in Slots : l # n => reports'[l] = reports[l]
          BY <5>2, <5>3
        <5> SUFFICES ASSUME NEW l \in Slots, Used(l)'
                     PROVE  reports'[l].obj # NoObj /\ (MaxReports <= 2 => l < max_report_idx')
          BY DEF Reporting
        <5>6. CASE l = n
          BY <4>1, <5>4, <5>5, <5>6
        <5>7. CASE l # n
          <6>1. Used(l)
            BY <5>5, <5>7 DEF Used
          <6> QED
            BY <1>1, <5>4, <5>5, <5>7, <6>1 DEF Reporting
        <5> QED
          BY <5>6, <5>7
      <4> QED
        BY <4>2, <4>3
    <3>2. CASE m.cmd = "STSTOP"
      <4>1. report_rmid(m.id)
        BY <1>2, <1>8, <3>2 DEF stats_process_cmd
      <4> QED
        BY <1>0, <4>1, RmidTypes, RemovedReports
    <3>3. CASE m.cmd = "STSET"
      <4>1. UNCHANGED <<reports, max_report_idx>>
        BY <1>2, <1>8, <3>3 DEF stats_process_cmd
      <4> QED
        BY <4>1, RemovedReports
    <3>4. m.cmd \in {"STREPORT", "STSTOP", "STSET"}
      BY <1>8 DEF ToStats, Msgs
    <3> QED
      BY <3>1, <3>2, <3>3, <3>4
  <2> QED
    BY <1>4, <1>6, <2>2, <2>4, <2>5, <2>6 DEF OInv
<1> QED
  BY <1>7, <1>8

\* what a deletion leaves
LEMMA DeletedKeeps ==
  ASSUME TInv, NEW i \in VarIds, var_db' = Deleted(i)
  PROVE  /\ \A j \in VarIds : /\ var_db'[j].of = var_db[j].of /\ var_db'[j].opts = var_db[j].opts
                              /\ j # i => var_db'[j] = var_db[j]
         /\ ~var_db'[i].used
<1>1. var_db \in [VarIds -> VarRecs]
  BY TypeFacts
<1> QED
  BY <1>1 DEF Deleted, VarRecs

\* DeleteVar keeps the invariant: only the request to close still names the variable
LEMMA DeleteKeeps ==
  ASSUME OK, DeleteVar
  PROVE  OInv'
<1>0. /\ TInv /\ seen = "delete" /\ seen' = "" /\ var_db' = Deleted(at) /\ sem_var = {}
      /\ UNCHANGED <<objects, reports, max_report_idx, stats_q, statsman_q, lost, app_db, cmds, env>>
  BY DEF DeleteVar, OK
<1>a. PICK i \in VarIds : i = at
  BY <1>0, SeenFacts
<1>1. var_db[i].used /\ var_db[i].opts \in Closes
  BY <1>0, <1>a, SeenFacts
<1>2. /\ \A j \in VarIds : /\ var_db'[j].of = var_db[j].of /\ var_db'[j].opts = var_db[j].opts
                           /\ j # i => var_db'[j] = var_db[j]
      /\ ~var_db'[i].used
  BY <1>0, <1>a, DeletedKeeps
<1>3. \A p, l, j : j \in VarIds => (Owns(p, l, j)' <=> Owns(p, l, j) /\ j # i)
  BY <1>2 DEF Owns
<1>4. \A p : ObjId(p)' = ObjId(p)
  BY <1>0 DEF ObjId, objects
<1>5. Table /\ OneEach /\ Mail /\ \A p \in Objects : Called(p) /\ Open(p)
  BY DEF OK, OInv
<1>6. obj' = obj /\ sem_var' = {} /\ env' = env /\ app_db' = app_db /\ stats_q' = stats_q /\ statsman_q' = statsman_q
      /\ reports' = reports /\ max_report_idx' = max_report_idx
  BY <1>0 DEF objects
<1>7. Table'
  <2> SUFFICES ASSUME NEW p \in Objects, NEW k \in Kinds, NEW j \in VarIds, Owns(p, k, j)' PROVE Kept(p, k, j)'
    BY DEF Table, Kept
  <2>1. Owns(p, k, j) /\ j # i /\ Kept(p, k, j)
    BY <1>3, <1>5 DEF Table
  <2>2. var_db'[j].opts = var_db[j].opts /\ var_db'[j].obj = var_db[j].obj
    BY <1>2, <2>1
  <2> QED
    BY <1>4, <1>6, <2>1, <2>2 DEF Kept
<1>8. OneEach'
  BY <1>3, <1>5 DEF OneEach
<1>9. ASSUME NEW p \in Objects PROVE Called(p)'
  <2>1. Called(p)
    BY <1>5
  <2>2. CASE obj[p].call = ""
    BY <1>6, <2>2 DEF Called
  <2>3. CASE obj[p].call # ""
    <3>1. obj[p].id \in VarIds /\ var_db[obj[p].id].opts \notin Closes
      BY <2>3, CallOf
    <3>2. PICK j \in VarIds : j = obj[p].id
      BY <3>1
    <3>3. j # i
      BY <1>1, <3>1, <3>2
    <3>4. var_db'[j].used = var_db[j].used /\ var_db'[j].of = var_db[j].of /\ var_db'[j].opts = var_db[j].opts
      BY <1>2, <3>3
    <3> QED
      BY <1>6, <2>1, <3>2, <3>4 DEF Called, Owns
  <2> QED
    BY <2>2, <2>3
<1>10. ASSUME NEW p \in Objects PROVE Open(p)'
  <2>1. Open(p)
    BY <1>5
  <2>2. CASE obj[p].stat = 0
    BY <1>6, <2>1, <2>2 DEF Open
  <2>3. CASE obj[p].stat # 0
    <3>1. PICK j \in VarIds : j = obj[p].stat /\ var_db[j].opts = "STOK"
      BY <2>3, StatOf
    <3>2. j # i
      BY <1>1, <3>1 DEF Closes
    <3>3. var_db'[j].used = var_db[j].used /\ var_db'[j].of = var_db[j].of /\ var_db'[j].opts = var_db[j].opts
      BY <1>2, <3>2
    <3> QED
      BY <1>6, <2>1, <3>1, <3>3 DEF Open, Owns
  <2> QED
    BY <2>2, <2>3
<1>11. ASSUME NEW m, NEW d, Carried(m, d) PROVE Carried(m, d)'
  <2>1. m.id \in VarIds /\ m.id # i
    BY <1>1, <1>11 DEF Carried, Closes
  <2>2. /\ var_db'[m.id].used = var_db[m.id].used /\ var_db'[m.id].opts = var_db[m.id].opts
    BY <1>2, <2>1
  <2> QED
    BY <1>4, <1>6, <1>11, <2>2 DEF Carried
<1>12. Mail'
  <2>1. ASSUME NEW m \in Range(statsman_q) PROVE Request(m)'
    <3>1. Request(m)
      BY <1>5 DEF Mail
    <3>2. m.cmd \in Calls => Carried(m, m.cmd)'
      BY <1>11, <3>1 DEF Request
    <3>3. \A j \in VarIds : Owns(m.of, "stat", j)' => Owns(m.of, "stat", j)
      BY <1>3
    <3>4. \A j \in VarIds : var_db'[j].opts = var_db[j].opts
      BY <1>2
    <3> QED
      BY <1>4, <1>6, <3>1, <3>2, <3>3, <3>4 DEF Request
  <2>2. ASSUME NEW m \in Range(stats_q) PROVE Answer(m)'
    <3>1. Answer(m)
      BY <1>5 DEF Mail
    <3>2. m.cmd \in Answers => \E d \in Calls : m.cmd = Good[d] /\ Carried(m, d)'
      BY <1>11, <3>1 DEF Answer
    <3> QED
      BY <1>6, <3>1, <3>2 DEF Answer
  <2> QED
    BY <1>6, <2>1, <2>2 DEF Mail
<1>13. ASSUME NEW p \in Objects PROVE Recorded(p)'
  <2>1. ClosesParams(p)' <=> ClosesParams(p)
    BY <1>4, <1>6 DEF ClosesParams
  <2>2. \A j \in VarIds : ClosesStat(p, j)' <=> ClosesStat(p, j)
    BY <1>4, <1>6 DEF ClosesStat, Msg
  <2>3. \A j \in VarIds : (Leaving(j) <=> j = i) /\ ~Leaving(j)'
    BY <1>0, <1>a DEF Leaving
  <2>4. \A j \in VarIds : (Owns(p, "stat", j)' <=> Owns(p, "stat", j) /\ j # i) /\ (Owns(p, "params", j)' <=> Owns(p, "params", j) /\ j # i)
    BY <1>3
  <2>5. Stays(p) => Stays(p)'
    BY <1>2, <1>6, <2>1, <2>3, <2>4 DEF Stays
  <2>6. ObjId(p)' = ObjId(p) /\ app_db'[p] = app_db[p]
    BY <1>4, <1>6
  <2>7. \A j \in VarIds : (Owns(p, "stat", j) /\ ~Leaving(j)) \/ ClosesStat(p, j)
                           => (Owns(p, "stat", j)' /\ ~Leaving(j)') \/ ClosesStat(p, j)'
    BY <2>2, <2>3, <2>4
  <2> QED
    BY <2>5, <2>6, <2>7, RecordKept
<1>14. Alone(stats_q, statsman_q)' /\ Seeing' /\ Reporting'
  <2>1. Alone(stats_q, statsman_q) /\ Reporting
    BY DEF OK, OInv
  <2>2. Alone(stats_q, statsman_q)'
    BY <1>6, <2>1 DEF Alone, IsCall
  <2> QED
    BY <1>0, <1>6, <2>1, <2>2 DEF Seeing, Reporting, Used
<1> QED
  BY <1>6, <1>7, <1>8, <1>9, <1>10, <1>12, <1>13, <1>14 DEF OInv

\* CloseStat keeps the invariant
LEMMA CloseStatKeeps ==
  ASSUME OK, NEW o \in Objects, CloseStat(o)
  PROVE  OInv'
<1>0. /\ TInv /\ obj[o].call = "" /\ obj[o].stat # 0 /\ var_db' = Opts(obj[o].stat, "STCLOSE")
      /\ obj' = [obj EXCEPT ![o].stat = 0]
      /\ UNCHANGED <<sem_var, stats, stats_q, statsman_q, lost, app_db, cmds, env>>
  BY DEF CloseStat, OK
<1>1. PICK s \in VarIds : s = obj[o].stat /\ Owns(o, "stat", s) /\ var_db[s].opts = "STOK"
  BY <1>0, StatOf
<1>2. \A j \in VarIds :
        /\ var_db'[j].used = var_db[j].used /\ var_db'[j].of = var_db[j].of /\ var_db'[j].obj = var_db[j].obj
        /\ var_db'[j].opts = IF j = s THEN "STCLOSE" ELSE var_db[j].opts
  <2>1. PICK x \in Requests \cup Answers \cup {""} : x = "STCLOSE"
    BY DEF Requests
  <2>2. s \in 0..MaxVars
    BY <1>0, ConstantFacts
  <2>3. \A j \in VarIds :
          /\ Opts(s, x)[j].used = var_db[j].used /\ Opts(s, x)[j].of = var_db[j].of
          /\ Opts(s, x)[j].obj = var_db[j].obj
          /\ Opts(s, x)[j].opts = IF j = s THEN x ELSE var_db[j].opts
    BY <1>0, <2>2, OptsValue
  <2> QED
    BY <1>0, <1>1, <2>1, <2>3
<1>3. /\ \A p \in Objects : p # o => obj'[p] = obj[p]
      /\ obj'[o].life = obj[o].life /\ obj'[o].on = obj[o].on /\ obj'[o].call = obj[o].call
      /\ obj'[o].id = obj[o].id /\ obj'[o].params = obj[o].params /\ obj'[o].stat = 0
  <2>1. obj \in [Objects -> ObjRecs]
    BY <1>0, TypeFacts
  <2> QED
    BY <1>0, <2>1 DEF ObjRecs
<1>4. \A p \in Objects : ObjId(p)' = ObjId(p)
  BY <1>3 DEF ObjId
<1>5. Table /\ OneEach /\ Mail /\ Seeing /\ sem_var = {} /\ \A p \in Objects : Called(p) /\ Open(p)
  BY DEF OK, OInv
<1>6. sem_var' = {} /\ env' = env /\ app_db' = app_db /\ stats_q' = stats_q /\ statsman_q' = statsman_q
      /\ reports' = reports /\ max_report_idx' = max_report_idx /\ at' = at /\ seen' = seen
  BY <1>0, <1>5 DEF stats
<1>7. \A p, l, j : j \in VarIds => (Owns(p, l, j)' <=> Owns(p, l, j))
  BY <1>2 DEF Owns
<1>8. "stat" \in Kinds /\ s # 0
  BY <1>0, ConstantFacts DEF Kinds
<1>9. \A p \in Objects, l \in Kinds, j \in VarIds : Owns(p, l, j) /\ j = s => p = o /\ l = "stat"
  BY <1>1, <1>8, OwnsOne
<1>10. Table'
  <2> SUFFICES ASSUME NEW p \in Objects, NEW k \in Kinds, NEW j \in VarIds, Owns(p, k, j)' PROVE Kept(p, k, j)'
    BY DEF Table, Kept
  <2>1. Owns(p, k, j) /\ Kept(p, k, j) /\ var_db'[j].obj = var_db[j].obj /\ ObjId(p)' = ObjId(p) /\ env' = env
    BY <1>2, <1>4, <1>5, <1>6, <1>7 DEF Table
  <2>2. CASE j = s
    <3>1. p = o /\ k = "stat" /\ var_db'[j].opts = "STCLOSE"
      BY <1>2, <1>9, <2>1, <2>2
    <3> QED
      BY <1>0, <1>3, <2>1, <3>1 DEF Kept, Closes
  <2>3. CASE j # s
    <3>1. var_db'[j].opts = var_db[j].opts
      BY <1>2, <2>3
    <3>2. CASE p # o
      <4>1. obj'[p] = obj[p]
        BY <1>3, <3>2
      <4> QED
        BY <2>1, <3>1, <4>1 DEF Kept
    <3>3. CASE p = o
      BY <1>1, <1>3, <2>1, <2>3, <3>1, <3>3 DEF Kept
    <3> QED
      BY <3>2, <3>3
  <2> QED
    BY <2>2, <2>3
<1>11. OneEach'
  BY <1>5, <1>7 DEF OneEach
<1>12. ASSUME NEW p \in Objects PROVE Called(p)'
  <2>1. CASE obj[p].call = ""
    <3>1. obj'[p].call = ""
      BY <1>0, <1>3, <2>1
    <3> QED
      BY <3>1 DEF Called
  <2>2. CASE obj[p].call # ""
    <3>1. p # o /\ Called(p) /\ obj'[p] = obj[p]
      BY <1>0, <1>3, <1>5, <2>2
    <3>2. PICK j \in VarIds, l \in Kinds : j = obj[p].id /\ l = KindOf(obj[p].call) /\ Owns(p, l, j)
      BY <2>2, CallOf
    <3>3. j # s
      BY <1>9, <3>1, <3>2
    <3>4. var_db'[j].used = var_db[j].used /\ var_db'[j].of = var_db[j].of /\ var_db'[j].opts = var_db[j].opts
      BY <1>2, <3>3
    <3> QED
      BY <1>6, <3>1, <3>2, <3>4 DEF Called, Owns
  <2> QED
    BY <2>1, <2>2
<1>13. ASSUME NEW p \in Objects PROVE Open(p)'
  <2>1. Open(p)
    BY <1>5
  <2>2. CASE p = o
    BY <1>3, <1>6, <2>1, <2>2 DEF Open
  <2>3. CASE p # o
    <3>1. obj'[p] = obj[p]
      BY <1>3, <2>3
    <3>2. CASE obj[p].stat = 0
      BY <1>6, <2>1, <3>1, <3>2 DEF Open
    <3>3. CASE obj[p].stat # 0
      <4>1. PICK j \in VarIds : j = obj[p].stat /\ Owns(p, "stat", j)
        BY <3>3, StatOf
      <4>2. j # s
        BY <1>8, <1>9, <2>3, <4>1
      <4>3. var_db'[j].used = var_db[j].used /\ var_db'[j].of = var_db[j].of /\ var_db'[j].opts = var_db[j].opts
        BY <1>2, <4>2
      <4> QED
        BY <1>6, <2>1, <3>1, <4>1, <4>3 DEF Open, Owns
    <3> QED
      BY <3>2, <3>3
  <2> QED
    BY <2>2, <2>3
<1>14. ASSUME NEW m, NEW d, m.of \in Objects, Carried(m, d) PROVE Carried(m, d)'
  <2>1. m.id \in VarIds /\ m.id # s
    BY <1>1, <1>14 DEF Carried
  <2>2. var_db'[m.id].used = var_db[m.id].used /\ var_db'[m.id].opts = var_db[m.id].opts
    BY <1>2, <2>1
  <2>3. obj'[m.of].call = obj[m.of].call /\ obj'[m.of].id = obj[m.of].id
    BY <1>3, <1>14
  <2> QED
    BY <1>4, <1>14, <2>2, <2>3 DEF Carried
<1>15. Mail'
  <2>1. ASSUME NEW m \in Range(statsman_q) PROVE Request(m)'
    <3>0. m \in Range(stats_q) \cup Range(statsman_q)
      OBVIOUS
    <3>1. Request(m) /\ m.of \in Objects
      BY <1>0, <1>5, <3>0, MailFacts DEF Mail
    <3>2. m.cmd \in Calls => Carried(m, m.cmd)'
      BY <1>14, <3>1 DEF Request
    <3>3. ObjId(m.of)' = ObjId(m.of) /\ app_db'[m.of] = app_db[m.of]
      BY <1>4, <1>6, <3>1
    <3>4. obj'[m.of].call = obj[m.of].call /\ obj'[m.of].params = obj[m.of].params
      BY <1>3, <3>1
    <3>5. ASSUME m.cmd = "STCLOSE", m.obj = ObjId(m.of)
          PROVE  /\ obj'[m.of].stat = 0 /\ obj'[m.of].call # "STINIT"
                 /\ \A j \in VarIds : Owns(m.of, "stat", j)' => var_db'[j].opts = "STCLOSE"
      <4>1. /\ obj[m.of].stat = 0 /\ obj[m.of].call # "STINIT"
            /\ \A j \in VarIds : Owns(m.of, "stat", j) => var_db[j].opts = "STCLOSE"
        BY <3>1, <3>5 DEF Request
      <4>2. m.of # o
        BY <1>0, <4>1
      <4>3. \A j \in VarIds : Owns(m.of, "stat", j)' => var_db'[j].opts = "STCLOSE"
        BY <1>2, <1>7, <4>1
      <4> QED
        BY <1>3, <3>1, <4>1, <4>2, <4>3
    <3> QED
      BY <3>1, <3>2, <3>3, <3>4, <3>5 DEF Request
  <2>2. ASSUME NEW m \in Range(stats_q) PROVE Answer(m)'
    <3>0. m \in Range(stats_q) \cup Range(statsman_q)
      OBVIOUS
    <3>1. Answer(m) /\ m.of \in Objects
      BY <1>0, <1>5, <3>0, MailFacts DEF Mail
    <3>2. m.cmd \in Answers => \E d \in Calls : m.cmd = Good[d] /\ Carried(m, d)'
      BY <1>14, <3>1 DEF Answer
    <3> QED
      BY <1>6, <3>1, <3>2 DEF Answer
  <2> QED
    BY <1>6, <2>1, <2>2 DEF Mail
<1>16. ASSUME NEW p \in Objects PROVE Recorded(p)'
  <2>1. ClosesParams(p)' <=> ClosesParams(p)
    BY <1>4, <1>6 DEF ClosesParams
  <2>2. \A j \in VarIds : ClosesStat(p, j)' <=> ClosesStat(p, j)
    BY <1>4, <1>6 DEF ClosesStat, Msg
  <2>3. \A j \in VarIds : Leaving(j) <=> Leaving(j)'
    BY <1>6 DEF Leaving
  <2>4. \A j \in VarIds : (Owns(p, "stat", j)' <=> Owns(p, "stat", j)) /\ (Owns(p, "params", j)' <=> Owns(p, "params", j))
    BY <1>7
  <2>8. \A j \in VarIds : var_db[j].opts = "PMCLOSE" => var_db'[j].opts = "PMCLOSE"
    BY <1>1, <1>2
  <2>9. obj'[p].call = obj[p].call /\ obj'[p].params = obj[p].params
    BY <1>3
  <2>5. Stays(p) => Stays(p)'
    BY <2>1, <2>3, <2>4, <2>8, <2>9 DEF Stays
  <2>6. ObjId(p)' = ObjId(p) /\ app_db'[p] = app_db[p]
    BY <1>4, <1>6
  <2>7. \A j \in VarIds : (Owns(p, "stat", j) /\ ~Leaving(j)) \/ ClosesStat(p, j)
                           => (Owns(p, "stat", j)' /\ ~Leaving(j)') \/ ClosesStat(p, j)'
    BY <2>2, <2>3, <2>4
  <2> QED
    BY <2>5, <2>6, <2>7, RecordKept
<1>17. Seeing'
  <2>1. CASE seen = ""
    BY <1>6, <2>1 DEF Seeing
  <2>2. CASE seen # ""
    <3>1. PICK j \in VarIds : j = at
      BY <2>2, SeenFacts
    <3>2. j # s
      <4>1. var_db[j].opts \in IF seen = "delete" THEN Closes ELSE {seen}
        BY <2>2, <3>1, SeenFacts
      <4>2. seen \in Requests \cup {"", "delete"}
        BY <1>0, TypeFacts
      <4> QED
        BY <1>1, <4>1, <4>2 DEF Closes, Requests
    <3> QED
      BY <1>2, <1>5, <1>6, <3>1, <3>2 DEF Seeing
  <2> QED
    BY <2>1, <2>2
<1>18. Alone(stats_q, statsman_q)' /\ Reporting'
  <2>1. Alone(stats_q, statsman_q) /\ Reporting
    BY DEF OK, OInv
  <2>2. Alone(stats_q, statsman_q)'
    BY <1>6, <2>1 DEF Alone, IsCall
  <2> QED
    BY <1>6, <2>1, <2>2 DEF Reporting, Used
<1> QED
  BY <1>6, <1>10, <1>11, <1>12, <1>13, <1>15, <1>16, <1>17, <1>18 DEF OInv

\* What a call returns with
LEMMA ReturnValue ==
  ASSUME OK, NEW o \in Objects, Return(o)
  PROVE  \E i \in VarIds, c \in Calls :
           /\ i = obj[o].id /\ c = obj[o].call /\ Owns(o, KindOf(c), i) /\ KindOf(c) \in Kinds
           /\ var_db[i].opts = Good[c] /\ obj[o].on
           /\ IF c = "STINIT" THEN var_db' = var_db ELSE var_db' = Deleted(i)
           /\ \A p \in Objects : p # o => obj'[p] = obj[p]
           /\ obj'[o].call = "" /\ obj'[o].id = 0 /\ obj'[o].on = obj[o].on /\ obj'[o].life = obj[o].life
           /\ obj'[o].stat = (IF c = "STINIT" THEN i ELSE obj[o].stat)
           /\ (obj'[o].params <=> c = "PMINIT" \/ obj[o].params)
<1>0. TInv /\ obj[o].call # ""
  BY DEF Return, OK
<1>1. PICK i \in VarIds, c \in Calls :
        /\ i = obj[o].id /\ c = obj[o].call /\ Owns(o, KindOf(c), i) /\ KindOf(c) \in Kinds
        /\ var_db[i].opts \in {c, "", Good[c]} /\ obj[o].on
  BY <1>0, CallOf
<1>2. PICK got : got = var_db[i].opts
  OBVIOUS
<1>3. /\ got \in {Good[c], Bad[c]} /\ obj' = Done(o, got)
      /\ var_db' = IF got = "STOK" /\ c = "STINIT" THEN var_db ELSE Deleted(i)
  BY <1>1, <1>2, NoFaults DEF Return
<1>4. got = Good[c] /\ (got = "STOK" <=> c = "STINIT") /\ (got = "PMINITOK" <=> c = "PMINIT")
  BY <1>1, <1>2, <1>3, CallFacts
<1>5. /\ \A p \in Objects \ {o} : obj'[p] = obj[p]
      /\ obj'[o].call = "" /\ obj'[o].id = 0 /\ obj'[o].on = obj[o].on /\ obj'[o].life = obj[o].life
      /\ obj'[o].stat = (IF got = "STOK" THEN obj[o].id ELSE obj[o].stat)
      /\ obj'[o].params = (got = "PMINITOK" \/ obj[o].params)
  BY <1>0, <1>3, DoneValue
<1>6. /\ obj'[o].stat = (IF c = "STINIT" THEN i ELSE obj[o].stat)
      /\ (obj'[o].params <=> c = "PMINIT" \/ obj[o].params)
  BY <1>1, <1>4, <1>5
<1>7. IF c = "STINIT" THEN var_db' = var_db ELSE var_db' = Deleted(i)
  BY <1>3, <1>4
<1>8. \A p \in Objects : p # o => obj'[p] = obj[p]
  BY <1>5
<1> QED
  BY <1>1, <1>2, <1>4, <1>5, <1>6, <1>7, <1>8

\* Return keeps the invariant
LEMMA ReturnKeeps ==
  ASSUME OK, NEW o \in Objects, Return(o)
  PROVE  OInv'
<1>0. TInv /\ sem_var = {} /\ UNCHANGED <<sem_var, stats, stats_q, statsman_q, lost, app_db, cmds, env>>
  BY DEF Return, OK
<1>1. PICK i \in VarIds, c \in Calls :
        /\ i = obj[o].id /\ c = obj[o].call /\ Owns(o, KindOf(c), i) /\ KindOf(c) \in Kinds
        /\ var_db[i].opts = Good[c] /\ obj[o].on
        /\ IF c = "STINIT" THEN var_db' = var_db ELSE var_db' = Deleted(i)
        /\ \A p \in Objects : p # o => obj'[p] = obj[p]
        /\ obj'[o].call = "" /\ obj'[o].id = 0 /\ obj'[o].on = obj[o].on /\ obj'[o].life = obj[o].life
        /\ obj'[o].stat = (IF c = "STINIT" THEN i ELSE obj[o].stat)
        /\ (obj'[o].params <=> c = "PMINIT" \/ obj[o].params)
  BY ReturnValue
<1>2. PICK k \in Kinds : k = KindOf(c)
  BY <1>1
<1>a. Owns(o, k, i) /\ var_db[i].opts = Good[c]
  BY <1>1, <1>2
<1>b. /\ \A p \in Objects : p # o => obj'[p] = obj[p]
      /\ obj'[o].call = "" /\ obj'[o].id = 0 /\ obj'[o].on = obj[o].on /\ obj'[o].life = obj[o].life
      /\ obj'[o].stat = (IF c = "STINIT" THEN i ELSE obj[o].stat)
      /\ (obj'[o].params <=> c = "PMINIT" \/ obj[o].params)
  BY <1>1
<1>3. /\ \A j \in VarIds : /\ var_db'[j].of = var_db[j].of /\ var_db'[j].opts = var_db[j].opts
                           /\ j # i \/ c = "STINIT" => var_db'[j] = var_db[j]
      /\ c # "STINIT" => ~var_db'[i].used
  <2>1. CASE c = "STINIT"
    BY <1>1, <2>1
  <2>2. CASE c # "STINIT"
    <3>1. var_db' = Deleted(i)
      BY <1>1, <2>2
    <3> QED
      BY <1>0, <2>2, <3>1, DeletedKeeps
  <2> QED
    BY <2>1, <2>2
<1>4. \A p, l, j : j \in VarIds => (Owns(p, l, j)' <=> Owns(p, l, j) /\ (j # i \/ c = "STINIT"))
  BY <1>3 DEF Owns
<1>5. \A p \in Objects : ObjId(p)' = ObjId(p)
  BY <1>b DEF ObjId
<1>6. Table /\ OneEach /\ Mail /\ Seeing /\ sem_var = {} /\ \A p \in Objects : Called(p) /\ Open(p)
  BY DEF OK, OInv
<1>7. sem_var' = {} /\ env' = env /\ app_db' = app_db /\ stats_q' = stats_q /\ statsman_q' = statsman_q
      /\ reports' = reports /\ max_report_idx' = max_report_idx /\ at' = at /\ seen' = seen
  BY <1>0 DEF stats
<1>8. /\ \A p \in Objects, l \in Kinds : Owns(p, l, i) => p = o /\ l = k
      /\ \A j \in VarIds : Owns(o, k, j) => j = i
  <2>1. \A p \in Objects, l \in Kinds : Owns(p, l, i) => p = o /\ l = k
    BY <1>a, OwnsOne
  <2> QED
    BY <1>6, <1>a, <2>1 DEF OneEach
<1>9. i # 0 /\ Good[c] \notin Closes /\ Good[c] # "" /\ Good[c] \notin Requests /\ c # ""
      /\ (c = "STINIT" => k = "stat" /\ Good[c] = "STOK")
      /\ (c # "STINIT" => k = "params" /\ Good[c] # "STOK" /\ c \in {"PMINIT", "PMGET"})
      /\ (c = "PMINIT" => Good[c] = "PMINITOK")
  <2>1. i # 0
    BY <1>0, ConstantFacts
  <2> QED
    BY <1>2, <2>1, CallFacts DEF KindOf, Closes, Requests
<1>10. Called(o) /\ obj[o].call = c /\ obj[o].id = i
  BY <1>1, <1>6
<1>11. /\ c = "STINIT" => obj[o].stat = 0 /\ app_db[o].stats = <<i>>
       /\ c = "PMINIT" => ~obj[o].params /\ app_db[o].params
       /\ c = "PMGET" => obj[o].params
  BY <1>9, <1>10, <1>a DEF Called
<1>12. Table'
  <2> SUFFICES ASSUME NEW p \in Objects, NEW l \in Kinds, NEW j \in VarIds, Owns(p, l, j)' PROVE Kept(p, l, j)'
    BY DEF Table, Kept
  <2>1. Owns(p, l, j) /\ Kept(p, l, j) /\ (j # i \/ c = "STINIT")
    BY <1>4, <1>6 DEF Table
  <2>2. var_db'[j].opts = var_db[j].opts /\ var_db'[j].obj = var_db[j].obj /\ ObjId(p)' = ObjId(p) /\ env' = env
    BY <1>3, <1>5, <1>7, <2>1
  <2>3. CASE p # o
    <3>1. obj'[p] = obj[p]
      BY <1>b, <2>3
    <3> QED
      BY <2>1, <2>2, <3>1 DEF Kept
  <2>4. CASE p = o /\ j = i
    <3>1. obj'[o].stat = i /\ var_db[i].opts \notin Closes
      BY <1>9, <1>a, <1>b, <2>1, <2>4
    <3> QED
      BY <2>1, <2>2, <2>4, <3>1 DEF Kept, Closes
  <2>5. CASE p = o /\ j # i
    <3>1. l # k
      BY <1>8, <2>1, <2>5
    <3>2. var_db[j].opts \in Closes \/ obj[o].stat = j
      BY <1>10, <2>1, <2>5 DEF Kept
    <3>3. j # 0
      BY <1>0, ConstantFacts
    <3>4. var_db[j].opts \in Closes \/ obj'[o].stat = j
      BY <1>11, <1>b, <3>2, <3>3
    <3>5. var_db[j].opts = "STCLOSE" => l = "stat" /\ obj'[o].stat = 0
      BY <1>9, <1>b, <2>1, <2>5, <3>1 DEF Kept
    <3>6. var_db[j].opts = "PMCLOSE" => l = "params" /\ ~obj'[o].params
      BY <1>9, <1>b, <2>1, <2>5, <3>1 DEF Kept
    <3> QED
      BY <1>b, <2>1, <2>2, <2>5, <3>4, <3>5, <3>6 DEF Kept
  <2> QED
    BY <2>3, <2>4, <2>5
<1>13. OneEach'
  BY <1>4, <1>6 DEF OneEach
<1>14. ASSUME NEW p \in Objects PROVE Called(p)'
  <2>1. CASE p = o
    BY <1>b, <2>1 DEF Called
  <2>2. CASE p # o
    <3>1. Called(p) /\ obj'[p] = obj[p]
      BY <1>6, <1>b, <2>2
    <3>2. CASE obj[p].call = ""
      BY <3>1, <3>2 DEF Called
    <3>3. CASE obj[p].call # ""
      <4>1. PICK j \in VarIds, l \in Kinds : j = obj[p].id /\ l = KindOf(obj[p].call) /\ Owns(p, l, j)
        BY <3>3, CallOf
      <4>2. j # i
        BY <1>8, <2>2, <4>1
      <4>3. var_db'[j] = var_db[j]
        BY <1>3, <4>2
      <4> QED
        BY <1>7, <3>1, <4>1, <4>3 DEF Called, Owns
    <3> QED
      BY <3>2, <3>3
  <2> QED
    BY <2>1, <2>2
<1>15. ASSUME NEW p \in Objects PROVE Open(p)'
  <2>0. Open(p)
    BY <1>6
  <2>1. ASSUME obj[p].stat # 0
        PROVE  obj[p].stat \in VarIds /\ var_db'[obj[p].stat] = var_db[obj[p].stat]
    <3>1. PICK j \in VarIds : j = obj[p].stat /\ Owns(p, "stat", j)
      BY <2>1, StatOf
    <3>2. "stat" \in Kinds
      BY DEF Kinds
    <3>3. j # i \/ c = "STINIT"
      BY <1>8, <1>9, <3>1, <3>2
    <3> QED
      BY <1>3, <3>1, <3>3
  <2>2. CASE p # o
    <3>1. obj'[p] = obj[p]
      BY <1>b, <2>2
    <3> QED
      BY <1>7, <2>0, <2>1, <3>1 DEF Open, Owns
  <2>3. CASE p = o
    <3>1. obj'[o].params => obj'[o].on /\ app_db'[o].params /\ "params" \in env'.uses[o]
      <4>1. CASE c = "PMINIT"
        <5>1. k \in env.uses[o]
          BY <1>a, OwnedBy
        <5> QED
          BY <1>1, <1>7, <1>9, <1>11, <1>b, <4>1, <5>1
      <4>2. CASE c # "PMINIT"
        BY <1>7, <1>b, <2>0, <2>3, <4>2 DEF Open
      <4> QED
        BY <4>1, <4>2
    <3>2. CASE c = "STINIT"
      <4>1. obj'[o].stat = i /\ var_db'[i] = var_db[i] /\ obj'[o].on
        BY <1>1, <1>3, <1>b, <3>2
      <4>2. Owns(o, "stat", i) /\ var_db[i].opts = "STOK" /\ app_db'[o].stats = <<i>>
        BY <1>7, <1>9, <1>11, <1>a, <3>2
      <4> QED
        BY <2>3, <3>1, <4>1, <4>2 DEF Open, Owns
    <3>3. CASE c # "STINIT"
      <4>1. obj'[o].stat = obj[o].stat /\ obj'[o].on = obj[o].on /\ app_db' = app_db
        BY <1>7, <1>b, <3>3
      <4> QED
        BY <2>0, <2>1, <2>3, <3>1, <4>1 DEF Open, Owns
    <3> QED
      BY <3>2, <3>3
  <2> QED
    BY <2>2, <2>3
<1>16. ASSUME NEW m, NEW d, m.of \in Objects, Carried(m, d) PROVE Carried(m, d)'
  <2>1. m.id \in VarIds /\ m.id # i /\ m.of # o
    BY <1>9, <1>10, <1>16, <1>a DEF Carried
  <2>2. var_db'[m.id] = var_db[m.id]
    BY <1>3, <2>1
  <2>3. obj'[m.of] = obj[m.of]
    BY <1>b, <1>16, <2>1
  <2> QED
    BY <1>5, <1>16, <2>2, <2>3 DEF Carried
<1>17. Mail'
  <2>1. ASSUME NEW m \in Range(statsman_q) PROVE Request(m)'
    <3>0. m \in Range(stats_q) \cup Range(statsman_q)
      OBVIOUS
    <3>1. Request(m) /\ m.of \in Objects
      BY <1>0, <1>6, <3>0, MailFacts DEF Mail
    <3>2. m.cmd \in Calls => Carried(m, m.cmd)'
      BY <1>16, <3>1 DEF Request
    <3>3. ObjId(m.of)' = ObjId(m.of) /\ app_db'[m.of] = app_db[m.of]
      BY <1>5, <1>7, <3>1
    <3>4. ASSUME m.cmd = "PMCLOSE"
          PROVE  m.obj = ObjId(m.of) /\ ~obj'[m.of].params /\ obj'[m.of].call \notin {"PMINIT", "PMGET"}
      <4>1. m.obj = ObjId(m.of) /\ ~obj[m.of].params /\ obj[m.of].call \notin {"PMINIT", "PMGET"}
        BY <3>1, <3>4 DEF Request
      <4>2. CASE m.of = o
        BY <1>10, <1>b, <4>1, <4>2
      <4>3. CASE m.of # o
        BY <1>b, <3>1, <4>1, <4>3
      <4> QED
        BY <4>2, <4>3
    <3>5. ASSUME m.cmd = "STCLOSE", m.obj = ObjId(m.of)
          PROVE  /\ obj'[m.of].stat = 0 /\ obj'[m.of].call # "STINIT"
                 /\ \A j \in VarIds : Owns(m.of, "stat", j)' => var_db'[j].opts = "STCLOSE"
      <4>1. /\ obj[m.of].stat = 0 /\ obj[m.of].call # "STINIT"
            /\ \A j \in VarIds : Owns(m.of, "stat", j) => var_db[j].opts = "STCLOSE"
        BY <3>1, <3>5 DEF Request
      <4>2. \A j \in VarIds : Owns(m.of, "stat", j)' => var_db'[j].opts = "STCLOSE"
        BY <1>3, <1>4, <4>1
      <4>3. obj'[m.of].stat = 0 /\ obj'[m.of].call # "STINIT"
        <5>1. CASE m.of = o
          BY <1>10, <1>b, <4>1, <5>1
        <5>2. CASE m.of # o
          BY <1>b, <3>1, <4>1, <5>2
        <5> QED
          BY <5>1, <5>2
      <4> QED
        BY <4>2, <4>3
    <3> QED
      BY <3>1, <3>2, <3>3, <3>4, <3>5 DEF Request
  <2>2. ASSUME NEW m \in Range(stats_q) PROVE Answer(m)'
    <3>0. m \in Range(stats_q) \cup Range(statsman_q)
      OBVIOUS
    <3>1. Answer(m) /\ m.of \in Objects
      BY <1>0, <1>6, <3>0, MailFacts DEF Mail
    <3>2. m.cmd \in Answers => \E d \in Calls : m.cmd = Good[d] /\ Carried(m, d)'
      BY <1>16, <3>1 DEF Answer
    <3> QED
      BY <1>7, <3>1, <3>2 DEF Answer
  <2> QED
    BY <1>7, <2>1, <2>2 DEF Mail
<1>18. ASSUME NEW p \in Objects PROVE Recorded(p)'
  <2>1. ClosesParams(p)' <=> ClosesParams(p)
    BY <1>5, <1>7 DEF ClosesParams
  <2>2. \A j \in VarIds : ClosesStat(p, j)' <=> ClosesStat(p, j)
    BY <1>5, <1>7 DEF ClosesStat, Msg
  <2>3. \A j \in VarIds : Leaving(j) <=> Leaving(j)'
    BY <1>7 DEF Leaving
  <2>4. \A j \in VarIds : Owns(p, "stat", j)' <=> Owns(p, "stat", j)
    <3>1. \A j \in VarIds : Owns(p, "stat", j) => j # i \/ c = "STINIT"
      BY <1>8, <1>9 DEF Kinds
    <3> QED
      BY <1>4, <3>1
  <2>8. \A j \in VarIds : Owns(p, "params", j) /\ var_db[j].opts = "PMCLOSE"
                            => Owns(p, "params", j)' /\ var_db'[j].opts = "PMCLOSE"
    BY <1>3, <1>4, <1>9, <1>a DEF Closes
  <2>9. (obj[p].params \/ obj[p].call = "PMINIT") => (obj'[p].params \/ obj'[p].call = "PMINIT")
    <3>1. CASE p = o
      BY <1>10, <1>b, <3>1
    <3>2. CASE p # o
      BY <1>b, <3>2
    <3> QED
      BY <3>1, <3>2
  <2>5. Stays(p) => Stays(p)'
    BY <2>1, <2>3, <2>8, <2>9 DEF Stays
  <2>6. ObjId(p)' = ObjId(p) /\ app_db'[p] = app_db[p]
    BY <1>5, <1>7
  <2>7. \A j \in VarIds : (Owns(p, "stat", j) /\ ~Leaving(j)) \/ ClosesStat(p, j)
                           => (Owns(p, "stat", j)' /\ ~Leaving(j)') \/ ClosesStat(p, j)'
    BY <2>2, <2>3, <2>4
  <2> QED
    BY <2>5, <2>6, <2>7, RecordKept
<1>19. Seeing'
  <2>1. CASE seen = ""
    BY <1>7, <2>1 DEF Seeing
  <2>2. CASE seen # ""
    <3>1. PICK j \in VarIds : j = at
      BY <2>2, SeenFacts
    <3>2. j # i
      <4>1. var_db[j].opts \in IF seen = "delete" THEN Closes ELSE {seen}
        BY <2>2, <3>1, SeenFacts
      <4>2. seen \in Requests \cup {"", "delete"}
        BY <1>0, TypeFacts
      <4> QED
        BY <1>9, <1>a, <2>2, <4>1, <4>2
    <3>3. var_db'[j] = var_db[j]
      BY <1>3, <3>2
    <3> QED
      BY <1>6, <1>7, <3>1, <3>3 DEF Seeing
  <2> QED
    BY <2>1, <2>2
<1>20. Alone(stats_q, statsman_q)' /\ Reporting'
  <2>1. Alone(stats_q, statsman_q) /\ Reporting
    BY DEF OK, OInv
  <2>2. Alone(stats_q, statsman_q)'
    BY <1>7, <2>1 DEF Alone, IsCall
  <2> QED
    BY <1>7, <2>1, <2>2 DEF Reporting, Used
<1> QED
  BY <1>7, <1>12, <1>13, <1>14, <1>15, <1>17, <1>18, <1>19, <1>20 DEF OInv

\* STATSMAN takes a request: only the record of that object may change
Takes(m, o) ==
  /\ statsman_q # <<>> /\ m = Head(statsman_q) /\ o = m.of /\ statsman_q' = Tail(statsman_q)
  /\ UNCHANGED <<var_db, objects, stats, cmds, env>>
  /\ \A p \in Objects : p # o => app_db'[p] = app_db[p]
\* what is said of the record still holds
StillRight(m, o) ==
  /\ Called(o)' /\ Open(o)' /\ Recorded(o)'
  /\ \A p \in Range(statsman_q)' : p.of = o /\ p.cmd = "STINIT" => app_db'[o].stats = <<>>
  /\ \A p \in Range(stats_q) : p.of = o /\ p.cmd = "STOK" => app_db'[o].stats = <<p.id>>
  /\ \A p \in Range(stats_q) : p.of = o /\ p.cmd = "PMINITOK" => app_db'[o].params

\* the request, and those that stay
LEMMA HeadFacts ==
  ASSUME OK, NEW m, NEW o, Takes(m, o)
  PROVE  /\ m \in ToStatsman /\ o \in Objects /\ m \in Range(statsman_q) /\ Request(m)
         /\ m.id \in 0..MaxVars /\ m.obj \in ObjIds \cup {NoObj}
         /\ Range(statsman_q)' \subseteq Range(statsman_q)
         /\ \A p \in Range(statsman_q) : p # m => p \in Range(statsman_q)'
         /\ \A p \in Range(stats_q) \cup Range(statsman_q)' : IsCall(m) /\ IsCall(p) => p.id # m.id
<1>0. TInv /\ Mail /\ stats_q \in Seq(ToStats) /\ statsman_q \in Seq(ToStatsman) /\ Alone(stats_q, statsman_q)
  BY TypeFacts DEF OK, OInv
<1>1. statsman_q # <<>> /\ m = Head(statsman_q) /\ o = m.of /\ statsman_q' = Tail(statsman_q)
  BY DEF Takes
<1>2. m \in ToStatsman
  BY <1>0, <1>1, TakenFrom
<1>3. /\ Range(Tail(statsman_q)) \subseteq Range(statsman_q) /\ m \in Range(statsman_q)
      /\ \A p \in Range(statsman_q) : p = m \/ p \in Range(Tail(statsman_q))
  BY <1>0, <1>1, RangeTail
<1>4. \A p \in Range(Tail(statsman_q)) \cup Range(stats_q) : IsCall(m) /\ IsCall(p) => p.id # m.id
  <2>1. stats_q \in Seq(ToStats \cup ToStatsman) /\ statsman_q \in Seq(ToStats \cup ToStatsman)
    BY <1>0
  <2>2. Alone(statsman_q, stats_q)
    BY <1>0, AloneBoth
  <2> HIDE DEF ToStats, ToStatsman
  <2> QED
    BY <1>1, <2>1, <2>2, AloneTailQ
<1>5. o \in Objects /\ m.id \in 0..MaxVars /\ m.obj \in ObjIds \cup {NoObj}
  BY <1>1, <1>2 DEF ToStatsman, Msgs
<1> QED
  BY <1>0, <1>1, <1>2, <1>3, <1>4, <1>5 DEF Mail

\* then the rest of the invariant holds as well
LEMMA TakeKeeps ==
  ASSUME OK, NEW m, NEW o, Takes(m, o), StillRight(m, o)
  PROVE  /\ Table' /\ OneEach' /\ Seeing' /\ Reporting' /\ sem_var' = {}
         /\ \A p \in Objects : Called(p)' /\ Open(p)' /\ Recorded(p)'
         /\ \A p \in Range(statsman_q)' : Request(p)'
         /\ \A p \in Range(stats_q) : Answer(p)'
<1>0. TInv /\ Mail /\ Seeing /\ Reporting /\ sem_var = {}
  BY DEF OK, OInv
<1>1. /\ var_db' = var_db /\ obj' = obj /\ env' = env /\ sem_var' = sem_var /\ at' = at /\ seen' = seen
      /\ reports' = reports /\ max_report_idx' = max_report_idx
  BY DEF Takes, objects, stats
<1>2. /\ o \in Objects /\ o = m.of /\ \A p \in Objects : p # o => app_db'[p] = app_db[p]
  BY HeadFacts DEF Takes
<1>3. /\ Table' /\ OneEach' /\ \A p \in Objects : ObjId(p)' = ObjId(p)
      /\ \A p, k, i : Owns(p, k, i)' <=> Owns(p, k, i)
      /\ \A p, c : Carried(p, c)' <=> Carried(p, c)
  BY <1>1, SameVars
<1>4. ASSUME NEW p \in Objects PROVE Called(p)' /\ Open(p)' /\ Recorded(p)'
  <2>1. CASE p = o
    BY <2>1 DEF StillRight
  <2>2. CASE p # o
    <3>1. Called(p) /\ Open(p) /\ app_db'[p] = app_db[p]
      BY <1>2, <2>2 DEF OK, OInv
    <3>2. Called(p)'
      BY <1>1, <3>1 DEF Called, Owns
    <3>3. Open(p)'
      BY <1>1, <3>1 DEF Open, Owns
    <3>4. \A r \in Range(statsman_q) : r.of = p => r \in Range(statsman_q)'
      BY <1>2, <2>2, HeadFacts
    <3>5. ClosesParams(p) => ClosesParams(p)'
      BY <1>3, <3>4 DEF ClosesParams
    <3>6. \A i \in VarIds : ClosesStat(p, i) => ClosesStat(p, i)'
      <4>1. \A i \in VarIds : Msg("STCLOSE", p, ObjId(p), i).of = p /\ Msg("STCLOSE", p, ObjId(p)', i) = Msg("STCLOSE", p, ObjId(p), i)
        BY <1>3 DEF Msg
      <4> QED
        BY <3>4, <4>1 DEF ClosesStat, Msg
    <3>7. \A i \in VarIds : Leaving(i)' <=> Leaving(i)
      BY <1>1 DEF Leaving
    <3>8. Stays(p) => Stays(p)'
      BY <1>1, <1>3, <3>5, <3>7 DEF Stays
    <3>9. \A i \in VarIds : (Owns(p, "stat", i) /\ ~Leaving(i)) \/ ClosesStat(p, i)
                              => (Owns(p, "stat", i)' /\ ~Leaving(i)') \/ ClosesStat(p, i)'
      BY <1>3, <3>6, <3>7
    <3>10. Recorded(p)'
      BY <1>3, <3>1, <3>8, <3>9, RecordKept
    <3> QED
      BY <3>2, <3>3, <3>10
  <2> QED
    BY <2>1, <2>2
<1>5. ASSUME NEW p \in Range(statsman_q)' PROVE Request(p)'
  <2>1. p \in Range(statsman_q)
    BY HeadFacts
  <2>2. p \in Range(stats_q) \cup Range(statsman_q)
    BY <2>1
  <2>3. Request(p) /\ p.of \in Objects
    BY <1>0, <2>1, <2>2, MailFacts DEF Mail
  <2>4. p.cmd = "STINIT" => app_db'[p.of].stats = <<>>
    <3>1. CASE p.of = o
      BY <3>1 DEF StillRight
    <3>2. CASE p.of # o
      BY <1>2, <2>3, <3>2 DEF Request
    <3> QED
      BY <3>1, <3>2
  <2>5. ObjId(p.of)' = ObjId(p.of) /\ (Carried(p, p.cmd)' <=> Carried(p, p.cmd))
    BY <1>3, <2>3
  <2>6. \A i : Owns(p.of, "stat", i)' <=> Owns(p.of, "stat", i)
    BY <1>3
  <2> QED
    BY <1>1, <2>3, <2>4, <2>5, <2>6 DEF Request
<1>6. ASSUME NEW p \in Range(stats_q) PROVE Answer(p)'
  <2>2. p \in Range(stats_q) \cup Range(statsman_q)
    OBVIOUS
  <2>3. Answer(p) /\ p.of \in Objects
    BY <1>0, <2>2, MailFacts DEF Mail
  <2>4. (p.cmd = "STOK" => app_db'[p.of].stats = <<p.id>>) /\ (p.cmd = "PMINITOK" => app_db'[p.of].params)
    <3>1. CASE p.of = o
      BY <3>1 DEF StillRight
    <3>2. CASE p.of # o
      BY <1>2, <2>3, <3>2 DEF Answer
    <3> QED
      BY <3>1, <3>2
  <2>5. \A c : Carried(p, c)' <=> Carried(p, c)
    BY <1>3
  <2> QED
    BY <2>3, <2>4, <2>5 DEF Answer
<1>7. Seeing' /\ Reporting' /\ sem_var' = {}
  BY <1>0, <1>1 DEF Seeing, Reporting, Used
<1> QED
  BY <1>3, <1>4, <1>5, <1>6, <1>7

\* ... and sends the answer, or none
LEMMA AnswerKeeps ==
  ASSUME OK, NEW m, NEW o, Takes(m, o), StillRight(m, o),
         \/ stats_q' = stats_q
         \/ \E a \in ToStats : /\ stats_q' = Append(stats_q, a) /\ Answer(a)'
                               /\ IsCall(a) => IsCall(m) /\ a.id = m.id
  PROVE  OInv'
<1>0. /\ stats_q \in Seq(ToStats) /\ statsman_q \in Seq(ToStatsman) /\ Alone(stats_q, statsman_q)
      /\ statsman_q # <<>> /\ m = Head(statsman_q) /\ statsman_q' = Tail(statsman_q)
  BY TypeFacts DEF OK, OInv, Takes
<1>1. /\ Table' /\ OneEach' /\ Seeing' /\ Reporting' /\ sem_var' = {}
      /\ \A p \in Objects : Called(p)' /\ Open(p)' /\ Recorded(p)'
      /\ \A p \in Range(statsman_q)' : Request(p)'
      /\ \A p \in Range(stats_q) : Answer(p)'
  BY TakeKeeps
<1>2. \A p \in Range(stats_q) \cup Range(statsman_q)' : IsCall(m) /\ IsCall(p) => p.id # m.id
  BY HeadFacts
<1>3. Tail(statsman_q) \in Seq(ToStats \cup ToStatsman) /\ stats_q \in Seq(ToStats \cup ToStatsman)
  BY <1>0
<1>4. Alone(stats_q, Tail(statsman_q))
  <2>1. statsman_q \in Seq(ToStats \cup ToStatsman)
    BY <1>0
  <2>2. Alone(statsman_q, stats_q)
    BY <1>0, AloneBoth
  <2>3. Alone(Tail(statsman_q), stats_q)
    <3> HIDE DEF ToStats, ToStatsman
    <3> QED
      BY <1>0, <1>3, <2>1, <2>2, AloneTailQ
  <2> QED
    BY <2>3, AloneBoth
<1>5. CASE stats_q' = stats_q
  <2>1. Alone(stats_q, statsman_q)'
    BY <1>0, <1>4, <1>5 DEF Alone, IsCall
  <2>2. Mail'
    BY <1>1, <1>5 DEF Mail
  <2> QED
    BY <1>1, <2>1, <2>2 DEF OInv
<1>6. ASSUME NEW a \in ToStats, stats_q' = Append(stats_q, a), Answer(a)', IsCall(a) => IsCall(m) /\ a.id = m.id
      PROVE  OInv'
  <2>1. Range(stats_q') = Range(stats_q) \cup {a}
    BY <1>0, <1>6, RangeAppend
  <2>2. Mail'
    BY <1>1, <1>6, <2>1 DEF Mail
  <2>3. \A p \in Range(stats_q) \cup Range(Tail(statsman_q)) : IsCall(a) /\ IsCall(p) => a.id # p.id
    BY <1>0, <1>2, <1>6
  <2>4. Alone(Append(stats_q, a), Tail(statsman_q))
    <3>1. a \in ToStats \cup ToStatsman
      OBVIOUS
    <3> HIDE DEF ToStats, ToStatsman
    <3> QED
      BY <1>3, <1>4, <2>3, <3>1, AloneAppend
  <2>5. Alone(stats_q, statsman_q)'
    BY <1>0, <1>6, <2>4 DEF Alone, IsCall
  <2> QED
    BY <1>1, <2>2, <2>5 DEF OInv
<1> QED
  BY <1>5, <1>6

\* removing the only statistic of a record
LEMMA RemovedOnly ==
  ASSUME NEW i \in Nat
  PROVE  RemoveFirst(<<i>>, i) = <<>> /\ RemoveFirst(<<>>, i) = <<>>
<1> DEFINE s == <<i>>
           k == SelectInSeq(s, LAMBDA v : v = i)
<1>1. s \in Seq(Nat) /\ Len(s) = 1 /\ s[1] = i
  OBVIOUS
<1>2. 1..Len(s) = {1}
  BY <1>1
<1>3. k = 1
  <2> DEFINE I == {n \in 1..Len(s) : s[n] = i}
  <2>1. I = {1}
    BY <1>1, <1>2
  <2>2. k = Min(I)
    BY <2>1 DEF SelectInSeq
  <2> HIDE DEF I, k
  <2>3. k \in I
    BY <2>1, <2>2 DEF Min
  <2> QED
    BY <2>1, <2>3
<1>4. RemoveFirst(s, i) = RemoveAt(s, k)
  BY <1>1, <1>2 DEF RemoveFirst
<1> HIDE DEF k
<1>5. RemoveAt(s, k) = SubSeq(s, 1, 0) \o SubSeq(s, 2, 1)
  BY <1>1, <1>3 DEF RemoveAt
<1>6. SubSeq(s, 1, 0) = <<>> /\ SubSeq(s, 2, 1) = <<>>
  BY <1>1
<1>7. RemoveFirst(<<>>, i) = <<>>
  BY DEF RemoveFirst
<1> QED
  BY <1>4, <1>5, <1>6, <1>7

\* a record is of the object as it is now, if there is anything on it
LEMMA RecordOf ==
  ASSUME OK, NEW o \in Objects
  PROVE  /\ app_db[o] \in EntryRecs /\ app_db[o].params \in BOOLEAN /\ ObjId(o) # NoObj
         /\ app_db[o] # None => app_db[o].obj = ObjId(o) /\ ~Nothing(app_db[o])
         /\ app_db[o] = None => app_db[o].obj = NoObj /\ app_db[o].stats = <<>> /\ ~app_db[o].params
         /\ app_db[o].stats # <<>> => \E i \in VarIds : app_db[o].stats = <<i>>
<1>1. app_db \in [Objects -> EntryRecs]
  BY TypeFacts DEF OK
<1>2. app_db[o] \in EntryRecs
  BY <1>1
<1>3. app_db[o].params \in BOOLEAN
  BY <1>2 DEF EntryRecs
<1>4. ObjId(o) # NoObj
  BY DEF ObjId, NoObj
<1>5. Recorded(o)
  BY DEF OK, OInv
<1>6. app_db[o] = None => app_db[o].obj = NoObj /\ app_db[o].stats = <<>> /\ ~app_db[o].params
  BY DEF None
<1> QED
  BY <1>2, <1>3, <1>4, <1>5, <1>6 DEF Recorded

\* parameters that are served are served on, unless they are closed
LEMMA TakesStays ==
  ASSUME OK, NEW m, NEW o, Takes(m, o), Stays(o), m.cmd # "PMCLOSE"
  PROVE  Stays(o)'
<1>1. /\ var_db' = var_db /\ obj' = obj /\ at' = at /\ seen' = seen
  BY DEF Takes, objects, stats
<1>2. ObjId(o)' = ObjId(o) /\ \A i : Owns(o, "params", i)' <=> Owns(o, "params", i)
  BY <1>1 DEF ObjId, Owns
<1>3. \A p \in Range(statsman_q) : p # m => p \in Range(statsman_q)'
  BY HeadFacts
<1>4. ClosesParams(o) => ClosesParams(o)'
  BY <1>2, <1>3 DEF ClosesParams
<1>5. \A i : Leaving(i)' <=> Leaving(i)
  BY <1>1 DEF Leaving
<1> QED
  BY <1>1, <1>2, <1>4, <1>5 DEF Stays

\* a statistic on record is still open, or its request to close is still to come
LEMMA TakesStat ==
  ASSUME OK, NEW m, NEW o, Takes(m, o), NEW i \in VarIds,
         m.cmd # "STCLOSE" \/ m.id # i \/ m.obj # ObjId(o),
         (Owns(o, "stat", i) /\ ~Leaving(i)) \/ ClosesStat(o, i)
  PROVE  (Owns(o, "stat", i)' /\ ~Leaving(i)') \/ ClosesStat(o, i)'
<1>1. /\ var_db' = var_db /\ obj' = obj /\ at' = at /\ seen' = seen
  BY DEF Takes, objects, stats
<1>2. ObjId(o)' = ObjId(o) /\ (Owns(o, "stat", i)' <=> Owns(o, "stat", i))
  BY <1>1 DEF ObjId, Owns
<1>3. \A p \in Range(statsman_q) : p # m => p \in Range(statsman_q)'
  BY HeadFacts
<1>4. Msg("STCLOSE", o, ObjId(o), i) # m
  <2>1. /\ Msg("STCLOSE", o, ObjId(o), i).cmd = "STCLOSE" /\ Msg("STCLOSE", o, ObjId(o), i).id = i
        /\ Msg("STCLOSE", o, ObjId(o), i).obj = ObjId(o)
    BY DEF Msg
  <2> QED
    BY <2>1
<1>5. ClosesStat(o, i) => ClosesStat(o, i)'
  <2>1. Msg("STCLOSE", o, ObjId(o)', i) = Msg("STCLOSE", o, ObjId(o), i)
    BY <1>2
  <2> QED
    BY <1>3, <1>4, <2>1 DEF ClosesStat, Msg
<1>6. Leaving(i)' <=> Leaving(i)
  BY <1>1 DEF Leaving
<1> QED
  BY <1>2, <1>5, <1>6

\* packets about statistics are right where the statistics on record stay
LEMMA SameStats ==
  ASSUME OK, NEW m, NEW o, Takes(m, o), app_db'[o].stats = app_db[o].stats
  PROVE  /\ \A p \in Range(statsman_q)' : p.of = o /\ p.cmd = "STINIT" => app_db'[o].stats = <<>>
         /\ \A p \in Range(stats_q) : p.of = o /\ p.cmd = "STOK" => app_db'[o].stats = <<p.id>>
<1>1. Mail /\ Range(statsman_q)' \subseteq Range(statsman_q)
  BY HeadFacts DEF OK, OInv
<1> QED
  BY <1>1 DEF Mail, Request, Answer

\* packets about parameters are right where the parameters are served on
LEMMA SameParams ==
  ASSUME OK, NEW m, NEW o, Takes(m, o), app_db[o].params => app_db'[o].params
  PROVE  \A p \in Range(stats_q) : p.of = o /\ p.cmd = "PMINITOK" => app_db'[o].params
BY DEF OK, OInv, Mail, Answer

\* nothing of the record is lost, and what is added is right
LEMMA GrowsRight ==
  ASSUME OK, NEW m, NEW o, Takes(m, o), m.cmd \notin Closes,
         app_db'[o].params \in BOOLEAN,
         app_db'[o] # None => app_db'[o].obj = ObjId(o) /\ ~Nothing(app_db'[o]),
         \/ app_db'[o].stats = app_db[o].stats
         \/ m.cmd = "STINIT" /\ app_db'[o].stats = <<m.id>>,
         \/ app_db'[o].params = app_db[o].params
         \/ m.cmd = "PMINIT" /\ app_db'[o].params
  PROVE  StillRight(m, o)
<1>0. /\ var_db' = var_db /\ obj' = obj /\ at' = at /\ seen' = seen /\ env' = env /\ o = m.of
  BY DEF Takes, objects, stats
<1>1. o \in Objects /\ m \in Range(statsman_q) /\ Request(m) /\ m \in Range(stats_q) \cup Range(statsman_q)
  BY HeadFacts
<1>2. Called(o) /\ Open(o) /\ Recorded(o)
  BY <1>1 DEF OK, OInv
<1>3. ObjId(o)' = ObjId(o)
  BY <1>0 DEF ObjId
<1>4. ASSUME m.cmd \in {"STINIT", "PMINIT"}
      PROVE  /\ m.id \in VarIds /\ var_db[m.id].opts = "" /\ obj[o].call = m.cmd /\ obj[o].id = m.id
             /\ \A p \in Range(stats_q) \cup Range(statsman_q)' : p.cmd \in {"STINIT", "STOK"} => p.of # o
  <2>1. IsCall(m) /\ m.cmd \in Calls
    BY <1>4, CallFacts DEF IsCall
  <2>2. m.id \in VarIds /\ var_db[m.id].opts = "" /\ obj[o].call = m.cmd /\ obj[o].id = m.id
    BY <1>0, <1>1, <2>1 DEF Request, Carried
  <2>3. ASSUME NEW p \in Range(stats_q) \cup Range(statsman_q)', p.cmd \in {"STINIT", "STOK"} PROVE p.of # o
    <3>1. IsCall(p)
      BY <2>3, CallFacts DEF IsCall
    <3>2. p \in Range(stats_q) \cup Range(statsman_q) /\ p.id # m.id
      BY <2>1, <3>1, HeadFacts
    <3>3. obj[p.of].id = p.id
      BY <3>1, <3>2, CallMail
    <3> QED
      BY <2>2, <3>2, <3>3
  <2> QED
    BY <2>2, <2>3
<1>5. app_db[o].params => app_db'[o].params
  OBVIOUS
<1>6. Called(o)'
  <2>1. CASE m.cmd \in {"STINIT", "PMINIT"}
    <3>1. var_db[obj[o].id].opts = ""
      BY <1>4, <2>1
    <3> QED
      BY <1>0, <1>2, <3>1, CallFacts DEF Called, Owns
  <2>2. CASE m.cmd \notin {"STINIT", "PMINIT"}
    <3>1. app_db'[o].stats = app_db[o].stats
      BY <2>2
    <3> QED
      BY <1>0, <1>2, <1>5, <3>1 DEF Called, Owns
  <2> QED
    BY <2>1, <2>2
<1>7. Open(o)'
  <2>1. obj[o].stat # 0 => app_db'[o].stats = app_db[o].stats
    <3> SUFFICES ASSUME obj[o].stat # 0, m.cmd = "STINIT" PROVE FALSE
      OBVIOUS
    <3>1. obj[o].call = "STINIT"
      BY <1>4
    <3> QED
      BY <1>2, <3>1 DEF Called
  <2> QED
    BY <1>0, <1>2, <1>5, <2>1 DEF Open, Owns
<1>8. app_db'[o].params => Stays(o)'
  <2>1. CASE app_db'[o].params = app_db[o].params
    <3>1. app_db'[o].params => Stays(o)
      BY <1>2, <2>1 DEF Recorded
    <3> QED
      BY <3>1, TakesStays DEF Closes
  <2>2. CASE m.cmd = "PMINIT"
    <3>1. obj'[o].call = "PMINIT"
      BY <1>0, <1>4, <2>2
    <3> QED
      BY <3>1 DEF Stays
  <2> QED
    BY <2>1, <2>2
<1>9. ASSUME app_db'[o].stats # <<>>
      PROVE  \E i \in VarIds : app_db'[o].stats = <<i>> /\ ((Owns(o, "stat", i)' /\ ~Leaving(i)') \/ ClosesStat(o, i)')
  <2>1. CASE app_db'[o].stats = app_db[o].stats
    <3>1. PICK i \in VarIds : app_db[o].stats = <<i>> /\ ((Owns(o, "stat", i) /\ ~Leaving(i)) \/ ClosesStat(o, i))
      BY <1>2, <1>9, <2>1 DEF Recorded
    <3>2. (Owns(o, "stat", i)' /\ ~Leaving(i)') \/ ClosesStat(o, i)'
      BY <3>1, TakesStat DEF Closes
    <3> QED
      BY <2>1, <3>1, <3>2
  <2>2. CASE m.cmd = "STINIT" /\ app_db'[o].stats = <<m.id>>
    <3>1. PICK i \in VarIds : i = m.id /\ var_db[i].opts = "" /\ obj[o].call = "STINIT" /\ obj[o].id = i
      BY <1>4, <2>2
    <3>2. Owns(o, "stat", i)
      BY <1>1, <3>1, CallOf DEF KindOf
    <3>3. ~Leaving(i)
      <4> SUFFICES ASSUME Leaving(i) PROVE FALSE
        OBVIOUS
      <4>1. seen = "delete" /\ at = i
        BY DEF Leaving
      <4>2. var_db[i].opts \in Closes
        BY <4>1, SeenFacts
      <4> QED
        BY <3>1, <4>2 DEF Closes
    <3>4. Owns(o, "stat", i)' /\ ~Leaving(i)'
      BY <1>0, <3>2, <3>3 DEF Owns, Leaving
    <3> QED
      BY <2>2, <3>1, <3>4
  <2> QED
    BY <2>1, <2>2
<1>10. Recorded(o)'
  BY <1>3, <1>8, <1>9 DEF Recorded
<1>11. /\ \A p \in Range(statsman_q)' : p.of = o /\ p.cmd = "STINIT" => app_db'[o].stats = <<>>
       /\ \A p \in Range(stats_q) : p.of = o /\ p.cmd = "STOK" => app_db'[o].stats = <<p.id>>
  <2>1. CASE app_db'[o].stats = app_db[o].stats
    BY <2>1, SameStats
  <2>2. CASE m.cmd = "STINIT"
    BY <1>4, <2>2
  <2> QED
    BY <2>1, <2>2
<1> QED
  BY <1>5, <1>6, <1>7, <1>10, <1>11, SameParams DEF StillRight

\* statsman_incmd_init keeps the invariant
LEMMA TakesInit ==
  ASSUME OK, ~lost', NEW m, NEW o, Takes(m, o), statsman_incmd_init(m)
  PROVE  OInv'
<1>0. TInv /\ o = m.of
  BY DEF OK, Takes
<1>1. /\ o \in Objects /\ m \in ToStatsman /\ m \in Range(statsman_q) /\ Request(m) /\ m.id \in 0..MaxVars
      /\ m.obj \in ObjIds \cup {NoObj}
  BY HeadFacts
<1>2. m.cmd \in {"STINIT", "PMINIT"}
  BY DEF statsman_incmd_init
<1>3. PICK c \in Calls : c = m.cmd /\ c \in {"STINIT", "PMINIT"}
  BY <1>2, CallFacts
<1>4. Carried(m, c)
  BY <1>1, <1>3 DEF Request
<1>5. m.id \in VarIds /\ m.obj = ObjId(o) /\ obj[o].call = c /\ obj[o].id = m.id
  BY <1>0, <1>4 DEF Carried
<1>6. PICK i \in VarIds : i = m.id
  BY <1>5
<1>7. /\ app_db[o] \in EntryRecs /\ ObjId(o) # NoObj
      /\ app_db[o] # None => app_db[o].obj = ObjId(o) /\ ~Nothing(app_db[o])
      /\ app_db[o] = None => app_db[o].obj = NoObj /\ app_db[o].stats = <<>> /\ ~app_db[o].params
  BY <1>1, RecordOf
<1>8. PICK e \in EntryRecs : e = Entry(m)
  BY <1>0, <1>1, EntryFacts
<1>9. e.obj = ObjId(o) /\ e.stats = app_db[o].stats /\ e.params = app_db[o].params
  <2>1. CASE app_db[o] = None
    <3>1. e = [None EXCEPT !.obj = m.obj]
      BY <1>0, <1>8, <2>1 DEF Entry
    <3> QED
      BY <1>5, <2>1, <3>1 DEF None
  <2>2. CASE app_db[o] # None
    BY <1>0, <1>7, <1>8, <2>2 DEF Entry
  <2> QED
    BY <2>1, <2>2
<1>10. c = "PMINIT" => o \in env.params
  <2> SUFFICES ASSUME c = "PMINIT" PROVE o \in env.params
    OBVIOUS
  <2>1. obj[o].call # "" /\ KindOf(obj[o].call) = "params"
    BY <1>5 DEF KindOf
  <2>2. PICK k \in Kinds, j \in VarIds : k = "params" /\ Owns(o, k, j)
    BY <1>1, <2>1, CallOf
  <2>3. k \in env.uses[o]
    BY <1>1, <2>2, OwnedBy
  <2> QED
    BY <1>1, <2>2, <2>3 DEF OK, Orderly
<1>11. c = "STINIT" => app_db[o].stats = <<>>
  BY <1>0, <1>1, <1>3 DEF Request
<1> DEFINE n == IF c = "STINIT" THEN [e EXCEPT !.stats = <<i>> \o RemoveFirst(e.stats, i)]
                                ELSE [e EXCEPT !.params = o \in env.params]
<1>12. app_db'[o] = n
  <2>1. app_db' = [app_db EXCEPT ![o] = n]
    BY <1>0, <1>3, <1>6, <1>8 DEF statsman_incmd_init
  <2>2. app_db \in [Objects -> EntryRecs]
    BY <1>0, TypeFacts
  <2> HIDE DEF n
  <2> QED
    BY <1>1, <2>1, <2>2
<1>13. /\ n.obj = ObjId(o)
       /\ c = "STINIT" => n.stats = <<i>> /\ n.params = e.params
       /\ c # "STINIT" => n.stats = e.stats /\ n.params = (o \in env.params)
  <2>1. CASE c = "STINIT"
    <3>1. i \in Nat
      BY <1>0, <1>6, ConstantFacts
    <3>2. RemoveFirst(e.stats, i) = <<>>
      BY <1>9, <1>11, <2>1, <3>1, RemovedOnly
    <3>3. <<i>> \o RemoveFirst(e.stats, i) = <<i>>
      BY <3>2
    <3>4. n = [e EXCEPT !.stats = <<i>>]
      BY <2>1, <3>3
    <3> HIDE DEF n
    <3>5. n.stats = <<i>> /\ n.params = e.params /\ n.obj = e.obj
      BY <3>4 DEF EntryRecs
    <3> QED
      BY <1>9, <2>1, <3>5
  <2>2. CASE c # "STINIT"
    <3>1. n = [e EXCEPT !.params = (o \in env.params)]
      BY <2>2
    <3> HIDE DEF n
    <3>2. n.params = (o \in env.params) /\ n.stats = e.stats /\ n.obj = e.obj
      BY <3>1 DEF EntryRecs
    <3> QED
      BY <1>9, <2>2, <3>2
  <2> QED
    BY <2>1, <2>2
<1> HIDE DEF n
<1>14. app_db[o].params \in BOOLEAN
  BY <1>1, RecordOf
<1>15. StillRight(m, o)
  <2>1. m.cmd \notin Closes
    BY <1>2 DEF Closes
  <2>2. app_db'[o].params \in BOOLEAN
    <3>1. (o \in env.params) \in BOOLEAN
      OBVIOUS
    <3>2. CASE c = "STINIT"
      BY <1>9, <1>12, <1>13, <1>14, <3>2
    <3>3. CASE c # "STINIT"
      BY <1>12, <1>13, <3>1, <3>3
    <3> QED
      BY <3>2, <3>3
  <2>3. ~Nothing(app_db'[o])
    <3>1. CASE c = "STINIT"
      <4>1. app_db'[o].stats = <<i>> /\ <<i>> # <<>>
        BY <1>12, <1>13, <3>1
      <4> QED
        BY <4>1 DEF Nothing
    <3>2. CASE c # "STINIT"
      <4>1. app_db'[o].params = (o \in env.params) /\ o \in env.params
        BY <1>3, <1>10, <1>12, <1>13, <3>2
      <4> QED
        BY <4>1 DEF Nothing
    <3> QED
      BY <3>1, <3>2
  <2>4. /\ app_db'[o].obj = ObjId(o)
        /\ app_db'[o].stats = app_db[o].stats \/ (m.cmd = "STINIT" /\ app_db'[o].stats = <<m.id>>)
        /\ app_db'[o].params = app_db[o].params \/ (m.cmd = "PMINIT" /\ app_db'[o].params)
    BY <1>3, <1>6, <1>9, <1>10, <1>12, <1>13
  <2> QED
    BY <2>1, <2>2, <2>3, <2>4, GrowsRight
<1>16. Good[c] \in Answers \cup {"STREPORT", "STSTOP", "STSET"} /\ Good[c] \in Answers
  BY <1>3, CallFacts
<1>17. PICK b \in ObjIds \cup {NoObj} : b = m.obj
  BY <1>1
<1>18. Msg(Good[c], o, b, i) \in ToStats
  <2>1. i \in 0..MaxVars
    BY <1>0, ConstantFacts
  <2>2. PICK x \in Answers \cup {"STREPORT", "STSTOP", "STSET"} : x = Good[c]
    BY <1>16
  <2> QED
    BY <1>1, <2>1, <2>2, MsgType DEF ToStats
<1>19. PICK a \in ToStats : a = Msg(Good[c], o, b, i)
  BY <1>18
<1>20. a.cmd = Good[c] /\ a.of = o /\ a.obj = b /\ a.id = i
  BY <1>19 DEF Msg
<1>21. stats_q' = Append(stats_q, a)
  BY <1>0, <1>3, <1>6, <1>10, <1>17, <1>19 DEF statsman_incmd_init, Reply
<1>22. Answer(a)'
  <2>1. Carried(a, c)
    BY <1>0, <1>4, <1>6, <1>17, <1>20 DEF Carried
  <2>2. Carried(a, c)'
    BY <2>1, SameVars DEF Takes, objects
  <2>3. Good[c] = "STOK" => app_db'[o].stats = <<i>>
    BY <1>3, <1>12, <1>13, CallFacts
  <2>4. Good[c] = "PMINITOK" => app_db'[o].params
    BY <1>3, <1>10, <1>12, <1>13, CallFacts
  <2>5. Good[c] # "STREPORT"
    BY CallFacts
  <2> QED
    BY <1>20, <2>2, <2>3, <2>4, <2>5 DEF Answer
<1>23. IsCall(m) /\ a.id = m.id
  BY <1>3, <1>6, <1>20 DEF IsCall
<1> QED
  BY <1>15, <1>21, <1>22, <1>23, AnswerKeeps

\* statsman_incmd_pmget keeps the invariant: it finds the parameters under the obj_id on record
LEMMA TakesGet ==
  ASSUME OK, ~lost', NEW m, NEW o, Takes(m, o), statsman_incmd_pmget(m)
  PROVE  OInv'
<1>0. TInv /\ o = m.of /\ m.cmd = "PMGET" /\ app_db' = app_db
  BY DEF OK, Takes, statsman_incmd_pmget
<1>1. /\ o \in Objects /\ m \in ToStatsman /\ m \in Range(statsman_q) /\ Request(m) /\ m.id \in 0..MaxVars
      /\ m.obj \in ObjIds \cup {NoObj}
  BY HeadFacts
<1>3. PICK c \in Calls : c = m.cmd /\ c = "PMGET"
  BY <1>0, CallFacts
<1>4. Carried(m, c)
  BY <1>1, <1>3 DEF Request
<1>5. m.id \in VarIds /\ m.obj = ObjId(o) /\ obj[o].call = c /\ obj[o].id = m.id
  BY <1>0, <1>4 DEF Carried
<1>6. PICK i \in VarIds, b \in ObjIds \cup {NoObj} : i = m.id /\ b = m.obj
  BY <1>1, <1>5
<1>7. app_db[o].params
  <2>1. Called(o) /\ Open(o)
    BY <1>1 DEF OK, OInv
  <2> QED
    BY <1>3, <1>5, <2>1, CallFacts DEF Called, Open
<1>8. app_db[o].obj = ObjId(o)
  BY <1>1, <1>7, RecordOf
<1>9. StillRight(m, o)
  <2>1. m.cmd \notin Closes
    BY <1>0 DEF Closes
  <2> QED
    BY <1>0, <1>1, <2>1, RecordOf, GrowsRight
<1>10. Good[c] \in Answers \cup {"STREPORT", "STSTOP", "STSET"} /\ Good[c] = "PMVALOK"
  BY <1>3, CallFacts
<1>18. Msg(Good[c], o, b, i) \in ToStats
  <2>1. i \in 0..MaxVars
    BY <1>0, ConstantFacts
  <2>2. PICK x \in Answers \cup {"STREPORT", "STSTOP", "STSET"} : x = Good[c]
    BY <1>10
  <2> QED
    BY <1>1, <2>1, <2>2, MsgType DEF ToStats
<1>19. PICK a \in ToStats : a = Msg(Good[c], o, b, i)
  BY <1>18
<1>20. a.cmd = Good[c] /\ a.of = o /\ a.obj = b /\ a.id = i
  BY <1>19 DEF Msg
<1>21. stats_q' = Append(stats_q, a)
  BY <1>0, <1>3, <1>5, <1>6, <1>7, <1>8, <1>19 DEF statsman_incmd_pmget, Reply
<1>22. Answer(a)'
  <2>1. Carried(a, c)
    BY <1>0, <1>4, <1>6, <1>20 DEF Carried
  <2>2. Carried(a, c)'
    BY <2>1, SameVars DEF Takes, objects
  <2> QED
    BY <1>10, <1>20, <2>2 DEF Answer
<1>23. IsCall(m) /\ a.id = m.id
  BY <1>3, <1>6, <1>20 DEF IsCall
<1> QED
  BY <1>9, <1>21, <1>22, <1>23, AnswerKeeps

\* statsman_incmd_stact keeps the invariant
LEMMA TakesAct ==
  ASSUME OK, ~lost', NEW m, NEW o, Takes(m, o), statsman_incmd_stact(m)
  PROVE  OInv'
<1>0. TInv /\ o = m.of /\ m.cmd \in {"STREPORT", "STSTOP", "STSET"} /\ app_db' = app_db
  BY DEF OK, Takes, statsman_incmd_stact
<1>1. o \in Objects
  BY HeadFacts
<1>2. StillRight(m, o)
  <2>1. m.cmd \notin Closes
    BY <1>0 DEF Closes
  <2> QED
    BY <1>0, <1>1, <2>1, RecordOf, GrowsRight
<1>3. CASE app_db[o].stats = <<>>
  <2>1. stats_q' = stats_q
    BY <1>0, <1>3 DEF statsman_incmd_stact
  <2> QED
    BY <1>2, <2>1, AnswerKeeps
<1>4. CASE app_db[o].stats # <<>>
  <2>1. PICK i \in VarIds : app_db[o].stats = <<i>>
    BY <1>1, <1>4, RecordOf
  <2>2. app_db[o].obj = ObjId(o) /\ ObjId(o) # NoObj /\ app_db[o] \in EntryRecs
    BY <1>1, <1>4, RecordOf
  <2>3. PICK b \in ObjIds \cup {NoObj} : b = app_db[o].obj
    BY <2>2 DEF EntryRecs
  <2>4. Head(app_db[o].stats) = i
    BY <2>1
  <2>5. Msg(m.cmd, o, b, i) \in ToStats
    <3>1. i \in 0..MaxVars
      BY <1>0, ConstantFacts
    <3>2. PICK x \in Answers \cup {"STREPORT", "STSTOP", "STSET"} : x = m.cmd
      BY <1>0
    <3> QED
      BY <1>1, <3>1, <3>2, MsgType DEF ToStats
  <2>6. PICK a \in ToStats : a = Msg(m.cmd, o, b, i)
    BY <2>5
  <2>7. a.cmd = m.cmd /\ a.of = o /\ a.obj = b /\ a.id = i
    BY <2>6 DEF Msg
  <2>8. stats_q' = Append(stats_q, a)
    BY <1>0, <1>4, <2>3, <2>4, <2>6 DEF statsman_incmd_stact, Reply
  <2>9. a.cmd \notin Answers /\ ~IsCall(a)
    BY <1>0, <2>7, CallFacts DEF IsCall
  <2>10. Answer(a)'
    <3>1. a.cmd # "STOK" /\ a.cmd # "PMINITOK" /\ a.obj # NoObj
      BY <1>0, <2>2, <2>3, <2>7
    <3> QED
      BY <2>9, <3>1 DEF Answer
  <2> QED
    BY <1>2, <2>8, <2>9, <2>10, AnswerKeeps
<1> QED
  BY <1>3, <1>4

\* what a request to close takes away from a record
Removes(m, o) ==
  /\ m.cmd \in Closes
  /\ app_db'[o] # None => app_db'[o].obj = ObjId(o) /\ ~Nothing(app_db'[o])
  /\ m.cmd = "STCLOSE" =>
       /\ app_db'[o].params = app_db[o].params
       /\ \/ app_db'[o].stats = <<>> /\ m.obj = ObjId(o)
          \/ /\ app_db'[o].stats = app_db[o].stats
             /\ \A i \in VarIds : app_db[o].stats = <<i>> => m.id # i \/ m.obj # ObjId(o)
  /\ m.cmd = "PMCLOSE" => app_db'[o].stats = app_db[o].stats /\ ~app_db'[o].params

\* what is taken away had been closed by its object
LEMMA RemovesRight ==
  ASSUME OK, NEW m, NEW o, Takes(m, o), Removes(m, o)
  PROVE  StillRight(m, o)
<1>0. /\ var_db' = var_db /\ obj' = obj /\ at' = at /\ seen' = seen /\ env' = env /\ o = m.of
  BY DEF Takes, objects, stats
<1>1. o \in Objects /\ Request(m)
  BY HeadFacts
<1>2. Called(o) /\ Open(o) /\ Recorded(o)
  BY <1>1 DEF OK, OInv
<1>3. ObjId(o)' = ObjId(o)
  BY <1>0 DEF ObjId
<1>4. ASSUME m.cmd = "PMCLOSE"
      PROVE  ~obj[o].params /\ obj[o].call \notin {"PMINIT", "PMGET"}
  BY <1>0, <1>1, <1>4 DEF Request
<1>5. m.cmd \in {"STCLOSE", "PMCLOSE"}
  BY DEF Removes, Closes
<1>6. app_db'[o].stats # app_db[o].stats =>
        /\ m.cmd = "STCLOSE" /\ app_db'[o].stats = <<>> /\ obj[o].stat = 0 /\ obj[o].call # "STINIT"
  <2> SUFFICES ASSUME app_db'[o].stats # app_db[o].stats
               PROVE  m.cmd = "STCLOSE" /\ app_db'[o].stats = <<>> /\ obj[o].stat = 0 /\ obj[o].call # "STINIT"
    OBVIOUS
  <2>1. m.cmd = "STCLOSE" /\ app_db'[o].stats = <<>> /\ m.obj = ObjId(o)
    BY <1>5 DEF Removes
  <2> QED
    BY <1>0, <1>1, <2>1 DEF Request
<1>7. m.cmd # "PMCLOSE" => app_db'[o].params = app_db[o].params
  BY <1>5 DEF Removes
<1>8. Called(o)'
  <2>1. obj[o].call = "PMINIT" => app_db'[o].params = app_db[o].params
    BY <1>4, <1>7
  <2>2. obj[o].call = "STINIT" => app_db'[o].stats = app_db[o].stats
    BY <1>6
  <2> QED
    BY <1>0, <1>2, <2>1, <2>2 DEF Called, Owns
<1>9. Open(o)'
  <2>1. obj[o].params => app_db'[o].params = app_db[o].params
    BY <1>4, <1>7
  <2>2. obj[o].stat # 0 => app_db'[o].stats = app_db[o].stats
    BY <1>6
  <2> QED
    BY <1>0, <1>2, <2>1, <2>2 DEF Open, Owns
<1>10. app_db'[o].params => Stays(o)'
  <2> SUFFICES ASSUME app_db'[o].params PROVE Stays(o)'
    OBVIOUS
  <2>1. m.cmd # "PMCLOSE"
    BY DEF Removes
  <2>2. Stays(o)
    BY <1>2, <1>7, <2>1 DEF Recorded
  <2> QED
    BY <2>1, <2>2, TakesStays
<1>11. ASSUME app_db'[o].stats # <<>>
       PROVE  \E i \in VarIds : app_db'[o].stats = <<i>> /\ ((Owns(o, "stat", i)' /\ ~Leaving(i)') \/ ClosesStat(o, i)')
  <2>1. app_db'[o].stats = app_db[o].stats
    BY <1>6, <1>11
  <2>2. PICK i \in VarIds : app_db[o].stats = <<i>> /\ ((Owns(o, "stat", i) /\ ~Leaving(i)) \/ ClosesStat(o, i))
    BY <1>2, <1>11, <2>1 DEF Recorded
  <2>3. m.cmd # "STCLOSE" \/ m.id # i \/ m.obj # ObjId(o)
    BY <1>11, <2>2 DEF Removes
  <2>4. (Owns(o, "stat", i)' /\ ~Leaving(i)') \/ ClosesStat(o, i)'
    BY <2>2, <2>3, TakesStat
  <2> QED
    BY <2>1, <2>2, <2>4
<1>12. Recorded(o)'
  BY <1>3, <1>10, <1>11 DEF Recorded, Removes
<1>13. ASSUME NEW p \in Range(stats_q), p.of = o, p.cmd \in {"STOK", "PMINITOK"}
       PROVE  /\ p.cmd = "STOK" => obj[o].call = "STINIT"
              /\ p.cmd = "PMINITOK" => obj[o].call = "PMINIT"
  <2>1. IsCall(p)
    BY <1>13, CallFacts DEF IsCall
  <2>2. obj[o].call \in Calls /\ p.cmd = Good[obj[o].call]
    BY <1>13, <2>1, CallMail
  <2> QED
    BY <2>2, CallFacts
<1>14. /\ \A p \in Range(statsman_q)' : p.of = o /\ p.cmd = "STINIT" => app_db'[o].stats = <<>>
       /\ \A p \in Range(stats_q) : p.of = o /\ p.cmd = "STOK" => app_db'[o].stats = <<p.id>>
  <2>1. CASE app_db'[o].stats = app_db[o].stats
    BY <2>1, SameStats
  <2>2. CASE app_db'[o].stats # app_db[o].stats
    BY <1>6, <1>13, <2>2
  <2> QED
    BY <2>1, <2>2
<1>15. \A p \in Range(stats_q) : p.of = o /\ p.cmd = "PMINITOK" => app_db'[o].params
  <2>1. CASE m.cmd = "PMCLOSE"
    BY <1>4, <1>13, <2>1
  <2>2. CASE m.cmd # "PMCLOSE"
    BY <1>7, <2>2, SameParams
  <2> QED
    BY <2>1, <2>2
<1> QED
  BY <1>8, <1>9, <1>12, <1>14, <1>15 DEF StillRight

\* statsman_incmd_close keeps the invariant
LEMMA TakesClose ==
  ASSUME OK, NEW m, NEW o, Takes(m, o), statsman_incmd_close(m)
  PROVE  OInv'
<1>0. TInv /\ o = m.of /\ m.cmd \in {"STCLOSE", "PMCLOSE"} /\ stats_q' = stats_q
  BY DEF OK, Takes, statsman_incmd_close
<1>1. o \in Objects /\ m \in ToStatsman /\ Request(m) /\ m.obj \in ObjIds \cup {NoObj}
  BY HeadFacts
<1>2. /\ app_db[o] \in EntryRecs /\ app_db[o].params \in BOOLEAN /\ ObjId(o) # NoObj
      /\ app_db[o] # None => app_db[o].obj = ObjId(o) /\ ~Nothing(app_db[o])
      /\ app_db[o] = None => app_db[o].obj = NoObj /\ app_db[o].stats = <<>> /\ ~app_db[o].params
      /\ app_db[o].stats # <<>> => \E i \in VarIds : app_db[o].stats = <<i>>
  BY <1>1, RecordOf
<1>3. PICK e \in EntryRecs : e = app_db[o]
  BY <1>2
<1>4. m.cmd = "PMCLOSE" => m.obj = ObjId(o)
  BY <1>0, <1>1 DEF Request
<1>5. \A i : Range(<<i>>) = {i}
  <2> SUFFICES ASSUME NEW i PROVE Range(<<i>>) = {i}
    OBVIOUS
  <2>1. DOMAIN <<i>> = {1} /\ <<i>>[1] = i
    OBVIOUS
  <2> QED
    BY <2>1 DEF Range
<1>6. CASE m.obj = NoObj \/ e.obj # m.obj \/ (m.cmd = "STCLOSE" /\ m.id \notin Range(e.stats))
  <2>1. app_db' = app_db
    BY <1>0, <1>3, <1>6 DEF statsman_incmd_close
  <2>2. m.cmd = "STCLOSE" => \A i \in VarIds : e.stats = <<i>> => m.id # i \/ m.obj # ObjId(o)
    <3> SUFFICES ASSUME m.cmd = "STCLOSE", NEW i \in VarIds, e.stats = <<i>>, m.id = i, m.obj = ObjId(o) PROVE FALSE
      OBVIOUS
    <3>1. <<i>> # <<>>
      OBVIOUS
    <3>2. e.obj = ObjId(o)
      BY <1>2, <1>3, <3>1
    <3>3. m.id \in Range(e.stats)
      BY <1>5
    <3> QED
      BY <1>2, <1>6, <3>2, <3>3
  <2>3. m.cmd = "PMCLOSE" => ~e.params
    BY <1>2, <1>3, <1>4, <1>6
  <2>4. Removes(m, o)
    BY <1>0, <1>2, <1>3, <2>1, <2>2, <2>3 DEF Removes, Closes
  <2>5. StillRight(m, o)
    BY <2>4, RemovesRight
  <2> QED
    BY <1>0, <2>5, AnswerKeeps
<1>7. CASE ~(m.obj = NoObj \/ e.obj # m.obj \/ (m.cmd = "STCLOSE" /\ m.id \notin Range(e.stats)))
  <2>1. e.obj = ObjId(o) /\ m.obj = ObjId(o)
    BY <1>2, <1>3, <1>7
  <2>2. PICK n \in EntryRecs :
          /\ n = (IF m.cmd = "STCLOSE" THEN [e EXCEPT !.stats = RemoveFirst(e.stats, m.id)]
                                       ELSE [e EXCEPT !.params = FALSE])
    <3>1. FALSE \in BOOLEAN /\ m.id \in 0..MaxVars
      BY HeadFacts
    <3> QED
      BY <1>0, <3>1, WithStat
  <2>3. /\ n.obj = ObjId(o)
        /\ m.cmd = "STCLOSE" => n.stats = RemoveFirst(e.stats, m.id) /\ n.params = e.params
        /\ m.cmd # "STCLOSE" => n.stats = e.stats /\ n.params = FALSE
    <3>1. CASE m.cmd = "STCLOSE"
      <4>1. n = [e EXCEPT !.stats = RemoveFirst(e.stats, m.id)]
        BY <2>2, <3>1
      <4>2. n.stats = RemoveFirst(e.stats, m.id) /\ n.params = e.params /\ n.obj = e.obj
        BY <4>1 DEF EntryRecs
      <4> QED
        BY <2>1, <3>1, <4>2
    <3>2. CASE m.cmd # "STCLOSE"
      <4>1. n = [e EXCEPT !.params = FALSE]
        BY <2>2, <3>2
      <4>2. n.stats = e.stats /\ n.params = FALSE /\ n.obj = e.obj
        BY <4>1 DEF EntryRecs
      <4> QED
        BY <2>1, <3>2, <4>2
    <3> QED
      BY <3>1, <3>2
  <2>4. m.cmd = "STCLOSE" => n.stats = <<>>
    <3> SUFFICES ASSUME m.cmd = "STCLOSE" PROVE n.stats = <<>>
      OBVIOUS
    <3>1. m.id \in Range(e.stats)
      BY <1>7
    <3>2. e.stats # <<>>
      BY <3>1 DEF Range
    <3>3. PICK i \in VarIds : e.stats = <<i>>
      BY <1>2, <1>3, <3>2
    <3>4. m.id = i
      BY <1>5, <3>1, <3>3
    <3>5. RemoveFirst(<<i>>, i) = <<>>
      <4>1. i \in Nat
        BY <1>0, ConstantFacts
      <4> QED
        BY <4>1, RemovedOnly
    <3> QED
      BY <2>3, <3>3, <3>4, <3>5
  <2>5. Forgotten(n) \in EntryRecs
    <3>1. None \in EntryRecs
      BY <1>0, <1>1, EntryFacts
    <3> QED
      BY <3>1 DEF Forgotten
  <2>6. app_db'[o] = Forgotten(n)
    <3>1. app_db' = [app_db EXCEPT ![o] = Forgotten(n)]
      BY <1>0, <1>3, <1>7, <2>2 DEF statsman_incmd_close
    <3> QED
      BY <1>0, <1>1, <2>5, <3>1, EntrySet
  <2>7. Forgotten(n).stats = n.stats /\ (Forgotten(n).params <=> n.params)
    <3>1. CASE Nothing(n)
      <4>1. Forgotten(n) = None
        BY <3>1 DEF Forgotten
      <4>2. Forgotten(n).stats = <<>> /\ Forgotten(n).params = FALSE
        BY <4>1 DEF None
      <4>3. n.stats = <<>> /\ ~n.params
        BY <3>1 DEF Nothing
      <4> QED
        BY <4>2, <4>3
    <3>2. CASE ~Nothing(n)
      BY <3>2 DEF Forgotten
    <3> QED
      BY <3>1, <3>2
  <2>8. Forgotten(n) # None => Forgotten(n).obj = ObjId(o) /\ ~Nothing(Forgotten(n))
    <3> SUFFICES ASSUME Forgotten(n) # None PROVE Forgotten(n).obj = ObjId(o) /\ ~Nothing(Forgotten(n))
      OBVIOUS
    <3>1. ~Nothing(n) /\ Forgotten(n) = n
      BY DEF Forgotten
    <3> QED
      BY <2>3, <3>1
  <2>9. Forgotten(n).params \in BOOLEAN /\ n.params \in BOOLEAN
    BY <2>5 DEF EntryRecs
  <2>10. Removes(m, o)
    <3>1. m.cmd = "STCLOSE" => /\ app_db'[o].params = app_db[o].params
                               /\ app_db'[o].stats = <<>> /\ m.obj = ObjId(o)
      BY <1>3, <2>1, <2>3, <2>4, <2>6, <2>7, <2>9
    <3>2. m.cmd = "PMCLOSE" => app_db'[o].stats = app_db[o].stats /\ ~app_db'[o].params
      BY <1>3, <2>3, <2>6, <2>7
    <3>3. app_db'[o] # None => app_db'[o].obj = ObjId(o) /\ ~Nothing(app_db'[o])
      BY <2>6, <2>8
    <3> QED
      BY <1>0, <3>1, <3>2, <3>3 DEF Removes, Closes
  <2>11. StillRight(m, o)
    BY <2>10, RemovesRight
  <2> QED
    BY <1>0, <2>11, AnswerKeeps
<1> QED
  BY <1>6, <1>7

\* Statsman keeps the invariant
LEMMA StatsmanKeeps ==
  ASSUME OK, ~lost', Statsman
  PROVE  OInv'
<1>0. PICK m : /\ statsman_q # <<>> /\ m = Head(statsman_q) /\ statsman_q' = Tail(statsman_q)
               /\ UNCHANGED <<var_db, objects, stats, cmds, env>>
               /\ \/ statsman_incmd_init(m) \/ statsman_incmd_close(m)
                  \/ statsman_incmd_pmget(m) \/ statsman_incmd_stact(m)
  BY DEF Statsman
<1>1. TInv /\ app_db \in [Objects -> EntryRecs]
  BY TypeFacts DEF OK
<1>2. PICK o : o = m.of
  OBVIOUS
<1>3. \A p \in Objects : p # o => app_db'[p] = app_db[p]
  <2> SUFFICES ASSUME NEW p \in Objects, p # o PROVE app_db'[p] = app_db[p]
    OBVIOUS
  <2>1. CASE statsman_incmd_init(m)
    BY <1>1, <1>2, <2>1 DEF statsman_incmd_init
  <2>2. CASE statsman_incmd_close(m)
    BY <1>1, <1>2, <2>2 DEF statsman_incmd_close
  <2>3. CASE statsman_incmd_pmget(m) \/ statsman_incmd_stact(m)
    BY <2>3 DEF statsman_incmd_pmget, statsman_incmd_stact
  <2> QED
    BY <1>0, <2>1, <2>2, <2>3
<1>4. Takes(m, o)
  BY <1>0, <1>2, <1>3 DEF Takes
<1> QED
  BY <1>0, <1>4, TakesInit, TakesClose, TakesGet, TakesAct

\* the calls that make a variable keep the invariant
LEMMA OpenKeeps ==
  ASSUME OK, NEW o \in Objects,
         InitStat(o) \/ InitParamFile(o) \/ GetParam(o) \/ CloseParamFile(o)
  PROVE  OInv'
<1>1. CASE InitStat(o)
  <2>1. Opens(o, "STINIT") /\ hwapi_var_create2(o, "STINIT")
    BY <1>1 DEF InitStat, Opens
  <2> QED
    BY <2>1, CreateKeeps
<1>2. CASE InitParamFile(o)
  <2>1. Opens(o, "PMINIT") /\ hwapi_var_create2(o, "PMINIT")
    BY <1>2 DEF InitParamFile, Opens
  <2> QED
    BY <2>1, CreateKeeps
<1>3. CASE GetParam(o)
  <2>1. Opens(o, "PMGET") /\ hwapi_var_create2(o, "PMGET")
    BY <1>3 DEF GetParam, Opens
  <2> QED
    BY <2>1, CreateKeeps
<1>4. CASE CloseParamFile(o)
  <2>1. Opens(o, "PMCLOSE") /\ hwapi_var_create2(o, "PMCLOSE")
    BY <1>4 DEF CloseParamFile, Opens
  <2> QED
    BY <2>1, CreateKeeps
<1> QED
  BY <1>1, <1>2, <1>3, <1>4

\* every step of an object keeps the invariant
LEMMA ObjectKeeps ==
  ASSUME OK, NEW o \in Objects, Object(o)
  PROVE  OInv'
<1>1. ~hwapi_var_created(o) /\ ~Crash(o)
  BY NoFaults DEF hwapi_var_created, Crash
<1>2. CASE InitStat(o) \/ InitParamFile(o) \/ GetParam(o) \/ CloseParamFile(o)
  BY <1>2, OpenKeeps
<1>3. CASE CloseStat(o)
  BY <1>3, CloseStatKeeps
<1>4. CASE Return(o)
  BY <1>4, ReturnKeeps
<1>5. CASE ClosePHAL(o)
  BY <1>5, ClosePHALKeeps
<1>6. CASE Launch(o)
  BY <1>6, LaunchKeeps
<1> QED
  BY <1>1, <1>2, <1>3, <1>4, <1>5, <1>6 DEF Object

\* Every step that drops no packet keeps the invariant.
LEMMA StepKeeps ==
  ASSUME OK, ~lost', [VNext]_vvars
  PROVE  OInv'
<1>1. CASE Stats
  BY <1>1, ProcessKeeps, ReportsKeep, LookKeeps, ForwardKeeps, CloseKeeps, DeleteKeeps DEF Stats
<1>2. CASE Statsman
  BY <1>2, StatsmanKeeps
<1>3. CASE User
  BY <1>3, UserKeeps
<1>4. ASSUME NEW o \in Objects, Object(o) PROVE OInv'
  BY <1>4, ObjectKeeps
<1>5. CASE UNCHANGED vvars
  <2>1. /\ UNCHANGED <<var_db, sem_var, obj, at, seen, reports, max_report_idx>>
        /\ UNCHANGED <<stats_q, statsman_q, lost, app_db, env>>
    BY <1>5 DEF vvars, objects, stats
  <2>2. OInv
    BY DEF OK
  <2>3. Table' /\ OneEach' /\ \A o \in Objects : Called(o)' /\ Open(o)'
    BY <2>1, SameVars
  <2>4. Mail'
    BY <2>1, <2>2, SameMail DEF OInv, Mail
  <2>5. \A o \in Objects : Recorded(o)'
    BY <2>1, SameRecords DEF Leaving
  <2>6. Alone(stats_q, statsman_q)' /\ Seeing' /\ Reporting' /\ sem_var' = {}
    BY <2>1, <2>2 DEF OInv, Alone, IsCall, Seeing, Reporting, Used
  <2> QED
    BY <2>3, <2>4, <2>5, <2>6 DEF OInv
<1> QED
  BY <1>1, <1>2, <1>3, <1>4, <1>5 DEF VNext

\* The initial state has it.
LEMMA InitOrder ==
  ASSUME VInit
  PROVE  OInv
<1>0. TInv
  BY InitTypes
<1>1. /\ sem_var = {} /\ stats_q = <<>> /\ statsman_q = <<>> /\ seen = ""
      /\ \A o \in Objects : app_db[o] = None
      /\ \A i \in Slots : reports[i] = NoReport
  BY DEF VInit
<1>2. \A i \in VarIds : ~var_db[i].used
  BY DEF VInit
<1>3. \A o \in Objects : ~obj[o].on /\ obj[o].call = "" /\ obj[o].stat = 0 /\ ~obj[o].params
  BY DEF VInit
<1>4. Table /\ OneEach
  BY <1>2 DEF Table, OneEach, Kept, Owns
<1>5. Range(stats_q) = {} /\ Range(statsman_q) = {} /\ Len(stats_q) = 0 /\ Len(statsman_q) = 0
  <2>1. Len(<<>>) = 0 /\ DOMAIN <<>> = {}
    OBVIOUS
  <2> QED
    BY <1>1, <2>1 DEF Range
<1>6. Mail /\ Alone(stats_q, statsman_q)
  BY <1>5 DEF Mail, Alone
<1>7. Seeing /\ Reporting
  BY <1>1 DEF Seeing, Reporting, Used
<1>8. ASSUME NEW o \in Objects PROVE Called(o) /\ Open(o) /\ Recorded(o)
  <2>1. Called(o) /\ Open(o)
    BY <1>3 DEF Called, Open
  <2>2. app_db[o] = None /\ None.stats = <<>> /\ ~None.params
    BY <1>1 DEF None
  <2>3. Recorded(o)
    BY <2>2 DEF Recorded
  <2> QED
    BY <2>1, <2>3
<1> QED
  BY <1>1, <1>4, <1>6, <1>7, <1>8 DEF OInv

\* The environment never changes, and a packet that is lost stays lost.
LEMMA SameEnv ==
  ASSUME [VNext]_vvars
  PROVE  env' = env /\ (lost => lost')
<1>1. CASE Stats
  <2>1. env' = env
    BY <1>1 DEF Stats, stats_process_cmd, do_reports, Look, Forward, Close, DeleteVar
  <2>2. lost' = lost \/ \E p : Send(p)
    BY <1>1 DEF Stats, stats_process_cmd, do_reports, Look, Forward, Close, DeleteVar
  <2>3. \A p : Send(p) => (lost => lost')
    BY DEF Send
  <2> QED
    BY <2>1, <2>2, <2>3
<1>2. CASE Statsman \/ User
  BY <1>2 DEF Statsman, User, Send, Reply,
                statsman_incmd_init, statsman_incmd_close, statsman_incmd_pmget, statsman_incmd_stact
<1>3. ASSUME NEW o \in Objects, Object(o) PROVE env' = env /\ lost' = lost
  <2>1. CASE \E c : hwapi_var_create2(o, c)
    BY <2>1 DEF hwapi_var_create2
  <2>2. CASE ~\E c : hwapi_var_create2(o, c)
    BY <1>3, <2>2 DEF Object, InitStat, InitParamFile, GetParam, CloseParamFile, CloseStat,
                      hwapi_var_created, Return, ClosePHAL, Crash, Launch
  <2> QED
    BY <2>1, <2>2
<1>4. CASE UNCHANGED vvars
  BY <1>4 DEF vvars
<1> QED
  BY <1>1, <1>2, <1>3, <1>4 DEF VNext

\* Statistics and parameters, for every environment: the types always, and the rest where things
\* are in order.
LEMMA StatsInvariant == VSpec => []VInv
<1>1. VInit => VInv
  BY InitTypes, InitOrder DEF VInv
<1>2. ASSUME VInv, [VNext]_vvars PROVE VInv'
  <2>1. TInv'
    BY <1>2, StepTypes DEF VInv
  <2>2. ASSUME Orderly', ~lost' PROVE OInv'
    <3>1. Orderly /\ ~lost
      BY <1>2, <2>2, SameEnv DEF Orderly, Wanted
    <3> QED
      BY <1>2, <2>2, <3>1, StepKeeps DEF VInv, OK
  <2> QED
    BY <2>1, <2>2 DEF VInv
<1> QED
  BY <1>1, <1>2, PTL DEF VSpec

\* What an object has registered is its own and is found by its name, where nothing fails, every
\* object that opens a parameter file has one, and there is room in the table for all that objects
\* open: for any number of objects, variables and reports, and any interleaving.
THEOREM RegisteredIsFound == VSpec => []Registered
<1>1. ASSUME VInv PROVE Registered
  <2> SUFFICES ASSUME Orderly, ~lost, NEW o \in Objects
               PROVE  /\ obj[o].stat # 0 =>
                           /\ var_db[obj[o].stat].used /\ var_db[obj[o].stat].of = <<o, "stat">>
                           /\ app_db[o].stats # <<>> /\ Head(app_db[o].stats) = obj[o].stat
                      /\ obj[o].params => app_db[o].params /\ app_db[o].obj = ObjId(o)
    BY DEF Registered
  <2>1. OK /\ Open(o)
    BY <1>1 DEF VInv, OK, OInv
  <2>2. ASSUME obj[o].stat # 0
        PROVE  /\ var_db[obj[o].stat].used /\ var_db[obj[o].stat].of = <<o, "stat">>
               /\ app_db[o].stats # <<>> /\ Head(app_db[o].stats) = obj[o].stat
    <3>1. PICK i \in VarIds : i = obj[o].stat /\ Owns(o, "stat", i) /\ app_db[o].stats = <<i>>
      BY <2>1, <2>2, StatOf
    <3>2. <<i>> # <<>> /\ Head(<<i>>) = i
      OBVIOUS
    <3> QED
      BY <3>1, <3>2 DEF Owns
  <2>3. ASSUME obj[o].params PROVE app_db[o].params /\ app_db[o].obj = ObjId(o)
    <3>1. app_db[o].params
      BY <2>1, <2>3 DEF Open
    <3> QED
      BY <2>1, <3>1, RecordOf
  <2> QED
    BY <2>2, <2>3
<1> QED
  BY <1>1, StatsInvariant, PTL

\* When, in such an environment, all objects have gone and the daemons have nothing to do, no
\* variable and no record is left, and no report where the table has one or two entries.
THEOREM NothingStays == VSpec => []NothingLeft
<1>1. ASSUME VInv PROVE NothingLeft
  <2> SUFFICES ASSUME Orderly, ~lost, Quiet
               PROVE  /\ Free = VarIds /\ \A o \in Objects : app_db[o] = None
                      /\ MaxReports <= 2 => \A i \in Slots : ~Used(i)
    BY DEF NothingLeft
  <2>1. OK /\ TInv /\ Reporting /\ \A o \in Objects : Recorded(o) /\ ~obj[o].on
    BY <1>1 DEF VInv, OK, OInv, Quiet
  <2>2. \A o \in Objects : /\ obj[o].call = "" /\ obj[o].stat = 0 /\ ~obj[o].params
                           /\ \A k \in Kinds, i \in VarIds : Owns(o, k, i) => var_db[i].opts \in Closes
    BY <2>1, GoneFacts
  <2>3. \A i \in VarIds : ~var_db[i].used
    <3> SUFFICES ASSUME NEW i \in VarIds, var_db[i].used PROVE FALSE
      OBVIOUS
    <3>1. PICK o \in Objects, k \in Kinds : Owns(o, k, i)
      BY <2>1, OfFacts
    <3>2. var_db[i].opts \in Requests
      BY <2>2, <3>1 DEF Closes, Requests
    <3> QED
      BY <3>2 DEF Quiet, Pending
  <2>4. ASSUME NEW o \in Objects PROVE app_db[o] = None
    <3>1. Range(statsman_q) = {}
      BY DEF Quiet, Range
    <3>2. \A k, i : i \in VarIds => ~Owns(o, k, i)
      BY <2>3 DEF Owns
    <3>3. app_db[o].stats = <<>>
      BY <2>1, <3>1, <3>2 DEF Recorded, ClosesStat
    <3>4. ~app_db[o].params
      BY <2>1, <2>2, <3>1, <3>2 DEF Recorded, Stays, ClosesParams
    <3> QED
      BY <2>1, <3>3, <3>4 DEF Recorded, Nothing
  <2>5. ASSUME MaxReports <= 2, NEW i \in Slots PROVE ~Used(i)
    BY <2>1, <2>5 DEF Reporting, Quiet
  <2> QED
    BY <2>3, <2>4, <2>5 DEF Free
<1> QED
  BY <1>1, StatsInvariant, PTL
=============================================================================
