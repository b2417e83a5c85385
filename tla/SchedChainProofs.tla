-------------------------- MODULE SchedChainProofs --------------------------
(***************************************************************************)
(* Proofs about the execution chain of a core, for any number of objects,  *)
(* any bound on the semaphores and whatever dies when.                     *)
(***************************************************************************)
EXTENDS SchedChain, Counting, SequenceTheorems

-----------------------------------------------------------------------------
(***************************************************************************)
(* The inductive invariant: who sleeps, and how the objects are numbered   *)
(* while they are launched, between two removals, and during one.          *)
(***************************************************************************)
\* sem_post wakes only processes that wait, and each is in the queue once
Once(q) == \A i, j \in 1..Len(q) : q[i] = q[j] => i = j
Sleepers == Once(asleep) /\ \A i \in 1..Len(asleep) : pc[asleep[i]] = "waiting"

Rank(o) == Cardinality(Before(Listed, o))

\* before the last object has its place nobody is removed, and those placed are where HWMAN put them
Launching ==
  /\ removing = {} /\ \A o \in Objects : pc[o] \notin {"zombie", "dead"}
  /\ \A o \in Objects : pc[o] # "unborn" /\ o \notin forked => sem_idx[o] = o - 1 /\ o - 1 <= last

\* afterwards an object is numbered with the objects listed before it; during a removal the loop
\* has brought those before sem_i to that number, and the others are one too high
Numbered ==
  /\ removing = {} => /\ \A o \in Listed : sem_idx[o] = Rank(o)
                      /\ last = Cardinality(Listed) - 1
  /\ \A r \in removing :
       /\ last = Cardinality(Listed)
       /\ \A o \in Listed : \/ sem_idx[o] = Rank(o) /\ Rank(o) < r.sem_i
                            \/ sem_idx[o] = Rank(o) + 1 /\ sem_idx[o] >= r.sem_i

Chained == "early" \notin env.failures =>
             /\ Launched => Numbered
             /\ ~Launched => Launching

SInv == CTypeOK /\ Sleepers /\ Chained

-----------------------------------------------------------------------------
(***************************************************************************)
(* Queues.                                                                 *)
(***************************************************************************)
LEMMA LowestMember ==
  ASSUME NEW T, T \subseteq Nat, T # {}
  PROVE  Lowest(T) \in T
<1>1. \E m \in T : \A n \in T : m <= n
  BY LeastNat
<1>2. QED
  BY <1>1 DEF Lowest

\* who leaves a queue in which nobody is twice is no longer in it, and the others remain once
LEMMA WithoutSeq ==
  ASSUME NEW S, NEW q \in Seq(S), NEW o
  PROVE  /\ Without(q, o) \in Seq(S)
         /\ \A i \in 1..Len(Without(q, o)) : \E k \in 1..Len(q) : Without(q, o)[i] = q[k]
         /\ Once(q) => Once(Without(q, o)) /\ \A i \in 1..Len(Without(q, o)) : Without(q, o)[i] # o
<1> DEFINE n == Lowest(PlacesOf(q, o))
           a == SubSeq(q, 1, n - 1)
           c == SubSeq(q, n + 1, Len(q))
           w == Without(q, o)
<1>0. Len(q) \in Nat /\ \A i \in 1..Len(q) : q[i] \in S
  OBVIOUS
<1>1. CASE PlacesOf(q, o) = {}
  <2>1. w = q
    BY <1>1 DEF Without
  <2>2. \A i \in 1..Len(q) : q[i] # o
    BY <1>1 DEF PlacesOf
  <2> HIDE DEF w
  <2>3. QED
    BY <2>1, <2>2 DEF w
<1>2. CASE PlacesOf(q, o) # {}
  <2>1. n \in 1..Len(q) /\ q[n] = o
    <3>1. PlacesOf(q, o) \subseteq Nat
      BY <1>0 DEF PlacesOf
    <3>2. n \in PlacesOf(q, o)
      BY <1>2, <3>1, LowestMember
    <3>3. QED
      BY <3>2 DEF PlacesOf
  <2>2. w = a \o c
    BY <1>2 DEF Without
  <2> HIDE DEF n
  <2>3. /\ a \in Seq(S) /\ Len(a) = n - 1
        /\ \A i \in 1..n - 1 : a[i] = q[i]
    <3>1. n - 1 \in Int /\ 1 \in Int /\ \A i \in 1..n - 1 : q[i] \in S
      BY <1>0, <2>1
    <3>2. /\ a \in Seq(S) /\ Len(a) = IF 1 <= n - 1 THEN n - 1 - 1 + 1 ELSE 0
          /\ \A i \in 1..n - 1 - 1 + 1 : a[i] = q[1 + i - 1]
      BY <3>1, SubSeqProperties
    <3>3. QED
      BY <1>0, <2>1, <3>2
  <2>4. /\ c \in Seq(S) /\ Len(c) = Len(q) - n
        /\ \A i \in 1..Len(q) - n : c[i] = q[n + i]
    <3>1. n + 1 \in Int /\ Len(q) \in Int /\ \A i \in n + 1..Len(q) : q[i] \in S
      BY <1>0, <2>1
    <3>2. /\ c \in Seq(S) /\ Len(c) = IF n + 1 <= Len(q) THEN Len(q) - (n + 1) + 1 ELSE 0
          /\ \A i \in 1..Len(q) - (n + 1) + 1 : c[i] = q[(n + 1) + i - 1]
      BY <3>1, SubSeqProperties
    <3>3. QED
      BY <1>0, <2>1, <3>2
  <2> HIDE DEF a, c, w
  <2>5. /\ w \in Seq(S) /\ Len(w) = Len(q) - 1
        /\ \A i \in 1..Len(w) : w[i] = IF i < n THEN q[i] ELSE q[i + 1]
    <3>1. /\ a \o c \in Seq(S) /\ Len(a \o c) = Len(a) + Len(c)
          /\ \A i \in 1..Len(a) + Len(c) :
               (a \o c)[i] = IF i <= Len(a) THEN a[i] ELSE c[i - Len(a)]
      BY <2>3, <2>4, ConcatProperties
    <3>2. Len(w) = Len(q) - 1
      BY <1>0, <2>1, <2>2, <2>3, <2>4, <3>1
    <3>3. ASSUME NEW i \in 1..Len(w)
          PROVE  w[i] = IF i < n THEN q[i] ELSE q[i + 1]
      <4>1. CASE i < n
        BY <1>0, <2>1, <2>2, <2>3, <2>4, <3>1, <3>2, <4>1
      <4>2. CASE ~(i < n)
        <5>1. w[i] = c[i - (n - 1)]
          BY <1>0, <2>1, <2>2, <2>3, <2>4, <3>1, <3>2, <4>2
        <5>2. i - (n - 1) \in 1..Len(q) - n /\ n + (i - (n - 1)) = i + 1
          BY <1>0, <2>1, <3>2, <4>2
        <5>3. QED
          BY <2>4, <4>2, <5>1, <5>2
      <4>3. QED
        BY <4>1, <4>2
    <3>4. QED
      BY <2>2, <3>1, <3>2, <3>3
  <2>6. ASSUME NEW i \in 1..Len(w)
        PROVE  \E k \in 1..Len(q) : k # n /\ w[i] = q[k] /\ k = IF i < n THEN i ELSE i + 1
    BY <1>0, <2>1, <2>5
  <2>7. ASSUME Once(q)
        PROVE  Once(w) /\ \A i \in 1..Len(w) : w[i] # o
    <3>1. ASSUME NEW i \in 1..Len(w), NEW j \in 1..Len(w), w[i] = w[j]
          PROVE  i = j
      <4>1. PICK k \in 1..Len(q) : w[i] = q[k] /\ k = IF i < n THEN i ELSE i + 1
        BY <2>6
      <4>2. PICK l \in 1..Len(q) : w[j] = q[l] /\ l = IF j < n THEN j ELSE j + 1
        BY <2>6
      <4>3. k = l
        BY <2>7, <3>1, <4>1, <4>2 DEF Once
      <4>4. QED
        BY <1>0, <2>1, <2>5, <4>1, <4>2, <4>3
    <3>2. \A i \in 1..Len(w) : w[i] # o
      BY <2>1, <2>6, <2>7 DEF Once
    <3>3. QED
      BY <3>1, <3>2 DEF Once
  <2>8. QED
    BY <2>5, <2>6, <2>7 DEF w
<1>3. QED
  BY <1>1, <1>2

\* sem_post disturbs at most one process, which waited for its turn and now has it
LEMMA Posted ==
  ASSUME CTypeOK, Sleepers, NEW k \in 0..N, NEW p \in [Objects -> Pc],
         \A i \in 1..Len(asleep) : p[asleep[i]] = "waiting",
         sem_post(k, p)
  PROVE  /\ sem' \in [0..N -> 0..MaxSem]
         /\ pc' \in [Objects -> Pc] /\ ready' \in Seq(Objects) /\ asleep' \in Seq(Objects)
         /\ Sleepers'
         /\ \A o \in Objects : pc'[o] = p[o] \/ (p[o] = "waiting" /\ pc'[o] = "woken")
<1> DEFINE W == {i \in 1..Len(asleep) : at[asleep[i]] = k}
           w == asleep[Lowest(W)]
<1>1. /\ sem \in [0..N -> 0..MaxSem] /\ ready \in Seq(Objects) /\ asleep \in Seq(Objects)
      /\ MaxSem \in Nat
  BY ChainAssumption DEF CTypeOK
<1>2. sem' \in [0..N -> 0..MaxSem]
  <2>1. sem[k] \in 0..MaxSem
    BY <1>1
  <2>2. sem' = [sem EXCEPT ![k] = IF @ < MaxSem THEN @ + 1 ELSE @]
    BY DEF sem_post
  <2>3. (IF sem[k] < MaxSem THEN sem[k] + 1 ELSE sem[k]) \in 0..MaxSem
    BY <1>1, <2>1
  <2>4. QED
    BY <1>1, <2>2, <2>3
<1>3. CASE W = {}
  <2>1. pc' = p /\ ready' = ready /\ asleep' = asleep
    BY <1>3 DEF sem_post
  <2>2. Sleepers'
    BY <2>1 DEF Sleepers
  <2>3. QED
    BY <1>1, <1>2, <2>1, <2>2
<1>4. CASE W # {}
  <2>1. Lowest(W) \in 1..Len(asleep)
    <3>1. W \subseteq Nat
      BY <1>1
    <3>2. Lowest(W) \in W
      BY <1>4, <3>1, LowestMember
    <3>3. QED
      BY <3>2
  <2>2. /\ pc' = [p EXCEPT ![w] = "woken"] /\ ready' = Append(ready, w)
        /\ asleep' = Without(asleep, w)
    BY <1>4 DEF sem_post
  <2> HIDE DEF W
  <2>3. w \in Objects /\ p[w] = "waiting"
    BY <1>1, <2>1
  <2> HIDE DEF w
  <2>4. pc' \in [Objects -> Pc] /\ ready' \in Seq(Objects)
    <3>1. "woken" \in Pc
      BY DEF Pc
    <3>2. QED
      BY <1>1, <2>2, <2>3, <3>1
  <2>6. /\ asleep' \in Seq(Objects) /\ Once(asleep')
        /\ \A i \in 1..Len(asleep') : asleep'[i] # w /\ \E l \in 1..Len(asleep) : asleep'[i] = asleep[l]
    BY <1>1, <2>2, WithoutSeq DEF Sleepers
  <2>7. Sleepers'
    <3>1. ASSUME NEW i \in 1..Len(asleep') PROVE pc'[asleep'[i]] = "waiting"
      <4>1. PICK l \in 1..Len(asleep) : asleep'[i] = asleep[l]
        BY <2>6
      <4>2. asleep[l] \in Objects /\ asleep[l] # w
        BY <1>1, <2>6, <4>1
      <4>3. QED
        BY <2>2, <4>1, <4>2
    <3>2. QED
      BY <2>6, <3>1 DEF Sleepers
  <2>8. QED
    BY <1>2, <2>2, <2>3, <2>4, <2>6, <2>7
<1>5. QED
  BY <1>3, <1>4

\* turns pass without moving anybody in the chain
LEMMA ChainKept ==
  ASSUME Chained, UNCHANGED kernel,
         \A o \in Objects : /\ pc'[o] = "dead" <=> pc[o] = "dead"
                            /\ pc'[o] = "unborn" <=> pc[o] = "unborn",
         "early" \notin env.failures /\ ~Launched =>
           \A o \in Objects : pc'[o] = "zombie" <=> pc[o] = "zombie"
  PROVE  Chained'
<1>1. /\ sem_idx' = sem_idx /\ last' = last /\ forked' = forked /\ removing' = removing
      /\ env' = env
  BY DEF kernel
<1>2. Listed' = Listed
  BY DEF Listed
<1>3. Launched' <=> Launched
  BY <1>1 DEF Launched
<1>4. Launching /\ "early" \notin env.failures /\ ~Launched => Launching'
  BY <1>1 DEF Launching
<1>5. Numbered => Numbered'
  BY <1>1, <1>2 DEF Numbered, Rank
<1>6. QED
  BY <1>1, <1>3, <1>4, <1>5 DEF Chained

-----------------------------------------------------------------------------
(***************************************************************************)
(* The steps of an object.                                                 *)
(***************************************************************************)
\* sem_wait, of an object that has posted its successor or has been woken
LEMMA Waited ==
  ASSUME SInv, NEW o \in Objects, Running(o), pc[o] \in {"posted", "woken"},
         NEW k \in 0..N - 1, sem_wait(o, k), UNCHANGED kernel
  PROVE  SInv'
<1>0. CTypeOK /\ Sleepers /\ Chained
  BY DEF SInv
<1>1. /\ sem \in [0..N -> 0..MaxSem] /\ ready \in Seq(Objects) /\ asleep \in Seq(Objects)
      /\ pc \in [Objects -> Pc] /\ at \in [Objects -> 0..N - 1] /\ ran \in SUBSET Objects
      /\ MaxSem \in Nat /\ N \in Nat /\ k \in 0..N /\ ready # <<>>
  <2>1. MaxSem \in Nat /\ N \in Nat
    BY ChainAssumption
  <2>2. k \in 0..N
    BY <2>1
  <2>3. QED
    BY <1>0, <2>1, <2>2 DEF CTypeOK, Running
<1>2. \A i \in 1..Len(asleep) : asleep[i] # o /\ asleep[i] \in Objects
  <2>1. \A i \in 1..Len(asleep) : asleep[i] \in Objects
    BY <1>1
  <2>2. QED
    BY <1>0, <2>1 DEF Sleepers
<1>3. CASE /\ sem[k] > 0
           /\ sem' = [sem EXCEPT ![k] = @ - 1]
           /\ pc' = [pc EXCEPT ![o] = "turn"]
           /\ ran' = ran \cup {o}
           /\ UNCHANGED <<at, ready, asleep>>
  <2>1. sem' \in [0..N -> 0..MaxSem]
    <3>1. sem[k] \in 0..MaxSem /\ sem[k] - 1 \in 0..MaxSem
      BY <1>1, <1>3
    <3>2. QED
      BY <1>1, <1>3, <3>1
  <2>2. pc' \in [Objects -> Pc] /\ ran' \in SUBSET Objects
    BY <1>1, <1>3 DEF Pc
  <2>3. CTypeOK'
    BY <1>0, <1>3, <2>1, <2>2 DEF CTypeOK, kernel
  <2>4. Sleepers'
    BY <1>0, <1>1, <1>2, <1>3 DEF Sleepers
  <2>5. Chained'
    BY <1>1, <1>3, <1>0, ChainKept
  <2>6. QED
    BY <2>3, <2>4, <2>5 DEF SInv
<1>4. CASE /\ sem[k] = 0
           /\ pc' = [pc EXCEPT ![o] = "waiting"]
           /\ at' = [at EXCEPT ![o] = k]
           /\ ready' = Tail(ready) /\ asleep' = Append(asleep, o)
           /\ UNCHANGED <<sem, ran>>
  <2>1. pc' \in [Objects -> Pc] /\ at' \in [Objects -> 0..N - 1]
    BY <1>1, <1>4 DEF Pc
  <2>2. ready' \in Seq(Objects) /\ asleep' \in Seq(Objects)
    BY <1>1, <1>4
  <2>3. CTypeOK'
    BY <1>0, <1>4, <2>1, <2>2 DEF CTypeOK, kernel
  <2>4. Sleepers'
    <3>1. /\ Len(asleep') = Len(asleep) + 1 /\ asleep'[Len(asleep) + 1] = o
          /\ \A i \in 1..Len(asleep) : asleep'[i] = asleep[i]
          /\ Len(asleep) \in Nat
      BY <1>1, <1>4
    <3>2. \A i \in 1..Len(asleep') : i \in 1..Len(asleep) \/ i = Len(asleep) + 1
      BY <3>1
    <3>3. ASSUME NEW i \in 1..Len(asleep') PROVE pc'[asleep'[i]] = "waiting"
      <4>1. CASE i \in 1..Len(asleep)
        <5>1. pc[asleep[i]] = "waiting"
          BY <1>0, <4>1 DEF Sleepers
        <5>2. QED
          BY <1>1, <1>2, <1>4, <3>1, <4>1, <5>1
      <4>2. CASE i = Len(asleep) + 1
        BY <1>1, <1>4, <3>1, <4>2
      <4>3. QED
        BY <3>2, <4>1, <4>2
    <3>4. Once(asleep')
      BY <1>0, <1>2, <3>1, <3>2 DEF Sleepers, Once
    <3>5. QED
      BY <3>3, <3>4 DEF Sleepers
  <2>5. Chained'
    BY <1>1, <1>4, <1>0, ChainKept
  <2>6. QED
    BY <2>3, <2>4, <2>5 DEF SInv
<1>5. QED
  BY <1>3, <1>4 DEF sem_wait

\* an object passes its turn on
LEMMA RelinquishStep ==
  ASSUME SInv, NEW o \in Objects, hwapi_relinquish(o)
  PROVE  SInv'
<1>1. /\ pc \in [Objects -> Pc] /\ sem_idx \in [Objects -> 0..N - 1]
      /\ at \in [Objects -> 0..N - 1] /\ asleep \in Seq(Objects)
      /\ CTypeOK /\ Sleepers /\ Chained /\ N \in Nat
  BY ChainAssumption DEF SInv, CTypeOK
<1>2. Running(o) /\ UNCHANGED kernel
  BY DEF hwapi_relinquish
<1>3. CASE /\ pc[o] = "turn"
           /\ sem_post(Successor(o), [pc EXCEPT ![o] = "posted"])
           /\ UNCHANGED <<at, ran>>
  <2> DEFINE p == [pc EXCEPT ![o] = "posted"]
  <2>1. Successor(o) \in 0..N
    BY <1>1 DEF Successor
  <2>2. p \in [Objects -> Pc]
    BY <1>1 DEF Pc
  <2>3. \A i \in 1..Len(asleep) : p[asleep[i]] = "waiting"
    BY <1>1, <1>3 DEF Sleepers
  <2>4. \A x \in Objects : p[x] = pc[x] \/ (x = o /\ p[x] = "posted")
    BY <1>1
  <2>5. sem_post(Successor(o), p)
    BY <1>3
  <2> HIDE DEF p
  <2>6. /\ sem' \in [0..N -> 0..MaxSem]
        /\ pc' \in [Objects -> Pc] /\ ready' \in Seq(Objects) /\ asleep' \in Seq(Objects)
        /\ Sleepers'
        /\ \A x \in Objects : pc'[x] = p[x] \/ (p[x] = "waiting" /\ pc'[x] = "woken")
    BY <1>1, <2>1, <2>2, <2>3, <2>5, Posted
  <2>7. CTypeOK'
    BY <1>1, <1>2, <1>3, <2>6 DEF CTypeOK, kernel
  <2>8. Chained'
    BY <1>1, <1>2, <1>3, <2>4, <2>6, ChainKept
  <2>9. QED
    BY <2>6, <2>7, <2>8 DEF SInv
<1>4. CASE pc[o] = "posted" /\ sem_wait(o, sem_idx[o])
  BY <1>1, <1>2, <1>4, Waited
<1>5. CASE pc[o] = "woken" /\ sem_wait(o, at[o])
  BY <1>1, <1>2, <1>5, Waited
<1>6. QED
  BY <1>3, <1>4, <1>5 DEF hwapi_relinquish

\* a death leaves the chain as it is: the entry of the dead stays listed until the kernel reaps it
LEMMA DieStep ==
  ASSUME SInv, NEW o \in Objects, Die(o)
  PROVE  SInv'
<1>1. /\ pc \in [Objects -> Pc] /\ ready \in Seq(Objects) /\ asleep \in Seq(Objects)
      /\ CTypeOK /\ Sleepers /\ Chained
  BY DEF SInv, CTypeOK
<1>2. /\ pc' = [pc EXCEPT ![o] = "zombie"] /\ pc[o] \notin {"unborn", "zombie", "dead"}
      /\ ready' = Without(ready, o) /\ asleep' = Without(asleep, o)
      /\ Launched \/ "early" \in env.failures
      /\ UNCHANGED <<sem, at, ran, kernel>>
  BY DEF Die, Alive
<1>4. /\ ready' \in Seq(Objects) /\ asleep' \in Seq(Objects) /\ Once(asleep')
      /\ \A i \in 1..Len(asleep') : asleep'[i] # o /\ \E l \in 1..Len(asleep) : asleep'[i] = asleep[l]
  BY <1>1, <1>2, WithoutSeq DEF Sleepers
<1>5. CTypeOK'
  <2>1. pc' \in [Objects -> Pc]
    BY <1>1, <1>2 DEF Pc
  <2>2. QED
    BY <1>1, <1>2, <1>4, <2>1 DEF CTypeOK, kernel
<1>6. Sleepers'
  <2>1. ASSUME NEW i \in 1..Len(asleep') PROVE pc'[asleep'[i]] = "waiting"
    <3>1. PICK l \in 1..Len(asleep) : asleep'[i] = asleep[l]
      BY <1>4
    <3>2. pc[asleep[l]] = "waiting" /\ asleep[l] \in Objects /\ asleep[l] # o
      BY <1>1, <1>4, <3>1 DEF Sleepers
    <3>3. QED
      BY <1>1, <1>2, <3>1, <3>2
  <2>2. QED
    BY <1>4, <2>1 DEF Sleepers
<1>7. Chained'
  BY <1>1, <1>2, ChainKept
<1>8. QED
  BY <1>5, <1>6, <1>7 DEF SInv

-----------------------------------------------------------------------------
(***************************************************************************)
(* The steps of the kernel.                                                *)
(***************************************************************************)
LEMMA SlotStep ==
  ASSUME SInv, syncTslot
  PROVE  SInv'
<1>1. /\ pc \in [Objects -> Pc] /\ CTypeOK /\ Sleepers /\ Chained /\ 0 \in 0..N
      /\ \A i \in 1..Len(asleep) : pc[asleep[i]] = "waiting"
  <2>1. 0 \in 0..N
    BY ChainAssumption
  <2>2. QED
    BY <2>1 DEF SInv, CTypeOK, Sleepers
<1>2. sem_post(0, pc) /\ ran' = {} /\ at' = at /\ UNCHANGED kernel
  BY DEF syncTslot
<1>3. /\ sem' \in [0..N -> 0..MaxSem]
      /\ pc' \in [Objects -> Pc] /\ ready' \in Seq(Objects) /\ asleep' \in Seq(Objects)
      /\ Sleepers'
      /\ \A o \in Objects : pc'[o] = pc[o] \/ (pc[o] = "waiting" /\ pc'[o] = "woken")
  BY <1>1, <1>2, Posted
<1>4. CTypeOK'
  BY <1>1, <1>2, <1>3 DEF CTypeOK, kernel
<1>5. Chained'
  BY <1>1, <1>2, <1>3, ChainKept
<1>6. QED
  BY <1>3, <1>4, <1>5 DEF SInv

\* an object is launched
LEMMA ForkStep ==
  ASSUME SInv, NEW o \in Objects, fork(o)
  PROVE  SInv'
<1>1. /\ pc \in [Objects -> Pc] /\ ready \in Seq(Objects) /\ asleep \in Seq(Objects)
      /\ CTypeOK /\ Sleepers /\ Chained
  BY DEF SInv, CTypeOK
<1>2. /\ pc[o] = "unborn" /\ forked = {} /\ forked' = {o}
      /\ pc' = [pc EXCEPT ![o] = "turn"] /\ ready' = Append(ready, o) /\ ran' = ran \cup {o}
      /\ sem' = sem /\ sem_idx' = sem_idx /\ last' = last /\ at' = at /\ asleep' = asleep
      /\ removing' = removing /\ env' = env
  BY DEF fork
<1>3. CTypeOK'
  <2>1. pc' \in [Objects -> Pc]
    BY <1>1, <1>2 DEF Pc
  <2>2. QED
    BY <1>1, <1>2, <2>1 DEF CTypeOK
<1>4. Sleepers'
  <2>1. \A i \in 1..Len(asleep) : pc[asleep[i]] = "waiting" /\ asleep[i] \in Objects
    BY <1>1 DEF Sleepers
  <2>2. \A i \in 1..Len(asleep) : pc'[asleep[i]] = "waiting"
    BY <1>1, <1>2, <2>1
  <2>3. QED
    BY <1>1, <1>2, <2>2 DEF Sleepers
<1>5. Chained'
  <2>1. ~Launched /\ ~Launched'
    BY <1>2 DEF Launched
  <2>2. ASSUME Launching PROVE Launching'
    <3>1. \A x \in Objects : pc'[x] \notin {"zombie", "dead"}
      BY <1>1, <1>2, <2>2 DEF Launching
    <3>2. \A x \in Objects : pc'[x] # "unborn" /\ x \notin forked' =>
                              pc[x] # "unborn" /\ x \notin forked
      BY <1>1, <1>2
    <3>3. QED
      BY <1>2, <2>2, <3>1, <3>2 DEF Launching
  <2>3. QED
    BY <1>1, <1>2, <2>1, <2>2 DEF Chained
<1>6. QED
  BY <1>3, <1>4, <1>5 DEF SInv

\* the object that gets its place last completes the chain: the numbers are 0 to N - 1
LEMMA CreateStep ==
  ASSUME SInv, NEW o \in Objects, create_process(o)
  PROVE  SInv'
<1>0. N \in Nat /\ N >= 1 /\ o - 1 \in 0..N - 1
  BY ChainAssumption DEF Objects
<1>1. /\ pc \in [Objects -> Pc] /\ sem_idx \in [Objects -> 0..N - 1]
      /\ last \in Int /\ last < N
      /\ CTypeOK /\ Sleepers /\ Chained
      /\ \A x, y \in forked : x = y
  BY DEF SInv, CTypeOK
<1>2. /\ o \in forked /\ removing = {} /\ forked' = {}
      /\ sem_idx' = [sem_idx EXCEPT ![o] = o - 1]
      /\ last' = IF o - 1 > last THEN o - 1 ELSE last
      /\ sem' = sem /\ pc' = pc /\ at' = at /\ ready' = ready /\ asleep' = asleep
      /\ removing' = removing /\ ran' = ran /\ env' = env
  BY DEF create_process, Position
<1>3. last' \in Int /\ last' < N /\ last <= last' /\ o - 1 <= last'
  BY <1>0, <1>1, <1>2
<1>4. CTypeOK'
  <2>1. sem_idx' \in [Objects -> 0..N - 1]
    BY <1>0, <1>1, <1>2
  <2>2. QED
    BY <1>1, <1>2, <1>3, <2>1 DEF CTypeOK
<1>5. Sleepers'
  BY <1>1, <1>2 DEF Sleepers
<1>6. Chained'
  <2>1. ~Launched
    BY <1>2 DEF Launched
  <2> SUFFICES ASSUME "early" \notin env.failures
               PROVE  /\ Launched' => Numbered'
                      /\ ~Launched' => Launching'
    BY <1>2 DEF Chained
  <2>2. Launching
    BY <1>1, <2>1 DEF Chained
  <2>3. \A x \in Objects : pc'[x] # "unborn" /\ x \notin forked' =>
                            sem_idx'[x] = x - 1 /\ x - 1 <= last'
    <3>1. ASSUME NEW x \in Objects, x # o, pc'[x] # "unborn"
          PROVE  sem_idx'[x] = x - 1 /\ x - 1 <= last'
      <4>1. x \notin forked
        BY <1>1, <1>2, <3>1
      <4>2. sem_idx[x] = x - 1 /\ x - 1 <= last
        BY <1>2, <2>2, <3>1, <4>1 DEF Launching
      <4>3. QED
        BY <1>1, <1>2, <1>3, <3>1, <4>2 DEF Objects
    <3>2. sem_idx'[o] = o - 1 /\ o - 1 <= last'
      BY <1>1, <1>2, <1>3
    <3>3. QED
      BY <3>1, <3>2
  <2>4. Launching'
    BY <1>2, <2>2, <2>3 DEF Launching
  <2>5. ASSUME Launched' PROVE Numbered'
    <3>1. Listed' = 1..N
      BY <1>2, <2>2 DEF Launching, Listed, Objects
    <3>2. /\ Cardinality(1..N) = N
          /\ \A x \in 1..N : Cardinality(Before(1..N, x)) = x - 1
      BY <1>0, BeforeAll
    <3>3. \A x \in Objects : sem_idx'[x] = x - 1 /\ x - 1 <= last'
      BY <2>3, <2>5 DEF Launched
    <3>4. last' = N - 1
      <4>1. N \in Objects
        BY <1>0 DEF Objects
      <4>2. N - 1 <= last'
        BY <3>3, <4>1
      <4>3. QED
        BY <1>0, <1>3, <4>2
    <3>5. removing' = {}
      BY <1>2
    <3>6. \A x \in Listed' : sem_idx'[x] = Cardinality(Before(Listed', x))
      BY <3>1, <3>2, <3>3 DEF Objects
    <3>7. last' = Cardinality(Listed') - 1
      BY <3>1, <3>2, <3>4
    <3>8. QED
      BY <3>5, <3>6, <3>7 DEF Numbered, Rank
  <2>6. QED
    BY <2>4, <2>5
<1>7. QED
  BY <1>4, <1>5, <1>6 DEF SInv

\* the chain has no more members than there are objects, and Rank counts them
LEMMA ListedFinite ==
  /\ N \in Nat /\ Listed \in SUBSET (1..N)
  /\ IsFiniteSet(Listed) /\ Cardinality(Listed) \in Nat
  /\ \A o \in Listed : o \in Int /\ Rank(o) \in Nat /\ Rank(o) < Cardinality(Listed)
<1>1. N \in Nat /\ Listed \in SUBSET (1..N)
  BY ChainAssumption DEF Listed, Objects
<1>2. /\ IsFiniteSet(Listed) /\ Cardinality(Listed) \in Nat
      /\ \A o \in Listed : o \in Int
      /\ \A o : Cardinality(Before(Listed, o)) \in Nat
  BY <1>1, BeforeFinite
<1>3. \A o \in Listed : Cardinality(Before(Listed, o)) < Cardinality(Listed)
  BY <1>1, BeforeBound
<1>4. QED
  BY <1>1, <1>2, <1>3 DEF Rank

\* with the one that is reaped gone, all behind it are one too high
LEMMA ReapStep ==
  ASSUME SInv, NEW o \in Objects, sig_chld(o)
  PROVE  SInv'
<1>1. /\ pc \in [Objects -> Pc] /\ asleep \in Seq(Objects)
      /\ sem_idx \in [Objects -> 0..N - 1]
      /\ CTypeOK /\ Sleepers /\ Chained /\ N \in Nat
  BY ChainAssumption DEF SInv, CTypeOK
<1>2. /\ pc[o] = "zombie" /\ removing = {}
      /\ pc' = [pc EXCEPT ![o] = "dead"]
      /\ removing' = {[sem_i |-> sem_idx[o] + 1]}
      /\ sem' = sem /\ sem_idx' = sem_idx /\ last' = last /\ forked' = forked /\ at' = at
      /\ ready' = ready /\ asleep' = asleep /\ ran' = ran /\ env' = env
  BY DEF sig_chld
<1>3. CTypeOK'
  <2>1. pc' \in [Objects -> Pc]
    BY <1>1, <1>2 DEF Pc
  <2>2. sem_idx[o] + 1 \in 1..N
    BY <1>1
  <2>3. removing' \in SUBSET [sem_i : 1..N] /\ \A r, x \in removing' : r = x
    BY <1>2, <2>2
  <2>4. QED
    BY <1>1, <1>2, <2>1, <2>3 DEF CTypeOK
<1>4. Sleepers'
  <2>1. \A i \in 1..Len(asleep) : pc[asleep[i]] = "waiting" /\ asleep[i] \in Objects
    BY <1>1 DEF Sleepers
  <2>2. \A i \in 1..Len(asleep) : pc'[asleep[i]] = "waiting"
    BY <1>1, <1>2, <2>1
  <2>3. QED
    BY <1>1, <1>2, <2>2 DEF Sleepers
<1>5. Chained'
  <2> SUFFICES ASSUME "early" \notin env.failures
               PROVE  Launched' /\ Numbered'
    BY <1>2 DEF Chained
  <2>1. Launched
    BY <1>1, <1>2 DEF Chained, Launching
  <2>2. Launched'
    BY <1>1, <1>2, <2>1 DEF Launched
  <2>3. /\ \A x \in Listed : sem_idx[x] = Rank(x)
        /\ last = Cardinality(Listed) - 1
    BY <1>1, <1>2, <2>1 DEF Chained, Numbered
  <2>4. o \in Listed /\ Listed' = Listed \ {o}
    BY <1>1, <1>2 DEF Listed
  <2>5. /\ N \in Nat /\ Listed \in SUBSET (1..N) /\ Cardinality(Listed) \in Nat
        /\ \A x \in Listed : x \in Int /\ Rank(x) \in Nat
    BY ListedFinite
  <2>6. /\ Cardinality(Listed \ {o}) = Cardinality(Listed) - 1
        /\ \A x \in Listed \ {o} :
             /\ x < o => Cardinality(Before(Listed \ {o}, x)) = Cardinality(Before(Listed, x))
             /\ x > o => Cardinality(Before(Listed \ {o}, x)) = Cardinality(Before(Listed, x)) - 1
    BY <2>4, <2>5, BeforeRemove
  <2>7. ASSUME NEW x \in Listed'
        PROVE  \/ sem_idx'[x] = Rank(x)' /\ Rank(x)' < sem_idx[o] + 1
               \/ sem_idx'[x] = Rank(x)' + 1 /\ sem_idx'[x] >= sem_idx[o] + 1
    <3>1. /\ x \in Listed /\ x # o /\ x \in Int /\ o \in Int /\ Rank(x) \in Nat /\ Rank(o) \in Nat
          /\ sem_idx'[x] = Rank(x) /\ sem_idx[o] = Rank(o)
      BY <1>2, <2>3, <2>4, <2>5
    <3>2. Rank(x)' = Cardinality(Before(Listed \ {o}, x))
      BY <2>4 DEF Rank
    <3>3. CASE x < o
      <4>1. Rank(x)' = Rank(x)
        BY <2>4, <2>6, <3>2, <3>3 DEF Rank
      <4>2. Rank(x) < Rank(o)
        BY <2>5, <3>1, <3>3, BeforeMonotone DEF Rank
      <4>3. QED
        BY <3>1, <4>1, <4>2
    <3>4. CASE x > o
      <4>1. Rank(x)' = Rank(x) - 1
        BY <2>4, <2>6, <3>2, <3>4 DEF Rank
      <4>2. Rank(o) < Rank(x)
        BY <2>4, <2>5, <3>1, <3>4, BeforeMonotone DEF Rank
      <4>3. QED
        BY <3>1, <4>1, <4>2
    <3>5. QED
      BY <3>1, <3>3, <3>4
  <2>8. last' = Cardinality(Listed')
    BY <1>2, <2>3, <2>4, <2>5, <2>6
  <2>9. ASSUME NEW r \in removing' PROVE r.sem_i = sem_idx[o] + 1
    BY <1>2, <2>9
  <2>10. removing' # {}
    BY <1>2
  <2>11. QED
    BY <2>2, <2>7, <2>8, <2>9, <2>10 DEF Numbered
<1>6. QED
  BY <1>3, <1>4, <1>5 DEF SInv

\* the loop of remove_process: an object one too high is lowered when the loop reaches its
\* number, and when the loop is over none is left
LEMMA RemoveStep ==
  ASSUME SInv, remove_process
  PROVE  SInv'
<1>1. /\ pc \in [Objects -> Pc] /\ sem_idx \in [Objects -> 0..N - 1]
      /\ last \in Int /\ last < N
      /\ removing \in SUBSET [sem_i : 1..N] /\ \A r, x \in removing : r = x
      /\ CTypeOK /\ Sleepers /\ Chained /\ N \in Nat
      /\ \A i \in 1..Len(asleep) : pc[asleep[i]] = "waiting"
  BY ChainAssumption DEF SInv, CTypeOK, Sleepers
<1>2. PICK r \in removing :
        \/ /\ r.sem_i <= last /\ UpFrom(r.sem_i) # {}
           /\ sem_idx' = [sem_idx EXCEPT ![Lowest(UpFrom(r.sem_i))] = @ - 1]
           /\ sem_post(r.sem_i, pc)
           /\ UNCHANGED <<last, removing>>
        \/ /\ r.sem_i <= last /\ UpFrom(r.sem_i) = {}
           /\ removing' = {[sem_i |-> r.sem_i + 1]}
           /\ UNCHANGED <<sem, sem_idx, last, pc, ready, asleep>>
        \/ /\ r.sem_i > last
           /\ last' = last - 1
           /\ removing' = {}
           /\ UNCHANGED <<sem, sem_idx, pc, ready, asleep>>
  BY DEF remove_process
<1>3. at' = at /\ ran' = ran /\ forked' = forked /\ env' = env
  BY DEF remove_process
<1>4. r.sem_i \in 1..N /\ removing = {r}
  BY <1>1
<1>5. "early" \notin env.failures =>
        /\ Launched /\ last = Cardinality(Listed)
        /\ \A o \in Listed : \/ sem_idx[o] = Rank(o) /\ Rank(o) < r.sem_i
                             \/ sem_idx[o] = Rank(o) + 1 /\ sem_idx[o] >= r.sem_i
  <2>1. "early" \notin env.failures => Launched
    BY <1>1, <1>4 DEF Chained, Launching
  <2>2. "early" \notin env.failures => Numbered
    BY <1>1, <2>1 DEF Chained
  <2>3. QED
    BY <1>4, <2>1, <2>2 DEF Numbered
<1>6. /\ Cardinality(Listed) \in Nat
      /\ \A o \in Listed : Rank(o) \in Nat /\ Rank(o) < Cardinality(Listed)
  BY ListedFinite
<1>7. CASE /\ r.sem_i <= last /\ UpFrom(r.sem_i) # {}
           /\ sem_idx' = [sem_idx EXCEPT ![Lowest(UpFrom(r.sem_i))] = @ - 1]
           /\ sem_post(r.sem_i, pc)
           /\ UNCHANGED <<last, removing>>
  <2> DEFINE u == Lowest(UpFrom(r.sem_i))
  <2>1. u \in Objects /\ sem_idx[u] = r.sem_i
    <3>1. UpFrom(r.sem_i) \subseteq Nat
      BY <1>1 DEF UpFrom, Objects
    <3>2. u \in UpFrom(r.sem_i)
      BY <1>7, <3>1, LowestMember
    <3>3. QED
      BY <3>2 DEF UpFrom
  <2>2. sem_idx' = [sem_idx EXCEPT ![u] = @ - 1]
    BY <1>7
  <2> HIDE DEF u
  <2>3. r.sem_i \in 0..N
    BY <1>1, <1>4
  <2>4. /\ sem' \in [0..N -> 0..MaxSem]
        /\ pc' \in [Objects -> Pc] /\ ready' \in Seq(Objects) /\ asleep' \in Seq(Objects)
        /\ Sleepers'
        /\ \A o \in Objects : pc'[o] = pc[o] \/ (pc[o] = "waiting" /\ pc'[o] = "woken")
    BY <1>1, <1>7, <2>3, Posted
  <2>5. sem_idx' \in [Objects -> 0..N - 1]
    <3>1. sem_idx[u] - 1 \in 0..N - 1
      BY <1>1, <1>4, <2>1
    <3>2. QED
      BY <1>1, <2>1, <2>2, <3>1
  <2>6. CTypeOK'
    BY <1>1, <1>3, <1>7, <2>4, <2>5 DEF CTypeOK
  <2>7. Chained'
    <3> SUFFICES ASSUME "early" \notin env.failures
                 PROVE  Launched' /\ Numbered'
      BY <1>3 DEF Chained
    <3>1. Launched'
      BY <1>3, <1>5, <2>4 DEF Launched
    <3>2. Listed' = Listed
      BY <2>4 DEF Listed
    <3>3. ASSUME NEW o \in Listed
          PROVE  \/ sem_idx'[o] = Rank(o) /\ Rank(o) < r.sem_i
                 \/ sem_idx'[o] = Rank(o) + 1 /\ sem_idx'[o] >= r.sem_i
      <4>1. CASE o = u
        <5>1. sem_idx'[o] = r.sem_i - 1
          BY <1>1, <2>1, <2>2, <4>1
        <5>2. sem_idx[o] = r.sem_i
          BY <2>1, <4>1
        <5>3. Rank(o) = r.sem_i - 1
          BY <1>4, <1>5, <1>6, <5>2
        <5>4. QED
          BY <1>4, <5>1, <5>3
      <4>2. CASE o # u
        <5>1. sem_idx'[o] = sem_idx[o]
          BY <1>1, <2>1, <2>2, <4>2 DEF Listed
        <5>2. QED
          BY <1>5, <5>1
      <4>3. QED
        BY <4>1, <4>2
    <3>4. removing' = {r} /\ last' = Cardinality(Listed')
      BY <1>4, <1>5, <1>7, <3>2
    <3>5. \A o : Rank(o)' = Rank(o)
      BY <3>2 DEF Rank
    <3>6. QED
      BY <3>1, <3>2, <3>3, <3>4, <3>5 DEF Numbered
  <2>8. QED
    BY <2>4, <2>6, <2>7 DEF SInv
<1>8. CASE /\ r.sem_i <= last /\ UpFrom(r.sem_i) = {}
           /\ removing' = {[sem_i |-> r.sem_i + 1]}
           /\ UNCHANGED <<sem, sem_idx, last, pc, ready, asleep>>
  <2>1. r.sem_i + 1 \in 1..N
    BY <1>1, <1>4, <1>8
  <2>2. CTypeOK'
    <3>1. removing' \in SUBSET [sem_i : 1..N] /\ \A q, x \in removing' : q = x
      BY <1>8, <2>1
    <3>2. QED
      BY <1>1, <1>3, <1>8, <3>1 DEF CTypeOK
  <2>3. Sleepers'
    BY <1>1, <1>8 DEF Sleepers
  <2>4. Listed' = Listed /\ (Launched' <=> Launched)
    BY <1>3, <1>8 DEF Listed, Launched
  <2>5. \A o : Rank(o)' = Rank(o)
    BY <2>4 DEF Rank
  <2>6. Chained'
    <3> SUFFICES ASSUME "early" \notin env.failures
                 PROVE  Launched' /\ Numbered'
      BY <1>3 DEF Chained
    <3>1. ASSUME NEW o \in Listed
          PROVE  \/ sem_idx[o] = Rank(o) /\ Rank(o) < r.sem_i + 1
                 \/ sem_idx[o] = Rank(o) + 1 /\ sem_idx[o] >= r.sem_i + 1
      <4>1. sem_idx[o] # r.sem_i
        BY <1>8 DEF UpFrom, Listed
      <4>2. QED
        BY <1>4, <1>5, <1>6, <4>1
    <3>2. ASSUME NEW q \in removing' PROVE q.sem_i = r.sem_i + 1
      BY <1>8, <3>2
    <3>3. removing' # {} /\ last' = Cardinality(Listed') /\ sem_idx' = sem_idx
      BY <1>5, <1>8, <2>4
    <3>4. QED
      BY <1>5, <2>4, <2>5, <3>1, <3>2, <3>3 DEF Numbered
  <2>7. QED
    BY <2>2, <2>3, <2>6 DEF SInv
<1>9. CASE /\ r.sem_i > last
           /\ last' = last - 1
           /\ removing' = {}
           /\ UNCHANGED <<sem, sem_idx, pc, ready, asleep>>
  <2>1. CTypeOK'
    <3>1. last' \in Int /\ last' < N
      BY <1>1, <1>9
    <3>2. QED
      BY <1>1, <1>3, <1>9, <3>1 DEF CTypeOK
  <2>2. Sleepers'
    BY <1>1, <1>9 DEF Sleepers
  <2>3. Listed' = Listed /\ (Launched' <=> Launched)
    BY <1>3, <1>9 DEF Listed, Launched
  <2>4. \A o : Rank(o)' = Rank(o)
    BY <2>3 DEF Rank
  <2>5. Chained'
    <3> SUFFICES ASSUME "early" \notin env.failures
                 PROVE  Launched' /\ Numbered'
      BY <1>3 DEF Chained
    <3>1. \A o \in Listed : sem_idx[o] = Rank(o)
      BY <1>4, <1>5, <1>6, <1>9
    <3>2. last' = Cardinality(Listed) - 1
      BY <1>5, <1>9
    <3>3. QED
      BY <1>5, <1>9, <2>3, <2>4, <3>1, <3>2 DEF Numbered
  <2>6. QED
    BY <2>1, <2>2, <2>5 DEF SInv
<1>10. QED
  BY <1>2, <1>7, <1>8, <1>9

-----------------------------------------------------------------------------
\* the invariant always holds
LEMMA ChainInductive == CSpec => []SInv
<1>1. CInit => SInv
  <2> SUFFICES ASSUME CInit PROVE SInv
    OBVIOUS
  <2>1. N \in Nat /\ N >= 1 /\ MaxSem \in Nat /\ MaxSem >= 1
    BY ChainAssumption
  <2>2. CTypeOK
    BY <2>1 DEF CInit, CTypeOK, Pc
  <2>3. Len(asleep) = 0
    BY DEF CInit
  <2>4. Sleepers
    BY <2>3 DEF Sleepers, Once
  <2>5. 1 \in Objects
    BY <2>1 DEF Objects
  <2>6. ~Launched /\ Launching
    BY <2>5 DEF CInit, Launched, Launching
  <2>7. QED
    BY <2>2, <2>4, <2>6 DEF SInv, Chained
<1>2. SInv /\ [CNext]_cvars => SInv'
  <2> SUFFICES ASSUME SInv, [CNext]_cvars PROVE SInv'
    OBVIOUS
  <2>1. CASE syncTslot
    BY <2>1, SlotStep
  <2>2. CASE remove_process
    BY <2>2, RemoveStep
  <2>3. ASSUME NEW o \in Objects, fork(o) PROVE SInv'
    BY <2>3, ForkStep
  <2>4. ASSUME NEW o \in Objects, create_process(o) PROVE SInv'
    BY <2>4, CreateStep
  <2>5. ASSUME NEW o \in Objects, hwapi_relinquish(o) PROVE SInv'
    BY <2>5, RelinquishStep
  <2>6. ASSUME NEW o \in Objects, Die(o) PROVE SInv'
    BY <2>6, DieStep
  <2>7. ASSUME NEW o \in Objects, sig_chld(o) PROVE SInv'
    BY <2>7, ReapStep
  <2>8. CASE UNCHANGED cvars
    BY <2>8 DEF cvars, kernel, SInv, CTypeOK, Sleepers, Once, Chained, Launched, Launching,
                Numbered, Listed, Rank
  <2>9. QED
    BY <2>1, <2>2, <2>3, <2>4, <2>5, <2>6, <2>7, <2>8 DEF CNext
<1>3. QED
  BY <1>1, <1>2, PTL DEF CSpec

\* A position is never below the first or beyond the last object, whatever dies when: not even a
\* death while others are launched, which leaves the numbers wrong, takes them out of the array
\* of semaphores (hwapi_relinquish posts sem_objects[sem_idx + 1], remove_process counts sem_idx
\* down).
THEOREM CTypeCorrect == CSpec => []CTypeOK
<1>1. SInv => CTypeOK
  BY DEF SInv
<1>2. QED
  BY <1>1, ChainInductive, PTL

\* The loop of remove_process, which runs while the objects run and die, closes the gap of the
\* dead process and no other: between two removals the objects not yet removed are numbered as
\* if the dead had never been in the chain.
THEOREM NoGapEver == CSpec => []NoGap
<1>1. SInv => NoGap
  <2> SUFFICES ASSUME SInv, "early" \notin env.failures, Launched, removing = {}
               PROVE  /\ \A o \in Listed : sem_idx[o] = Cardinality({j \in Listed : j < o})
                      /\ last = Cardinality(Listed) - 1
    BY DEF NoGap
  <2>1. QED
    BY DEF SInv, Chained, Numbered, Rank, Before
<1>2. QED
  BY <1>1, ChainInductive, PTL
=============================================================================
