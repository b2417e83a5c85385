---------------------------- MODULE HwManProofs ----------------------------
(***************************************************************************)
(* HWMAN's books, for every platform, every set of waveforms and every     *)
(* environment: the types, the accounting of power, objects and external   *)
(* bandwidth, and the agreement of the indexes, in the order: facts about  *)
(* the constants and about sums, the inductive invariant HInv, one lemma   *)
(* per action, and the theorems. Then the positions of the processes, with *)
(* the invariant GInv that ties HWMAN's numbers to the kernel's.           *)
(***************************************************************************)
EXTENDS HwMan, Counting, SequenceTheorems

\* The processors that announced themselves first
Known(n) == {Processors[i] : i \in 1..n}

\* HWMAN knows only processors that have announced themselves, all cores of a PE together, and
\* the mapper's indexes lead to processors
Registry ==
  /\ pedb \subseteq Known(announced)
  /\ \A i \in 1..announced : \A j \in announced + 1..Len(Processors) : Processors[i][1] # Processors[j][1]
  /\ plat.n = Cardinality(pedb)
  /\ \A i \in 0..plat.n - 1 : peobj[i] \in Procs

\* nothing is loaded before the platform is complete
Untouched ==
  announced < Len(Processors) =>
    queue = <<>> /\ loaded_apps = {} /\ \A w \in DOMAIN Waves : phase[w] = "none"

\* The packets under way: no packet twice, a MAPOBJ only while its waveform is being mapped, an
\* UNMAPOBJ before the MAPOBJ of the next load; a waveform that holds resources but is no longer
\* in SWMAN has its UNMAPOBJ under way
Ordered ==
  /\ \A i, j \in 1..Len(queue) : queue[i] = queue[j] => i = j
  /\ \A i \in 1..Len(queue) : queue[i].op = "MAPOBJ" => phase[queue[i].app] = "mapping"
  /\ \A i \in 1..Len(queue) : queue[i].op = "UNMAPOBJ" =>
       /\ phase[queue[i].app] \in {"none", "mapping"}
       /\ \A j \in 1..Len(queue) : queue[j].op = "MAPOBJ" /\ queue[j].app = queue[i].app => i < j
  /\ \A w \in loaded_apps : up /\ phase[w] \in {"none", "mapping"} =>
       \E i \in 1..Len(queue) : queue[i] = [op |-> "UNMAPOBJ", app |-> w]

\* the objects of a loaded waveform are on processors, and its external links have interfaces
Placed ==
  /\ \A w \in loaded_apps : \A o \in Range(Waves[w]) : place[o] \in Procs
  /\ \A l \in Links : WaveOf(l.from) \in loaded_apps /\ ~Internal(l, place) => Wire(l, place) \in DOMAIN XitfId

\* power and number of objects: exact on a platform that loses no processor, the objects also
\* on one that loses its last; otherwise a mapping that do_mapping gives up half way loses some,
\* and never wins any
Books ==
  \A p \in Procs :
    /\ C[p] <= Capacity - Total(Held(p), Mops) /\ nof_objects[p] >= Cardinality(Held(p))
    /\ OnlyLast => nof_objects[p] = Cardinality(Held(p))
    /\ env.drops = {} /\ p \in pedb => C[p] = Capacity - Total(Held(p), Mops)

\* while only the last processor is ever forgotten, the index of a processor is its number
Indexed ==
  OnlyLast =>
    /\ \/ pedb = Known(announced)
       \/ env.drops # {} /\ announced = Len(Processors) /\ pedb = Known(announced - 1)
    /\ \A i \in 1..announced : P_idx[Processors[i]] = i - 1 /\ peobj[i - 1] = Processors[i]

\* what the mapper sees is what there is
Powers == env.drops = {} => \A p \in pedb : C[p] >= 0 /\ plat.C[P_idx[p]] = C[p]

\* free_resources gives an external link back to the first interface of its id
DistinctIds == \A x, y \in DOMAIN XitfId : XitfId[x] = XitfId[y] => x = y
Wires ==
  DistinctIds /\ env.drops = {} =>
    \A x \in DOMAIN XitfId : extBW[x] = Bandwidth - Total(Carried(x), Bw)

HInv ==
  /\ HTypeOK /\ Registry /\ Untouched /\ Ordered
  /\ Placed /\ Books /\ Indexed /\ Powers /\ Wires

-----------------------------------------------------------------------------
\* Constants: the processors are numbered one to one
LEMMA Machine ==
  /\ Len(Processors) \in Nat /\ Len(Processors) >= 1 /\ LastIdx \in Nat
  /\ \A i \in 1..Len(Processors) : Processors[i] \in Procs /\ Processors[i][1] \in Pes
  /\ \A p \in Procs : p[1] \in Pes /\ \E i \in 1..Len(Processors) : Processors[i] = p
  /\ \A i, j \in 1..Len(Processors) : Processors[i] = Processors[j] => i = j
<1>1. Processors \in Seq(Procs) /\ Processors # <<>> /\ IsInjective(Processors)
  BY HwManAssumption
<1>2. Len(Processors) \in Nat /\ DOMAIN Processors = 1..Len(Processors)
  BY <1>1
<1>3. Len(Processors) # 0
  BY <1>1, EmptySeq
<1>4. \A i \in 1..Len(Processors) : Processors[i] \in Procs
  BY <1>2 DEF Procs, Range
<1>5. \A p \in Procs : \E i \in 1..Len(Processors) : Processors[i] = p
  BY <1>2 DEF Procs, Range
<1>6. \A i, j \in 1..Len(Processors) : Processors[i] = Processors[j] => i = j
  BY <1>1, <1>2 DEF IsInjective
<1>7. QED
  BY <1>2, <1>3, <1>4, <1>5, <1>6 DEF LastIdx, Pes

\* there are n processors among the first n
LEMMA KnownFacts ==
  ASSUME NEW n \in 0..Len(Processors)
  PROVE  /\ Known(n) \subseteq Procs /\ IsFiniteSet(Known(n)) /\ Cardinality(Known(n)) = n
         /\ \A i \in 1..Len(Processors) : Processors[i] \in Known(n) <=> i <= n
<1>1. Known(n) \subseteq Procs
  BY Machine DEF Known
<1>2. \A i \in 1..Len(Processors) : Processors[i] \in Known(n) <=> i <= n
  BY Machine DEF Known
<1>3. IsFiniteSet(Known(n)) /\ Cardinality(Known(n)) = n
  <2> DEFINE f == [i \in 1..n |-> Processors[i]]
  <2>1. f \in [1..n -> Known(n)]
    BY DEF Known
  <2>2. \A i, j \in 1..n : f[i] = f[j] => i = j
    BY Machine
  <2>3. \A p \in Known(n) : \E i \in 1..n : f[i] = p
    BY DEF Known
  <2>4. f \in Bijection(1..n, Known(n))
    <3> HIDE DEF f
    <3>1. QED
      BY <2>1, <2>2, <2>3 DEF Bijection, Injection, Surjection, IsInjective
  <2>5. IsFiniteSet(1..n) /\ Cardinality(1..n) = n
    BY FS_Interval
  <2>6. ExistsBijection(1..n, Known(n))
    BY <2>4 DEF ExistsBijection
  <2>7. QED
    BY <2>5, <2>6, FS_Bijection, FS_SameCardinalityBij
<1>4. QED
  BY <1>1, <1>2, <1>3

\* the processors HWMAN knows are finitely many
LEMMA Database ==
  ASSUME NEW n \in 0..Len(Processors), NEW S \in SUBSET Known(n)
  PROVE  S \subseteq Procs /\ IsFiniteSet(S) /\ Cardinality(S) \in Nat /\ Cardinality(S) <= n
<1>1. Known(n) \subseteq Procs /\ IsFiniteSet(Known(n)) /\ Cardinality(Known(n)) = n
  BY KnownFacts
<1>2. IsFiniteSet(S) /\ Cardinality(S) <= n
  BY <1>1, FS_Subset
<1>3. QED
  BY <1>1, <1>2, FS_CardinalityType

\* when a PE announced itself
LEMMA Ages == \A pe \in Pes : Age(pe) \in 1..Len(Processors)
<1> SUFFICES ASSUME NEW pe \in Pes PROVE Age(pe) \in 1..Len(Processors)
  OBVIOUS
<1> DEFINE T == {i \in 1..Len(Processors) : Processors[i][1] = pe}
<1>1. PICK p \in Procs : pe = p[1]
  BY DEF Pes
<1>2. T \subseteq Nat /\ T # {}
  BY <1>1, Machine
<1>3. \E m \in T : \A n \in T : m <= n
  <2> HIDE DEF T
  <2>1. QED
    BY <1>2, LeastNat
<1>4. Age(pe) \in T
  <2>1. Age(pe) = Min(T)
    BY DEF Age
  <2> HIDE DEF T
  <2>2. QED
    BY <1>3, <2>1 DEF Min
<1>5. QED
  BY <1>4

\* Every object and every link is of one waveform
LEMMA Families ==
  /\ \A o \in Objs : WaveOf(o) \in DOMAIN Waves /\ o \in Range(Waves[WaveOf(o)])
  /\ \A w \in DOMAIN Waves : \A o \in Range(Waves[w]) : o \in Objs /\ WaveOf(o) = w
  /\ \A l \in Links : l.from \in Objs /\ l.to \in Objs /\ WaveOf(l.to) = WaveOf(l.from)
<1>1. \A o \in Objs : WaveOf(o) \in DOMAIN Waves /\ o \in Range(Waves[WaveOf(o)])
  BY DEF Objs, WaveOf
<1>2. \A w \in DOMAIN Waves : \A o \in Range(Waves[w]) : o \in Objs
  BY DEF Objs
<1>3. \A w \in DOMAIN Waves : \A o \in Range(Waves[w]) : WaveOf(o) = w
  BY <1>1, <1>2, HwManAssumption
<1>4. \A l \in Links : l.from \in Objs /\ l.to \in Objs /\ WaveOf(l.to) = WaveOf(l.from)
  BY HwManAssumption
<1>5. QED
  BY <1>1, <1>2, <1>3, <1>4

-----------------------------------------------------------------------------
\* Sums of what objects ask for, and their number
LEMMA ObjectSums ==
  /\ \A S \in SUBSET Objs : /\ IsFiniteSet(S) /\ Total(S, Mops) \in Nat /\ Cardinality(S) \in Nat
  /\ \A S, T \in SUBSET Objs : S \cap T = {} =>
       /\ Total(S \cup T, Mops) = Total(S, Mops) + Total(T, Mops)
       /\ Cardinality(S \cup T) = Cardinality(S) + Cardinality(T)
  /\ Total({}, Mops) = 0 /\ Cardinality({}) = 0
<1>1. \A o \in Objs : Mops[o] \in Int /\ Mops[o] >= 0
  BY HwManAssumption
<1>2. ASSUME NEW S \in SUBSET Objs
      PROVE  IsFiniteSet(S) /\ Total(S, Mops) \in Nat /\ Cardinality(S) \in Nat
  <2>1. IsFiniteSet(S)
    BY HwManAssumption, FS_Subset
  <2>2. \A o \in S : Mops[o] \in Int /\ Mops[o] >= 0
    BY <1>1
  <2>3. SumFunctionOnSet(Mops, S) \in Int /\ SumFunctionOnSet(Mops, S) >= 0
    BY <2>1, <2>2, SumType
  <2>4. QED
    BY <2>1, <2>3, FS_CardinalityType DEF Total
<1>3. ASSUME NEW S \in SUBSET Objs, NEW T \in SUBSET Objs, S \cap T = {}
      PROVE  /\ Total(S \cup T, Mops) = Total(S, Mops) + Total(T, Mops)
             /\ Cardinality(S \cup T) = Cardinality(S) + Cardinality(T)
  <2>1. IsFiniteSet(S) /\ IsFiniteSet(T) /\ Cardinality(S) \in Nat /\ Cardinality(T) \in Nat
    BY <1>2
  <2>2. \A o \in S \cup T : Mops[o] \in Int
    BY <1>1
  <2>3. Total(S \cup T, Mops) = Total(S, Mops) + Total(T, Mops)
    BY <1>3, <2>1, <2>2, SumUnion DEF Total
  <2>4. Cardinality(S \cup T) = Cardinality(S) + Cardinality(T)
    <3>1. Cardinality(S \cup T) = Cardinality(S) + Cardinality(T) - Cardinality(S \cap T)
      BY <2>1, FS_Union
    <3>2. Cardinality(S \cap T) = 0
      BY <1>3, FS_EmptySet
    <3>3. QED
      BY <2>1, <3>1, <3>2
  <2>5. QED
    BY <2>3, <2>4
<1>4. Total({}, Mops) = 0
  BY SumUnfold, FS_EmptySet DEF Total
<1>5. Cardinality({}) = 0
  BY FS_EmptySet
<1>6. QED
  BY <1>2, <1>3, <1>4, <1>5

\* what is removed from a set is missing in its sum
LEMMA ObjectDifference ==
  ASSUME NEW S \in SUBSET Objs, NEW T \in SUBSET S
  PROVE  /\ Total(S \ T, Mops) = Total(S, Mops) - Total(T, Mops)
         /\ Cardinality(S \ T) = Cardinality(S) - Cardinality(T)
<1> DEFINE D == S \ T
<1>1. D \cup T = S /\ D \cap T = {} /\ D \in SUBSET Objs /\ T \in SUBSET Objs
  OBVIOUS
<1> HIDE DEF D
<1>2. /\ Total(D, Mops) \in Nat /\ Total(T, Mops) \in Nat
      /\ Cardinality(D) \in Nat /\ Cardinality(T) \in Nat
  BY <1>1, ObjectSums
<1>3. /\ Total(D \cup T, Mops) = Total(D, Mops) + Total(T, Mops)
      /\ Cardinality(D \cup T) = Cardinality(D) + Cardinality(T)
  BY <1>1, ObjectSums
<1>4. /\ Total(S, Mops) = Total(D, Mops) + Total(T, Mops)
      /\ Cardinality(S) = Cardinality(D) + Cardinality(T)
  BY <1>1, <1>3
<1>5. /\ Total(D, Mops) = Total(S, Mops) - Total(T, Mops)
      /\ Cardinality(D) = Cardinality(S) - Cardinality(T)
  BY <1>2, <1>4
<1>6. QED
  BY <1>5 DEF D

\* The same for the bandwidth of links
LEMMA LinkSums ==
  /\ \A S \in SUBSET Links : IsFiniteSet(S) /\ Total(S, Bw) \in Nat
  /\ \A S, T \in SUBSET Links : S \cap T = {} => Total(S \cup T, Bw) = Total(S, Bw) + Total(T, Bw)
  /\ Total({}, Bw) = 0
<1>1. \A l \in Links : Bw[l] \in Int /\ Bw[l] >= 0
  BY HwManAssumption DEF Bw
<1>2. ASSUME NEW S \in SUBSET Links
      PROVE  IsFiniteSet(S) /\ Total(S, Bw) \in Nat
  <2>1. IsFiniteSet(S)
    BY HwManAssumption, FS_Subset
  <2>2. \A l \in S : Bw[l] \in Int /\ Bw[l] >= 0
    BY <1>1
  <2>3. SumFunctionOnSet(Bw, S) \in Int /\ SumFunctionOnSet(Bw, S) >= 0
    BY <2>1, <2>2, SumType
  <2>4. QED
    BY <2>1, <2>3 DEF Total
<1>3. ASSUME NEW S \in SUBSET Links, NEW T \in SUBSET Links, S \cap T = {}
      PROVE  Total(S \cup T, Bw) = Total(S, Bw) + Total(T, Bw)
  <2>1. IsFiniteSet(S) /\ IsFiniteSet(T)
    BY <1>2
  <2>2. \A l \in S \cup T : Bw[l] \in Int
    BY <1>1
  <2>3. QED
    BY <1>3, <2>1, <2>2, SumUnion DEF Total
<1>4. Total({}, Bw) = 0
  BY SumUnfold, FS_EmptySet DEF Total
<1>5. QED
  BY <1>2, <1>3, <1>4

\* the bandwidth of what is left of a set of links
LEMMA LinkDifference ==
  ASSUME NEW S \in SUBSET Links, NEW T \in SUBSET S
  PROVE  Total(S \ T, Bw) = Total(S, Bw) - Total(T, Bw)
<1> DEFINE D == S \ T
<1>1. D \cup T = S /\ D \cap T = {} /\ D \in SUBSET Links /\ T \in SUBSET Links
  OBVIOUS
<1> HIDE DEF D
<1>2. Total(D, Bw) \in Nat /\ Total(T, Bw) \in Nat
  BY <1>1, LinkSums
<1>3. Total(D \cup T, Bw) = Total(D, Bw) + Total(T, Bw)
  BY <1>1, LinkSums
<1>4. Total(S, Bw) = Total(D, Bw) + Total(T, Bw)
  BY <1>1, <1>3
<1>5. Total(D, Bw) = Total(S, Bw) - Total(T, Bw)
  BY <1>2, <1>4
<1>6. QED
  BY <1>5 DEF D

-----------------------------------------------------------------------------
\* of some processors there is a newest one
LEMMA Newest ==
  ASSUME NEW S \in SUBSET Procs, S # {}
  PROVE  \E p \in S : \A q \in S : Age(q[1]) <= Age(p[1])
<1> DEFINE T == {Age(p[1]) : p \in S}
<1>1. \A p \in S : Age(p[1]) \in 1..Len(Processors)
  BY Machine, Ages
<1>2. T \subseteq Nat /\ T # {} /\ (\A k \in T : k <= Len(Processors)) /\ Len(Processors) \in Nat
  BY <1>1, Machine
<1>3. \E m \in T : \A k \in T : k <= m
  <2> HIDE DEF T
  <2>1. QED
    BY <1>2, GreatestNat
<1>4. QED
  BY <1>3

\* calc_P_vector reports the power of the newest of the processors that have an index
At(db, idx, i) == {p \in db : idx[p] = i}
NewestOf(S) == CHOOSE p \in S : \A q \in S : Age(q[1]) <= Age(p[1])
\* the processor at an index is one of those announced at it
LEMMA Vector ==
  ASSUME NEW n \in 0..Len(Processors), NEW db \in SUBSET Known(n), NEW idx, NEW i, At(db, idx, i) # {}
  PROVE  NewestOf(At(db, idx, i)) \in At(db, idx, i) /\ At(db, idx, i) \subseteq Procs
<1> DEFINE S == At(db, idx, i)
<1>1. S \in SUBSET Procs
  BY Database DEF At
<1>2. S # {}
  OBVIOUS
<1> HIDE DEF S
<1>3. NewestOf(S) \in S /\ S \subseteq Procs
  BY <1>1, <1>2, Newest DEF NewestOf
<1>4. QED
  BY <1>3 DEF S

-----------------------------------------------------------------------------
\* the invariant holds at the start
LEMMA Initial == HInit => HInv
<1> SUFFICES ASSUME HInit PROVE HInv
  OBVIOUS
<1> USE DEF HInit
<1>1. Cardinality({}) = 0 /\ Known(0) = {}
  BY FS_EmptySet DEF Known
<1>2. HTypeOK
  <2>1. /\ pedb \subseteq Procs /\ announced \in 0..Len(Processors) /\ P_idx \in [Procs -> 0..LastIdx]
        /\ peobj \in [0..LastIdx -> Procs \cup {None}]
    BY Machine
  <2>2. /\ C \in [Procs -> Int] /\ (\A p \in Procs : C[p] <= Capacity) /\ nof_objects \in [Procs -> Nat]
        /\ intBW \in [Procs -> Int] /\ extBW \in [DOMAIN XitfId -> Int]
    BY HwManAssumption
  <2>3. plat \in [n : 0..Len(Processors), C : [0..LastIdx -> Int]]
    BY Machine
  <2>4. queue \in Seq([op : {"MAPOBJ", "UNMAPOBJ"}, app : DOMAIN Waves])
    BY DEF HInit
  <2>5. loads \in 0..MaxLoads /\ up \in BOOLEAN
    BY HwManAssumption
  <2>6. /\ phase \in [DOMAIN Waves -> {"none", "mapping", "loading", "failed", "running", "stopping"}]
        /\ proc \in [Objs -> {"none", "mapped", "live", "stopped", "dead"}]
        /\ sem_idx \in [Objs -> Nat] /\ last_semidx \in [Procs -> Int] /\ loaded_apps \subseteq DOMAIN Waves
        /\ place \in [Objs -> Procs \cup {None}] /\ position \in [Objs -> Nat] /\ env \in Environments
    OBVIOUS
  <2>7. QED
    BY <2>1, <2>2, <2>3, <2>4, <2>5, <2>6 DEF HTypeOK
<1>3. Registry
  BY <1>1, Machine DEF Registry
<1>4. Untouched /\ Ordered /\ Placed
  BY DEF Untouched, Ordered, Placed
<1>5. \A p : Held(p) = {}
  BY DEF Held
<1>6. Books
  <2>1. Capacity \in Nat /\ pedb = {} /\ (\A p \in Procs : C[p] = 0 /\ nof_objects[p] = 0)
    BY HwManAssumption
  <2>2. \A p \in Procs : Total(Held(p), Mops) = 0 /\ Cardinality(Held(p)) = 0
    BY <1>5, ObjectSums
  <2>3. QED
    BY <2>1, <2>2 DEF Books
<1>7. Indexed /\ Powers
  BY <1>1, Machine DEF Indexed, Powers
<1>8. \A x : Carried(x) = {}
  BY DEF Carried
<1>9. Wires
  <2>1. Bandwidth \in Nat /\ (\A x \in DOMAIN XitfId : extBW[x] = Bandwidth)
    BY HwManAssumption
  <2>2. \A x : Total(Carried(x), Bw) = 0
    BY <1>8, LinkSums
  <2>3. QED
    BY <2>1, <2>2 DEF Wires
<1>10. QED
  BY <1>2, <1>3, <1>4, <1>6, <1>7, <1>9 DEF HInv

\* Steps that leave HWMAN's database and its books as they are
LEMMA Still ==
  ASSUME HInv, UNCHANGED <<pedb, announced, P_idx, peobj, C, nof_objects, extBW, plat, loaded_apps, place, env>>
  PROVE  Registry' /\ Placed' /\ Books' /\ Indexed' /\ Powers' /\ Wires'
<1>1. Registry'
  BY DEF HInv, Registry
<1>2. Placed'
  BY DEF HInv, Placed, Internal, Wire
<1>3. \A p : Held(p)' = Held(p)
  BY DEF Held
<1>4. Books'
  BY <1>3 DEF HInv, Books, OnlyLast
<1>5. Indexed'
  BY DEF HInv, Indexed, OnlyLast
<1>6. Powers'
  BY DEF HInv, Powers
<1>7. \A x : Carried(x)' = Carried(x)
  BY DEF Carried, Internal, Wire
<1>8. Wires'
  BY <1>7 DEF HInv, Wires
<1>9. QED
  BY <1>1, <1>2, <1>4, <1>5, <1>6, <1>8

\* such as all that SWMAN and the kernel do
LEMMA Frame ==
  ASSUME HInv, UNCHANGED <<res, hwman, env>>
  PROVE  /\ Registry' /\ Placed' /\ Books' /\ Indexed' /\ Powers' /\ Wires'
         /\ UNCHANGED <<pedb, announced, P_idx, peobj, C, nof_objects, intBW, extBW, plat, loaded_apps,
                        place, position, up, env>>
<1>1. UNCHANGED <<pedb, announced, P_idx, peobj, C, nof_objects, intBW, extBW, plat, loaded_apps,
                  place, position, up, env>>
  BY DEF res, hwman
<1>2. QED
  BY <1>1, Still

\* a step that changes nothing keeps the invariant
LEMMA Stutter ==
  ASSUME HInv, UNCHANGED hvars
  PROVE  HInv'
<1>1. UNCHANGED <<res, hwman, env>> /\ UNCHANGED <<queue, phase, loads, proc, sem_idx, last_semidx>>
  BY DEF hvars, swman, kernel
<1>2. /\ Registry' /\ Placed' /\ Books' /\ Indexed' /\ Powers' /\ Wires'
      /\ UNCHANGED <<pedb, announced, P_idx, peobj, C, nof_objects, intBW, extBW, plat, loaded_apps,
                     place, position, up, env>>
  BY <1>1, Frame
<1>3. HTypeOK'
  BY <1>1, <1>2 DEF HInv, HTypeOK
<1>4. Untouched' /\ Ordered'
  BY <1>1, <1>2 DEF HInv, Untouched, Ordered
<1>5. QED
  BY <1>2, <1>3, <1>4 DEF HInv

-----------------------------------------------------------------------------
\* The queue grows at its end
LEMMA Sent ==
  ASSUME HTypeOK, NEW m \in [op : {"MAPOBJ", "UNMAPOBJ"}, app : DOMAIN Waves], queue' = Append(queue, m)
  PROVE  /\ Len(queue) \in Nat /\ Len(queue') = Len(queue) + 1 /\ queue'[Len(queue) + 1] = m
         /\ \A i \in 1..Len(queue) : queue'[i] = queue[i] /\ queue[i] \in [op : {"MAPOBJ", "UNMAPOBJ"}, app : DOMAIN Waves]
         /\ queue' \in Seq([op : {"MAPOBJ", "UNMAPOBJ"}, app : DOMAIN Waves])
<1> DEFINE M == [op : {"MAPOBJ", "UNMAPOBJ"}, app : DOMAIN Waves]
<1>1. queue \in Seq(M) /\ m \in M
  BY DEF HTypeOK
<1> HIDE DEF M
<1>2. /\ Len(queue) \in Nat /\ Len(queue') = Len(queue) + 1 /\ queue'[Len(queue) + 1] = m
      /\ \A i \in 1..Len(queue) : queue'[i] = queue[i] /\ queue[i] \in M
      /\ queue' \in Seq(M)
  BY <1>1
<1>3. QED
  BY <1>2 DEF M

\* swman_incmd_loadapp
LEMMA Load ==
  ASSUME HInv, NEW w \in DOMAIN Waves, swman_incmd_loadapp(w)
  PROVE  HInv'
<1> USE DEF swman_incmd_loadapp
<1>1. UNCHANGED <<res, hwman, env>> /\ UNCHANGED <<sem_idx, last_semidx>>
  OBVIOUS
<1>2. /\ Registry' /\ Placed' /\ Books' /\ Indexed' /\ Powers' /\ Wires'
      /\ UNCHANGED <<pedb, announced, P_idx, peobj, C, nof_objects, intBW, extBW, plat, loaded_apps,
                     place, position, up, env>>
  BY <1>1, Frame
<1> DEFINE n == Len(queue)
           m == [op |-> "MAPOBJ", app |-> w]
<1>3. HTypeOK
  BY DEF HInv
<1>4. /\ n \in Nat /\ Len(queue') = n + 1 /\ queue'[n + 1] = m
      /\ \A i \in 1..n : queue'[i] = queue[i] /\ queue[i] \in [op : {"MAPOBJ", "UNMAPOBJ"}, app : DOMAIN Waves]
      /\ queue' \in Seq([op : {"MAPOBJ", "UNMAPOBJ"}, app : DOMAIN Waves])
  BY <1>3, Sent
<1>5. HTypeOK'
  <2>1. phase' \in [DOMAIN Waves -> {"none", "mapping", "loading", "failed", "running", "stopping"}]
    BY <1>3 DEF HTypeOK
  <2>2. proc' \in [Objs -> {"none", "mapped", "live", "stopped", "dead"}]
    BY <1>3 DEF HTypeOK
  <2>3. loads' \in 0..MaxLoads
    <3>1. loads \in 0..MaxLoads /\ loads < MaxLoads /\ loads' = loads + 1
      BY <1>3 DEF HTypeOK
    <3>2. MaxLoads \in Nat
      BY HwManAssumption
    <3> HIDE DEF swman_incmd_loadapp
    <3>3. QED
      BY <3>1, <3>2
  <2>4. QED
    BY <1>1, <1>2, <1>3, <1>4, <2>1, <2>2, <2>3 DEF HTypeOK
<1>6. Untouched'
  BY <1>2, Machine DEF Untouched
<1>7. phase'[w] = "mapping" /\ \A v \in DOMAIN Waves : v # w => phase'[v] = phase[v]
  BY <1>3 DEF HTypeOK
<1>8. \A i \in 1..n : ~(queue[i].op = "MAPOBJ" /\ queue[i].app = w)
  BY DEF HInv, Ordered
<1>9. Ordered'
  <2>1. \A i \in 1..n : queue[i] # m
    BY <1>8
  <2>2. \A i, j \in 1..n + 1 : queue'[i] = queue'[j] => i = j
    BY <1>4, <2>1 DEF HInv, Ordered
  <2>3. \A i \in 1..n + 1 : queue'[i].op = "MAPOBJ" => phase'[queue'[i].app] = "mapping"
    BY <1>4, <1>7 DEF HInv, Ordered
  <2>4. ASSUME NEW i \in 1..n + 1, queue'[i].op = "UNMAPOBJ"
        PROVE  /\ phase'[queue'[i].app] \in {"none", "mapping"}
               /\ \A j \in 1..n + 1 : queue'[j].op = "MAPOBJ" /\ queue'[j].app = queue'[i].app => i < j
    <3>1. i \in 1..n
      BY <1>4, <2>4
    <3>2. phase[queue[i].app] \in {"none", "mapping"}
      BY <1>4, <2>4, <3>1 DEF HInv, Ordered
    <3>3. phase'[queue[i].app] \in {"none", "mapping"}
      BY <1>4, <1>7, <3>1, <3>2
    <3>4. \A j \in 1..n : queue[j].op = "MAPOBJ" /\ queue[j].app = queue[i].app => i < j
      BY <1>4, <2>4, <3>1 DEF HInv, Ordered
    <3>5. QED
      BY <1>4, <3>1, <3>3, <3>4
  <2>5. \A v \in loaded_apps' : up' /\ phase'[v] \in {"none", "mapping"} =>
          \E i \in 1..n + 1 : queue'[i] = [op |-> "UNMAPOBJ", app |-> v]
    <3> SUFFICES ASSUME NEW v \in loaded_apps, up, phase'[v] \in {"none", "mapping"}
                 PROVE  \E i \in 1..n + 1 : queue'[i] = [op |-> "UNMAPOBJ", app |-> v]
      BY <1>2
    <3>1. phase[v] \in {"none", "mapping"}
      BY <1>3, <1>7 DEF HTypeOK
    <3>2. PICK i \in 1..n : queue[i] = [op |-> "UNMAPOBJ", app |-> v]
      BY <3>1 DEF HInv, Ordered
    <3>3. QED
      BY <1>4, <3>2
  <2> HIDE DEF n, m, swman_incmd_loadapp
  <2>6. QED
    BY <1>4, <2>2, <2>3, <2>4, <2>5 DEF Ordered
<1>10. QED
  BY <1>2, <1>5, <1>6, <1>9 DEF HInv

\* unmap_app
LEMMA Unmap ==
  ASSUME HInv, NEW w \in DOMAIN Waves, unmap_app(w)
  PROVE  HInv'
<1> USE DEF unmap_app
<1>1. UNCHANGED <<res, hwman, env>> /\ UNCHANGED <<loads, proc, sem_idx, last_semidx>>
  BY DEF kernel
<1>2. /\ Registry' /\ Placed' /\ Books' /\ Indexed' /\ Powers' /\ Wires'
      /\ UNCHANGED <<pedb, announced, P_idx, peobj, C, nof_objects, intBW, extBW, plat, loaded_apps,
                     place, position, up, env>>
  BY <1>1, Frame
<1> DEFINE n == Len(queue)
           m == [op |-> "UNMAPOBJ", app |-> w]
<1>3. HTypeOK
  BY DEF HInv
<1>4. /\ n \in Nat /\ Len(queue') = n + 1 /\ queue'[n + 1] = m
      /\ \A i \in 1..n : queue'[i] = queue[i] /\ queue[i] \in [op : {"MAPOBJ", "UNMAPOBJ"}, app : DOMAIN Waves]
      /\ queue' \in Seq([op : {"MAPOBJ", "UNMAPOBJ"}, app : DOMAIN Waves])
  BY <1>3, Sent
<1>5. HTypeOK'
  <2>1. phase' \in [DOMAIN Waves -> {"none", "mapping", "loading", "failed", "running", "stopping"}]
    BY <1>3 DEF HTypeOK
  <2>2. QED
    BY <1>1, <1>2, <1>3, <1>4, <2>1 DEF HTypeOK
<1>6. Untouched'
  BY <1>2 DEF HInv, Untouched
<1>7. phase'[w] = "none" /\ \A v \in DOMAIN Waves : v # w => phase'[v] = phase[v]
  BY <1>3 DEF HTypeOK
<1>8. \A i \in 1..n : queue[i].app # w
  <2>1. \A i \in 1..n : queue[i].op \in {"MAPOBJ", "UNMAPOBJ"}
    BY <1>4
  <2>2. QED
    BY <2>1 DEF HInv, Ordered
<1>9. Ordered'
  <2>1. \A i \in 1..n : queue[i] # m
    BY <1>8
  <2>2. \A i, j \in 1..n + 1 : queue'[i] = queue'[j] => i = j
    BY <1>4, <2>1 DEF HInv, Ordered
  <2>3. \A i \in 1..n + 1 : queue'[i].op = "MAPOBJ" => phase'[queue'[i].app] = "mapping"
    <3> SUFFICES ASSUME NEW i \in 1..n + 1, queue'[i].op = "MAPOBJ"
                 PROVE  phase'[queue'[i].app] = "mapping"
      OBVIOUS
    <3>1. i \in 1..n
      BY <1>4
    <3>2. phase[queue[i].app] = "mapping"
      BY <1>4, <3>1 DEF HInv, Ordered
    <3>3. QED
      BY <1>4, <1>7, <1>8, <3>1, <3>2
  <2>4. ASSUME NEW i \in 1..n + 1, queue'[i].op = "UNMAPOBJ"
        PROVE  /\ phase'[queue'[i].app] \in {"none", "mapping"}
               /\ \A j \in 1..n + 1 : queue'[j].op = "MAPOBJ" /\ queue'[j].app = queue'[i].app => i < j
    <3>1. CASE i \in 1..n
      <4>1. phase[queue[i].app] \in {"none", "mapping"} /\ queue[i].app # w
        BY <1>4, <1>8, <2>4, <3>1 DEF HInv, Ordered
      <4>2. phase'[queue[i].app] \in {"none", "mapping"}
        BY <1>4, <1>7, <3>1, <4>1
      <4>3. \A j \in 1..n : queue[j].op = "MAPOBJ" /\ queue[j].app = queue[i].app => i < j
        BY <1>4, <2>4, <3>1 DEF HInv, Ordered
      <4>4. QED
        BY <1>4, <3>1, <4>2, <4>3
    <3>2. CASE i = n + 1
      BY <1>4, <1>7, <1>8, <3>2
    <3>3. QED
      BY <1>4, <3>1, <3>2
  <2>5. \A v \in loaded_apps' : up' /\ phase'[v] \in {"none", "mapping"} =>
          \E i \in 1..n + 1 : queue'[i] = [op |-> "UNMAPOBJ", app |-> v]
    <3> SUFFICES ASSUME NEW v \in loaded_apps, up, phase'[v] \in {"none", "mapping"}
                 PROVE  \E i \in 1..n + 1 : queue'[i] = [op |-> "UNMAPOBJ", app |-> v]
      BY <1>2
    <3>1. CASE v = w
      <4>1. n + 1 \in 1..n + 1
        BY <1>4
      <4>2. QED
        BY <1>4, <3>1, <4>1
    <3>2. CASE v # w
      <4>1. phase[v] \in {"none", "mapping"}
        BY <1>3, <1>7, <3>2 DEF HTypeOK
      <4>2. PICK i \in 1..n : queue[i] = [op |-> "UNMAPOBJ", app |-> v]
        BY <4>1 DEF HInv, Ordered
      <4>3. QED
        BY <1>4, <4>2
    <3>3. QED
      BY <3>1, <3>2
  <2> HIDE DEF n, m, unmap_app
  <2>6. QED
    BY <1>4, <2>2, <2>3, <2>4, <2>5 DEF Ordered
<1>10. QED
  BY <1>2, <1>5, <1>6, <1>9 DEF HInv

\* A step of a waveform that is neither in the queue nor without resources under way: it is
\* loading, running or being stopped, and stays in SWMAN
LEMMA Underway ==
  ASSUME HInv, UNCHANGED <<res, hwman, env>>, UNCHANGED queue, NEW w \in DOMAIN Waves,
         phase[w] \notin {"none", "mapping"},
         phase' = phase \/ \E s \in {"failed", "running", "stopping"} : phase' = [phase EXCEPT ![w] = s]
  PROVE  Untouched' /\ Ordered' /\ phase' \in [DOMAIN Waves -> {"none", "mapping", "loading", "failed", "running", "stopping"}]
<1>1. UNCHANGED <<announced, loaded_apps, up>>
  BY DEF hwman
<1>2. /\ phase \in [DOMAIN Waves -> {"none", "mapping", "loading", "failed", "running", "stopping"}]
      /\ loaded_apps \subseteq DOMAIN Waves
  BY DEF HInv, HTypeOK
<1>3. Untouched'
  BY <1>1 DEF HInv, Untouched
<1>4. \A v \in DOMAIN Waves : v # w => phase'[v] = phase[v]
  BY <1>2
<1>5. phase'[w] \notin {"none", "mapping"}
  BY <1>2
<1>6. \A i \in 1..Len(queue) : queue[i].op \in {"MAPOBJ", "UNMAPOBJ"} /\ queue[i].app \in DOMAIN Waves
  <2> DEFINE M == [op : {"MAPOBJ", "UNMAPOBJ"}, app : DOMAIN Waves]
  <2>1. queue \in Seq(M)
    BY DEF HInv, HTypeOK
  <2> HIDE DEF M
  <2>2. \A i \in 1..Len(queue) : queue[i] \in M
    BY <2>1
  <2>3. QED
    BY <2>2 DEF M
<1>7. \A i \in 1..Len(queue) : phase'[queue[i].app] = phase[queue[i].app]
  BY <1>4, <1>6 DEF HInv, Ordered
<1>8. \A v \in loaded_apps : phase'[v] \in {"none", "mapping"} => phase[v] \in {"none", "mapping"}
  BY <1>2, <1>4, <1>5
<1>9. Ordered'
  BY <1>1, <1>6, <1>7, <1>8 DEF HInv, Ordered
<1>10. QED
  BY <1>2, <1>3, <1>9

\* swman_sendobjstatus
LEMMA Stop ==
  ASSUME HInv, NEW w \in DOMAIN Waves, swman_sendobjstatus(w)
  PROVE  HInv'
<1> USE DEF swman_sendobjstatus
<1>1. UNCHANGED <<res, hwman, env>> /\ UNCHANGED <<loads, queue, sem_idx, last_semidx>>
  OBVIOUS
<1>2. /\ Registry' /\ Placed' /\ Books' /\ Indexed' /\ Powers' /\ Wires'
      /\ UNCHANGED <<pedb, announced, P_idx, peobj, C, nof_objects, intBW, extBW, plat, loaded_apps,
                     place, position, up, env>>
  BY <1>1, Frame
<1>3. Untouched' /\ Ordered' /\ phase' \in [DOMAIN Waves -> {"none", "mapping", "loading", "failed", "running", "stopping"}]
  BY <1>1, Underway
<1>4. proc' \in [Objs -> {"none", "mapped", "live", "stopped", "dead"}]
  BY DEF HInv, HTypeOK
<1>5. HTypeOK'
  BY <1>1, <1>2, <1>3, <1>4 DEF HInv, HTypeOK
<1>6. QED
  BY <1>2, <1>3, <1>5 DEF HInv

\* load_error
LEMMA Fail ==
  ASSUME HInv, NEW w \in DOMAIN Waves, load_error(w)
  PROVE  HInv'
<1> USE DEF load_error
<1>1. UNCHANGED <<res, hwman, env>> /\ UNCHANGED <<loads, queue, proc, sem_idx, last_semidx>>
  BY DEF kernel
<1>2. /\ Registry' /\ Placed' /\ Books' /\ Indexed' /\ Powers' /\ Wires'
      /\ UNCHANGED <<pedb, announced, P_idx, peobj, C, nof_objects, intBW, extBW, plat, loaded_apps,
                     place, position, up, env>>
  BY <1>1, Frame
<1>3. Untouched' /\ Ordered' /\ phase' \in [DOMAIN Waves -> {"none", "mapping", "loading", "failed", "running", "stopping"}]
  BY <1>1, Underway
<1>4. HTypeOK'
  BY <1>1, <1>2, <1>3 DEF HInv, HTypeOK
<1>5. QED
  BY <1>2, <1>3, <1>4 DEF HInv

\* create_process
LEMMA Create ==
  ASSUME HInv, NEW o \in Objs, create_process(o)
  PROVE  HInv'
<1> USE DEF create_process
<1>0. HTypeOK /\ WaveOf(o) \in DOMAIN Waves
  BY Families DEF HInv
<1>1. UNCHANGED <<res, hwman, env>> /\ UNCHANGED <<loads, queue>>
  OBVIOUS
<1>2. /\ Registry' /\ Placed' /\ Books' /\ Indexed' /\ Powers' /\ Wires'
      /\ UNCHANGED <<pedb, announced, P_idx, peobj, C, nof_objects, intBW, extBW, plat, loaded_apps,
                     place, position, up, env>>
  BY <1>1, Frame
<1>3. Untouched' /\ Ordered' /\ phase' \in [DOMAIN Waves -> {"none", "mapping", "loading", "failed", "running", "stopping"}]
  <2>1. phase[WaveOf(o)] = "loading"
    OBVIOUS
  <2>2. phase' = phase \/ phase' = [phase EXCEPT ![WaveOf(o)] = "running"]
    OBVIOUS
  <2> HIDE DEF create_process
  <2>3. QED
    BY <1>0, <1>1, <2>1, <2>2, Underway
<1>4. proc' \in [Objs -> {"none", "mapped", "live", "stopped", "dead"}]
  BY <1>0 DEF HTypeOK
<1>5. sem_idx' \in [Objs -> Nat]
  BY <1>0 DEF HTypeOK
<1>6. last_semidx' \in [Procs -> Int]
  <2>1. position[o] \in Nat /\ last_semidx \in [Procs -> Int]
    BY <1>0 DEF HTypeOK
  <2> DEFINE last == last_semidx[place[o]]
             k == IF position[o] > last THEN position[o] ELSE last
  <2>2. last_semidx' = [last_semidx EXCEPT ![place[o]] = k]
    OBVIOUS
  <2>3. CASE place[o] \in Procs
    <3>1. k \in Int
      BY <2>1, <2>3
    <3> HIDE DEF k, create_process
    <3>2. QED
      BY <2>1, <2>2, <3>1
  <2>4. CASE place[o] \notin Procs
    <3> HIDE DEF k, create_process
    <3>1. QED
      BY <2>1, <2>2, <2>4
  <2>5. QED
    BY <2>3, <2>4
<1>7. HTypeOK'
  BY <1>0, <1>1, <1>2, <1>3, <1>4, <1>5, <1>6 DEF HTypeOK
<1>8. QED
  BY <1>2, <1>3, <1>7 DEF HInv

\* remove_process
LEMMA ProcessEnds ==
  ASSUME HInv, NEW o \in Objs, remove_process(o)
  PROVE  HInv'
<1> USE DEF remove_process
<1>0. HTypeOK
  BY DEF HInv
<1>1. UNCHANGED <<res, hwman, env>> /\ UNCHANGED <<phase, loads, queue>>
  BY DEF swman
<1>2. /\ Registry' /\ Placed' /\ Books' /\ Indexed' /\ Powers' /\ Wires'
      /\ UNCHANGED <<pedb, announced, P_idx, peobj, C, nof_objects, intBW, extBW, plat, loaded_apps,
                     place, position, up, env>>
  BY <1>1, Frame
<1>3. Untouched' /\ Ordered'
  BY <1>1, <1>2 DEF HInv, Untouched, Ordered
<1>4. proc' \in [Objs -> {"none", "mapped", "live", "stopped", "dead"}]
  BY <1>0 DEF HTypeOK
<1>5. sem_idx' \in [Objs -> Nat]
  <2>1. sem_idx \in [Objs -> Nat]
    BY <1>0 DEF HTypeOK
  <2>2. \A x \in Behind(o) : x \in Objs /\ sem_idx[x] > sem_idx[o]
    BY DEF Behind
  <2>3. \A x \in Behind(o) : sem_idx[x] - 1 \in Nat
    BY <2>1, <2>2
  <2>4. QED
    BY <2>1, <2>3
<1>6. last_semidx' \in [Procs -> Int]
  <2> DEFINE k == last_semidx[place[o]] - 1
  <2>1. last_semidx \in [Procs -> Int] /\ last_semidx' = [last_semidx EXCEPT ![place[o]] = k]
    BY <1>0 DEF HTypeOK
  <2>2. place[o] \in Procs => k \in Int
    BY <2>1
  <2> HIDE DEF k, remove_process
  <2>3. QED
    BY <2>1, <2>2
<1> HIDE DEF remove_process
<1>7. HTypeOK'
  BY <1>0, <1>1, <1>2, <1>4, <1>5, <1>6 DEF HTypeOK
<1>8. QED
  BY <1>2, <1>3, <1>7 DEF HInv

-----------------------------------------------------------------------------
\* After calc_P_vector the mapper sees what there is
LEMMA Sight ==
  ASSUME plat.C \in [0..LastIdx -> Int], announced' \in 0..Len(Processors), pedb' \subseteq Known(announced'),
         P_idx' \in [Procs -> 0..LastIdx], C' \in [Procs -> Int], plat' = calc_P_vector(pedb', P_idx', C'),
         Indexed', env'.drops = {} => \A p \in pedb' : C'[p] >= 0
  PROVE  /\ plat' \in [n : 0..Len(Processors), C : [0..LastIdx -> Int]]
         /\ plat'.n = Cardinality(pedb') /\ Powers'
<1>1. /\ plat' \in [n : 0..Len(Processors), C : [0..LastIdx -> Int]]
      /\ plat'.n = Cardinality(pedb')
      /\ \A p \in pedb' : P_idx'[p] \in 0..LastIdx /\ (\A q \in pedb' : P_idx'[q] = P_idx'[p] => q = p) =>
           plat'.C[P_idx'[p]] = C'[p]
  <2> DEFINE n == announced'
             db == pedb'
             idx == P_idx'
             power == C'
             vec == plat'
             cell(i) == IF At(db, idx, i) # {} THEN power[NewestOf(At(db, idx, i))] ELSE plat.C[i]
  <2>1. /\ n \in 0..Len(Processors) /\ db \in SUBSET Known(n) /\ power \in [Procs -> Int]
        /\ vec = [n |-> Cardinality(db), C |-> [i \in 0..LastIdx |-> cell(i)]]
    BY DEF calc_P_vector, At, NewestOf
  <2> HIDE DEF n, db, idx, power, vec
  <2>2. ASSUME NEW i \in 0..LastIdx
        PROVE  /\ cell(i) \in Int
               /\ \A p \in db : idx[p] = i /\ (\A q \in db : idx[q] = i => q = p) => cell(i) = power[p]
    <3> DEFINE S == At(db, idx, i)
    <3>1. S # {} => NewestOf(S) \in S /\ S \subseteq Procs
      BY <2>1, Vector
    <3>2. \A p \in db : idx[p] = i /\ (\A q \in db : idx[q] = i => q = p) => S = {p}
      BY DEF At
    <3>3. cell(i) = IF S # {} THEN power[NewestOf(S)] ELSE plat.C[i]
      OBVIOUS
    <3> HIDE DEF S, cell
    <3>4. cell(i) \in Int
      BY <2>1, <3>1, <3>3
    <3>5. ASSUME NEW p \in db, idx[p] = i /\ (\A q \in db : idx[q] = i => q = p)
          PROVE  cell(i) = power[p]
      <4>1. S = {p}
        BY <3>2, <3>5
      <4>2. NewestOf(S) = p
        BY <3>1, <4>1
      <4>3. QED
        BY <3>3, <4>1, <4>2
    <3>6. QED
      BY <3>4, <3>5
  <2> HIDE DEF cell
  <2>3. vec.n = Cardinality(db) /\ vec.C = [i \in 0..LastIdx |-> cell(i)]
    BY <2>1
  <2>4. vec.C \in [0..LastIdx -> Int]
    BY <2>2, <2>3
  <2>5. vec.n \in 0..Len(Processors)
    BY <2>1, <2>3, Database
  <2>6. vec \in [n : 0..Len(Processors), C : [0..LastIdx -> Int]]
    BY <2>1, <2>3, <2>4, <2>5
  <2>7. \A p \in db : idx[p] \in 0..LastIdx /\ (\A q \in db : idx[q] = idx[p] => q = p) =>
          vec.C[idx[p]] = power[p]
    BY <2>2, <2>3
  <2>8. QED
    BY <2>3, <2>6, <2>7 DEF n, db, idx, power, vec
<1>2. ASSUME env'.drops = {}, NEW p \in pedb'
      PROVE  plat'.C[P_idx'[p]] = C'[p]
  <2>1. OnlyLast'
    BY <1>2 DEF OnlyLast
  <2>2. \A i \in 1..announced' : P_idx'[Processors[i]] = i - 1
    BY <2>1 DEF Indexed
  <2>3. \A q \in pedb' : \E i \in 1..announced' : q = Processors[i]
    BY DEF Known
  <2>4. \A q \in pedb' : P_idx'[q] = P_idx'[p] => q = p
    <3> SUFFICES ASSUME NEW q \in pedb', P_idx'[q] = P_idx'[p] PROVE q = p
      OBVIOUS
    <3>1. PICK i \in 1..announced' : p = Processors[i]
      BY <2>3
    <3>2. PICK j \in 1..announced' : q = Processors[j]
      BY <2>3
    <3>3. i = j
      BY <2>2, <3>1, <3>2
    <3>4. QED
      BY <3>1, <3>2, <3>3
  <2>5. p \in Procs
    BY KnownFacts
  <2>6. P_idx'[p] \in 0..LastIdx
    BY <2>5
  <2>7. QED
    BY <1>1, <2>4, <2>6
<1>3. Powers'
  BY <1>2 DEF Powers
<1>4. QED
  BY <1>1, <1>3

\* The cores of the PE that announces itself are the next processors
LEMMA NewCores ==
  ASSUME HInv, announced < Len(Processors)
  PROVE  \E b \in announced + 1..Len(Processors) :
           {i \in 1..Len(Processors) : Processors[i][1] = Processors[announced + 1][1]} = announced + 1..b
<1> DEFINE n == Len(Processors)
           a == announced
           T == {i \in 1..n : Processors[i][1] = Processors[a + 1][1]}
<1>1. n \in Nat /\ a \in 0..n /\ a < n
  BY Machine DEF HInv, HTypeOK
<1>2. T \subseteq Nat /\ T # {} /\ (\A i \in T : i <= n) /\ a + 1 \in T
  BY <1>1
<1>3. PICK b \in T : \A i \in T : i <= b
  <2> HIDE DEF T
  <2>1. QED
    BY <1>1, <1>2, GreatestNat
<1>4. \A i \in T : i > a
  <2> SUFFICES ASSUME NEW i \in T, i <= a PROVE FALSE
    BY <1>1
  <2>1. i \in 1..a /\ a + 1 \in a + 1..n
    BY <1>1
  <2>2. Processors[i][1] # Processors[a + 1][1]
    BY <2>1 DEF HInv, Registry
  <2>3. QED
    BY <2>2
<1>5. ASSUME NEW i \in a + 1..b
      PROVE  i \in T
  <2>1. b \in 1..n /\ Processors[b][1] = Processors[a + 1][1] /\ i \in 1..n
    BY <1>1, <1>3
  <2>2. DOMAIN Processors = 1..n
    BY HwManAssumption
  <2>3. CASE i = a + 1
    BY <1>2, <2>3
  <2>4. CASE i = b
    BY <1>3, <2>4
  <2>5. CASE a + 1 < i /\ i < b
    <3>1. a + 1 \in 1..n
      BY <1>1
    <3>2. Processors[i][1] = Processors[a + 1][1]
      BY <2>1, <2>2, <2>5, <3>1, HwManAssumption
    <3>3. QED
      BY <2>1, <3>2
  <2>6. QED
    BY <1>1, <2>1, <2>3, <2>4, <2>5
<1>6. T = a + 1..b
  <2> HIDE DEF T
  <2>1. b \in Nat /\ \A i \in T : i \in a + 1..b
    BY <1>1, <1>2, <1>3, <1>4
  <2>2. QED
    BY <1>5, <2>1
<1>7. b \in a + 1..n
  BY <1>1, <1>2, <1>3, <1>4
<1>8. QED
  BY <1>6, <1>7

\* what hwman_incmd_addcpu enters, by the numbers of the processors
LEMMA Announced ==
  ASSUME HInv, hwman_incmd_addcpu, NEW b \in announced + 1..Len(Processors),
         {i \in 1..Len(Processors) : Processors[i][1] = Processors[announced + 1][1]} = announced + 1..b
  PROVE  /\ announced' = b /\ Cardinality(pedb) \in Nat /\ Cardinality(pedb) <= announced
         /\ pedb' = pedb \cup {Processors[i] : i \in announced + 1..b}
         /\ Cardinality(pedb') = Cardinality(pedb) + b - announced
         /\ \A i \in 1..Len(Processors) : P_idx'[Processors[i]] =
              IF i \in announced + 1..b THEN Cardinality(pedb) + i - announced - 1 ELSE P_idx[Processors[i]]
         /\ P_idx' \in [Procs -> 0..LastIdx]
         /\ \A k \in 0..LastIdx : peobj'[k] =
              IF k \in Cardinality(pedb)..Cardinality(pedb) + b - announced - 1
              THEN Processors[k - Cardinality(pedb) + announced + 1] ELSE peobj[k]
         /\ peobj' \in [0..LastIdx -> Procs \cup {None}]
         /\ \A i \in 1..Len(Processors) : C'[Processors[i]] =
              IF i \in announced + 1..b THEN Capacity ELSE C[Processors[i]]
         /\ C' \in [Procs -> Int] /\ intBW' \in [Procs -> Int]
<1> DEFINE n == Len(Processors)
           a == announced
           c == Cardinality(pedb)
           pe == Processors[a + 1][1]
           cores == a + 1..b
           index(i) == c + i - a - 1
           T == {i \in 1..Len(Processors) : Processors[i][1] = Processors[announced + 1][1]}
<1>1. n \in Nat /\ a \in 0..n /\ a < n /\ b \in a + 1..n /\ LastIdx = n - 1
  BY Machine DEF HInv, HTypeOK, LastIdx, hwman_incmd_addcpu
<1>2. /\ pedb \subseteq Known(a) /\ P_idx \in [Procs -> 0..LastIdx] /\ peobj \in [0..LastIdx -> Procs \cup {None}]
      /\ C \in [Procs -> Int] /\ intBW \in [Procs -> Int]
  BY DEF HInv, HTypeOK, Registry
<1>3. IsFiniteSet(pedb) /\ c \in Nat /\ c <= a
  BY <1>1, <1>2, Database
<1>4. /\ announced' = a + Cardinality(cores)
      /\ pedb' = pedb \cup {Processors[i] : i \in cores}
      /\ P_idx' = [p \in Procs |-> IF p[1] = pe THEN index(CHOOSE i \in cores : Processors[i] = p) ELSE P_idx[p]]
      /\ peobj' = [k \in 0..LastIdx |-> IF \E i \in cores : index(i) = k
                                        THEN Processors[CHOOSE i \in cores : index(i) = k] ELSE peobj[k]]
      /\ C' = [p \in Procs |-> IF p[1] = pe THEN Capacity ELSE C[p]]
      /\ intBW' = [p \in Procs |-> IF p[1] = pe THEN Bandwidth ELSE intBW[p]]
  <2>1. /\ announced' = a + Cardinality(T)
        /\ pedb' = pedb \cup {Processors[i] : i \in T}
        /\ P_idx' = [p \in Procs |-> IF p[1] = pe THEN index(CHOOSE i \in T : Processors[i] = p) ELSE P_idx[p]]
        /\ peobj' = [k \in 0..LastIdx |-> IF \E i \in T : index(i) = k
                                          THEN Processors[CHOOSE i \in T : index(i) = k] ELSE peobj[k]]
        /\ C' = [p \in Procs |-> IF p[1] = pe THEN Capacity ELSE C[p]]
        /\ intBW' = [p \in Procs |-> IF p[1] = pe THEN Bandwidth ELSE intBW[p]]
    BY DEF hwman_incmd_addcpu, NextIndex
  <2>2. T = cores
    OBVIOUS
  <2> HIDE DEF T, cores, index
  <2>3. QED
    BY <2>1, <2>2
<1>5. announced' = b
  <2>1. Cardinality(cores) = b - a
    BY <1>1, FS_Interval
  <2>2. QED
    BY <1>1, <1>4, <2>1
<1>6. \A i \in 1..n : Processors[i][1] = pe <=> i \in cores
  BY <1>1
<1>7. \A i, j \in 1..n : Processors[i] = Processors[j] => i = j
  BY Machine
<1>8. \A i \in 1..n : Processors[i] \in Procs
  BY Machine
<1>9. \A i \in cores : (CHOOSE k \in cores : Processors[k] = Processors[i]) = i
  BY <1>1, <1>7
<1>10. \A i \in cores : index(i) \in 0..LastIdx /\ i \in 1..n
  BY <1>1, <1>3
<1>11. ASSUME NEW i \in 1..n
       PROVE  P_idx'[Processors[i]] = IF i \in cores THEN index(i) ELSE P_idx[Processors[i]]
  <2> DEFINE p == Processors[i]
             k == CHOOSE k \in cores : Processors[k] = p
  <2>1. p \in Procs /\ (p[1] = pe <=> i \in cores)
    BY <1>6, <1>8
  <2>2. i \in cores => k = i
    BY <1>9
  <2> HIDE DEF cores, index
  <2>3. P_idx'[p] = IF p[1] = pe THEN index(k) ELSE P_idx[p]
    BY <1>4, <2>1
  <2> HIDE DEF p, pe, k
  <2>4. P_idx'[p] = IF i \in cores THEN index(i) ELSE P_idx[p]
    BY <2>1, <2>2, <2>3
  <2>5. QED
    BY <2>4 DEF p
<1>12. P_idx' \in [Procs -> 0..LastIdx]
  <2>1. ASSUME NEW p \in Procs
        PROVE  P_idx'[p] \in 0..LastIdx
    <3>1. PICK i \in 1..n : p = Processors[i]
      BY Machine
    <3> HIDE DEF index, cores
    <3>2. P_idx'[p] = IF i \in cores THEN index(i) ELSE P_idx[p]
      BY <1>11, <3>1
    <3>3. QED
      BY <1>2, <1>10, <3>2
  <2>2. \E f : P_idx' = [p \in Procs |-> f[p]]
    <3> DEFINE f == [p \in Procs |-> IF p[1] = pe THEN index(CHOOSE i \in cores : Processors[i] = p) ELSE P_idx[p]]
    <3>1. P_idx' = f /\ f = [p \in Procs |-> f[p]]
      BY <1>4
    <3> HIDE DEF f
    <3>2. QED
      BY <3>1
  <2>3. QED
    BY <2>1, <2>2
<1>13. ASSUME NEW k \in 0..LastIdx
       PROVE  /\ peobj'[k] = IF k \in c..c + b - a - 1 THEN Processors[k - c + a + 1] ELSE peobj[k]
              /\ peobj'[k] \in Procs \cup {None}
  <2> DEFINE j == CHOOSE i \in cores : index(i) = k
  <2>1. peobj'[k] = IF \E i \in cores : index(i) = k THEN Processors[j] ELSE peobj[k]
    BY <1>4
  <2>2. CASE k \in c..c + b - a - 1
    <3>1. k - c + a + 1 \in cores /\ index(k - c + a + 1) = k
      BY <1>1, <1>3, <2>2
    <3>2. \A i \in cores : index(i) = k => i = k - c + a + 1
      BY <1>1, <1>3
    <3> HIDE DEF cores, index
    <3>3. j = k - c + a + 1
      BY <3>1, <3>2
    <3>4. peobj'[k] = Processors[k - c + a + 1]
      BY <2>1, <3>1, <3>3
    <3>5. QED
      BY <1>8, <1>10, <2>2, <3>1, <3>4
  <2>3. CASE k \notin c..c + b - a - 1
    <3>1. ~\E i \in cores : index(i) = k
      BY <1>1, <1>3, <2>3
    <3> HIDE DEF j
    <3>2. peobj'[k] = peobj[k]
      BY <2>1, <3>1
    <3>3. QED
      BY <1>2, <2>3, <3>2
  <2>4. QED
    BY <2>2, <2>3
<1>14. peobj' \in [0..LastIdx -> Procs \cup {None}]
  <2> DEFINE f == [k \in 0..LastIdx |-> IF \E i \in cores : index(i) = k
                                        THEN Processors[CHOOSE i \in cores : index(i) = k] ELSE peobj[k]]
  <2>1. peobj' = f /\ f = [k \in 0..LastIdx |-> f[k]]
    BY <1>4
  <2>2. \A k \in 0..LastIdx : peobj'[k] \in Procs \cup {None}
    BY <1>13
  <2> HIDE DEF f
  <2>3. QED
    BY <2>1, <2>2
<1>15. \A i \in 1..n : C'[Processors[i]] = IF i \in cores THEN Capacity ELSE C[Processors[i]]
  BY <1>4, <1>6, <1>8
<1>16. C' \in [Procs -> Int] /\ intBW' \in [Procs -> Int]
  <2>1. Capacity \in Int /\ Bandwidth \in Int
    BY HwManAssumption
  <2>2. QED
    BY <1>2, <1>4, <2>1
<1>17. Cardinality(pedb') = c + b - a
  <2> DEFINE new == {Processors[i] : i \in cores}
             kb == Known(b)
             ka == Known(a)
  <2>1. /\ IsFiniteSet(kb) /\ Cardinality(kb) = b /\ IsFiniteSet(ka) /\ Cardinality(ka) = a
        /\ \A i \in 1..n : Processors[i] \in ka <=> i <= a
    BY <1>1, KnownFacts
  <2>2. kb = ka \cup new
    BY <1>1 DEF Known
  <2>3. \A p \in new : p \notin ka
    BY <1>1, <2>1
  <2>4. ka \cap new = {}
    BY <2>3
  <2>5. new \subseteq kb
    BY <2>2
  <2> HIDE DEF new, ka, kb
  <2>6. IsFiniteSet(new) /\ Cardinality(new) \in Nat
    BY <2>1, <2>5, FS_Subset, FS_CardinalityType
  <2>7. Cardinality(ka \cup new) = a + Cardinality(new) - Cardinality(ka \cap new)
    BY <2>1, <2>6, FS_Union
  <2>8. Cardinality({}) = 0
    BY FS_EmptySet
  <2>9. Cardinality(new) = b - a
    <3>1. b = a + Cardinality(new) - 0
      BY <2>1, <2>2, <2>4, <2>7, <2>8
    <3>2. QED
      BY <1>1, <2>6, <3>1
  <2>10. pedb \cap new = {}
    BY <1>2, <2>4 DEF ka
  <2>11. Cardinality(pedb \cup new) = c + Cardinality(new) - Cardinality(pedb \cap new)
    BY <1>3, <2>6, FS_Union
  <2>12. pedb' = pedb \cup new
    BY <1>4 DEF new
  <2>13. Cardinality(pedb') = c + (b - a) - 0
    BY <2>8, <2>9, <2>10, <2>11, <2>12
  <2>14. QED
    BY <1>1, <1>3, <2>13
<1> HIDE DEF index
<1>18. QED
  BY <1>3, <1>4, <1>5, <1>11, <1>12, <1>13, <1>14, <1>15, <1>16, <1>17 DEF index

\* hwman_incmd_addcpu
LEMMA AddCpu ==
  ASSUME HInv, hwman_incmd_addcpu
  PROVE  HInv'
<1> DEFINE n == Len(Processors)
           a == announced
           c == Cardinality(pedb)
<1>1. /\ n \in Nat /\ a \in 0..n /\ a < n /\ LastIdx = n - 1 /\ HTypeOK
      /\ UNCHANGED <<nof_objects, extBW, loaded_apps, place, position, up, queue, env>>
      /\ UNCHANGED <<phase, loads, proc, sem_idx, last_semidx>>
      /\ plat' = calc_P_vector(pedb', P_idx', C')
  BY Machine DEF HInv, HTypeOK, LastIdx, hwman_incmd_addcpu, swman, kernel
<1>2. PICK b \in a + 1..n : {i \in 1..n : Processors[i][1] = Processors[a + 1][1]} = a + 1..b
  BY <1>1, NewCores
<1>3. /\ announced' = b /\ c \in Nat /\ c <= a
      /\ pedb' = pedb \cup {Processors[i] : i \in a + 1..b}
      /\ Cardinality(pedb') = c + b - a
      /\ \A i \in 1..n : P_idx'[Processors[i]] =
           IF i \in a + 1..b THEN c + i - a - 1 ELSE P_idx[Processors[i]]
      /\ P_idx' \in [Procs -> 0..LastIdx]
      /\ \A k \in 0..LastIdx : peobj'[k] =
           IF k \in c..c + b - a - 1 THEN Processors[k - c + a + 1] ELSE peobj[k]
      /\ peobj' \in [0..LastIdx -> Procs \cup {None}]
      /\ \A i \in 1..n : C'[Processors[i]] = IF i \in a + 1..b THEN Capacity ELSE C[Processors[i]]
      /\ C' \in [Procs -> Int] /\ intBW' \in [Procs -> Int]
  BY <1>2, Announced
<1>4. /\ loaded_apps = {} /\ pedb \subseteq Known(a) /\ Capacity \in Nat
      /\ \A p \in Procs : \E i \in 1..n : Processors[i] = p
      /\ \A i \in 1..n : Processors[i] \in Procs
  BY <1>1, Machine, HwManAssumption DEF HInv, Untouched, Registry
<1>5. pedb' \subseteq Known(b) /\ pedb' \subseteq Procs
  <2>1. Known(a) \subseteq Known(b) /\ {Processors[i] : i \in a + 1..b} \subseteq Known(b)
    BY <1>1 DEF Known
  <2>2. pedb' \subseteq Known(b)
    BY <1>3, <1>4, <2>1
  <2>3. QED
    BY <1>1, <2>2, KnownFacts
<1>6. \A p : Held(p) = {} /\ Held(p)' = {}
  BY <1>1, <1>4 DEF Held
<1>7. Total({}, Mops) = 0 /\ Cardinality({}) = 0
  BY ObjectSums
<1>8. \A p \in Procs : C'[p] <= Capacity
  <2> SUFFICES ASSUME NEW p \in Procs PROVE C'[p] <= Capacity
    OBVIOUS
  <2>1. PICK i \in 1..n : Processors[i] = p
    BY <1>4
  <2>2. C[p] <= Capacity /\ C[p] \in Int
    BY <1>1 DEF HTypeOK
  <2>3. C'[p] = IF i \in a + 1..b THEN Capacity ELSE C[p]
    BY <1>3, <2>1
  <2>4. QED
    BY <1>4, <2>2, <2>3
<1>9. Books'
  <2> SUFFICES ASSUME NEW p \in Procs
               PROVE  /\ C'[p] <= Capacity - 0 /\ nof_objects[p] >= 0
                      /\ OnlyLast => nof_objects[p] = 0
                      /\ env.drops = {} /\ p \in pedb' => C'[p] = Capacity - 0
    BY <1>1, <1>6, <1>7 DEF Books, OnlyLast
  <2>1. nof_objects[p] \in Nat /\ C[p] \in Int /\ C'[p] \in Int
    BY <1>1, <1>3 DEF HTypeOK
  <2>2. C'[p] <= Capacity
    BY <1>8
  <2>3. (OnlyLast => nof_objects[p] = 0) /\ (env.drops = {} /\ p \in pedb => C[p] = Capacity - 0)
    BY <1>6, <1>7 DEF HInv, Books
  <2>4. PICK i \in 1..n : Processors[i] = p
    BY <1>4
  <2>5. i \notin a + 1..b /\ p \in pedb' => p \in pedb
    <3>1. \A j \in 1..n : Processors[j] = p => j = i
      BY <2>4, Machine
    <3>2. \A j \in a + 1..b : j \in 1..n
      BY <1>1
    <3>3. QED
      BY <1>3, <3>1, <3>2
  <2>6. C'[p] = IF i \in a + 1..b THEN Capacity ELSE C[p]
    BY <1>3, <2>4
  <2>7. QED
    BY <1>4, <2>1, <2>2, <2>3, <2>5, <2>6
<1>10. Indexed'
  <2> SUFFICES ASSUME OnlyLast
               PROVE  /\ pedb' = Known(b)
                      /\ \A i \in 1..b : P_idx'[Processors[i]] = i - 1 /\ peobj'[i - 1] = Processors[i]
    BY <1>1, <1>3 DEF Indexed, OnlyLast
  <2>1. /\ pedb = Known(a)
        /\ \A i \in 1..a : P_idx[Processors[i]] = i - 1 /\ peobj[i - 1] = Processors[i]
    BY <1>1 DEF HInv, Indexed
  <2>2. c = a
    BY <1>1, <2>1, KnownFacts
  <2>3. Known(b) = Known(a) \cup {Processors[i] : i \in a + 1..b}
    BY <1>1 DEF Known
  <2>4. pedb' = Known(b)
    BY <1>3, <2>1, <2>3
  <2>5. ASSUME NEW i \in 1..b
        PROVE  P_idx'[Processors[i]] = i - 1 /\ peobj'[i - 1] = Processors[i]
    <3>1. i \in 1..n /\ i - 1 \in 0..LastIdx
      BY <1>1
    <3>2. P_idx'[Processors[i]] = IF i \in a + 1..b THEN a + i - a - 1 ELSE P_idx[Processors[i]]
      BY <1>3, <2>2, <3>1
    <3>3. peobj'[i - 1] = IF i - 1 \in a..a + b - a - 1 THEN Processors[i - 1 - a + a + 1] ELSE peobj[i - 1]
      BY <1>3, <2>2, <3>1
    <3>4. CASE i <= a
      <4>1. i \notin a + 1..b /\ i - 1 \notin a..a + b - a - 1 /\ i \in 1..a
        BY <1>1, <3>4
      <4>2. QED
        BY <2>1, <3>2, <3>3, <4>1
    <3>5. CASE i > a
      <4>1. i \in a + 1..b /\ i - 1 \in a..a + b - a - 1 /\ i - 1 - a + a + 1 = i /\ a + i - a - 1 = i - 1
        BY <1>1, <3>5
      <4>2. QED
        BY <3>2, <3>3, <4>1
    <3>6. QED
      BY <1>1, <3>4, <3>5
  <2>6. QED
    BY <2>4, <2>5
<1>11. \A p \in pedb' : env'.drops = {} => C'[p] >= 0
  <2> SUFFICES ASSUME NEW p \in pedb', env.drops = {} PROVE C'[p] >= 0
    BY <1>1
  <2>1. p \in Procs
    BY <1>5
  <2>2. C'[p] = Capacity - 0
    <3>1. env'.drops = {} /\ Held(p)' = {}
      BY <1>1, <1>6
    <3>2. C'[p] = Capacity - Total(Held(p)', Mops)
      BY <1>9, <2>1, <3>1 DEF Books
    <3>3. QED
      BY <1>7, <3>1, <3>2
  <2>3. QED
    BY <1>4, <2>2
<1>12. /\ plat' \in [n : 0..Len(Processors), C : [0..LastIdx -> Int]]
       /\ plat'.n = Cardinality(pedb') /\ Powers'
  <2>1. plat.C \in [0..LastIdx -> Int]
    BY <1>1 DEF HTypeOK
  <2>2. announced' \in 0..Len(Processors)
    BY <1>1, <1>3
  <2>3. QED
    BY <1>1, <1>3, <1>5, <1>10, <1>11, <2>1, <2>2, Sight
<1>13. Registry'
  <2>1. \A i \in 1..b : \A j \in b + 1..n : Processors[i][1] # Processors[j][1]
    <3> SUFFICES ASSUME NEW i \in 1..b, NEW j \in b + 1..n PROVE Processors[i][1] # Processors[j][1]
      OBVIOUS
    <3>1. CASE i \in 1..a
      <4>1. j \in a + 1..n
        BY <1>1
      <4>2. QED
        BY <3>1, <4>1 DEF HInv, Registry
    <3>2. CASE i \in a + 1..b
      <4>1. j \in 1..n /\ j \notin a + 1..b
        BY <1>1
      <4>2. Processors[i][1] = Processors[a + 1][1]
        BY <1>2, <3>2
      <4>3. Processors[j][1] # Processors[a + 1][1]
        BY <1>2, <4>1
      <4>4. QED
        BY <4>2, <4>3
    <3>3. QED
      BY <1>1, <3>1, <3>2
  <2>2. ASSUME NEW k \in 0..plat'.n - 1
        PROVE  peobj'[k] \in Procs
    <3>1. k \in 0..c + b - a - 1 /\ k \in 0..LastIdx
      BY <1>1, <1>3, <1>12
    <3>2. CASE k < c
      <4>1. k \in 0..plat.n - 1 /\ k \notin c..c + b - a - 1
        BY <1>3, <3>1, <3>2 DEF HInv, Registry
      <4>2. peobj[k] \in Procs
        BY <4>1 DEF HInv, Registry
      <4>3. QED
        BY <1>3, <3>1, <4>1, <4>2
    <3>3. CASE k >= c
      <4>1. k \in c..c + b - a - 1 /\ k - c + a + 1 \in 1..n
        BY <1>1, <1>3, <3>1, <3>3
      <4>2. QED
        BY <1>3, <1>4, <3>1, <4>1
    <3>4. QED
      BY <1>3, <3>1, <3>2, <3>3
  <2>3. QED
    BY <1>3, <1>5, <1>12, <2>1, <2>2 DEF Registry
<1>14. Untouched' /\ Ordered'
  BY <1>1 DEF HInv, Untouched, Ordered
<1>15. Placed'
  <2>1. loaded_apps' = {}
    BY <1>1, <1>4
  <2>2. QED
    BY <2>1 DEF Placed
<1>16. Wires'
  <2>1. \A x : Carried(x)' = Carried(x)
    BY <1>1 DEF Carried, Internal, Wire
  <2>2. QED
    BY <1>1, <2>1 DEF HInv, Wires
<1>17. HTypeOK'
  <2>1. announced' \in 0..Len(Processors)
    BY <1>1, <1>3
  <2>2. QED
    BY <1>1, <1>3, <1>5, <1>8, <1>12, <2>1 DEF HTypeOK
<1>18. QED
  BY <1>9, <1>10, <1>12, <1>13, <1>14, <1>15, <1>16, <1>17 DEF HInv

\* hwman_background
LEMMA Background ==
  ASSUME HInv, hwman_background
  PROVE  HInv'
<1> DEFINE n == Len(Processors)
<1>1. /\ HTypeOK /\ n \in Nat /\ announced \in 0..n
      /\ UNCHANGED <<C, nof_objects, intBW, extBW, announced, P_idx, peobj, loaded_apps, place, position, up>>
      /\ UNCHANGED <<queue, phase, loads, proc, sem_idx, last_semidx, env>>
      /\ plat' = calc_P_vector(pedb', P_idx', C')
  BY Machine DEF HInv, HTypeOK, hwman_background, res, swman, kernel
<1>2. PICK p \in pedb : p[1] \in env.drops /\ pedb' = pedb \ {p}
  BY DEF hwman_background
<1>3. pedb \subseteq Known(announced) /\ pedb \subseteq Procs
  BY DEF HInv, HTypeOK, Registry
<1>4. /\ IsFiniteSet(pedb) /\ Cardinality(pedb) \in Nat /\ Cardinality(pedb) = plat.n
      /\ Cardinality(pedb') = Cardinality(pedb) - 1
  <2>1. IsFiniteSet(pedb) /\ Cardinality(pedb) \in Nat
    BY <1>1, <1>3, Database
  <2>2. Cardinality(pedb') = Cardinality(pedb) - 1
    BY <1>2, <2>1, FS_RemoveElement
  <2>3. QED
    BY <2>1, <2>2 DEF HInv, Registry
<1>5. env'.drops # {} /\ env.drops # {}
  BY <1>1, <1>2
<1>6. Indexed'
  <2> SUFFICES ASSUME OnlyLast
               PROVE  /\ announced = n /\ pedb' = Known(announced - 1)
                      /\ \A i \in 1..announced : P_idx[Processors[i]] = i - 1 /\ peobj[i - 1] = Processors[i]
    BY <1>1, <1>5 DEF Indexed, OnlyLast
  <2>1. PICK k \in 1..announced : p = Processors[k]
    BY <1>3 DEF Known
  <2>2. k = n /\ announced = n
    <3>1. k \notin 1..n - 1
      BY <1>2, <2>1 DEF OnlyLast
    <3>2. QED
      BY <1>1, <2>1, <3>1
  <2>3. pedb = Known(n)
    <3>1. \/ pedb = Known(n)
          \/ pedb = Known(n - 1)
      BY <2>2 DEF HInv, Indexed
    <3>2. Processors[n] \notin Known(n - 1)
      BY <1>1, <2>2, KnownFacts
    <3>3. QED
      BY <2>1, <2>2, <3>1, <3>2
  <2>4. Known(n) \ {Processors[n]} = Known(n - 1)
    <3>1. Processors[n] \notin Known(n - 1)
      BY <1>1, <2>2, KnownFacts
    <3>2. Known(n) = Known(n - 1) \cup {Processors[n]}
      <4>1. \A i \in 1..n : i \in 1..n - 1 \/ i = n
        BY <1>1
      <4>2. \A i \in 1..n - 1 : i \in 1..n
        BY <1>1
      <4>3. n \in 1..n
        BY <2>1, <2>2
      <4>4. QED
        BY <4>1, <4>2, <4>3 DEF Known
    <3>3. QED
      BY <3>1, <3>2
  <2>5. QED
    BY <1>2, <2>1, <2>2, <2>3, <2>4 DEF HInv, Indexed
<1>7. /\ plat' \in [n : 0..Len(Processors), C : [0..LastIdx -> Int]]
      /\ plat'.n = Cardinality(pedb') /\ Powers'
  <2>1. /\ plat.C \in [0..LastIdx -> Int] /\ announced' \in 0..Len(Processors) /\ pedb' \subseteq Known(announced')
        /\ P_idx' \in [Procs -> 0..LastIdx] /\ C' \in [Procs -> Int]
    BY <1>1, <1>2, <1>3 DEF HTypeOK
  <2>2. QED
    BY <1>1, <1>5, <1>6, <2>1, Sight
<1>8. Registry'
  <2>1. pedb' \subseteq Known(announced)
    BY <1>2, <1>3
  <2>2. \A i \in 0..plat'.n - 1 : i \in 0..plat.n - 1
    BY <1>4, <1>7
  <2>3. QED
    BY <1>1, <1>7, <2>1, <2>2 DEF HInv, Registry
<1>9. Untouched' /\ Ordered'
  BY <1>1 DEF HInv, Untouched, Ordered
<1>10. Placed'
  BY <1>1 DEF HInv, Placed, Internal, Wire
<1>11. Books'
  <2>1. \A q : Held(q)' = Held(q)
    BY <1>1 DEF Held
  <2>2. QED
    BY <1>1, <1>5, <2>1 DEF HInv, Books, OnlyLast
<1>12. Wires'
  BY <1>5 DEF Wires
<1>13. HTypeOK'
  <2>1. pedb' \subseteq Procs
    BY <1>2, <1>3
  <2>2. QED
    BY <1>1, <1>7, <2>1 DEF HTypeOK
<1>14. QED
  BY <1>6, <1>7, <1>8, <1>9, <1>10, <1>11, <1>12, <1>13 DEF HInv

-----------------------------------------------------------------------------
\* HWMAN takes a packet
LEMMA Taking ==
  ASSUME HInv, queue # <<>>, queue' = Tail(queue)
  PROVE  /\ Len(queue) \in Nat /\ Len(queue) >= 1 /\ Len(queue') = Len(queue) - 1 /\ Head(queue) = queue[1]
         /\ \A i \in 1..Len(queue') : i + 1 \in 1..Len(queue) /\ queue'[i] = queue[i + 1]
         /\ \A i \in 1..Len(queue) : queue[i].op \in {"MAPOBJ", "UNMAPOBJ"} /\ queue[i].app \in DOMAIN Waves
         /\ \A i, j \in 1..Len(queue) : queue[i].op = queue[j].op /\ queue[i].app = queue[j].app => i = j
         /\ queue' \in Seq([op : {"MAPOBJ", "UNMAPOBJ"}, app : DOMAIN Waves])
         /\ announced = Len(Processors)
<1> DEFINE M == [op : {"MAPOBJ", "UNMAPOBJ"}, app : DOMAIN Waves]
<1>1. queue \in Seq(M)
  BY DEF HInv, HTypeOK
<1> HIDE DEF M
<1>2. Len(queue) \in Nat /\ Len(queue) # 0
  BY <1>1, EmptySeq
<1>3. queue' \in Seq(M) /\ Len(queue') = Len(queue) - 1 /\ Head(queue) = queue[1]
  BY <1>1, <1>2
<1>4. \A i \in 1..Len(queue') : i + 1 \in 1..Len(queue) /\ queue'[i] = queue[i + 1]
  BY <1>1, <1>2, <1>3
<1>5. \A i \in 1..Len(queue) : queue[i] \in M
  BY <1>1, <1>2
<1>6. \A i \in 1..Len(queue) : queue[i].op \in {"MAPOBJ", "UNMAPOBJ"} /\ queue[i].app \in DOMAIN Waves
  BY <1>5 DEF M
<1>7. ASSUME NEW i \in 1..Len(queue), NEW j \in 1..Len(queue),
             queue[i].op = queue[j].op /\ queue[i].app = queue[j].app
      PROVE  i = j
  <2>1. queue[i] = queue[j]
    BY <1>5, <1>7 DEF M
  <2>2. QED
    BY <2>1 DEF HInv, Ordered
<1>8. announced = Len(Processors)
  BY Machine DEF HInv, HTypeOK, Untouched
<1>9. QED
  BY <1>2, <1>3, <1>4, <1>6, <1>7, <1>8 DEF M

\* the waveform of a MAPOBJ has no other packet under way and holds nothing
LEMMA Mapped ==
  ASSUME HInv, up, queue # <<>>, queue' = Tail(queue), NEW w, w = Head(queue).app, Head(queue).op = "MAPOBJ",
         NEW s \in {"loading", "failed"}, phase' = [phase EXCEPT ![w] = s],
         loaded_apps' = loaded_apps \/ loaded_apps' = loaded_apps \cup {w},
         UNCHANGED <<announced, up>>
  PROVE  /\ w \in DOMAIN Waves /\ w \notin loaded_apps /\ Untouched' /\ Ordered'
         /\ phase' \in [DOMAIN Waves -> {"none", "mapping", "loading", "failed", "running", "stopping"}]
<1> DEFINE n == Len(queue)
<1>1. /\ n \in Nat /\ n >= 1 /\ Len(queue') = n - 1 /\ Head(queue) = queue[1]
      /\ \A i \in 1..Len(queue') : i + 1 \in 1..n /\ queue'[i] = queue[i + 1]
      /\ \A i \in 1..n : queue[i].op \in {"MAPOBJ", "UNMAPOBJ"} /\ queue[i].app \in DOMAIN Waves
      /\ \A i, j \in 1..n : queue[i].op = queue[j].op /\ queue[i].app = queue[j].app => i = j
      /\ announced = Len(Processors)
  BY Taking
<1>2. w \in DOMAIN Waves /\ 1 \in 1..n /\ queue[1].app = w /\ queue[1].op = "MAPOBJ"
  BY <1>1
<1>3. phase[w] = "mapping"
  BY <1>2 DEF HInv, Ordered
<1>4. ASSUME NEW i \in 1..n, queue[i].app = w
      PROVE  i = 1
  <2>1. CASE queue[i].op = "MAPOBJ"
    BY <1>1, <1>2, <1>4, <2>1
  <2>2. CASE queue[i].op = "UNMAPOBJ"
    <3>1. i < 1
      BY <1>2, <1>4, <2>2 DEF HInv, Ordered
    <3>2. QED
      BY <3>1
  <2>3. QED
    BY <1>1, <2>1, <2>2
<1>5. w \notin loaded_apps
  <2> SUFFICES ASSUME w \in loaded_apps PROVE FALSE
    OBVIOUS
  <2>1. PICK i \in 1..n : queue[i] = [op |-> "UNMAPOBJ", app |-> w]
    BY <1>3 DEF HInv, Ordered
  <2>2. QED
    BY <1>2, <1>4, <2>1
<1>6. /\ phase' \in [DOMAIN Waves -> {"none", "mapping", "loading", "failed", "running", "stopping"}]
      /\ phase'[w] = s /\ \A v \in DOMAIN Waves : v # w => phase'[v] = phase[v]
  BY <1>2 DEF HInv, HTypeOK
<1>7. Untouched'
  BY <1>1 DEF Untouched
<1>8. \A i \in 1..n - 1 : /\ i + 1 \in 1..n /\ queue'[i] = queue[i + 1] /\ queue[i + 1].app # w
                          /\ phase'[queue'[i].app] = phase[queue[i + 1].app]
  BY <1>1, <1>4, <1>6
<1>9. Ordered'
  <2>1. \A i, j \in 1..n - 1 : queue'[i] = queue'[j] => i = j
    <3> SUFFICES ASSUME NEW i \in 1..n - 1, NEW j \in 1..n - 1, queue'[i] = queue'[j] PROVE i = j
      OBVIOUS
    <3>1. i + 1 = j + 1
      BY <1>1, <1>8
    <3>2. QED
      BY <3>1
  <2>2. \A i \in 1..n - 1 : queue'[i].op = "MAPOBJ" => phase'[queue'[i].app] = "mapping"
    BY <1>8 DEF HInv, Ordered
  <2>3. ASSUME NEW i \in 1..n - 1, queue'[i].op = "UNMAPOBJ"
        PROVE  /\ phase'[queue'[i].app] \in {"none", "mapping"}
               /\ \A j \in 1..n - 1 : queue'[j].op = "MAPOBJ" /\ queue'[j].app = queue'[i].app => i < j
    <3>1. phase'[queue'[i].app] \in {"none", "mapping"}
      BY <1>8, <2>3 DEF HInv, Ordered
    <3>2. ASSUME NEW j \in 1..n - 1, queue'[j].op = "MAPOBJ" /\ queue'[j].app = queue'[i].app
          PROVE  i < j
      <4>1. i + 1 < j + 1
        BY <1>8, <2>3, <3>2 DEF HInv, Ordered
      <4>2. QED
        BY <4>1
    <3>3. QED
      BY <3>1, <3>2
  <2>4. ASSUME NEW v \in loaded_apps', up', phase'[v] \in {"none", "mapping"}
        PROVE  \E i \in 1..n - 1 : queue'[i] = [op |-> "UNMAPOBJ", app |-> v]
    <3>1. v # w /\ v \in loaded_apps /\ v \in DOMAIN Waves
      BY <1>6, <2>4 DEF HInv, HTypeOK
    <3>2. phase[v] \in {"none", "mapping"}
      BY <1>6, <2>4, <3>1
    <3>3. PICK i \in 1..n : queue[i] = [op |-> "UNMAPOBJ", app |-> v]
      BY <3>1, <3>2 DEF HInv, Ordered
    <3>4. i # 1
      BY <1>2, <3>3
    <3>5. i - 1 \in 1..n - 1 /\ (i - 1) + 1 = i
      BY <1>1, <3>4
    <3>6. queue'[i - 1] = queue[i]
      BY <1>8, <3>5
    <3>7. QED
      BY <3>3, <3>5, <3>6
  <2> HIDE DEF n
  <2>5. QED
    BY <1>1, <2>1, <2>2, <2>3, <2>4 DEF Ordered
<1>10. QED
  BY <1>2, <1>5, <1>6, <1>7, <1>9

\* the objects a mapping puts on a processor, and the links it leads over an interface
On(w, at, p) == {o \in Range(Waves[w]) : at[o] = p}
Over(w, at, x) == {l \in LinksOf(w) : ~Internal(l, at) /\ Wire(l, at) = x}

\* what is mapped are objects and links of the waveform
LEMMA OnOver ==
  ASSUME NEW w \in DOMAIN Waves
  PROVE  /\ \A at, p : On(w, at, p) \in SUBSET Objs
         /\ \A at, x : Over(w, at, x) \in SUBSET Links
<1>1. \A at, p : On(w, at, p) \in SUBSET Objs
  BY Families DEF On
<1>2. \A at, x : Over(w, at, x) \in SUBSET Links
  BY DEF Over, LinksOf
<1>3. QED
  BY <1>1, <1>2

\* what do_mapping takes
LEMMA Taken ==
  ASSUME HInv, NEW w \in DOMAIN Waves, NEW at \in [Range(Waves[w]) -> Procs], do_mapping(w, at)
  PROVE  /\ C' \in [Procs -> Int] /\ nof_objects' \in [Procs -> Nat] /\ position' \in [Objs -> Nat]
         /\ place' \in [Objs -> Procs \cup {None}]
         /\ intBW' \in [Procs -> Int] /\ extBW' \in [DOMAIN XitfId -> Int]
         /\ \A p \in Procs : /\ C'[p] = C[p] - Total(On(w, at, p), Mops)
                             /\ nof_objects'[p] = nof_objects[p] + Cardinality(On(w, at, p))
         /\ \A o \in Objs : place'[o] = IF WaveOf(o) = w THEN at[o] ELSE place[o]
         /\ Reached(w, at) = Range(Waves[w]) =>
              \A x \in DOMAIN XitfId : extBW'[x] = extBW[x] - Total(Over(w, at, x), Bw)
<1> DEFINE taken  == {l \in LinksOf(w) : l.from \in Reached(w, at)}
           inside == {l \in taken : Internal(l, at)}
           over(x) == {l \in taken \ inside : Wire(l, at) = x}
<1>1. /\ C \in [Procs -> Int] /\ nof_objects \in [Procs -> Nat] /\ position \in [Objs -> Nat]
      /\ place \in [Objs -> Procs \cup {None}]
      /\ intBW \in [Procs -> Int] /\ extBW \in [DOMAIN XitfId -> Int]
  BY DEF HInv, HTypeOK
<1>2. /\ C' = [p \in Procs |-> C[p] - Total(On(w, at, p), Mops)]
      /\ nof_objects' = [p \in Procs |-> nof_objects[p] + Cardinality(On(w, at, p))]
  BY DEF do_mapping, On
<1>3. /\ position' = [o \in Objs |-> IF WaveOf(o) = w THEN nof_objects[at[o]] + Ordinal(w, at, o) ELSE position[o]]
      /\ place' = [o \in Objs |-> IF WaveOf(o) = w THEN at[o] ELSE place[o]]
  BY DEF do_mapping
<1>4. /\ intBW' = [p \in Procs |-> IF p \in pedb THEN intBW[p] - Total(inside, Bw) ELSE intBW[p]]
      /\ extBW' = [x \in DOMAIN XitfId |-> extBW[x] - Total(over(x), Bw)]
  BY DEF do_mapping
<1>5. \A p : Total(On(w, at, p), Mops) \in Nat /\ Cardinality(On(w, at, p)) \in Nat
  BY OnOver, ObjectSums
<1>6. Total(inside, Bw) \in Nat /\ \A x : Total(over(x), Bw) \in Nat
  <2>1. inside \in SUBSET Links /\ \A x : over(x) \in SUBSET Links
    BY DEF LinksOf
  <2> HIDE DEF inside, over
  <2>2. QED
    BY <2>1, LinkSums
<1>7. \A o \in Objs : WaveOf(o) = w => o \in Range(Waves[w]) /\ at[o] \in Procs
  BY Families
<1>8. \A o \in Range(Waves[w]) : Ordinal(w, at, o) \in Nat
  <2> SUFFICES ASSUME NEW o \in Range(Waves[w]) PROVE Ordinal(w, at, o) \in Nat
    OBVIOUS
  <2> DEFINE i == CHOOSE k \in 1..Len(Waves[w]) : Waves[w][k] = o
             S == {k \in 1..i - 1 : at[Waves[w][k]] = at[o]}
  <2>1. Waves[w] \in Seq(Objs)
    BY HwManAssumption
  <2>2. Len(Waves[w]) \in Nat /\ \E k \in 1..Len(Waves[w]) : Waves[w][k] = o
    BY <2>1 DEF Range
  <2>3. i \in 1..Len(Waves[w])
    BY <2>2
  <2>4. Ordinal(w, at, o) = Cardinality(S)
    BY DEF Ordinal
  <2> HIDE DEF i
  <2>5. IsFiniteSet(1..i - 1) /\ S \subseteq 1..i - 1
    BY <2>3, FS_Interval
  <2> HIDE DEF S
  <2>6. QED
    BY <2>4, <2>5, FS_Subset, FS_CardinalityType
<1> HIDE DEF inside
<1>9. C' \in [Procs -> Int] /\ nof_objects' \in [Procs -> Nat]
  BY <1>1, <1>2, <1>5
<1>10. position' \in [Objs -> Nat] /\ place' \in [Objs -> Procs \cup {None}]
  BY <1>1, <1>3, <1>7, <1>8
<1>11. Reached(w, at) = Range(Waves[w]) => \A x : over(x) = Over(w, at, x)
  <2>1. \A l \in LinksOf(w) : l.from \in Range(Waves[w])
    BY Families DEF LinksOf
  <2>2. QED
    BY <2>1 DEF Over, inside
<1> HIDE DEF over
<1>12. intBW' \in [Procs -> Int] /\ extBW' \in [DOMAIN XitfId -> Int]
  BY <1>1, <1>4, <1>6
<1>13. Reached(w, at) = Range(Waves[w]) =>
         \A x \in DOMAIN XitfId : extBW'[x] = extBW[x] - Total(Over(w, at, x), Bw)
  BY <1>4, <1>11
<1>14. QED
  BY <1>2, <1>3, <1>9, <1>10, <1>12, <1>13

\* while only the last processor is ever forgotten, an index the mapper may choose leads to a
\* processor HWMAN knows, and back
LEMMA Leads ==
  ASSUME HInv, OnlyLast, NEW i \in 0..plat.n - 1
  PROVE  peobj[i] \in pedb /\ P_idx[peobj[i]] = i
<1> DEFINE a == announced
<1>1. /\ \/ pedb = Known(a)
         \/ a = Len(Processors) /\ pedb = Known(a - 1)
      /\ \A k \in 1..a : P_idx[Processors[k]] = k - 1 /\ peobj[k - 1] = Processors[k]
      /\ plat.n = Cardinality(pedb) /\ a \in 0..Len(Processors)
  BY DEF HInv, Indexed, Registry, HTypeOK
<1>2. PICK m \in 0..a : pedb = Known(m)
  <2>1. a - 1 \in 0..a \/ a # Len(Processors)
    BY <1>1, Machine
  <2>2. a \in 0..a
    BY <1>1
  <2>3. QED
    BY <1>1, <2>1, <2>2
<1>3. m \in 0..Len(Processors)
  BY <1>1, <1>2, Machine
<1>4. plat.n = m
  BY <1>1, <1>2, <1>3, KnownFacts
<1>5. i + 1 \in 1..m /\ i + 1 \in 1..a /\ (i + 1) - 1 = i
  BY <1>1, <1>2, <1>4
<1>6. peobj[i] = Processors[i + 1] /\ P_idx[Processors[i + 1]] = i
  BY <1>1, <1>5
<1>7. QED
  BY <1>2, <1>5, <1>6 DEF Known

\* the mapper's indexes lead to processors; on a platform that loses at most its last, no object is
\* put on a processor that is gone; on one that loses none, an index is one processor's, so that the
\* mapper takes no more power than there is
LEMMA Sound ==
  ASSUME HInv, announced = Len(Processors), NEW w \in DOMAIN Waves, NEW m \in [Range(Waves[w]) -> 0..plat.n - 1],
         NEW at, at = [o \in Range(Waves[w]) |-> peobj[m[o]]], Fits(w, at, m)
  PROVE  /\ at \in [Range(Waves[w]) -> Procs]
         /\ OnlyLast => Reached(w, at) = Range(Waves[w])
         /\ env.drops = {} => OnlyLast /\ \A p \in pedb : Total(On(w, at, p), Mops) <= C[p]
<1> DEFINE R == Range(Waves[w])
           n == Len(Processors)
<1>1. at \in [R -> Procs]
  BY DEF HInv, Registry
<1>2. ASSUME env.drops = {}
      PROVE  /\ pedb = Known(n) /\ plat.n = n
             /\ \A i \in 1..n : P_idx[Processors[i]] = i - 1 /\ peobj[i - 1] = Processors[i]
  <2>1. OnlyLast
    BY <1>2 DEF OnlyLast
  <2>2. /\ pedb = Known(n)
        /\ \A i \in 1..n : P_idx[Processors[i]] = i - 1 /\ peobj[i - 1] = Processors[i]
    BY <1>2, <2>1 DEF HInv, Indexed
  <2>3. plat.n = n
    BY <2>2, Machine, KnownFacts DEF HInv, Registry
  <2>4. QED
    BY <2>2, <2>3
<1>3. ASSUME env.drops = {}, NEW o \in R
      PROVE  m[o] + 1 \in 1..n /\ at[o] = Processors[m[o] + 1] /\ at[o] \in pedb
  <2>1. m[o] \in 0..n - 1 /\ n \in Nat
    BY <1>2, <1>3, Machine
  <2>2. m[o] + 1 \in 1..n /\ (m[o] + 1) - 1 = m[o]
    BY <2>1
  <2>3. at[o] = Processors[m[o] + 1]
    BY <1>2, <1>3, <2>2
  <2>4. QED
    BY <1>2, <1>3, <2>2, <2>3 DEF Known
<1>4. ASSUME env.drops = {}, NEW p \in pedb
      PROVE  Total(On(w, at, p), Mops) <= C[p]
  <2>1. PICK k \in 1..n : p = Processors[k]
    BY <1>2, <1>4 DEF Known
  <2>2. P_idx[p] = k - 1 /\ k - 1 \in 0..LastIdx
    BY <1>2, <1>4, <2>1, Machine DEF LastIdx
  <2>3. \A o \in R : at[o] = p <=> m[o] = k - 1
    <3> SUFFICES ASSUME NEW o \in R PROVE at[o] = p <=> m[o] = k - 1
      OBVIOUS
    <3>1. m[o] + 1 \in 1..n /\ at[o] = Processors[m[o] + 1]
      BY <1>3, <1>4
    <3>2. at[o] = p <=> m[o] + 1 = k
      BY <2>1, <3>1, Machine
    <3>3. m[o] \in Int
      BY DEF HInv, HTypeOK
    <3>4. QED
      BY <3>2, <3>3
  <2>4. On(w, at, p) = {o \in R : m[o] = k - 1}
    BY <2>3 DEF On
  <2>5. Total({o \in R : m[o] = k - 1}, Mops) <= plat.C[k - 1]
    BY <2>2 DEF Fits
  <2>6. plat.C[k - 1] = C[p]
    BY <1>4, <2>2 DEF HInv, Powers
  <2>7. QED
    BY <2>4, <2>5, <2>6
<1>5. ASSUME OnlyLast
      PROVE  Reached(w, at) = R
  <2> DEFINE lost(o) == at[o] \notin pedb \/ \E l \in Links : l.from = o /\ at[l.to] \notin pedb
  <2>1. \A o \in R : at[o] \in pedb
    <3> SUFFICES ASSUME NEW o \in R PROVE at[o] \in pedb
      OBVIOUS
    <3>1. m[o] \in 0..plat.n - 1 /\ at[o] = peobj[m[o]]
      OBVIOUS
    <3>2. QED
      BY <1>5, <3>1, Leads
  <2>2. \A o \in R : ~lost(o)
    <3> SUFFICES ASSUME NEW o \in R, NEW l \in Links, l.from = o PROVE at[l.to] \in pedb
      BY <2>1
    <3>1. WaveOf(l.to) = w /\ l.to \in Objs
      BY Families
    <3>2. l.to \in R
      BY <3>1, Families
    <3>3. QED
      BY <2>1, <3>2
  <2>3. Waves[w] \in Seq(Objs)
    BY HwManAssumption
  <2>4. Len(Waves[w]) \in Nat /\ R = {Waves[w][i] : i \in 1..Len(Waves[w])}
    BY <2>3 DEF Range
  <2>5. Reached(w, at) = {Waves[w][i] : i \in {j \in 1..Len(Waves[w]) : \A k \in 1..j : ~lost(Waves[w][k])}}
    BY DEF Reached
  <2> HIDE DEF lost, R
  <2>6. \A j \in 1..Len(Waves[w]) : \A k \in 1..j : k \in 1..Len(Waves[w])
    BY <2>4
  <2>7. \A j \in 1..Len(Waves[w]) : \A k \in 1..j : ~lost(Waves[w][k])
    BY <2>2, <2>4, <2>6
  <2>8. QED
    BY <2>4, <2>5, <2>7
<1>6. env.drops = {} => OnlyLast
  BY DEF OnlyLast
<1>7. QED
  BY <1>1, <1>4, <1>5, <1>6

\* a waveform that is mapped holds what its objects and links take
LEMMA Taker ==
  ASSUME NEW w \in DOMAIN Waves, w \notin loaded_apps, NEW at,
         \A o \in Objs : place'[o] = IF WaveOf(o) = w THEN at[o] ELSE place[o]
  PROVE  /\ loaded_apps' = loaded_apps => \A p : Held(p)' = Held(p)
         /\ loaded_apps' = loaded_apps \cup {w} =>
              /\ \A p : Held(p)' = Held(p) \cup On(w, at, p)
              /\ \A x : Carried(x)' = Carried(x) \cup Over(w, at, x)
         /\ \A p : Held(p) \in SUBSET Objs /\ Held(p) \cap On(w, at, p) = {}
         /\ \A x : Carried(x) \in SUBSET Links /\ Carried(x) \cap Over(w, at, x) = {}
         /\ \A l \in Links : IF WaveOf(l.from) = w THEN Wire(l, place') = Wire(l, at) /\ (Internal(l, place') <=> Internal(l, at))
                             ELSE Wire(l, place') = Wire(l, place) /\ (Internal(l, place') <=> Internal(l, place))
<1>1. /\ \A o \in Objs : o \in Range(Waves[w]) <=> WaveOf(o) = w
      /\ \A o \in Range(Waves[w]) : o \in Objs
  BY Families
<1>2. ASSUME NEW l \in Links
      PROVE  IF WaveOf(l.from) = w THEN Wire(l, place') = Wire(l, at) /\ (Internal(l, place') <=> Internal(l, at))
             ELSE Wire(l, place') = Wire(l, place) /\ (Internal(l, place') <=> Internal(l, place))
  <2>1. l.from \in Objs /\ l.to \in Objs /\ WaveOf(l.to) = WaveOf(l.from)
    BY Families
  <2>2. IF WaveOf(l.from) = w THEN place'[l.from] = at[l.from] /\ place'[l.to] = at[l.to]
        ELSE place'[l.from] = place[l.from] /\ place'[l.to] = place[l.to]
    BY <2>1
  <2>3. QED
    BY <2>2 DEF Wire, Internal
<1>3. loaded_apps' = loaded_apps => \A p : Held(p)' = Held(p)
  BY DEF Held
<1>4. ASSUME loaded_apps' = loaded_apps \cup {w}, NEW p
      PROVE  Held(p)' = Held(p) \cup On(w, at, p)
  BY <1>1, <1>4 DEF Held, On
<1>5. ASSUME loaded_apps' = loaded_apps \cup {w}, NEW x
      PROVE  Carried(x)' = Carried(x) \cup Over(w, at, x)
  <2>1. \A l : l \in Carried(x)' <=> l \in Carried(x) \cup Over(w, at, x)
    <3> SUFFICES ASSUME NEW l \in Links PROVE l \in Carried(x)' <=> l \in Carried(x) \cup Over(w, at, x)
      BY DEF Carried, Over, LinksOf
    <3>1. l \in Carried(x)' <=> WaveOf(l.from) \in loaded_apps \cup {w} /\ ~Internal(l, place') /\ Wire(l, place') = x
      BY <1>5 DEF Carried
    <3>2. l \in Carried(x) <=> WaveOf(l.from) \in loaded_apps /\ ~Internal(l, place) /\ Wire(l, place) = x
      BY DEF Carried
    <3>3. l \in Over(w, at, x) <=> WaveOf(l.from) = w /\ ~Internal(l, at) /\ Wire(l, at) = x
      BY DEF Over, LinksOf
    <3>4. QED
      BY <1>2, <3>1, <3>2, <3>3
  <2>2. QED
    BY <2>1
<1>6. \A p : Held(p) \in SUBSET Objs /\ Held(p) \cap On(w, at, p) = {}
  BY <1>1 DEF Held, On
<1>7. \A x : Carried(x) \in SUBSET Links /\ Carried(x) \cap Over(w, at, x) = {}
  BY DEF Carried, Over, LinksOf
<1>8. QED
  BY <1>2, <1>3, <1>4, <1>5, <1>6, <1>7

\* hwman_incmd_swmapper
LEMMA Mapper ==
  ASSUME HInv, hwman_incmd_swmapper
  PROVE  HInv'
<1> DEFINE w == Head(queue).app
           R == Range(Waves[w])
           fails == phase' = [phase EXCEPT ![w] = "failed"]
<1>1. /\ HTypeOK /\ up /\ queue # <<>> /\ Head(queue).op = "MAPOBJ" /\ queue' = Tail(queue)
      /\ UNCHANGED <<pedb, announced, P_idx, peobj, up, loads, sem_idx, last_semidx, env>>
  BY DEF HInv, hwman_incmd_swmapper
<1>2. \/ \E m \in [R -> 0..plat.n - 1] :
           LET at == [o \in R |-> peobj[m[o]]] IN
           /\ Fits(w, at, m) /\ do_mapping(w, at)
           /\ \/ /\ Reached(w, at) = R
                 /\ loaded_apps' = loaded_apps \cup {w} /\ phase' = [phase EXCEPT ![w] = "loading"]
                 /\ proc' = [o \in Objs |-> IF WaveOf(o) = w THEN "mapped" ELSE proc[o]]
                 /\ plat' = calc_P_vector(pedb, P_idx, C')
              \/ Reached(w, at) # R /\ fails /\ UNCHANGED <<loaded_apps, proc, plat>>
      \/ fails /\ UNCHANGED <<res, place, position, loaded_apps, proc, plat>>
  BY DEF hwman_incmd_swmapper
<1>3. announced = Len(Processors) /\ queue' \in Seq([op : {"MAPOBJ", "UNMAPOBJ"}, app : DOMAIN Waves])
  BY <1>1, Taking
<1>4. w \in DOMAIN Waves /\ w \notin loaded_apps
  <2>1. \E s \in {"loading", "failed"} : phase' = [phase EXCEPT ![w] = s]
    BY <1>2
  <2>2. loaded_apps' = loaded_apps \/ loaded_apps' = loaded_apps \cup {w}
    BY <1>2
  <2> HIDE DEF w
  <2>3. w = Head(queue).app
    BY DEF w
  <2>4. QED
    BY <1>1, <2>1, <2>2, <2>3, Mapped
<1>5. Untouched' /\ Ordered' /\ phase' \in [DOMAIN Waves -> {"none", "mapping", "loading", "failed", "running", "stopping"}]
  <2>1. \E s \in {"loading", "failed"} : phase' = [phase EXCEPT ![w] = s]
    BY <1>2
  <2>2. loaded_apps' = loaded_apps \/ loaded_apps' = loaded_apps \cup {w}
    BY <1>2
  <2>3. w = Head(queue).app
    OBVIOUS
  <2> HIDE DEF w
  <2>4. QED
    BY <1>1, <2>1, <2>2, <2>3, Mapped
<1>6. CASE fails /\ UNCHANGED <<res, place, position, loaded_apps, proc, plat>>
  <2>1. UNCHANGED <<C, nof_objects, intBW, extBW, plat, loaded_apps, place, position, proc>>
    BY <1>6 DEF res
  <2>2. Registry' /\ Placed' /\ Books' /\ Indexed' /\ Powers' /\ Wires'
    BY <1>1, <2>1, Still
  <2>3. HTypeOK'
    BY <1>1, <1>3, <1>5, <2>1 DEF HTypeOK
  <2>4. QED
    BY <1>5, <2>2, <2>3 DEF HInv
<1>7. ASSUME NEW m \in [R -> 0..plat.n - 1], NEW at, at = [o \in R |-> peobj[m[o]]],
             Fits(w, at, m), do_mapping(w, at),
             \/ /\ Reached(w, at) = R
                /\ loaded_apps' = loaded_apps \cup {w} /\ phase' = [phase EXCEPT ![w] = "loading"]
                /\ proc' = [o \in Objs |-> IF WaveOf(o) = w THEN "mapped" ELSE proc[o]]
                /\ plat' = calc_P_vector(pedb, P_idx, C')
             \/ Reached(w, at) # R /\ fails /\ UNCHANGED <<loaded_apps, proc, plat>>
      PROVE  HInv'
  <2> HIDE DEF w, fails
  <2>1. /\ at \in [R -> Procs]
        /\ OnlyLast => Reached(w, at) = R
        /\ env.drops = {} => OnlyLast /\ \A p \in pedb : Total(On(w, at, p), Mops) <= C[p]
    BY <1>3, <1>4, <1>7, Sound
  <2>2. /\ C' \in [Procs -> Int] /\ nof_objects' \in [Procs -> Nat] /\ position' \in [Objs -> Nat]
        /\ place' \in [Objs -> Procs \cup {None}]
        /\ intBW' \in [Procs -> Int] /\ extBW' \in [DOMAIN XitfId -> Int]
        /\ \A p \in Procs : /\ C'[p] = C[p] - Total(On(w, at, p), Mops)
                            /\ nof_objects'[p] = nof_objects[p] + Cardinality(On(w, at, p))
        /\ \A o \in Objs : place'[o] = IF WaveOf(o) = w THEN at[o] ELSE place[o]
        /\ Reached(w, at) = R =>
             \A x \in DOMAIN XitfId : extBW'[x] = extBW[x] - Total(Over(w, at, x), Bw)
    BY <1>4, <1>7, <2>1, Taken
  <2>3. /\ loaded_apps' = loaded_apps => \A p : Held(p)' = Held(p)
        /\ loaded_apps' = loaded_apps \cup {w} =>
             /\ \A p : Held(p)' = Held(p) \cup On(w, at, p)
             /\ \A x : Carried(x)' = Carried(x) \cup Over(w, at, x)
        /\ \A p : Held(p) \in SUBSET Objs /\ Held(p) \cap On(w, at, p) = {}
        /\ \A x : Carried(x) \in SUBSET Links /\ Carried(x) \cap Over(w, at, x) = {}
        /\ \A l \in Links : IF WaveOf(l.from) = w THEN Wire(l, place') = Wire(l, at) /\ (Internal(l, place') <=> Internal(l, at))
                            ELSE Wire(l, place') = Wire(l, place) /\ (Internal(l, place') <=> Internal(l, place))
    BY <1>4, <2>2, Taker
  <2>4. \/ Reached(w, at) = R /\ loaded_apps' = loaded_apps \cup {w}
        \/ ~OnlyLast /\ env.drops # {} /\ loaded_apps' = loaded_apps
    BY <1>7, <2>1
  <2>5. Registry' /\ Indexed'
    <3>1. plat'.n = plat.n
      <4>1. CASE plat' = plat
        BY <4>1
      <4>2. CASE plat' = calc_P_vector(pedb, P_idx, C')
        BY <4>2 DEF calc_P_vector, HInv, Registry
      <4>3. QED
        BY <1>7, <4>1, <4>2
    <3>2. Registry'
      BY <1>1, <3>1 DEF HInv, Registry
    <3>3. Indexed'
      BY <1>1 DEF HInv, Indexed, OnlyLast
    <3>4. QED
      BY <3>2, <3>3
  <2>6. Placed'
    <3>1. ASSUME NEW v \in loaded_apps', NEW o \in Range(Waves[v])
          PROVE  place'[o] \in Procs
      <4>1. v \in DOMAIN Waves /\ (v = w \/ v \in loaded_apps)
        BY <1>4, <2>4, <3>1 DEF HInv, HTypeOK
      <4>2. o \in Objs /\ WaveOf(o) = v
        BY <4>1, Families
      <4>3. CASE v = w
        BY <2>1, <2>2, <4>2, <4>3
      <4>4. CASE v # w
        BY <2>2, <4>1, <4>2, <4>4 DEF HInv, Placed
      <4>5. QED
        BY <4>3, <4>4
    <3>2. ASSUME NEW l \in Links, WaveOf(l.from) \in loaded_apps', ~Internal(l, place')
          PROVE  Wire(l, place') \in DOMAIN XitfId
      <4>1. CASE WaveOf(l.from) = w
        <5>1. l \in LinksOf(w) /\ ~Internal(l, at) /\ Wire(l, place') = Wire(l, at)
          BY <2>3, <3>2, <4>1 DEF LinksOf
        <5>2. QED
          BY <1>7, <5>1 DEF Fits
      <4>2. CASE WaveOf(l.from) # w
        BY <2>3, <2>4, <3>2, <4>2 DEF HInv, Placed
      <4>3. QED
        BY <4>1, <4>2
    <3>3. QED
      BY <3>1, <3>2 DEF Placed
  <2>7. ASSUME NEW p \in Procs
        PROVE  /\ C'[p] <= Capacity - Total(Held(p)', Mops) /\ nof_objects'[p] >= Cardinality(Held(p)')
               /\ OnlyLast => nof_objects'[p] = Cardinality(Held(p)')
               /\ env.drops = {} /\ p \in pedb => C'[p] = Capacity - Total(Held(p)', Mops)
               /\ C'[p] <= C[p]
    <3> DEFINE H == Held(p)
               O == On(w, at, p)
               th == Total(H, Mops)
               to == Total(O, Mops)
               ch == Cardinality(H)
               co == Cardinality(O)
    <3>1. O \in SUBSET Objs /\ H \in SUBSET Objs /\ H \cap O = {}
      BY <1>4, <2>3, OnOver
    <3>2. th \in Nat /\ to \in Nat /\ ch \in Nat /\ co \in Nat
      <4> HIDE DEF H, O
      <4>1. QED
        BY <3>1, ObjectSums
    <3>3. Total(H \cup O, Mops) = th + to /\ Cardinality(H \cup O) = ch + co
      <4> HIDE DEF H, O
      <4>1. QED
        BY <3>1, ObjectSums
    <3>4. C'[p] = C[p] - to /\ nof_objects'[p] = nof_objects[p] + co
      BY <2>2
    <3>5. /\ C[p] <= Capacity - th /\ nof_objects[p] >= ch
          /\ (OnlyLast => nof_objects[p] = ch) /\ (env.drops = {} /\ p \in pedb => C[p] = Capacity - th)
      BY DEF HInv, Books
    <3>6. C[p] \in Int /\ nof_objects[p] \in Nat /\ Capacity \in Nat
      BY <1>1, HwManAssumption DEF HTypeOK
    <3>7. \/ Held(p)' = H \cup O
          \/ Held(p)' = H /\ env.drops # {} /\ ~OnlyLast
      BY <2>3, <2>4
    <3>8. \/ Total(Held(p)', Mops) = th + to /\ Cardinality(Held(p)') = ch + co
          \/ Total(Held(p)', Mops) = th /\ Cardinality(Held(p)') = ch /\ env.drops # {} /\ ~OnlyLast
      <4> HIDE DEF H, O
      <4>1. CASE Held(p)' = H \cup O
        BY <3>3, <4>1
      <4>2. CASE Held(p)' = H /\ env.drops # {} /\ ~OnlyLast
        BY <4>2
      <4>3. QED
        BY <3>7, <4>1, <4>2
    <3> HIDE DEF th, to, ch, co
    <3>9. QED
      BY <3>2, <3>4, <3>5, <3>6, <3>8
  <2>8. Books'
    BY <1>1, <2>7 DEF Books, OnlyLast
  <2>9. Powers' /\ plat' \in [n : 0..Len(Processors), C : [0..LastIdx -> Int]]
    <3>1. plat.C \in [0..LastIdx -> Int] /\ plat \in [n : 0..Len(Processors), C : [0..LastIdx -> Int]]
      BY <1>1 DEF HTypeOK
    <3>2. CASE plat' = calc_P_vector(pedb, P_idx, C')
      <4>1. ASSUME env'.drops = {}, NEW p \in pedb'
            PROVE  C'[p] >= 0
        <5>1. p \in pedb /\ p \in Procs /\ env.drops = {}
          BY <1>1, <4>1 DEF HTypeOK
        <5>2. Total(On(w, at, p), Mops) <= C[p] /\ C'[p] = C[p] - Total(On(w, at, p), Mops)
          BY <2>1, <2>2, <5>1
        <5>3. C[p] \in Int /\ Total(On(w, at, p), Mops) \in Nat
          BY <1>1, <1>4, <5>1, OnOver, ObjectSums DEF HTypeOK
        <5>4. QED
          BY <5>2, <5>3
      <4>2. /\ announced' \in 0..Len(Processors) /\ pedb' \subseteq Known(announced')
            /\ P_idx' \in [Procs -> 0..LastIdx] /\ plat' = calc_P_vector(pedb', P_idx', C')
        BY <1>1, <3>2 DEF HInv, Registry, HTypeOK
      <4>3. QED
        BY <2>2, <2>5, <3>1, <4>1, <4>2, Sight
    <3>3. CASE env.drops # {} /\ plat' = plat
      BY <1>1, <3>1, <3>3 DEF Powers
    <3>4. QED
      BY <1>7, <2>1, <3>2, <3>3
  <2>10. Wires'
    <3> SUFFICES ASSUME DistinctIds, env.drops = {}, NEW x \in DOMAIN XitfId
                 PROVE  extBW'[x] = Bandwidth - Total(Carried(x)', Bw)
      BY <1>1 DEF Wires
    <3> DEFINE H == Carried(x)
               O == Over(w, at, x)
               th == Total(H, Bw)
               to == Total(O, Bw)
    <3>1. O \in SUBSET Links /\ H \in SUBSET Links /\ H \cap O = {}
      BY <1>4, <2>3, OnOver
    <3>2. th \in Nat /\ to \in Nat /\ Total(H \cup O, Bw) = th + to
      <4> HIDE DEF H, O
      <4>1. QED
        BY <3>1, LinkSums
    <3>3. extBW'[x] = extBW[x] - to /\ Carried(x)' = H \cup O
      BY <2>2, <2>3, <2>4
    <3>4. extBW[x] = Bandwidth - th /\ Bandwidth \in Nat
      BY HwManAssumption DEF HInv, Wires
    <3>5. Total(Carried(x)', Bw) = th + to
      <4> HIDE DEF H, O
      <4>1. QED
        BY <3>2, <3>3
    <3> HIDE DEF th, to
    <3>6. QED
      BY <3>2, <3>3, <3>4, <3>5
  <2>11. HTypeOK'
    <3>1. proc' \in [Objs -> {"none", "mapped", "live", "stopped", "dead"}]
      BY <1>1, <1>7 DEF HTypeOK
    <3>2. \A p \in Procs : C'[p] <= Capacity
      <4> SUFFICES ASSUME NEW p \in Procs PROVE C'[p] <= Capacity
        OBVIOUS
      <4>1. C'[p] <= C[p] /\ C[p] <= Capacity /\ C[p] \in Int /\ C'[p] \in Int /\ Capacity \in Nat
        BY <1>1, <2>2, <2>7, HwManAssumption DEF HTypeOK
      <4>2. QED
        BY <4>1
    <3>3. loaded_apps' \subseteq DOMAIN Waves
      BY <1>1, <1>4, <2>4 DEF HTypeOK
    <3>4. QED
      BY <1>1, <1>3, <1>5, <2>2, <2>9, <3>1, <3>2, <3>3 DEF HTypeOK
  <2>12. QED
    BY <1>5, <2>5, <2>6, <2>8, <2>9, <2>10, <2>11 DEF HInv
<1>8. QED
  <2> HIDE DEF w, fails
  <2>1. QED
    BY <1>2, <1>6, <1>7

-----------------------------------------------------------------------------
\* after an UNMAPOBJ the waveform holds nothing, or HWMAN has stopped
LEMMA Unmapped ==
  ASSUME HInv, up, queue # <<>>, queue' = Tail(queue), NEW w, w = Head(queue).app, Head(queue).op = "UNMAPOBJ",
         loaded_apps' \subseteq loaded_apps, w \notin loaded_apps' \/ ~up',
         UNCHANGED <<announced, phase>>
  PROVE  w \in DOMAIN Waves /\ Untouched' /\ Ordered'
<1> DEFINE n == Len(queue)
<1>1. /\ n \in Nat /\ n >= 1 /\ Len(queue') = n - 1 /\ Head(queue) = queue[1]
      /\ \A i \in 1..Len(queue') : i + 1 \in 1..n /\ queue'[i] = queue[i + 1]
      /\ \A i \in 1..n : queue[i].op \in {"MAPOBJ", "UNMAPOBJ"} /\ queue[i].app \in DOMAIN Waves
      /\ announced = Len(Processors)
  BY Taking
<1>2. w \in DOMAIN Waves /\ 1 \in 1..n /\ queue[1].app = w
  BY <1>1
<1>3. Untouched'
  BY <1>1 DEF Untouched
<1>4. \A i \in 1..n - 1 : i + 1 \in 1..n /\ queue'[i] = queue[i + 1]
  BY <1>1
<1>5. \A i, j \in 1..n - 1 : queue'[i] = queue'[j] => i = j
  <2> SUFFICES ASSUME NEW i \in 1..n - 1, NEW j \in 1..n - 1, queue'[i] = queue'[j] PROVE i = j
    OBVIOUS
  <2>1. i + 1 = j + 1
    BY <1>4 DEF HInv, Ordered
  <2>2. QED
    BY <2>1
<1>6. \A i \in 1..n - 1 : queue'[i].op = "MAPOBJ" => phase'[queue'[i].app] = "mapping"
  BY <1>4 DEF HInv, Ordered
<1>7. ASSUME NEW i \in 1..n - 1, queue'[i].op = "UNMAPOBJ"
      PROVE  /\ phase'[queue'[i].app] \in {"none", "mapping"}
             /\ \A j \in 1..n - 1 : queue'[j].op = "MAPOBJ" /\ queue'[j].app = queue'[i].app => i < j
  <2>1. phase'[queue'[i].app] \in {"none", "mapping"}
    BY <1>4, <1>7 DEF HInv, Ordered
  <2>2. ASSUME NEW j \in 1..n - 1, queue'[j].op = "MAPOBJ" /\ queue'[j].app = queue'[i].app
        PROVE  i < j
    <3>1. i + 1 < j + 1
      BY <1>4, <1>7, <2>2 DEF HInv, Ordered
    <3>2. QED
      BY <3>1
  <2>3. QED
    BY <2>1, <2>2
<1>8. ASSUME NEW v \in loaded_apps', up', phase'[v] \in {"none", "mapping"}
      PROVE  \E i \in 1..n - 1 : queue'[i] = [op |-> "UNMAPOBJ", app |-> v]
  <2>1. v # w /\ v \in loaded_apps
    BY <1>8
  <2>2. PICK i \in 1..n : queue[i] = [op |-> "UNMAPOBJ", app |-> v]
    BY <1>8, <2>1 DEF HInv, Ordered
  <2>3. i # 1
    BY <1>2, <2>1, <2>2
  <2>4. i - 1 \in 1..n - 1 /\ (i - 1) + 1 = i
    BY <1>1, <2>3
  <2>5. queue'[i - 1] = queue[i]
    BY <1>4, <2>4
  <2>6. QED
    BY <2>2, <2>4, <2>5
<1>9. Ordered'
  <2>1. Len(queue') = n - 1
    BY <1>1
  <2>2. \A i, j \in 1..Len(queue') : queue'[i] = queue'[j] => i = j
    BY <1>5, <2>1
  <2>3. \A i \in 1..Len(queue') : queue'[i].op = "MAPOBJ" => phase'[queue'[i].app] = "mapping"
    BY <1>6, <2>1
  <2>4. \A i \in 1..Len(queue') : queue'[i].op = "UNMAPOBJ" =>
          /\ phase'[queue'[i].app] \in {"none", "mapping"}
          /\ \A j \in 1..Len(queue') : queue'[j].op = "MAPOBJ" /\ queue'[j].app = queue'[i].app => i < j
    BY <1>7, <2>1
  <2>5. \A v \in loaded_apps' : up' /\ phase'[v] \in {"none", "mapping"} =>
          \E i \in 1..Len(queue') : queue'[i] = [op |-> "UNMAPOBJ", app |-> v]
    BY <1>8, <2>1
  <2> HIDE DEF n
  <2>6. QED
    BY <2>2, <2>3, <2>4, <2>5 DEF Ordered
<1>10. QED
  BY <1>2, <1>3, <1>9

\* what a waveform that is removed held
LEMMA Giver ==
  ASSUME NEW w \in loaded_apps, w \in DOMAIN Waves, loaded_apps' = loaded_apps \ {w}, UNCHANGED place
  PROVE  /\ \A p : /\ Given(w, p) = On(w, place, p) /\ On(w, place, p) \subseteq Held(p) /\ Held(p) \in SUBSET Objs
                   /\ Held(p)' = Held(p) \ On(w, place, p)
         /\ \A x : /\ Over(w, place, x) \subseteq Carried(x) /\ Carried(x) \in SUBSET Links
                   /\ Carried(x)' = Carried(x) \ Over(w, place, x)
<1>1. /\ \A o \in Objs : o \in Range(Waves[w]) <=> WaveOf(o) = w
      /\ \A o \in Range(Waves[w]) : o \in Objs
  BY Families
<1>2. ASSUME NEW p
      PROVE  /\ Given(w, p) = On(w, place, p) /\ On(w, place, p) \subseteq Held(p) /\ Held(p) \in SUBSET Objs
             /\ Held(p)' = Held(p) \ On(w, place, p)
  BY <1>1 DEF Given, On, Held
<1>3. ASSUME NEW x
      PROVE  /\ Over(w, place, x) \subseteq Carried(x) /\ Carried(x) \in SUBSET Links
             /\ Carried(x)' = Carried(x) \ Over(w, place, x)
  <2>1. Carried(x)' = {l \in Links : WaveOf(l.from) \in loaded_apps \ {w} /\ ~Internal(l, place) /\ Wire(l, place) = x}
    BY DEF Carried, Internal, Wire
  <2>2. QED
    BY <2>1 DEF Over, Carried, LinksOf
<1>4. QED
  BY <1>2, <1>3

\* with one interface per id, free_resources finds the interface that carries the link
LEMMA Found ==
  ASSUME HInv, DistinctIds, NEW w \in loaded_apps, \A o \in Range(Waves[w]) : place[o] \in pedb, NEW x \in DOMAIN XitfId
  PROVE  {l \in LinksOf(w) \ {k \in LinksOf(w) : Internal(k, place)} : Holds(x, l)} = Over(w, place, x)
<1>1. w \in DOMAIN Waves
  BY DEF HInv, HTypeOK
<1>2. ASSUME NEW l \in LinksOf(w), ~Internal(l, place)
      PROVE  Holds(x, l) <=> Wire(l, place) = x
  <2> DEFINE y == Wire(l, place)
             same == {z \in DOMAIN XitfId : XitfId[z] = XitfId[y] /\ \E p \in pedb : p[1] = z[1]}
  <2>1. l \in Links /\ WaveOf(l.from) = w
    BY DEF LinksOf
  <2>2. y \in DOMAIN XitfId
    BY <1>2, <2>1 DEF HInv, Placed
  <2>3. l.to \in Range(Waves[w])
    BY <2>1, Families
  <2>4. place[l.to] \in pedb /\ y[1] = place[l.to][1]
    BY <2>3 DEF Wire
  <2>5. same = {y}
    BY <2>2, <2>4 DEF DistinctIds
  <2>6. Holds(x, l) <=> x \in same /\ \A z \in same : Age(z[1]) <= Age(x[1])
    BY DEF Holds
  <2>7. Age(x[1]) \in Int
    <3>1. x \in Pes \X Pes
      BY HwManAssumption
    <3>2. x[1] \in Pes
      BY <3>1
    <3>3. QED
      BY <3>2, Ages
  <2> HIDE DEF y, same
  <2>8. Holds(x, l) <=> y = x
    BY <2>5, <2>6, <2>7
  <2>9. QED
    BY <2>8 DEF y
<1>3. QED
  BY <1>2 DEF Over

\* hwman_incmd_swunmap
LEMMA Unmapper ==
  ASSUME HInv, hwman_incmd_swunmap
  PROVE  HInv'
<1> DEFINE w == Head(queue).app
           inner == {l \in LinksOf(w) : Internal(l, place)}
           outer == LinksOf(w) \ inner
<1>1. /\ HTypeOK /\ up /\ queue # <<>> /\ Head(queue).op = "UNMAPOBJ" /\ queue' = Tail(queue)
      /\ UNCHANGED <<pedb, announced, P_idx, peobj, place, position, phase, loads, proc, sem_idx, last_semidx, env>>
  BY DEF HInv, hwman_incmd_swunmap, swman, kernel
<1>2. \/ w \notin loaded_apps /\ UNCHANGED <<res, loaded_apps, up, plat>>
      \/ w \in loaded_apps /\ up' = FALSE /\ UNCHANGED <<res, loaded_apps, plat>>
      \/ /\ w \in loaded_apps /\ \A o \in Range(Waves[w]) : place[o] \in pedb
         /\ C' = [p \in Procs |-> C[p] + Total(Given(w, p), Mops)]
         /\ nof_objects' = [p \in Procs |-> nof_objects[p] - Cardinality(Given(w, p))]
         /\ intBW' = [p \in Procs |-> IF p \notin pedb THEN intBW[p]
              ELSE intBW[p] + Total({l \in inner : place[l.from][1] = p[1]}, Bw)]
         /\ extBW' = [x \in DOMAIN XitfId |-> extBW[x] + Total({l \in outer : Holds(x, l)}, Bw)]
         /\ loaded_apps' = loaded_apps \ {w}
         /\ UNCHANGED up /\ plat' = calc_P_vector(pedb, P_idx, C')
  BY DEF hwman_incmd_swunmap, Holding
<1>3. queue' \in Seq([op : {"MAPOBJ", "UNMAPOBJ"}, app : DOMAIN Waves])
  BY <1>1, Taking
<1>4. w \in DOMAIN Waves /\ Untouched' /\ Ordered'
  <2>1. loaded_apps' \subseteq loaded_apps /\ (w \notin loaded_apps' \/ ~up') /\ w = Head(queue).app
    BY <1>2
  <2> HIDE DEF w
  <2>2. QED
    BY <1>1, <2>1, Unmapped
<1> HIDE DEF w
<1>5. CASE UNCHANGED <<res, loaded_apps, plat>> /\ (UNCHANGED up \/ up' = FALSE)
  <2>1. UNCHANGED <<C, nof_objects, intBW, extBW, loaded_apps, plat>>
    BY <1>5 DEF res
  <2>2. Registry' /\ Placed' /\ Books' /\ Indexed' /\ Powers' /\ Wires'
    BY <1>1, <2>1, Still
  <2>3. HTypeOK'
    BY <1>1, <1>3, <1>5, <2>1 DEF HTypeOK
  <2>4. QED
    BY <1>4, <2>2, <2>3 DEF HInv
<1>6. CASE /\ w \in loaded_apps /\ \A o \in Range(Waves[w]) : place[o] \in pedb
           /\ C' = [p \in Procs |-> C[p] + Total(Given(w, p), Mops)]
           /\ nof_objects' = [p \in Procs |-> nof_objects[p] - Cardinality(Given(w, p))]
           /\ intBW' = [p \in Procs |-> IF p \notin pedb THEN intBW[p]
                ELSE intBW[p] + Total({l \in inner : place[l.from][1] = p[1]}, Bw)]
           /\ extBW' = [x \in DOMAIN XitfId |-> extBW[x] + Total({l \in outer : Holds(x, l)}, Bw)]
           /\ loaded_apps' = loaded_apps \ {w}
           /\ UNCHANGED up /\ plat' = calc_P_vector(pedb, P_idx, C')
  <2>1. /\ \A p : /\ Given(w, p) = On(w, place, p) /\ On(w, place, p) \subseteq Held(p) /\ Held(p) \in SUBSET Objs
                  /\ Held(p)' = Held(p) \ On(w, place, p)
        /\ \A x : /\ Over(w, place, x) \subseteq Carried(x) /\ Carried(x) \in SUBSET Links
                  /\ Carried(x)' = Carried(x) \ Over(w, place, x)
    BY <1>1, <1>4, <1>6, Giver
  <2>2. /\ C \in [Procs -> Int] /\ nof_objects \in [Procs -> Nat]
        /\ intBW \in [Procs -> Int] /\ extBW \in [DOMAIN XitfId -> Int]
    BY <1>1 DEF HTypeOK
  <2>3. ASSUME NEW p \in Procs
        PROVE  /\ C'[p] \in Int /\ nof_objects'[p] \in Nat
               /\ C'[p] <= Capacity - Total(Held(p)', Mops) /\ nof_objects'[p] >= Cardinality(Held(p)')
               /\ OnlyLast => nof_objects'[p] = Cardinality(Held(p)')
               /\ env.drops = {} /\ p \in pedb => C'[p] = Capacity - Total(Held(p)', Mops)
               /\ C'[p] >= C[p] /\ C'[p] <= Capacity
    <3> DEFINE H == Held(p)
               O == On(w, place, p)
               th == Total(H, Mops)
               to == Total(O, Mops)
               ch == Cardinality(H)
               co == Cardinality(O)
    <3>1. O \in SUBSET H /\ H \in SUBSET Objs /\ O \in SUBSET Objs /\ H \ O \in SUBSET Objs
      BY <2>1
    <3>2. /\ th \in Nat /\ to \in Nat /\ ch \in Nat /\ co \in Nat
          /\ Total(H \ O, Mops) \in Nat /\ Cardinality(H \ O) \in Nat
      <4> HIDE DEF H, O
      <4>1. QED
        BY <3>1, ObjectSums
    <3>3. Total(H \ O, Mops) = th - to /\ Cardinality(H \ O) = ch - co
      <4> HIDE DEF H, O
      <4>1. QED
        BY <3>1, ObjectDifference
    <3>4. C'[p] = C[p] + to /\ nof_objects'[p] = nof_objects[p] - co
      BY <1>6, <2>1
    <3>5. /\ C[p] <= Capacity - th /\ nof_objects[p] >= ch
          /\ (OnlyLast => nof_objects[p] = ch) /\ (env.drops = {} /\ p \in pedb => C[p] = Capacity - th)
      BY DEF HInv, Books
    <3>6. C[p] \in Int /\ nof_objects[p] \in Nat /\ Capacity \in Nat
      BY <2>2, HwManAssumption
    <3>7. Held(p)' = H \ O
      BY <2>1
    <3>8. Total(Held(p)', Mops) = th - to /\ Cardinality(Held(p)') = ch - co /\ th - to >= 0 /\ ch - co >= 0
      <4> HIDE DEF H, O
      <4>1. QED
        BY <3>2, <3>3, <3>7
    <3> HIDE DEF th, to, ch, co
    <3>9. QED
      BY <3>2, <3>4, <3>5, <3>6, <3>8
  <2>4. C' \in [Procs -> Int] /\ nof_objects' \in [Procs -> Nat]
    <3>1. /\ C' = [p \in Procs |-> C'[p]]
          /\ nof_objects' = [p \in Procs |-> nof_objects'[p]]
      BY <1>6
    <3>2. QED
      BY <2>3, <3>1
  <2>5. intBW' \in [Procs -> Int] /\ extBW' \in [DOMAIN XitfId -> Int]
    <3> DEFINE I(p) == {l \in inner : place[l.from][1] = p[1]}
               E(x) == {l \in outer : Holds(x, l)}
    <3>1. \A p : I(p) \in SUBSET Links
      BY DEF LinksOf
    <3>2. \A x : E(x) \in SUBSET Links
      BY DEF LinksOf
    <3>3. /\ intBW' = [p \in Procs |-> IF p \notin pedb THEN intBW[p] ELSE intBW[p] + Total(I(p), Bw)]
          /\ extBW' = [x \in DOMAIN XitfId |-> extBW[x] + Total(E(x), Bw)]
      BY <1>6
    <3> HIDE DEF I, E
    <3>4. (\A p : Total(I(p), Bw) \in Nat) /\ (\A x : Total(E(x), Bw) \in Nat)
      BY <3>1, <3>2, LinkSums
    <3>5. QED
      BY <2>2, <3>3, <3>4
  <2>6. Books'
    BY <1>1, <2>3 DEF Books, OnlyLast
  <2>7. Registry' /\ Indexed'
    <3>1. plat'.n = plat.n
      BY <1>6 DEF calc_P_vector, HInv, Registry
    <3>2. Registry'
      BY <1>1, <3>1 DEF HInv, Registry
    <3>3. Indexed'
      BY <1>1 DEF HInv, Indexed, OnlyLast
    <3>4. QED
      BY <3>2, <3>3
  <2>8. Placed'
    BY <1>1, <1>6 DEF HInv, Placed, Internal, Wire
  <2>9. Powers' /\ plat' \in [n : 0..Len(Processors), C : [0..LastIdx -> Int]]
    <3>1. plat.C \in [0..LastIdx -> Int]
      BY <1>1 DEF HTypeOK
    <3>2. ASSUME env'.drops = {}, NEW p \in pedb'
          PROVE  C'[p] >= 0
      <4>1. p \in pedb /\ p \in Procs /\ env.drops = {}
        BY <1>1, <3>2 DEF HTypeOK
      <4>2. C[p] >= 0 /\ C'[p] >= C[p] /\ C[p] \in Int /\ C'[p] \in Int
        BY <2>2, <2>3, <4>1 DEF HInv, Powers
      <4>3. QED
        BY <4>2
    <3>3. /\ announced' \in 0..Len(Processors) /\ pedb' \subseteq Known(announced')
          /\ P_idx' \in [Procs -> 0..LastIdx] /\ plat' = calc_P_vector(pedb', P_idx', C')
      BY <1>1, <1>6 DEF HInv, Registry, HTypeOK
    <3>4. QED
      BY <2>4, <2>7, <3>1, <3>2, <3>3, Sight
  <2>10. Wires'
    <3> SUFFICES ASSUME DistinctIds, env.drops = {}, NEW x \in DOMAIN XitfId
                 PROVE  extBW'[x] = Bandwidth - Total(Carried(x)', Bw)
      BY <1>1 DEF Wires
    <3> DEFINE H == Carried(x)
               O == Over(w, place, x)
               th == Total(H, Bw)
               to == Total(O, Bw)
    <3>1. O \in SUBSET H /\ H \in SUBSET Links /\ O \in SUBSET Links
      BY <2>1
    <3>2. th \in Nat /\ to \in Nat /\ Total(H \ O, Bw) = th - to
      <4> HIDE DEF H, O
      <4>1. QED
        BY <3>1, LinkSums, LinkDifference
    <3>3. {l \in outer : Holds(x, l)} = O
      BY <1>6, Found
    <3>4. extBW'[x] = extBW[x] + to /\ Carried(x)' = H \ O
      <4>1. extBW'[x] = extBW[x] + Total({l \in outer : Holds(x, l)}, Bw)
        BY <1>6
      <4> HIDE DEF outer
      <4>2. QED
        BY <2>1, <3>3, <4>1
    <3>5. extBW[x] = Bandwidth - th /\ Bandwidth \in Nat
      BY HwManAssumption DEF HInv, Wires
    <3>6. Total(Carried(x)', Bw) = th - to
      <4> HIDE DEF H, O
      <4>1. QED
        BY <3>2, <3>4
    <3> HIDE DEF th, to
    <3>7. QED
      BY <3>2, <3>4, <3>5, <3>6
  <2>11. HTypeOK'
    <3>1. loaded_apps' \subseteq DOMAIN Waves
      BY <1>1, <1>6 DEF HTypeOK
    <3>2. \A p \in Procs : C'[p] <= Capacity
      BY <2>3
    <3>3. up' \in BOOLEAN
      BY <1>1, <1>6 DEF HTypeOK
    <3>4. QED
      BY <1>1, <1>3, <2>4, <2>5, <2>9, <3>1, <3>2, <3>3 DEF HTypeOK
  <2>12. QED
    BY <1>4, <2>6, <2>7, <2>8, <2>9, <2>10, <2>11 DEF HInv
<1>7. QED
  BY <1>2, <1>5, <1>6

-----------------------------------------------------------------------------
\* every step keeps the invariant
LEMMA HStep == HInv /\ [HNext]_hvars => HInv'
<1> SUFFICES ASSUME HInv, [HNext]_hvars PROVE HInv'
  OBVIOUS
<1>1. CASE UNCHANGED hvars
  BY <1>1, Stutter
<1>2. CASE hwman_incmd_addcpu
  BY <1>2, AddCpu
<1>3. CASE hwman_background
  BY <1>3, Background
<1>4. CASE hwman_incmd_swmapper
  BY <1>4, Mapper
<1>5. CASE hwman_incmd_swunmap
  BY <1>5, Unmapper
<1>6. ASSUME NEW w \in DOMAIN Waves, swman_incmd_loadapp(w) PROVE HInv'
  BY <1>6, Load
<1>7. ASSUME NEW w \in DOMAIN Waves, swman_sendobjstatus(w) PROVE HInv'
  BY <1>7, Stop
<1>8. ASSUME NEW w \in DOMAIN Waves, unmap_app(w) PROVE HInv'
  BY <1>8, Unmap
<1>9. ASSUME NEW w \in DOMAIN Waves, load_error(w) PROVE HInv'
  BY <1>9, Fail
<1>10. ASSUME NEW o \in Objs, create_process(o) PROVE HInv'
  BY <1>10, Create
<1>11. ASSUME NEW o \in Objs, remove_process(o) PROVE HInv'
  BY <1>11, ProcessEnds
<1>12. QED
  BY <1>1, <1>2, <1>3, <1>4, <1>5, <1>6, <1>7, <1>8, <1>9, <1>10, <1>11 DEF HNext

\* HInv holds in every state of HWMAN, of SWMAN's waveforms and of the kernel's positions.
LEMMA Invariance == HSpec => []HInv
<1>1. QED
  BY Initial, HStep, PTL DEF HSpec

\* Every variable keeps its type; in it, no processor ever has more power than it announced, and
\* the number of its objects never becomes negative, also when processors are forgotten while a
\* waveform is mapped.
THEOREM HTypeCorrect == HSpec => []HTypeOK
<1>1. HInv => HTypeOK
  BY DEF HInv
<1>2. QED
  BY Invariance, <1>1, PTL

\* The books of HWMAN are right: what is left of a processor's power, of its number of objects
\* and of an external interface is what the loaded waveforms leave of it, and power is never
\* given away twice. It needs one id per interface, as free_resources gives bandwidth back to
\* the first interface with the id.
THEOREM AccountedEver ==
  ASSUME DistinctIds
  PROVE  HSpec => []Accounted
<1>1. ASSUME HInv PROVE Accounted
  <2> SUFFICES ASSUME env.drops = {}
               PROVE  /\ \A p \in pedb : /\ C[p] = Capacity - Total(Held(p), Mops) /\ C[p] >= 0
                                         /\ nof_objects[p] = Cardinality(Held(p))
                      /\ \A x \in DOMAIN XitfId : extBW[x] = Bandwidth - Total(Carried(x), Bw)
    BY DEF Accounted
  <2>1. \A p \in pedb : C[p] = Capacity - Total(Held(p), Mops) /\ nof_objects[p] = Cardinality(Held(p))
    BY <1>1 DEF HInv, HTypeOK, Books, OnlyLast
  <2>2. \A p \in pedb : C[p] >= 0
    BY <1>1 DEF HInv, Powers
  <2>3. \A x \in DOMAIN XitfId : extBW[x] = Bandwidth - Total(Carried(x), Bw)
    BY <1>1 DEF HInv, Wires
  <2>4. QED
    BY <2>1, <2>2, <2>3
<1>2. HInv => Accounted
  BY <1>1
<1>3. QED
  BY Invariance, <1>2, PTL

\* While only the processor announced last is ever forgotten, every index the mapper may choose
\* leads to a processor HWMAN knows, and back.
THEOREM IndexesAgreeEver == HSpec => []IndexesAgree
<1>1. ASSUME HInv PROVE IndexesAgree
  BY <1>1, Leads DEF IndexesAgree
<1>2. HInv => IndexesAgree
  BY <1>1
<1>3. QED
  BY Invariance, <1>2, PTL

-----------------------------------------------------------------------------
\* The positions of the processes, for a user who gives one command after the other

\* the environments Gapless is about
Quiet == env.serial /\ "crash" \notin env.failures /\ OnlyLast

\* a load has failed with processes of the waveform running: nothing ends them any more, and the
\* user never finds HWMAN at rest again
Stuck == \E w \in DOMAIN Waves : phase[w] \in {"none", "failed"} /\ \E o \in Range(Waves[w]) : proc[o] = "live"

\* something of the waveform is under way; what the user waits for
Busy(w) ==
  \/ ~(phase[w] = "running" \/ (phase[w] = "none" /\ Ended(w)))
  \/ \E i \in 1..Len(queue) : queue[i].app = w

\* the processes a waveform has
Statuses(ph) ==
  CASE ph = "none"     -> {"none", "mapped", "stopped", "dead"}
    [] ph = "mapping"  -> {"none"}
    [] ph = "loading"  -> {"mapped", "live"}
    [] ph = "failed"   -> {"none", "mapped"}
    [] ph = "running"  -> {"live"}
    [] ph = "stopping" -> {"stopped", "dead"}

\* f numbers the members of S from b on
Numbers(S, f, b) ==
  /\ \A x, y \in S : f[x] = f[y] => x = y
  /\ \A k \in Int : (\E x \in S : f[x] = k) <=> b <= k /\ k < b + Cardinality(S)

\* of a core: the processes, those of waveforms that have been loaded, and the objects now loaded
There(p)    == {o \in Objs : place[o] = p /\ proc[o] \in {"live", "stopped"}}
Settlers(p) == {o \in There(p) : phase[WaveOf(o)] # "loading"}
Coming(p)   == {o \in Objs : place[o] = p /\ phase[WaveOf(o)] = "loading"}

\* those loaded stand at 0, 1, ..., those to come have the positions behind them; the kernel's
\* last position is that of a process, if there is one
Rowed(p) ==
  /\ Numbers(Settlers(p), sem_idx, 0) /\ Numbers(Coming(p), position, Cardinality(Settlers(p)))
  /\ \A o \in Coming(p) : proc[o] = "live" => sem_idx[o] = position[o]
Topped(p) ==
  /\ There(p) = {} => last_semidx[p] \in {-1, 0}
  /\ There(p) # {} => \E o \in There(p) : sem_idx[o] = last_semidx[p]
  /\ \A o \in There(p) : sem_idx[o] <= last_semidx[p]

OneBusy  == \A v, w \in DOMAIN Waves : Busy(v) /\ Busy(w) => v = w
Matching == \A o \in Objs : proc[o] \in Statuses(phase[WaveOf(o)])
Loaded   == \A w \in DOMAIN Waves : phase[w] \in {"running", "loading"} => w \in loaded_apps
Seated   == \A o \in Objs : proc[o] \in {"mapped", "live", "stopped"} => place[o] \in Procs
Serially == OneBusy /\ Matching /\ Loaded /\ Seated /\ \A p \in Procs : Rowed(p) /\ Topped(p)

GInv == HInv /\ (Quiet => Stuck \/ Serially)

-----------------------------------------------------------------------------
\* numbers of two sets, one behind the other
LEMMA NumbersJoin ==
  ASSUME NEW S \in SUBSET Objs, NEW T \in SUBSET Objs, S \cap T = {}, NEW f \in [Objs -> Int],
         Numbers(S, f, 0), Numbers(T, f, Cardinality(S))
  PROVE  Numbers(S \cup T, f, 0)
<1> DEFINE n == Cardinality(S)
           k == Cardinality(T)
<1>1. n \in Nat /\ k \in Nat /\ Cardinality(S \cup T) = n + k
  BY ObjectSums
<1>2. /\ \A i \in Int : (\E x \in S : f[x] = i) <=> 0 <= i /\ i < n
      /\ \A i \in Int : (\E x \in T : f[x] = i) <=> n <= i /\ i < n + k
      /\ \A x, y \in S : f[x] = f[y] => x = y
      /\ \A x, y \in T : f[x] = f[y] => x = y
  BY <1>1 DEF Numbers
<1> HIDE DEF n, k
<1>3. \A x \in S : f[x] \in Int /\ f[x] < n
  BY <1>2
<1>4. \A x \in T : f[x] \in Int /\ n <= f[x]
  BY <1>2
<1>5. \A x, y \in S \cup T : f[x] = f[y] => x = y
  BY <1>1, <1>2, <1>3, <1>4
<1>6. \A i \in Int : (\E x \in S \cup T : f[x] = i) <=> 0 <= i /\ i < n + k
  <2> SUFFICES ASSUME NEW i \in Int PROVE (\E x \in S \cup T : f[x] = i) <=> 0 <= i /\ i < n + k
    OBVIOUS
  <2>1. (\E x \in S \cup T : f[x] = i) <=> (\E x \in S : f[x] = i) \/ (\E x \in T : f[x] = i)
    OBVIOUS
  <2>2. (0 <= i /\ i < n) \/ (n <= i /\ i < n + k) <=> 0 <= i /\ i < n + k
    BY <1>1
  <2>3. QED
    BY <1>2, <2>1, <2>2
<1>7. QED
  BY <1>1, <1>5, <1>6 DEF Numbers

\* numbers when one leaves and those behind it move up
LEMMA NumbersLeave ==
  ASSUME NEW S \in SUBSET Objs, NEW f \in [Objs -> Int], NEW g \in [Objs -> Int], Numbers(S, f, 0), NEW o \in S,
         \A x \in S \ {o} : g[x] = IF f[x] > f[o] THEN f[x] - 1 ELSE f[x]
  PROVE  Numbers(S \ {o}, g, 0) /\ Cardinality(S \ {o}) = Cardinality(S) - 1
<1> DEFINE n == Cardinality(S)
           D == S \ {o}
<1>1. n \in Nat /\ Cardinality(D) = n - 1
  BY ObjectSums, FS_RemoveElement
<1>2. /\ \A i \in Int : (\E x \in S : f[x] = i) <=> 0 <= i /\ i < n
      /\ \A x, y \in S : f[x] = f[y] => x = y
      /\ \A x \in S : f[x] \in Int /\ 0 <= f[x] /\ f[x] < n
  BY <1>1 DEF Numbers
<1>3. \A x \in D : x \in S /\ f[x] # f[o] /\ f[x] \in Int /\ g[x] = IF f[x] > f[o] THEN f[x] - 1 ELSE f[x]
  BY <1>2
<1> HIDE DEF n, D
<1>4. f[o] \in Int /\ 0 <= f[o] /\ f[o] < n
  BY <1>2
<1>5. ASSUME NEW x \in D, NEW y \in D, g[x] = g[y]
      PROVE  x = y
  <2>1. f[x] = f[y]
    BY <1>3, <1>4, <1>5
  <2>2. QED
    BY <1>2, <1>3, <2>1
<1>6. ASSUME NEW i \in Int
      PROVE  (\E x \in D : g[x] = i) <=> 0 <= i /\ i < n - 1
  <2>1. ASSUME NEW x \in D, g[x] = i
        PROVE  0 <= i /\ i < n - 1
    <3>1. 0 <= f[x] /\ f[x] < n
      BY <1>2, <1>3
    <3>2. QED
      BY <1>1, <1>3, <1>4, <2>1, <3>1
  <2>2. ASSUME 0 <= i, i < n - 1, i < f[o]
        PROVE  \E x \in D : g[x] = i
    <3>1. PICK x \in S : f[x] = i
      BY <1>1, <1>2, <2>2
    <3>2. x \in D
      BY <2>2, <3>1, <1>4 DEF D
    <3>3. QED
      BY <1>3, <1>4, <2>2, <3>1, <3>2
  <2>3. ASSUME 0 <= i, i < n - 1, ~(i < f[o])
        PROVE  \E x \in D : g[x] = i
    <3>1. i + 1 \in Int /\ 0 <= i + 1 /\ i + 1 < n /\ i + 1 > f[o] /\ (i + 1) - 1 = i
      BY <1>1, <1>4, <2>3
    <3>2. PICK x \in S : f[x] = i + 1
      BY <1>2, <3>1
    <3>3. x \in D
      BY <3>1, <3>2, <1>4 DEF D
    <3>4. QED
      BY <1>3, <1>4, <3>1, <3>2, <3>3
  <2>4. QED
    BY <2>1, <2>2, <2>3
<1>7. Numbers(D, g, 0)
  <2>1. \A i \in Int : (\E x \in D : g[x] = i) <=> 0 <= i /\ i < 0 + Cardinality(D)
    BY <1>1, <1>6
  <2>2. QED
    BY <1>5, <2>1 DEF Numbers
<1>8. QED
  BY <1>1, <1>7 DEF D, n

\* numbers are what they are on the set
LEMMA NumbersSame ==
  ASSUME NEW S, NEW f, NEW g, \A x \in S : f[x] = g[x], NEW b, Numbers(S, f, b)
  PROVE  Numbers(S, g, b)
BY DEF Numbers

\* no members, no numbers
LEMMA NumbersNone ==
  ASSUME NEW f, NEW b \in Int
  PROVE  Numbers({}, f, b)
<1>1. Cardinality({}) = 0
  BY FS_EmptySet
<1>2. QED
  BY <1>1 DEF Numbers

\* do_mapping numbers the objects it puts on a processor
LEMMA Ordinals ==
  ASSUME NEW w \in DOMAIN Waves, NEW at, NEW p, NEW f \in [Objs -> Int], NEW n \in Int,
         \A o \in On(w, at, p) : f[o] = n + Ordinal(w, at, o)
  PROVE  Numbers(On(w, at, p), f, n)
<1> DEFINE L == Len(Waves[w])
           I == {k \in 1..L : at[Waves[w][k]] = p}
           O == On(w, at, p)
           R(k) == Cardinality(Before(I, k))
           el == [k \in I |-> Waves[w][k]]
<1>1. L \in Nat /\ Range(Waves[w]) = {Waves[w][k] : k \in 1..L}
  <2>1. Waves[w] \in Seq(Objs)
    BY HwManAssumption
  <2>2. QED
    BY <2>1 DEF Range
<1>2. \A j, k \in 1..L : Waves[w][j] = Waves[w][k] => j = k
  <2>1. Waves[w] \in Seq(Objs) /\ IsInjective(Waves[w])
    BY HwManAssumption
  <2>2. DOMAIN Waves[w] = 1..L
    BY <2>1
  <2>3. QED
    BY <2>1, <2>2 DEF IsInjective
<1>3. /\ \A k \in I : el[k] = Waves[w][k] /\ el[k] \in O
      /\ \A o \in O : \E k \in I : el[k] = o
      /\ \A j, k \in I : el[j] = el[k] => j = k
  BY <1>1, <1>2 DEF On
<1>4. I \in SUBSET (1..L)
  OBVIOUS
<1>5. \A k \in I : Ordinal(w, at, el[k]) = R(k)
  <2> SUFFICES ASSUME NEW k \in I PROVE Ordinal(w, at, el[k]) = R(k)
    OBVIOUS
  <2>1. k \in 1..L /\ el[k] = Waves[w][k] /\ at[el[k]] = p
    OBVIOUS
  <2>2. (CHOOSE j \in 1..Len(Waves[w]) : Waves[w][j] = el[k]) = k
    BY <1>2, <2>1
  <2>3. {j \in 1..k - 1 : at[Waves[w][j]] = at[el[k]]} = Before(I, k)
    <3>1. \A j : j \in 1..k - 1 <=> j \in 1..L /\ j < k
      BY <1>1, <2>1
    <3>2. QED
      BY <2>1, <3>1 DEF Before
  <2>4. Ordinal(w, at, el[k]) = Cardinality({j \in 1..k - 1 : at[Waves[w][j]] = at[el[k]]})
    BY <2>2 DEF Ordinal
  <2>5. QED
    BY <2>3, <2>4
<1>6. Cardinality(O) = Cardinality(I) /\ Cardinality(I) \in Nat
  <2>1. IsFiniteSet(I) /\ Cardinality(I) \in Nat
    BY <1>1, <1>4, BeforeFinite
  <2>2. el \in Bijection(I, O)
    <3>1. el \in [I -> O]
      BY <1>3
    <3> HIDE DEF el, I, O
    <3>2. QED
      BY <1>3, <3>1 DEF Bijection, Injection, Surjection, IsInjective
  <2>3. ExistsBijection(I, O)
    BY <2>2 DEF ExistsBijection
  <2> HIDE DEF I, O
  <2>4. QED
    BY <2>1, <2>3, FS_Bijection, FS_SameCardinalityBij
<1>7. \A k \in I : R(k) \in Nat /\ R(k) < Cardinality(I)
  <2> HIDE DEF I
  <2>1. QED
    BY <1>1, <1>4, BeforeFinite, BeforeBound
<1>8. \A j, k \in I : R(j) = R(k) => j = k
  <2>1. \A j, k \in I : j < k => R(j) < R(k)
    <3> HIDE DEF I
    <3>1. \A k \in I : k \in Int
      BY <1>1, <1>4
    <3>2. QED
      BY <1>1, <1>4, <3>1, BeforeMonotone
  <2>2. \A j, k \in I : j \in Int /\ k \in Int /\ R(j) \in Int /\ R(k) \in Int
    BY <1>1, <1>4, <1>7
  <2> HIDE DEF I, R
  <2>3. QED
    BY <2>1, <2>2
<1>9. \A i \in Nat : i < Cardinality(I) => \E k \in I : R(k) = i
  <2> SUFFICES ASSUME NEW i \in Nat, i < Cardinality(I) PROVE \E k \in I : Cardinality(Before(I, k)) = i
    OBVIOUS
  <2> HIDE DEF I
  <2>1. QED
    BY <1>1, <1>4, NthMember
<1>10. \A k \in I : f[el[k]] = n + R(k)
  <2>1. \A o \in O : f[o] = n + Ordinal(w, at, o)
    OBVIOUS
  <2> HIDE DEF I, O, R, el
  <2>2. QED
    BY <1>3, <1>5, <2>1
<1> HIDE DEF I, O, R, el
<1>11. ASSUME NEW x \in O, NEW y \in O, f[x] = f[y]
       PROVE  x = y
  <2>1. PICK j \in I : el[j] = x
    BY <1>3
  <2>2. PICK k \in I : el[k] = y
    BY <1>3
  <2>3. R(j) = R(k)
    BY <1>7, <1>10, <1>11, <2>1, <2>2
  <2>4. QED
    BY <1>8, <2>1, <2>2, <2>3
<1>12. ASSUME NEW i \in Int
       PROVE  (\E x \in O : f[x] = i) <=> n <= i /\ i < n + Cardinality(O)
  <2>1. ASSUME NEW x \in O, f[x] = i
        PROVE  n <= i /\ i < n + Cardinality(O)
    <3>1. PICK k \in I : el[k] = x
      BY <1>3
    <3>2. QED
      BY <1>6, <1>7, <1>10, <2>1, <3>1
  <2>2. ASSUME n <= i, i < n + Cardinality(O)
        PROVE  \E x \in O : f[x] = i
    <3>1. i - n \in Nat /\ i - n < Cardinality(I) /\ n + (i - n) = i
      BY <1>6, <2>2
    <3>2. PICK k \in I : R(k) = i - n
      BY <1>9, <3>1
    <3>3. QED
      BY <1>3, <1>10, <3>1, <3>2
  <2>3. QED
    BY <2>1, <2>2
<1>13. QED
  BY <1>11, <1>12 DEF Numbers, O

-----------------------------------------------------------------------------
\* what the invariant rests on does not change
LEMMA SeriallyFrame ==
  ASSUME Serially,
         UNCHANGED <<phase, queue, proc, loaded_apps, place, position, sem_idx, last_semidx>>
  PROVE  Serially'
<1>1. \A w : Busy(w)' <=> Busy(w)
  BY DEF Busy, Ended
<1>2. \A p : There(p)' = There(p) /\ Settlers(p)' = Settlers(p) /\ Coming(p)' = Coming(p)
  BY DEF There, Settlers, Coming
<1>3. \A p \in Procs : Rowed(p)' /\ Topped(p)'
  BY <1>2 DEF Serially, Rowed, Topped, Numbers
<1>4. OneBusy' /\ Matching' /\ Loaded' /\ Seated'
  BY <1>1 DEF Serially, OneBusy, Matching, Loaded, Seated
<1>5. QED
  BY <1>3, <1>4 DEF Serially

\* a core on which nobody comes or goes
LEMMA RowFrame ==
  ASSUME NEW p \in Procs, Rowed(p), Settlers(p)' = Settlers(p), Coming(p)' = Coming(p),
         \A o \in Settlers(p) : sem_idx'[o] = sem_idx[o],
         \A o \in Coming(p) : position'[o] = position[o] /\ (proc'[o] = "live" => sem_idx'[o] = position[o])
  PROVE  Rowed(p)'
<1>1. Numbers(Settlers(p), sem_idx', 0)
  <2>1. \A o \in Settlers(p) : sem_idx[o] = sem_idx'[o]
    OBVIOUS
  <2>2. QED
    BY <2>1, NumbersSame DEF Rowed
<1>2. Numbers(Coming(p), position', Cardinality(Settlers(p)))
  <2>1. \A o \in Coming(p) : position[o] = position'[o]
    OBVIOUS
  <2>2. QED
    BY <2>1, NumbersSame DEF Rowed
<1>3. QED
  BY <1>1, <1>2 DEF Rowed, Numbers

\* and the last position of its processes
LEMMA TopFrame ==
  ASSUME NEW p \in Procs, Topped(p), There(p)' = There(p), \A o \in There(p) : sem_idx'[o] = sem_idx[o],
         last_semidx'[p] = last_semidx[p]
  PROVE  Topped(p)'
BY DEF Topped

\* what only one waveform does keeps it the only one
LEMMA Alone ==
  ASSUME NEW w \in DOMAIN Waves, \A v \in DOMAIN Waves : v # w => ~Busy(v),
         \A v \in DOMAIN Waves : v # w => phase'[v] = phase[v],
         \A o \in Objs : WaveOf(o) # w => proc'[o] = proc[o],
         \A i \in 1..Len(queue') : queue'[i].app = w \/ \E j \in 1..Len(queue) : queue[j].app = queue'[i].app
  PROVE  OneBusy'
<1>1. ASSUME NEW v \in DOMAIN Waves, v # w
      PROVE  ~Busy(v)'
  <2>1. ~Busy(v) /\ phase'[v] = phase[v]
    BY <1>1
  <2>2. \A o \in Range(Waves[v]) : proc'[o] = proc[o]
    BY <1>1, Families
  <2>3. Ended(v)' <=> Ended(v)
    BY <2>2 DEF Ended
  <2>4. \A i \in 1..Len(queue') : queue'[i].app # v
    BY <1>1, <2>1 DEF Busy
  <2>5. QED
    BY <2>1, <2>3, <2>4 DEF Busy
<1>2. QED
  BY <1>1 DEF OneBusy

\* what is not busy has nothing under way
LEMMA Idle ==
  ASSUME NEW v \in DOMAIN Waves, ~Busy(v)
  PROVE  /\ phase[v] \in {"running", "none"} /\ \A i \in 1..Len(queue) : queue[i].app # v
         /\ phase[v] = "none" => \A o \in Range(Waves[v]) : proc[o] \notin {"live", "stopped"}
BY DEF Busy, Ended

\* a load that has failed with processes running stays so
LEMMA StuckStays ==
  ASSUME HInv, Quiet, Stuck, [HNext]_hvars
  PROVE  Stuck'
<1>0. PICK w \in DOMAIN Waves : phase[w] \in {"none", "failed"} /\ \E o \in Range(Waves[w]) : proc[o] = "live"
  BY DEF Stuck
<1>1. PICK o \in Range(Waves[w]) : phase[w] \in {"none", "failed"} /\ proc[o] = "live"
  BY <1>0
<1>2. o \in Objs /\ WaveOf(o) = w
  BY <1>1, Families
<1>3. /\ phase \in [DOMAIN Waves -> {"none", "mapping", "loading", "failed", "running", "stopping"}]
      /\ proc \in [Objs -> {"none", "mapped", "live", "stopped", "dead"}]
  BY DEF HInv, HTypeOK
<1> SUFFICES phase'[w] \in {"none", "failed"} /\ proc'[o] = "live"
  BY <1>1 DEF Stuck
<1>4. CASE UNCHANGED <<phase, proc>>
  BY <1>1, <1>4
<1>5. ASSUME hwman_incmd_swmapper
      PROVE  phase'[w] \in {"none", "failed"} /\ proc'[o] = "live"
  <2> DEFINE v == Head(queue).app
  <2>1. queue # <<>> /\ Head(queue).op = "MAPOBJ"
    BY <1>5 DEF hwman_incmd_swmapper
  <2>2. phase[v] = "mapping"
    <3> DEFINE M == [op : {"MAPOBJ", "UNMAPOBJ"}, app : DOMAIN Waves]
    <3>1. queue \in Seq(M)
      BY DEF HInv, HTypeOK
    <3> HIDE DEF M
    <3>2. Len(queue) \in Nat /\ Len(queue) # 0 /\ Head(queue) = queue[1]
      BY <2>1, <3>1, EmptySeq
    <3>3. 1 \in 1..Len(queue)
      BY <3>2
    <3>4. QED
      BY <2>1, <3>2, <3>3 DEF HInv, Ordered
  <2>3. v # w
    BY <1>1, <2>2
  <2>4. /\ \E s \in {"loading", "failed"} : phase' = [phase EXCEPT ![v] = s]
        /\ proc' = proc \/ proc' = [x \in Objs |-> IF WaveOf(x) = v THEN "mapped" ELSE proc[x]]
    BY <1>5 DEF hwman_incmd_swmapper
  <2> HIDE DEF v
  <2>5. QED
    BY <1>1, <1>2, <1>3, <2>3, <2>4
<1>6. ASSUME NEW v \in DOMAIN Waves, swman_incmd_loadapp(v)
      PROVE  FALSE
  <2>1. phase[w] = "running" \/ (phase[w] = "none" /\ Ended(w))
    BY <1>6 DEF swman_incmd_loadapp, Allowed, Settled, Quiet
  <2>2. QED
    BY <1>1, <2>1 DEF Ended
<1>7. ASSUME NEW v \in DOMAIN Waves, swman_sendobjstatus(v)
      PROVE  phase'[w] \in {"none", "failed"} /\ proc'[o] = "live"
  BY <1>1, <1>2, <1>3, <1>7 DEF swman_sendobjstatus
<1>8. ASSUME NEW v \in DOMAIN Waves, unmap_app(v)
      PROVE  phase'[w] \in {"none", "failed"} /\ proc'[o] = "live"
  BY <1>1, <1>2, <1>3, <1>8 DEF unmap_app, kernel
<1>9. ASSUME NEW v \in DOMAIN Waves, load_error(v)
      PROVE  phase'[w] \in {"none", "failed"} /\ proc'[o] = "live"
  BY <1>1, <1>2, <1>3, <1>9 DEF load_error, kernel
<1>10. ASSUME NEW x \in Objs, create_process(x)
       PROVE  phase'[w] \in {"none", "failed"} /\ proc'[o] = "live"
  <2>1. phase[WaveOf(x)] = "loading" /\ proc[x] = "mapped" /\ proc' = [proc EXCEPT ![x] = "live"]
    BY <1>10 DEF create_process
  <2>2. phase' = phase \/ phase' = [phase EXCEPT ![WaveOf(x)] = "running"]
    BY <1>10 DEF create_process
  <2>3. WaveOf(x) # w /\ x # o
    BY <1>1, <2>1
  <2>4. QED
    BY <1>1, <1>2, <1>3, <2>1, <2>2, <2>3
<1>11. ASSUME NEW x \in Objs, remove_process(x)
       PROVE  phase'[w] \in {"none", "failed"} /\ proc'[o] = "live"
  <2>1. /\ proc[x] = "stopped" \/ phase[WaveOf(x)] = "running"
        /\ proc' = [proc EXCEPT ![x] = "dead"] /\ phase' = phase
    BY <1>11 DEF remove_process, swman
  <2>2. x # o
    BY <1>1, <1>2, <2>1
  <2>3. QED
    BY <1>1, <1>2, <1>3, <2>1, <2>2
<1>12. CASE UNCHANGED hvars \/ hwman_incmd_addcpu \/ hwman_background \/ hwman_incmd_swunmap
  <2>1. UNCHANGED <<phase, proc>>
    BY <1>12 DEF hvars, hwman_incmd_addcpu, hwman_background, hwman_incmd_swunmap, swman, kernel
  <2>2. QED
    BY <1>4, <2>1
<1>13. QED
  BY <1>5, <1>6, <1>7, <1>8, <1>9, <1>10, <1>11, <1>12 DEF HNext

-----------------------------------------------------------------------------
\* swman_incmd_loadapp: nothing else is under way
LEMMA SeriallyLoad ==
  ASSUME HInv, Quiet, Serially, NEW w \in DOMAIN Waves, swman_incmd_loadapp(w)
  PROVE  Serially'
<1>1. /\ HTypeOK /\ Settled /\ phase[w] = "none" /\ Ended(w)
      /\ phase' = [phase EXCEPT ![w] = "mapping"]
      /\ proc' = [o \in Objs |-> IF WaveOf(o) = w THEN "none" ELSE proc[o]]
      /\ queue' = Append(queue, [op |-> "MAPOBJ", app |-> w])
      /\ UNCHANGED <<loaded_apps, place, position, sem_idx, last_semidx>>
  BY DEF HInv, swman_incmd_loadapp, Allowed, Quiet, hwman
<1>2. \A v \in DOMAIN Waves : ~Busy(v) /\ phase[v] \in {"running", "none"}
  <2>1. Len(queue) = 0
    BY <1>1 DEF Settled
  <2>2. QED
    BY <1>1, <2>1 DEF Settled, Busy
<1>3. Len(queue') = 1 /\ queue'[1].app = w
  <2>1. queue = << >>
    BY <1>1 DEF Settled
  <2>2. QED
    BY <1>1, <2>1
<1>4. /\ \A v \in DOMAIN Waves : phase'[v] = IF v = w THEN "mapping" ELSE phase[v]
      /\ \A o \in Objs : proc'[o] = IF WaveOf(o) = w THEN "none" ELSE proc[o]
  BY <1>1 DEF HTypeOK
<1>5. \A o \in Objs : WaveOf(o) \in DOMAIN Waves /\ (WaveOf(o) = w => proc[o] \notin {"live", "stopped"})
  BY <1>1, Families DEF Ended
<1>6. OneBusy'
  <2>1. \A i \in 1..Len(queue') : queue'[i].app = w
    BY <1>3
  <2>2. QED
    BY <1>2, <1>4, <2>1, Alone
<1>7. Matching' /\ Loaded' /\ Seated'
  <2>1. Matching'
    BY <1>4, <1>5 DEF Serially, Matching, Statuses
  <2>2. Loaded'
    BY <1>1, <1>4 DEF Serially, Loaded
  <2>3. Seated'
    BY <1>1, <1>4 DEF Serially, Seated
  <2>4. QED
    BY <2>1, <2>2, <2>3
<1>8. ASSUME NEW p \in Procs
      PROVE  Rowed(p)' /\ Topped(p)'
  <2>1. There(p)' = There(p)
    BY <1>1, <1>4, <1>5 DEF There
  <2>2. Settlers(p)' = Settlers(p)
    <3>1. \A o \in There(p) : o \in Objs
      BY DEF There
    <3>2. QED
      BY <1>2, <1>4, <1>5, <2>1, <3>1 DEF Settlers
  <2>3. Coming(p) = {} /\ Coming(p)' = {}
    BY <1>2, <1>4, <1>5 DEF Coming
  <2>4. QED
    BY <1>1, <2>1, <2>2, <2>3, RowFrame, TopFrame DEF Serially
<1>9. QED
  BY <1>6, <1>7, <1>8 DEF Serially

\* swman_sendobjstatus: no object has ended by itself, so that it is the user's command
LEMMA SeriallyStop ==
  ASSUME HInv, Quiet, Serially, NEW w \in DOMAIN Waves, swman_sendobjstatus(w)
  PROVE  Serially'
<1>1. /\ HTypeOK /\ phase[w] = "running" /\ phase' = [phase EXCEPT ![w] = "stopping"]
      /\ proc' = [o \in Objs |-> IF WaveOf(o) = w /\ proc[o] = "live" THEN "stopped" ELSE proc[o]]
      /\ UNCHANGED <<queue, loaded_apps, place, position, sem_idx, last_semidx>>
      /\ Allowed \/ \E o \in Range(Waves[w]) : proc[o] = "dead"
  BY DEF HInv, swman_sendobjstatus, hwman
<1>2. \A o \in Range(Waves[w]) : proc[o] = "live"
  BY <1>1, Families DEF Serially, Matching, Statuses
<1>3. Settled
  BY <1>1, <1>2 DEF Allowed, Quiet
<1>4. \A v \in DOMAIN Waves : ~Busy(v) /\ phase[v] \in {"running", "none"}
  <2>1. Len(queue) = 0
    BY <1>3 DEF Settled
  <2>2. QED
    BY <1>3, <2>1 DEF Settled, Busy
<1>5. /\ \A v \in DOMAIN Waves : phase'[v] = IF v = w THEN "stopping" ELSE phase[v]
      /\ \A o \in Objs : proc'[o] = IF WaveOf(o) = w THEN "stopped" ELSE proc[o]
      /\ \A o \in Objs : WaveOf(o) \in DOMAIN Waves /\ (WaveOf(o) = w => proc[o] = "live")
  BY <1>1, <1>2, Families DEF HTypeOK
<1>6. OneBusy'
  BY <1>1, <1>4, <1>5, Alone
<1>7. Matching' /\ Loaded' /\ Seated'
  <2>1. Matching'
    BY <1>5 DEF Serially, Matching, Statuses
  <2>2. Loaded'
    BY <1>1, <1>5 DEF Serially, Loaded
  <2>3. Seated'
    BY <1>1, <1>5 DEF Serially, Seated
  <2>4. QED
    BY <2>1, <2>2, <2>3
<1>8. ASSUME NEW p \in Procs
      PROVE  Rowed(p)' /\ Topped(p)'
  <2>1. There(p)' = There(p)
    BY <1>1, <1>5 DEF There
  <2>2. Settlers(p)' = Settlers(p)
    <3>1. \A o \in There(p) : o \in Objs
      BY DEF There
    <3>2. QED
      BY <1>4, <1>5, <2>1, <3>1 DEF Settlers
  <2>3. Coming(p) = {} /\ Coming(p)' = {}
    BY <1>4, <1>5 DEF Coming
  <2>4. QED
    BY <1>1, <2>1, <2>2, <2>3, RowFrame, TopFrame DEF Serially
<1>9. QED
  BY <1>6, <1>7, <1>8 DEF Serially

\* unmap_app
LEMMA SeriallyUnmap ==
  ASSUME HInv, Serially, NEW w \in DOMAIN Waves, unmap_app(w)
  PROVE  Serially'
<1>1. /\ HTypeOK /\ phase[w] \in {"stopping", "failed"} /\ phase' = [phase EXCEPT ![w] = "none"]
      /\ queue' = Append(queue, [op |-> "UNMAPOBJ", app |-> w])
      /\ UNCHANGED <<proc, loaded_apps, place, position, sem_idx, last_semidx>>
  BY DEF HInv, unmap_app, hwman, kernel
<1>2. \A v \in DOMAIN Waves : v # w => ~Busy(v)
  BY <1>1 DEF Serially, OneBusy, Busy
<1>3. \A v \in DOMAIN Waves : phase'[v] = IF v = w THEN "none" ELSE phase[v]
  BY <1>1 DEF HTypeOK
<1>4. \A o \in Objs : WaveOf(o) \in DOMAIN Waves
  BY Families
<1>5. OneBusy'
  <2> DEFINE m == [op |-> "UNMAPOBJ", app |-> w]
  <2>1. /\ Len(queue) \in Nat /\ Len(queue') = Len(queue) + 1 /\ queue'[Len(queue) + 1] = m
        /\ \A i \in 1..Len(queue) : queue'[i] = queue[i]
    BY <1>1, Sent
  <2>2. \A i \in 1..Len(queue') : i \in 1..Len(queue) \/ i = Len(queue) + 1
    BY <2>1
  <2>3. \A i \in 1..Len(queue') : queue'[i].app = w \/ \E j \in 1..Len(queue) : queue[j].app = queue'[i].app
    BY <2>1, <2>2
  <2>4. QED
    BY <1>1, <1>2, <1>3, <2>3, Alone
<1>6. Matching' /\ Loaded' /\ Seated'
  <2>1. Matching'
    <3>1. Statuses("stopping") \subseteq Statuses("none") /\ Statuses("failed") \subseteq Statuses("none")
      BY DEF Statuses
    <3>2. QED
      BY <1>1, <1>3, <1>4, <3>1 DEF Serially, Matching
  <2>2. Loaded'
    BY <1>1, <1>3 DEF Serially, Loaded
  <2>3. Seated'
    BY <1>1 DEF Serially, Seated
  <2>4. QED
    BY <2>1, <2>2, <2>3
<1>7. ASSUME NEW p \in Procs
      PROVE  Rowed(p)' /\ Topped(p)'
  <2>1. There(p)' = There(p)
    BY <1>1 DEF There
  <2>2. Settlers(p)' = Settlers(p)
    <3>1. \A o \in There(p) : o \in Objs
      BY DEF There
    <3>2. QED
      BY <1>1, <1>3, <1>4, <2>1, <3>1 DEF Settlers
  <2>3. Coming(p)' = Coming(p)
    BY <1>1, <1>3, <1>4 DEF Coming
  <2>4. Settlers(p) \subseteq There(p)
    BY DEF Settlers
  <2>5. \A o \in Coming(p) : proc'[o] = "live" => sem_idx'[o] = position[o]
    BY <1>1 DEF Serially, Rowed
  <2>6. QED
    BY <1>1, <2>1, <2>2, <2>3, <2>5, RowFrame, TopFrame DEF Serially
<1>8. QED
  BY <1>5, <1>6, <1>7 DEF Serially

\* load_error: either no process has started yet, or they remain for ever
LEMMA SeriallyFail ==
  ASSUME HInv, Serially, NEW w \in DOMAIN Waves, load_error(w)
  PROVE  Stuck' \/ Serially'
<1>1. /\ HTypeOK /\ phase[w] = "loading" /\ phase' = [phase EXCEPT ![w] = "failed"]
      /\ UNCHANGED <<queue, proc, loaded_apps, place, position, sem_idx, last_semidx>>
  BY DEF HInv, load_error, hwman, kernel
<1>2. \A v \in DOMAIN Waves : v # w => ~Busy(v)
  BY <1>1 DEF Serially, OneBusy, Busy
<1>3. /\ \A v \in DOMAIN Waves : phase'[v] = IF v = w THEN "failed" ELSE phase[v]
      /\ \A o \in Objs : WaveOf(o) \in DOMAIN Waves /\ o \in Range(Waves[WaveOf(o)])
  BY <1>1, Families DEF HTypeOK
<1>4. CASE \E o \in Range(Waves[w]) : proc[o] = "live"
  BY <1>1, <1>3, <1>4 DEF Stuck
<1>5. CASE ~\E o \in Range(Waves[w]) : proc[o] = "live"
  <2>1. \A o \in Objs : WaveOf(o) = w => proc[o] = "mapped"
    BY <1>1, <1>3, <1>5 DEF Serially, Matching, Statuses
  <2>2. OneBusy'
    BY <1>1, <1>2, <1>3, Alone
  <2>3. Matching'
    <3> SUFFICES ASSUME NEW o \in Objs PROVE proc[o] \in Statuses(phase'[WaveOf(o)])
      BY <1>1 DEF Matching
    <3>1. CASE WaveOf(o) = w
      BY <1>3, <2>1, <3>1 DEF Statuses
    <3>2. CASE WaveOf(o) # w
      BY <1>3, <3>2 DEF Serially, Matching
    <3>3. QED
      BY <3>1, <3>2
  <2>4. Loaded' /\ Seated'
    BY <1>1, <1>3 DEF Serially, Loaded, Seated
  <2>5. ASSUME NEW p \in Procs
        PROVE  Rowed(p)' /\ Topped(p)'
    <3>1. There(p)' = There(p) /\ \A o \in There(p) : o \in Objs /\ WaveOf(o) # w
      BY <1>1, <2>1 DEF There
    <3>2. Settlers(p)' = Settlers(p)
      BY <1>3, <3>1 DEF Settlers
    <3>3. Coming(p)' = {}
      <4>1. \A v \in DOMAIN Waves : phase'[v] # "loading"
        BY <1>2, <1>3, Idle
      <4>2. QED
        BY <1>3, <4>1 DEF Coming
    <3>4. Topped(p)'
      BY <1>1, <3>1, TopFrame DEF Serially
    <3>5. Cardinality(Settlers(p)) \in Nat
      BY ObjectSums DEF Settlers, There
    <3>6. Numbers(Coming(p)', position', Cardinality(Settlers(p)))
      BY <3>3, <3>5, NumbersNone
    <3>7. Rowed(p)'
      BY <1>1, <3>2, <3>3, <3>6 DEF Serially, Rowed, Numbers
    <3>8. QED
      BY <3>4, <3>7
  <2>6. QED
    BY <2>2, <2>3, <2>4, <2>5 DEF Serially
<1>6. QED
  BY <1>4, <1>5

-----------------------------------------------------------------------------
\* hwman_incmd_swunmap: the waveform is no longer in SWMAN
LEMMA SeriallyUnmapper ==
  ASSUME HInv, Serially, hwman_incmd_swunmap
  PROVE  Serially'
<1> DEFINE w == Head(queue).app
           n == Len(queue)
<1>1. /\ queue # <<>> /\ Head(queue).op = "UNMAPOBJ" /\ queue' = Tail(queue)
      /\ UNCHANGED <<phase, proc, place, position, sem_idx, last_semidx>>
      /\ \A v : v \in loaded_apps /\ v # w => v \in loaded_apps'
  BY DEF hwman_incmd_swunmap, swman, kernel
<1>2. /\ n \in Nat /\ n >= 1 /\ Len(queue') = n - 1 /\ Head(queue) = queue[1]
      /\ \A i \in 1..Len(queue') : i + 1 \in 1..n /\ queue'[i] = queue[i + 1]
  BY <1>1, Taking
<1>3. phase[w] \in {"none", "mapping"}
  <2>1. 1 \in 1..n
    BY <1>2
  <2>2. QED
    BY <1>1, <1>2, <2>1 DEF HInv, Ordered
<1> HIDE DEF w
<1>4. OneBusy'
  <2>1. \A v \in DOMAIN Waves : Busy(v)' => Busy(v)
    <3> SUFFICES ASSUME NEW v \in DOMAIN Waves, Busy(v)' PROVE Busy(v)
      OBVIOUS
    <3>1. CASE ~(phase[v] = "running" \/ (phase[v] = "none" /\ Ended(v)))
      BY <3>1 DEF Busy
    <3>2. CASE \E i \in 1..Len(queue') : queue'[i].app = v
      BY <1>2, <3>2 DEF Busy
    <3>3. QED
      BY <1>1, <3>1, <3>2 DEF Busy, Ended
  <2>2. QED
    BY <2>1 DEF Serially, OneBusy
<1>5. Matching' /\ Loaded' /\ Seated'
  BY <1>1, <1>3 DEF Serially, Matching, Loaded, Seated
<1>6. \A p : There(p)' = There(p) /\ Settlers(p)' = Settlers(p) /\ Coming(p)' = Coming(p)
  BY <1>1 DEF There, Settlers, Coming
<1>7. \A p \in Procs : Rowed(p)' /\ Topped(p)'
  BY <1>1, <1>6 DEF Serially, Rowed, Topped, Numbers
<1>8. QED
  BY <1>4, <1>5, <1>7 DEF Serially

\* the kernel's last position goes with the process that starts
LEMMA TopCreate ==
  ASSUME HInv, Serially, NEW o \in Objs, create_process(o)
  PROVE  /\ \A q : There(q)' = IF q = place[o] THEN There(q) \cup {o} ELSE There(q)
         /\ \A q \in Procs : Topped(q)'
<1>1. /\ HTypeOK /\ proc[o] = "mapped" /\ proc' = [proc EXCEPT ![o] = "live"]
      /\ sem_idx' = [sem_idx EXCEPT ![o] = position[o]] /\ UNCHANGED <<place, position>>
      /\ last_semidx' = [last_semidx EXCEPT ![place[o]] = IF position[o] > @ THEN position[o] ELSE @]
  BY DEF HInv, create_process, hwman
<1>2. PICK p \in Procs : p = place[o]
  BY <1>1 DEF Serially, Seated
<1>3. /\ \A x \in Objs : proc'[x] = IF x = o THEN "live" ELSE proc[x]
      /\ \A x \in Objs : sem_idx'[x] = IF x = o THEN position[o] ELSE sem_idx[x]
      /\ position[o] \in Nat /\ sem_idx \in [Objs -> Nat] /\ last_semidx \in [Procs -> Int]
      /\ \A q \in Procs : last_semidx'[q] = IF q = p /\ position[o] > last_semidx[p] THEN position[o] ELSE last_semidx[q]
  BY <1>1, <1>2 DEF HTypeOK
<1>4. \A q : There(q)' = IF q = p THEN There(q) \cup {o} ELSE There(q)
  BY <1>1, <1>2, <1>3 DEF There
<1>5. \A q : \A x \in There(q) : x \in Objs /\ x # o
  BY <1>1 DEF There
<1>6. ASSUME NEW q \in Procs, q # p
      PROVE  Topped(q)'
  <2>1. There(q)' = There(q) /\ last_semidx'[q] = last_semidx[q]
    BY <1>3, <1>4, <1>6
  <2>2. \A x \in There(q) : sem_idx'[x] = sem_idx[x]
    BY <1>3, <1>5
  <2>3. QED
    BY <2>1, <2>2, TopFrame DEF Serially
<1>7. Topped(p)'
  <2> DEFINE k == position[o]
             l == last_semidx[p]
             m == last_semidx'[p]
             T == There(p)
  <2>1. /\ k \in Nat /\ l \in Int /\ m = IF k > l THEN k ELSE l
        /\ T = {} => l \in {-1, 0}
        /\ T # {} => \E x \in T : sem_idx[x] = l
        /\ \A x \in T : sem_idx[x] <= l /\ sem_idx[x] \in Nat /\ sem_idx'[x] = sem_idx[x]
        /\ sem_idx'[o] = k
    BY <1>2, <1>3, <1>5 DEF Serially, Topped
  <2> HIDE DEF k, l, m, T
  <2>2. \E x \in T \cup {o} : sem_idx'[x] = m
    <3>1. CASE k > l
      BY <2>1, <3>1
    <3>2. CASE ~(k > l) /\ T # {}
      BY <2>1, <3>2
    <3>3. CASE ~(k > l) /\ T = {}
      <4>1. k = 0 /\ l = 0
        BY <2>1, <3>3
      <4>2. QED
        BY <2>1, <4>1
    <3>4. QED
      BY <3>1, <3>2, <3>3
  <2>3. \A x \in T \cup {o} : sem_idx'[x] <= m
    BY <2>1
  <2>4. There(p)' = T \cup {o} /\ T \cup {o} # {}
    BY <1>4 DEF T
  <2>5. QED
    BY <2>2, <2>3, <2>4 DEF Topped, m
<1>8. QED
  BY <1>2, <1>4, <1>6, <1>7

\* create_process: the position HWMAN has given is the next but those of the objects that are to
\* start before
LEMMA SeriallyCreate ==
  ASSUME HInv, Serially, NEW o \in Objs, create_process(o)
  PROVE  Serially'
<1> DEFINE w == WaveOf(o)
<1>1. /\ HTypeOK /\ phase[w] = "loading" /\ proc[o] = "mapped" /\ proc' = [proc EXCEPT ![o] = "live"]
      /\ sem_idx' = [sem_idx EXCEPT ![o] = position[o]]
      /\ phase' = IF \A x \in Range(Waves[w]) : proc'[x] = "live" THEN [phase EXCEPT ![w] = "running"] ELSE phase
      /\ UNCHANGED <<queue, loaded_apps, place, position>>
  BY DEF HInv, create_process, hwman
<1>2. /\ w \in DOMAIN Waves /\ o \in Range(Waves[w])
      /\ \A x \in Objs : WaveOf(x) \in DOMAIN Waves /\ (x \in Range(Waves[w]) <=> WaveOf(x) = w)
  BY Families
<1>3. \A v \in DOMAIN Waves : v # w => ~Busy(v) /\ phase[v] # "loading"
  <2>1. Busy(w)
    BY <1>1 DEF Busy
  <2>2. QED
    BY <1>2, <2>1, Idle DEF Serially, OneBusy
<1>4. /\ \A x \in Objs : proc'[x] = IF x = o THEN "live" ELSE proc[x]
      /\ \A x \in Objs : sem_idx'[x] = IF x = o THEN position[o] ELSE sem_idx[x]
  BY <1>1 DEF HTypeOK
<1>5. \A v \in DOMAIN Waves : v # w => phase'[v] = phase[v]
  BY <1>1
<1>6. OneBusy'
  BY <1>1, <1>2, <1>3, <1>4, <1>5, Alone
<1>7. \/ phase' = phase
      \/ phase'[w] = "running" /\ \A x \in Objs : WaveOf(x) = w => proc'[x] = "live"
  BY <1>1, <1>2 DEF HTypeOK
<1>8. Matching'
  <2> SUFFICES ASSUME NEW x \in Objs PROVE proc'[x] \in Statuses(phase'[WaveOf(x)])
    BY DEF Matching
  <2>1. CASE WaveOf(x) # w
    BY <1>2, <1>4, <1>5, <2>1 DEF Serially, Matching
  <2>2. CASE WaveOf(x) = w /\ phase' = phase
    BY <1>1, <1>4, <2>2 DEF Serially, Matching, Statuses
  <2>3. CASE WaveOf(x) = w /\ phase' # phase
    BY <1>7, <2>3 DEF Statuses
  <2>4. QED
    BY <2>1, <2>2, <2>3
<1>9. Loaded' /\ Seated'
  <2>1. Loaded'
    BY <1>1, <1>2, <1>5 DEF Serially, Loaded
  <2>2. Seated'
    BY <1>1, <1>4 DEF Serially, Seated
  <2>3. QED
    BY <2>1, <2>2
<1>10. /\ \A q : There(q)' = IF q = place[o] THEN There(q) \cup {o} ELSE There(q)
       /\ \A q \in Procs : Topped(q)'
  BY TopCreate
<1>11. ASSUME NEW q \in Procs
       PROVE  Rowed(q)'
  <2>1. \A x \in Settlers(q) : x \in Objs /\ x # o /\ WaveOf(x) # w /\ phase[WaveOf(x)] # "loading"
    BY <1>1 DEF Settlers, There
  <2>2. \A x \in Coming(q) : x \in Objs /\ WaveOf(x) = w
    BY <1>2, <1>3 DEF Coming
  <2>3. \A x \in Settlers(q) : sem_idx'[x] = sem_idx[x]
    BY <1>4, <2>1
  <2>4. \A x \in Coming(q) : proc'[x] = "live" => sem_idx'[x] = position[x]
    BY <1>4, <2>2 DEF Serially, Rowed
  <2>5. CASE phase' = phase
    <3>1. Coming(q)' = Coming(q)
      BY <1>1, <2>5 DEF Coming
    <3>2. Settlers(q)' = Settlers(q)
      <4>1. Settlers(q)' = {x \in There(q)' : phase[WaveOf(x)] # "loading"}
        BY <2>5 DEF Settlers
      <4>2. QED
        BY <1>1, <1>10, <4>1 DEF Settlers
    <3>3. QED
      BY <1>1, <2>3, <2>4, <3>1, <3>2, RowFrame DEF Serially
  <2>6. CASE phase' # phase
    <3> DEFINE S == Settlers(q)
               T == Coming(q)
    <3>1. phase'[w] = "running" /\ \A x \in Objs : WaveOf(x) = w => proc'[x] = "live"
      BY <1>7, <2>6
    <3>2. \A v \in DOMAIN Waves : phase'[v] # "loading"
      BY <1>3, <1>5, <3>1
    <3>3. Coming(q)' = {}
      BY <1>2, <3>2 DEF Coming
    <3>4. Settlers(q)' = S \cup T
      <4>1. Settlers(q)' = There(q)'
        BY <1>2, <3>2 DEF Settlers, There
      <4>2. There(q)' = {x \in Objs : place[x] = q /\ proc'[x] \in {"live", "stopped"}}
        BY <1>1 DEF There
      <4>3. \A x \in Objs : WaveOf(x) # w => proc'[x] = proc[x] /\ phase[WaveOf(x)] # "loading"
        BY <1>2, <1>3, <1>4
      <4>4. \A x \in Objs : WaveOf(x) = w => proc'[x] = "live" /\ phase[WaveOf(x)] = "loading"
        BY <1>1, <3>1
      <4>5. QED
        BY <4>1, <4>2, <4>3, <4>4 DEF Settlers, There, Coming
    <3>5. S \in SUBSET Objs /\ T \in SUBSET Objs /\ S \cap T = {}
      BY DEF Settlers, There, Coming
    <3>6. sem_idx' \in [Objs -> Int]
      <4>1. position[o] \in Nat /\ sem_idx \in [Objs -> Nat]
        BY <1>1 DEF HTypeOK
      <4>2. QED
        BY <1>1, <4>1
    <3>7. Numbers(S, sem_idx', 0)
      <4>1. \A x \in S : sem_idx[x] = sem_idx'[x]
        BY <2>3
      <4>2. QED
        BY <4>1, NumbersSame DEF Serially, Rowed
    <3>8. Numbers(T, sem_idx', Cardinality(S))
      <4>1. \A x \in T : position[x] = sem_idx'[x]
        BY <2>2, <2>4, <3>1
      <4>2. QED
        BY <4>1, NumbersSame DEF Serially, Rowed
    <3> HIDE DEF S, T
    <3>9. Numbers(S \cup T, sem_idx', 0)
      BY <3>5, <3>6, <3>7, <3>8, NumbersJoin
    <3>10. Cardinality(S \cup T) \in Nat
      BY <3>5, ObjectSums
    <3>11. Numbers({}, position', Cardinality(S \cup T))
      BY <3>10, NumbersNone
    <3>12. QED
      BY <3>3, <3>4, <3>9, <3>11 DEF Rowed, Numbers
  <2>7. QED
    BY <2>5, <2>6
<1>12. QED
  BY <1>6, <1>8, <1>9, <1>10, <1>11 DEF Serially

\* remove_process: of a waveform that is being stopped, so that nothing is being loaded; those
\* behind move up by one, all of them
LEMMA SeriallyRemove ==
  ASSUME HInv, Quiet, Serially, NEW o \in Objs, remove_process(o)
  PROVE  Serially'
<1> DEFINE w == WaveOf(o)
<1>1. /\ HTypeOK /\ proc[o] = "stopped" /\ proc' = [proc EXCEPT ![o] = "dead"]
      /\ sem_idx' = [x \in Objs |-> IF x \in Behind(o) THEN sem_idx[x] - 1 ELSE sem_idx[x]]
      /\ last_semidx' = [last_semidx EXCEPT ![place[o]] = @ - 1]
      /\ UNCHANGED <<phase, queue, loaded_apps, place, position>>
  BY DEF HInv, remove_process, hwman, swman, Quiet
<1>2. PICK p \in Procs : p = place[o]
  BY <1>1 DEF Serially, Seated
<1>3. /\ w \in DOMAIN Waves /\ o \in Range(Waves[w])
      /\ \A x \in Objs : WaveOf(x) \in DOMAIN Waves
  BY Families
<1>4. phase[w] \in {"none", "stopping"}
  <2>1. phase[w] \in {"none", "mapping", "loading", "failed", "running", "stopping"}
    BY <1>1, <1>3 DEF HTypeOK
  <2>2. proc[o] \in Statuses(phase[w])
    BY DEF Serially, Matching
  <2>3. QED
    BY <1>1, <2>1, <2>2 DEF Statuses
<1>5. \A v \in DOMAIN Waves : (v # w => ~Busy(v)) /\ phase[v] # "loading"
  <2>1. Busy(w)
    BY <1>1, <1>3, <1>4 DEF Busy, Ended
  <2>2. \A v \in DOMAIN Waves : v # w => ~Busy(v)
    BY <1>3, <2>1 DEF Serially, OneBusy
  <2>3. QED
    BY <1>4, <2>2, Idle
<1>6. /\ \A x \in Objs : proc'[x] = IF x = o THEN "dead" ELSE proc[x]
      /\ \A x \in Objs : sem_idx'[x] = IF x \in Behind(o) THEN sem_idx[x] - 1 ELSE sem_idx[x]
      /\ sem_idx \in [Objs -> Nat] /\ last_semidx \in [Procs -> Int]
      /\ \A q \in Procs : last_semidx'[q] = IF q = p THEN last_semidx[q] - 1 ELSE last_semidx[q]
  BY <1>1, <1>2 DEF HTypeOK
<1>7. OneBusy'
  BY <1>1, <1>3, <1>5, <1>6, Alone
<1>8. Matching' /\ Loaded' /\ Seated'
  <2>1. Matching'
    <3> SUFFICES ASSUME NEW x \in Objs PROVE proc'[x] \in Statuses(phase[WaveOf(x)])
      BY <1>1 DEF Matching
    <3>1. CASE x = o
      BY <1>4, <1>6, <3>1 DEF Statuses
    <3>2. CASE x # o
      BY <1>6, <3>2 DEF Serially, Matching
    <3>3. QED
      BY <3>1, <3>2
  <2>2. Loaded' /\ Seated'
    BY <1>1, <1>6 DEF Serially, Loaded, Seated
  <2>3. QED
    BY <2>1, <2>2
<1>9. \A q : /\ Settlers(q) = There(q) /\ Settlers(q)' = There(q)'
             /\ Coming(q) = {} /\ Coming(q)' = {}
             /\ There(q)' = There(q) \ {o}
  <2>1. \A q : Settlers(q) = There(q) /\ Settlers(q)' = There(q)'
    BY <1>1, <1>3, <1>5 DEF Settlers, There
  <2>2. \A q : Coming(q) = {} /\ Coming(q)' = {}
    BY <1>1, <1>3, <1>5 DEF Coming
  <2>3. \A q : There(q)' = There(q) \ {o}
    BY <1>1, <1>6 DEF There
  <2>4. QED
    BY <2>1, <2>2, <2>3
<1>10. ASSUME NEW q \in Procs, q # p
       PROVE  Rowed(q)' /\ Topped(q)'
  <2>1. o \notin There(q) /\ \A x \in There(q) : x \in Objs /\ x \notin Behind(o)
    BY <1>2, <1>10 DEF There, Behind
  <2>2. There(q)' = There(q) /\ \A x \in There(q) : sem_idx'[x] = sem_idx[x]
    BY <1>6, <1>9, <2>1
  <2>3. last_semidx'[q] = last_semidx[q]
    BY <1>6, <1>10
  <2>4. Settlers(q)' = Settlers(q) /\ Coming(q)' = Coming(q)
    BY <1>9, <2>2
  <2>5. QED
    BY <1>9, <2>2, <2>3, <2>4, RowFrame, TopFrame DEF Serially
<1>11. Rowed(p)' /\ Topped(p)'
  <2> DEFINE S == There(p)
             n == Cardinality(S)
             l == last_semidx[p]
             m == last_semidx'[p]
  <2>1. S \in SUBSET Objs /\ o \in S /\ n \in Nat
    BY <1>1, <1>2, ObjectSums DEF There
  <2>2. Numbers(S, sem_idx, 0)
    BY <1>9 DEF Serially, Rowed
  <2>3. /\ \A k \in Int : (\E x \in S : sem_idx[x] = k) <=> 0 <= k /\ k < n
        /\ \A x \in S : sem_idx[x] \in Nat
    BY <1>6, <2>1, <2>2 DEF Numbers
  <2>4. /\ l \in Int /\ m = l - 1 /\ (\E x \in S : sem_idx[x] = l) /\ \A x \in S : sem_idx[x] <= l
    BY <1>6, <2>1 DEF Serially, Topped
  <2>5. n >= 1 /\ l = n - 1 /\ m = n - 2
    <3> HIDE DEF S, n, l, m
    <3>1. 0 <= l /\ l < n
      BY <2>3, <2>4
    <3>2. n - 1 \in Int /\ 0 <= n - 1 /\ n - 1 < n
      BY <2>1, <3>1, <2>4
    <3>3. n - 1 <= l
      BY <2>3, <2>4, <3>2
    <3>4. QED
      BY <2>1, <2>4, <3>1, <3>3
  <2>6. \A x \in S \ {o} : sem_idx'[x] = IF sem_idx[x] > sem_idx[o] THEN sem_idx[x] - 1 ELSE sem_idx[x]
    <3>1. \A x \in S \ {o} : x \in Behind(o) <=> sem_idx[x] > sem_idx[o]
      BY <1>2, <2>4 DEF Behind, There
    <3>2. QED
      BY <1>6, <2>1, <3>1
  <2>7. sem_idx \in [Objs -> Int] /\ sem_idx' \in [Objs -> Int]
    <3>1. \A x \in Objs : sem_idx[x] \in Int /\ sem_idx[x] - 1 \in Int
      BY <1>6
    <3>2. QED
      BY <1>1, <1>6, <3>1
  <2> HIDE DEF S, n, l, m
  <2>8. Numbers(S \ {o}, sem_idx', 0) /\ Cardinality(S \ {o}) = n - 1
    <3>1. Numbers(S \ {o}, sem_idx', 0) /\ Cardinality(S \ {o}) = Cardinality(S) - 1
      BY <2>1, <2>2, <2>6, <2>7, NumbersLeave
    <3>2. QED
      BY <3>1 DEF n
  <2>9. There(p)' = S \ {o} /\ Settlers(p)' = S \ {o} /\ Coming(p)' = {}
    BY <1>9 DEF S
  <2>10. Rowed(p)'
    <3>1. Cardinality(S \ {o}) \in Int
      BY <2>1, <2>8
    <3>2. Numbers({}, position', Cardinality(S \ {o}))
      BY <3>1, NumbersNone
    <3>3. QED
      BY <2>8, <2>9, <3>2 DEF Rowed, Numbers
  <2>11. Topped(p)'
    <3>1. /\ \A k \in Int : (\E x \in S \ {o} : sem_idx'[x] = k) <=> 0 <= k /\ k < 0 + (n - 1)
          /\ \A x \in S \ {o} : sem_idx'[x] \in Int
      BY <2>1, <2>7, <2>8 DEF Numbers
    <3>2. \A x \in S \ {o} : sem_idx'[x] <= m
      <4> SUFFICES ASSUME NEW x \in S \ {o} PROVE sem_idx'[x] <= m
        OBVIOUS
      <4>1. sem_idx'[x] \in Int /\ sem_idx'[x] < 0 + (n - 1)
        BY <3>1
      <4>2. QED
        BY <2>1, <2>5, <4>1
    <3>3. S \ {o} = {} => m \in {-1, 0}
      <4>1. S \ {o} = {} => n - 1 = 0
        BY <2>8, FS_EmptySet
      <4>2. QED
        BY <2>1, <2>5, <4>1
    <3>4. S \ {o} # {} => \E x \in S \ {o} : sem_idx'[x] = m
      <4> SUFFICES ASSUME NEW y \in S \ {o} PROVE \E x \in S \ {o} : sem_idx'[x] = m
        OBVIOUS
      <4>1. 0 <= sem_idx'[y] /\ sem_idx'[y] < 0 + (n - 1) /\ sem_idx'[y] \in Int
        BY <3>1
      <4>2. m \in Int /\ 0 <= m /\ m < 0 + (n - 1)
        BY <2>1, <2>5, <4>1
      <4>3. QED
        BY <3>1, <4>2
    <3>5. QED
      BY <2>9, <3>2, <3>3, <3>4 DEF Topped, m
  <2>12. QED
    BY <2>10, <2>11
<1>12. QED
  BY <1>7, <1>8, <1>10, <1>11 DEF Serially

\* hwman_incmd_swmapper: HWMAN counts the processes that are there
LEMMA SeriallyMapper ==
  ASSUME HInv, Quiet, Serially, hwman_incmd_swmapper
  PROVE  Serially'
<1> DEFINE w == Head(queue).app
           R == Range(Waves[w])
           fails == phase' = [phase EXCEPT ![w] = "failed"]
<1>1. /\ HTypeOK /\ up /\ queue # <<>> /\ Head(queue).op = "MAPOBJ" /\ queue' = Tail(queue)
      /\ UNCHANGED <<sem_idx, last_semidx>>
  BY DEF HInv, hwman_incmd_swmapper
<1>2. /\ announced = Len(Processors) /\ Len(queue) \in Nat /\ Len(queue) >= 1 /\ Head(queue) = queue[1]
      /\ \A i \in 1..Len(queue') : i + 1 \in 1..Len(queue) /\ queue'[i] = queue[i + 1]
      /\ \A i \in 1..Len(queue) : queue[i].app \in DOMAIN Waves
  BY <1>1, Taking
<1>3. w \in DOMAIN Waves /\ phase[w] = "mapping"
  <2>1. 1 \in 1..Len(queue)
    BY <1>2
  <2>2. QED
    BY <1>1, <1>2, <2>1 DEF HInv, Ordered
<1>4. \/ \E m \in [R -> 0..plat.n - 1] :
           LET at == [o \in R |-> peobj[m[o]]] IN
           /\ Fits(w, at, m) /\ do_mapping(w, at)
           /\ \/ /\ Reached(w, at) = R
                 /\ loaded_apps' = loaded_apps \cup {w} /\ phase' = [phase EXCEPT ![w] = "loading"]
                 /\ proc' = [o \in Objs |-> IF WaveOf(o) = w THEN "mapped" ELSE proc[o]]
              \/ Reached(w, at) # R
      \/ fails /\ UNCHANGED <<place, position, loaded_apps, proc>>
  BY DEF hwman_incmd_swmapper
<1> HIDE DEF w
<1>5. \A o \in Objs : WaveOf(o) \in DOMAIN Waves /\ (o \in R <=> WaveOf(o) = w)
  BY <1>3, Families
<1>6. \A o \in Objs : WaveOf(o) = w => proc[o] = "none"
  BY <1>3 DEF Serially, Matching, Statuses
<1>7. \A v \in DOMAIN Waves : (v # w => ~Busy(v)) /\ phase[v] # "loading"
  <2>1. Busy(w)
    BY <1>3 DEF Busy
  <2>2. \A v \in DOMAIN Waves : v # w => ~Busy(v)
    BY <1>3, <2>1 DEF Serially, OneBusy
  <2>3. QED
    BY <1>3, <2>2, Idle
<1>8. \A p : Coming(p) = {} /\ Settlers(p) = There(p)
  BY <1>5, <1>7 DEF Coming, Settlers, There
<1>9. \A i \in 1..Len(queue') : \E j \in 1..Len(queue) : queue[j].app = queue'[i].app
  BY <1>2
<1>10. CASE fails /\ UNCHANGED <<place, position, loaded_apps, proc>>
  <2>1. \A v \in DOMAIN Waves : phase'[v] = IF v = w THEN "failed" ELSE phase[v]
    BY <1>1, <1>10 DEF HTypeOK
  <2>2. OneBusy'
    BY <1>3, <1>7, <1>9, <1>10, <2>1, Alone
  <2>3. Matching'
    <3> SUFFICES ASSUME NEW o \in Objs PROVE proc[o] \in Statuses(phase'[WaveOf(o)])
      BY <1>10 DEF Matching
    <3>1. CASE WaveOf(o) = w
      BY <1>3, <1>6, <2>1, <3>1 DEF Statuses
    <3>2. CASE WaveOf(o) # w
      BY <1>5, <2>1, <3>2 DEF Serially, Matching
    <3>3. QED
      BY <3>1, <3>2
  <2>4. Loaded' /\ Seated'
    BY <1>10, <2>1 DEF Serially, Loaded, Seated
  <2>5. \A p : There(p)' = There(p) /\ Settlers(p)' = There(p) /\ Coming(p)' = {}
    <3>1. \A v \in DOMAIN Waves : phase'[v] # "loading"
      BY <1>7, <2>1
    <3>2. QED
      BY <1>5, <1>10, <3>1 DEF There, Settlers, Coming
  <2>6. \A p \in Procs : Rowed(p)' /\ Topped(p)'
    BY <1>1, <1>8, <2>5, RowFrame, TopFrame DEF Serially
  <2>7. QED
    BY <2>2, <2>3, <2>4, <2>6 DEF Serially
<1>11. ASSUME NEW m \in [R -> 0..plat.n - 1], NEW at, at = [o \in R |-> peobj[m[o]]],
              Fits(w, at, m), do_mapping(w, at),
              \/ /\ Reached(w, at) = R
                 /\ loaded_apps' = loaded_apps \cup {w} /\ phase' = [phase EXCEPT ![w] = "loading"]
                 /\ proc' = [o \in Objs |-> IF WaveOf(o) = w THEN "mapped" ELSE proc[o]]
              \/ Reached(w, at) # R
       PROVE  Serially'
  <2>1. at \in [R -> Procs] /\ Reached(w, at) = R
    BY <1>2, <1>3, <1>11, Sound DEF Quiet
  <2>2. /\ loaded_apps' = loaded_apps \cup {w} /\ phase' = [phase EXCEPT ![w] = "loading"]
        /\ proc' = [o \in Objs |-> IF WaveOf(o) = w THEN "mapped" ELSE proc[o]]
    BY <1>11, <2>1
  <2>3. /\ \A o \in Objs : place'[o] = IF WaveOf(o) = w THEN at[o] ELSE place[o]
        /\ place' \in [Objs -> Procs \cup {None}] /\ position' \in [Objs -> Nat]
    BY <1>3, <1>11, <2>1, Taken
  <2>4. \A o \in Objs : WaveOf(o) = w => position'[o] = nof_objects[at[o]] + Ordinal(w, at, o)
    BY <1>11 DEF do_mapping
  <2>5. /\ \A v \in DOMAIN Waves : phase'[v] = IF v = w THEN "loading" ELSE phase[v]
        /\ \A o \in Objs : proc'[o] = IF WaveOf(o) = w THEN "mapped" ELSE proc[o]
    BY <1>1, <2>2 DEF HTypeOK
  <2>6. OneBusy'
    BY <1>3, <1>7, <1>9, <2>5, Alone
  <2>7. Matching'
    <3> SUFFICES ASSUME NEW o \in Objs PROVE proc'[o] \in Statuses(phase'[WaveOf(o)])
      BY DEF Matching
    <3>1. CASE WaveOf(o) = w
      BY <1>3, <2>5, <3>1 DEF Statuses
    <3>2. CASE WaveOf(o) # w
      BY <1>5, <2>5, <3>2 DEF Serially, Matching
    <3>3. QED
      BY <3>1, <3>2
  <2>8. Loaded' /\ Seated'
    <3>1. Loaded'
      BY <2>2, <2>5 DEF Serially, Loaded
    <3>2. Seated'
      BY <1>5, <2>1, <2>3, <2>5 DEF Serially, Seated
    <3>3. QED
      BY <3>1, <3>2
  <2>9. \A p : /\ There(p)' = There(p) /\ Settlers(p)' = There(p) /\ Coming(p)' = On(w, at, p)
    <3>1. \A p : There(p)' = There(p)
      BY <1>6, <2>3, <2>5 DEF There
    <3>2. \A p : \A o \in There(p) : o \in Objs /\ WaveOf(o) # w
      BY <1>6 DEF There
    <3>3. \A p : Settlers(p)' = There(p)
      BY <1>5, <1>7, <2>5, <3>1, <3>2 DEF Settlers
    <3>4. \A o \in Objs : phase'[WaveOf(o)] = "loading" <=> WaveOf(o) = w
      BY <1>5, <1>7, <2>5
    <3>5. \A p : Coming(p)' = On(w, at, p)
      <4>1. \A o \in R : o \in Objs
        BY <1>3, Families
      <4>2. QED
        BY <1>5, <2>3, <3>4, <4>1 DEF Coming, On
    <3>6. QED
      BY <3>1, <3>3, <3>5
  <2>10. \A p \in Procs : Held(p) = There(p)
    <3>1. w \notin loaded_apps
      <4>1. w = Head(queue).app
        BY DEF w
      <4>2. phase' = [phase EXCEPT ![w] = "loading"] /\ UNCHANGED <<announced, up>>
        BY <2>2 DEF hwman_incmd_swmapper
      <4>3. QED
        BY <1>1, <2>2, <4>1, <4>2, Mapped
    <3>2. ASSUME NEW o \in Objs, WaveOf(o) \in loaded_apps
          PROVE  proc[o] = "live"
      <4> DEFINE v == WaveOf(o)
      <4>1. v # w /\ v \in DOMAIN Waves /\ o \in Range(Waves[v])
        BY <3>1, <3>2, Families
      <4>2. phase[v] \in {"running", "none"} /\ \A i \in 1..Len(queue) : queue[i].app # v
        BY <1>7, <4>1, Idle
      <4>3. phase[v] # "none"
        <5> SUFFICES ASSUME phase[v] = "none" PROVE FALSE
          OBVIOUS
        <5>1. v \in loaded_apps
          BY <3>2
        <5> HIDE DEF v
        <5>2. PICK i \in 1..Len(queue) : queue[i] = [op |-> "UNMAPOBJ", app |-> v]
          BY <1>1, <5>1 DEF HInv, Ordered
        <5>3. queue[i].app = v
          BY <5>2
        <5>4. QED
          BY <4>2, <5>3
      <4>4. QED
        BY <4>2, <4>3 DEF Serially, Matching, Statuses
    <3>3. ASSUME NEW o \in Objs, proc[o] \in {"live", "stopped"}
          PROVE  WaveOf(o) \in loaded_apps
      <4> DEFINE v == WaveOf(o)
      <4>1. v # w /\ v \in DOMAIN Waves /\ o \in Range(Waves[v])
        BY <1>6, <3>3, Families
      <4>2. phase[v] = "running"
        BY <1>7, <3>3, <4>1, Idle
      <4>3. QED
        BY <4>1, <4>2 DEF Serially, Loaded
    <3>4. QED
      BY <3>2, <3>3 DEF Held, There
  <2>11. ASSUME NEW p \in Procs
         PROVE  Rowed(p)' /\ Topped(p)'
    <3>1. nof_objects[p] = Cardinality(There(p))
      BY <2>10 DEF HInv, Books, Quiet
    <3>2. Cardinality(There(p)) \in Nat
      BY ObjectSums DEF There
    <3>3. Numbers(On(w, at, p), position', Cardinality(There(p)))
      <4>1. \A o \in On(w, at, p) : position'[o] = Cardinality(There(p)) + Ordinal(w, at, o)
        <5>1. \A o \in On(w, at, p) : o \in Objs /\ WaveOf(o) = w /\ at[o] = p
          BY <1>3, Families DEF On
        <5>2. QED
          BY <2>4, <3>1, <5>1
      <4>2. position' \in [Objs -> Int] /\ Cardinality(There(p)) \in Int
        BY <2>3, <3>2
      <4>3. QED
        BY <1>3, <4>1, <4>2, Ordinals
    <3>4. Numbers(There(p), sem_idx, 0)
      BY <1>8 DEF Serially, Rowed
    <3>5. \A o \in On(w, at, p) : proc'[o] # "live"
      BY <1>3, <2>5, Families DEF On
    <3>6. Rowed(p)'
      BY <1>1, <2>9, <3>3, <3>4, <3>5 DEF Rowed, Numbers
    <3>7. Topped(p)'
      BY <1>1, <2>9, TopFrame DEF Serially
    <3>8. QED
      BY <3>6, <3>7
  <2>12. QED
    BY <2>6, <2>7, <2>8, <2>11 DEF Serially
<1>12. QED
  BY <1>4, <1>10, <1>11

-----------------------------------------------------------------------------
\* every step keeps the positions, or leaves a failed load behind
LEMMA GStep == GInv /\ [HNext]_hvars => GInv'
<1> SUFFICES ASSUME GInv, [HNext]_hvars PROVE GInv'
  OBVIOUS
<1>1. HInv /\ HInv'
  BY HStep DEF GInv
<1>2. env' = env
  BY DEF hvars, HNext, hwman_incmd_addcpu, hwman_background, hwman_incmd_swmapper, hwman_incmd_swunmap,
         swman_incmd_loadapp, swman_sendobjstatus, unmap_app, load_error, create_process, remove_process
<1>3. Quiet' => Quiet
  BY <1>2 DEF Quiet, OnlyLast
<1> SUFFICES ASSUME Quiet, Serially PROVE Stuck' \/ Serially'
  BY <1>1, <1>3, StuckStays DEF GInv
<1>4. CASE UNCHANGED hvars \/ hwman_incmd_addcpu \/ hwman_background
  <2>1. UNCHANGED <<phase, queue, proc, loaded_apps, place, position, sem_idx, last_semidx>>
    BY <1>4 DEF hvars, hwman, hwman_incmd_addcpu, hwman_background, swman, kernel
  <2>2. QED
    BY <2>1, SeriallyFrame
<1>5. CASE hwman_incmd_swmapper
  BY <1>1, <1>5, SeriallyMapper
<1>6. CASE hwman_incmd_swunmap
  BY <1>1, <1>6, SeriallyUnmapper
<1>7. ASSUME NEW w \in DOMAIN Waves, swman_incmd_loadapp(w) PROVE Serially'
  BY <1>1, <1>7, SeriallyLoad
<1>8. ASSUME NEW w \in DOMAIN Waves, swman_sendobjstatus(w) PROVE Serially'
  BY <1>1, <1>8, SeriallyStop
<1>9. ASSUME NEW w \in DOMAIN Waves, unmap_app(w) PROVE Serially'
  BY <1>1, <1>9, SeriallyUnmap
<1>10. ASSUME NEW w \in DOMAIN Waves, load_error(w) PROVE Stuck' \/ Serially'
  BY <1>1, <1>10, SeriallyFail
<1>11. ASSUME NEW o \in Objs, create_process(o) PROVE Serially'
  BY <1>1, <1>11, SeriallyCreate
<1>12. ASSUME NEW o \in Objs, remove_process(o) PROVE Serially'
  BY <1>1, <1>12, SeriallyRemove
<1>13. QED
  BY <1>4, <1>5, <1>6, <1>7, <1>8, <1>9, <1>10, <1>11, <1>12 DEF HNext

\* at the start no process is there
LEMMA GInitial == HInit => GInv
<1> SUFFICES ASSUME HInit PROVE Serially
  BY Initial DEF GInv
<1>1. /\ phase = [w \in DOMAIN Waves |-> "none"] /\ proc = [o \in Objs |-> "none"] /\ queue = <<>>
      /\ last_semidx = [p \in Procs |-> 0]
  BY DEF HInit
<1>2. \A o \in Objs : WaveOf(o) \in DOMAIN Waves
  BY Families
<1>3. \A w \in DOMAIN Waves : ~Busy(w)
  <2>1. \A w \in DOMAIN Waves : Ended(w)
    BY <1>1, Families DEF Ended
  <2>2. Len(queue) = 0
    BY <1>1
  <2>3. QED
    BY <1>1, <2>1, <2>2 DEF Busy
<1>4. OneBusy /\ Matching /\ Loaded /\ Seated
  BY <1>1, <1>2, <1>3 DEF OneBusy, Matching, Statuses, Loaded, Seated
<1>5. \A p : There(p) = {} /\ Settlers(p) = {} /\ Coming(p) = {}
  BY <1>1, <1>2 DEF There, Settlers, Coming
<1>6. \A p \in Procs : Topped(p)
  BY <1>1, <1>5 DEF Topped
<1>7. \A p \in Procs : Rowed(p)
  <2>1. Cardinality({}) = 0
    BY FS_EmptySet
  <2>2. Numbers({}, sem_idx, 0) /\ Numbers({}, position, 0)
    BY NumbersNone
  <2>3. QED
    BY <1>5, <2>1, <2>2 DEF Rowed
<1>8. QED
  BY <1>4, <1>6, <1>7 DEF Serially

\* HWMAN's positions and the kernel's agree: for a user who gives one command after the other, on
\* a platform where no process crashes and at most the last processor is forgotten, the processes
\* of every core stand at 0, 1, ... whenever nothing is under way.
THEOREM GaplessEver == HSpec => []Gapless
<1>1. ASSUME GInv PROVE Gapless
  <2> SUFFICES ASSUME Quiet, Settled, NEW p \in Procs
               PROVE  LET there == {o \in Objs : place[o] = p /\ proc[o] = "live"}
                      IN  {sem_idx[o] : o \in there} = 0..Cardinality(there) - 1
    BY DEF Gapless, Quiet
  <2> DEFINE there == {o \in Objs : place[o] = p /\ proc[o] = "live"}
  <2>1. HTypeOK /\ (\A o \in Objs : WaveOf(o) \in DOMAIN Waves)
    BY <1>1, Families DEF GInv, HInv
  <2>2. ~Stuck
    BY DEF Stuck, Settled, Ended
  <2>3. Serially
    BY <1>1, <2>2 DEF GInv
  <2>4. Settlers(p) = there
    <3>1. \A v \in DOMAIN Waves : phase[v] \in {"running", "none"}
      BY DEF Settled
    <3>2. ASSUME NEW o \in Objs, proc[o] = "stopped"
          PROVE  FALSE
      <4>1. phase[WaveOf(o)] = "running" \/ Ended(WaveOf(o))
        BY <2>1 DEF Settled
      <4>2. phase[WaveOf(o)] # "running"
        BY <2>3, <3>2 DEF Serially, Matching, Statuses
      <4>3. QED
        BY <3>2, <4>1, <4>2, Families DEF Ended
    <3>3. QED
      BY <2>1, <3>1, <3>2 DEF Settlers, There
  <2>5. Numbers(there, sem_idx, 0)
    BY <2>3, <2>4 DEF Serially, Rowed
  <2>6. there \in SUBSET Objs /\ Cardinality(there) \in Nat
    BY ObjectSums
  <2> HIDE DEF there
  <2>7. \A o \in there : sem_idx[o] \in Int
    BY <2>1, <2>6 DEF HTypeOK
  <2>8. \A k \in Int : (\E o \in there : sem_idx[o] = k) <=> 0 <= k /\ k < 0 + Cardinality(there)
    BY <2>5 DEF Numbers
  <2>9. \A k : k \in {sem_idx[o] : o \in there} <=> k \in 0..Cardinality(there) - 1
    <3>1. \A k \in Int : k \in 0..Cardinality(there) - 1 <=> 0 <= k /\ k < 0 + Cardinality(there)
      BY <2>6
    <3>2. \A k \in Int : k \in {sem_idx[o] : o \in there} <=> \E o \in there : sem_idx[o] = k
      OBVIOUS
    <3>3. \A k \in {sem_idx[o] : o \in there} : k \in Int
      BY <2>7
    <3>4. \A k \in 0..Cardinality(there) - 1 : k \in Int
      BY <2>6
    <3>5. QED
      BY <2>8, <3>1, <3>2, <3>3, <3>4
  <2>10. {sem_idx[o] : o \in there} = 0..Cardinality(there) - 1
    BY <2>9
  <2>11. QED
    BY <2>10 DEF there
<1>2. GInv => Gapless
  BY <1>1
<1>3. QED
  BY GInitial, GStep, <1>2, PTL DEF HSpec
=============================================================================
