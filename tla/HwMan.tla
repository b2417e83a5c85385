------------------------------- MODULE HwMan -------------------------------
(***************************************************************************)
(* The hardware manager HWMAN (hwman_cmds.c): its database of processors,  *)
(* the resources it takes for a waveform when it maps it and gives back    *)
(* when SWMAN removes the waveform, and the execution positions it numbers *)
(* the objects with. It is composed with what SWMAN tells it and with the  *)
(* part of the kernel that keeps the positions (create_process and         *)
(* remove_process; SchedChain has their detail), because the two number    *)
(* the same chain independently of each other.                             *)
(*                                                                         *)
(* A processor is one core of a processing element (PE). The mapper itself *)
(* (crm/mapper.c) is a choice of any mapping that fits, or of none.        *)
(***************************************************************************)
EXTENDS Integers, Sequences, SequencesExt, FiniteSetsExt, Functions

CONSTANTS
  Processors,   \* sequence of <<pe, core>>, the cores of one PE together, in the order PEs announce themselves
  Waves,        \* waveforms: name -> sequence of objects, in the order of their set
  Mops,         \* computing power each object asks for
  Links,        \* writing interfaces: records [from, to, bw] between objects of one waveform
  XitfId,       \* function of <<reader PE, writer PE>>: id of the reader's external interface to the writer
  Capacity, Bandwidth, \* what a processor announces: C, and the bandwidth of each interface
  MaxLoads,     \* bound: number of load commands
  Environments  \* records [serial: the user waits until nothing is under way before a command,
                \* drops: the PEs that may fall silent, failures: subset of {"load", "crash"}]

Procs == Range(Processors)
Objs  == UNION {Range(Waves[w]) : w \in DOMAIN Waves}
WaveOf(o) == CHOOSE w \in DOMAIN Waves : o \in Range(Waves[w])
Pes   == {p[1] : p \in Procs}
None  == <<"none", 0>>

ASSUME HwManAssumption ==
  /\ Processors \in Seq(Procs) /\ Processors # <<>> /\ IsInjective(Processors)
  /\ \A i, j, k \in DOMAIN Processors :
       i < j /\ j < k /\ Processors[i][1] = Processors[k][1] => Processors[j][1] = Processors[i][1]
  /\ \A v, w \in DOMAIN Waves : v # w => Range(Waves[v]) \cap Range(Waves[w]) = {}
  /\ \A w \in DOMAIN Waves : Waves[w] \in Seq(Objs) /\ IsInjective(Waves[w])
  /\ IsFiniteSet(Objs) /\ IsFiniteSet(Links)
  /\ Mops \in [Objs -> Nat] /\ Capacity \in Nat /\ Bandwidth \in Nat /\ MaxLoads \in Nat
  /\ Links \subseteq [from : Objs, to : Objs, bw : Nat]
  /\ \A l \in Links : WaveOf(l.from) = WaveOf(l.to)
  /\ DOMAIN XitfId \subseteq Pes \X Pes
  /\ Environments \subseteq [serial : BOOLEAN, drops : SUBSET Pes, failures : SUBSET {"load", "crash"}]

VARIABLES
  pedb,       \* processors HWMAN knows
  announced,  \* number of Processors that have announced themselves
  P_idx,      \* index of each processor
  peobj,      \* processor of each index
  C, nof_objects, intBW, \* of each processor: power left, objects mapped, internal bandwidth left
  extBW,      \* bandwidth left of each external interface
  plat,       \* what the mapper sees: [n, C], recomputed by calc_P_vector
  loaded_apps,\* waveforms HWMAN holds resources for
  place,      \* object -> its processor, in the waveform's last mapping
  position,   \* object -> its exec_position
  queue,      \* packets from SWMAN to HWMAN
  up,         \* HWMAN has not stopped at an assertion
  phase,      \* the waveform in SWMAN
  loads,      \* load commands so far
  proc,       \* the process of each object
  sem_idx, last_semidx, \* the kernel's positions, and its last one per processor
  env         \* the environment of this run; never changes

res    == <<C, nof_objects, intBW, extBW>>
hwman  == <<pedb, announced, P_idx, peobj, plat, loaded_apps, place, position, up>>
kernel == <<proc, sem_idx, last_semidx>>
swman  == <<phase, loads>>
hvars  == <<res, hwman, queue, swman, kernel, env>>

LastIdx == Len(Processors) - 1
HTypeOK ==
  /\ pedb \subseteq Procs /\ announced \in 0..Len(Processors)
  /\ P_idx \in [Procs -> 0..LastIdx] /\ peobj \in [0..LastIdx -> Procs \cup {None}]
  /\ C \in [Procs -> Int] /\ (\A p \in Procs : C[p] <= Capacity) /\ nof_objects \in [Procs -> Nat]
  /\ intBW \in [Procs -> Int] /\ extBW \in [DOMAIN XitfId -> Int]
  /\ plat \in [n : 0..Len(Processors), C : [0..LastIdx -> Int]]
  /\ loaded_apps \subseteq DOMAIN Waves
  /\ place \in [Objs -> Procs \cup {None}] /\ position \in [Objs -> Nat]
  /\ queue \in Seq([op : {"MAPOBJ", "UNMAPOBJ"}, app : DOMAIN Waves])
  /\ up \in BOOLEAN /\ loads \in 0..MaxLoads
  /\ phase \in [DOMAIN Waves -> {"none", "mapping", "loading", "failed", "running", "stopping"}]
  /\ proc \in [Objs -> {"none", "mapped", "live", "stopped", "dead"}]
  /\ sem_idx \in [Objs -> Nat] /\ last_semidx \in [Procs -> Int]
  /\ env \in Environments

HInit ==
  /\ pedb = {} /\ announced = 0 /\ P_idx = [p \in Procs |-> 0] /\ peobj = [i \in 0..LastIdx |-> None]
  /\ C = [p \in Procs |-> 0] /\ nof_objects = [p \in Procs |-> 0] /\ intBW = [p \in Procs |-> 0]
  /\ extBW = [l \in DOMAIN XitfId |-> Bandwidth]
  /\ plat = [n |-> 0, C |-> [i \in 0..LastIdx |-> 0]]
  /\ loaded_apps = {} /\ queue = <<>> /\ up = TRUE /\ loads = 0
  /\ place = [o \in Objs |-> None] /\ position = [o \in Objs |-> 0]
  /\ phase = [w \in DOMAIN Waves |-> "none"]
  /\ proc = [o \in Objs |-> "none"]
  /\ sem_idx = [o \in Objs |-> 0] /\ last_semidx = [p \in Procs |-> 0]
  /\ env \in Environments

-----------------------------------------------------------------------------
\* calc_P_vector: the entries of processors that are gone keep their last value
Age(pe) == Min({i \in 1..Len(Processors) : Processors[i][1] = pe})
calc_P_vector(db, idx, power) ==
  LET at(i)   == {p \in db : idx[p] = i}
      newest(S) == CHOOSE p \in S : \A q \in S : Age(q[1]) <= Age(p[1])
  IN  [n |-> Cardinality(db), C |-> [i \in 0..LastIdx |-> IF at(i) # {} THEN power[newest(at(i))] ELSE plat.C[i]]]

\* hwman_incmd_addcpu: the cores of a new PE get the next indexes. (FRONTEND announces a PE once, so
\* the removal of one that is announced again is left out.)
MutantNextIndex == Cardinality({p \in pedb : nof_objects[p] > 0})
NextIndex == Cardinality(pedb)
hwman_incmd_addcpu ==
  /\ up /\ announced < Len(Processors)
  /\ LET pe    == Processors[announced + 1][1]
         cores == {i \in 1..Len(Processors) : Processors[i][1] = pe}
         index(i) == NextIndex + i - announced - 1
     IN  /\ announced' = announced + Cardinality(cores)
         /\ pedb' = pedb \cup {Processors[i] : i \in cores}
         /\ P_idx' = [p \in Procs |-> IF p[1] = pe THEN index(CHOOSE i \in cores : Processors[i] = p) ELSE P_idx[p]]
         /\ peobj' = [k \in 0..LastIdx |-> IF \E i \in cores : index(i) = k
                                        THEN Processors[CHOOSE i \in cores : index(i) = k] ELSE peobj[k]]
         /\ C' = [p \in Procs |-> IF p[1] = pe THEN Capacity ELSE C[p]]
         /\ intBW' = [p \in Procs |-> IF p[1] = pe THEN Bandwidth ELSE intBW[p]]
         /\ plat' = calc_P_vector(pedb', P_idx', C')
  /\ UNCHANGED <<nof_objects, extBW, loaded_apps, place, position, up, queue, swman, kernel, env>>

\* hwman_background: a processor that has been silent for too long is forgotten
hwman_background ==
  /\ up /\ \E p \in pedb : /\ p[1] \in env.drops
                           /\ pedb' = pedb \ {p}
  /\ plat' = calc_P_vector(pedb', P_idx, C)
  /\ UNCHANGED <<res, announced, P_idx, peobj, loaded_apps, place, position, up, queue, swman, kernel, env>>

-----------------------------------------------------------------------------
Total(S, f) == SumFunctionOnSet(f, S)
Bw == [l \in Links |-> l.bw]
LinksOf(w) == {l \in Links : WaveOf(l.from) = w}
Internal(l, at) == at[l.from][1] = at[l.to][1]
Wire(l, at) == <<at[l.to][1], at[l.from][1]>>       \* the reader's interface to the writer

\* the mapper: any choice of indexes within the power and bandwidth it sees
Fits(w, at, m) ==
  /\ \A i \in 0..LastIdx : Total({o \in Range(Waves[w]) : m[o] = i}, Mops) <= plat.C[i]
  /\ \A l \in LinksOf(w) :
       LET load == Total({k \in LinksOf(w) : at[k.from] = at[l.from] /\ at[k.to] = at[l.to]}, Bw)
       IN  IF Internal(l, at) THEN load <= intBW[at[l.from]]
           ELSE Wire(l, at) \in DOMAIN XitfId /\ load <= extBW[Wire(l, at)]

\* where do_mapping gives up: at the first object that is, or writes to one that is, on a
\* processor HWMAN has forgotten
Reached(w, at) ==
  LET lost(o) == at[o] \notin pedb \/ \E l \in Links : l.from = o /\ at[l.to] \notin pedb
  IN  {Waves[w][i] : i \in {j \in 1..Len(Waves[w]) : \A k \in 1..j : ~lost(Waves[w][k])}}

\* do_mapping takes power and positions object by object, then the bandwidth of the links;
\* an internal link is taken from every processor, whatever PE it is of. (It also gives up at a link
\* whose reader, or the reader's interface, the waveform does not have, and at an external
\* interface that is gone: waveforms here are well-formed, and Fits asks for the interface.)
Ordinal(w, at, o) ==
  LET i == CHOOSE k \in 1..Len(Waves[w]) : Waves[w][k] = o
  IN  Cardinality({k \in 1..i - 1 : at[Waves[w][k]] = at[o]})
do_mapping(w, at) ==
  LET on(p)  == {o \in Range(Waves[w]) : at[o] = p}
      taken  == {l \in LinksOf(w) : l.from \in Reached(w, at)}
      inside == {l \in taken : Internal(l, at)}
  IN
  /\ C' = [p \in Procs |-> C[p] - Total(on(p), Mops)]
  /\ nof_objects' = [p \in Procs |-> nof_objects[p] + Cardinality(on(p))]
  /\ position' = [o \in Objs |-> IF WaveOf(o) = w THEN nof_objects[at[o]] + Ordinal(w, at, o) ELSE position[o]]
  /\ place' = [o \in Objs |-> IF WaveOf(o) = w THEN at[o] ELSE place[o]]
  /\ intBW' = [p \in Procs |-> IF p \in pedb THEN intBW[p] - Total(inside, Bw) ELSE intBW[p]]
  /\ extBW' = [x \in DOMAIN XitfId |->
                 extBW[x] - Total({l \in taken \ inside : Wire(l, at) = x}, Bw)]

\* hwman_incmd_swmapper
hwman_incmd_swmapper ==
  /\ up /\ queue # <<>> /\ Head(queue).op = "MAPOBJ" /\ queue' = Tail(queue)
  /\ LET w    == Head(queue).app
         fail == phase' = [phase EXCEPT ![w] = "failed"]
     IN
     \/ \E m \in [Range(Waves[w]) -> 0..plat.n - 1] :
          LET at == [o \in Range(Waves[w]) |-> peobj[m[o]]] IN
          /\ Fits(w, at, m)
          /\ do_mapping(w, at)
          /\ IF Reached(w, at) = Range(Waves[w])
             THEN /\ loaded_apps' = loaded_apps \cup {w}
                  /\ phase' = [phase EXCEPT ![w] = "loading"]
                  /\ proc' = [o \in Objs |-> IF WaveOf(o) = w THEN "mapped" ELSE proc[o]]
                  /\ plat' = calc_P_vector(pedb, P_idx, C')
             ELSE fail /\ UNCHANGED <<loaded_apps, proc, plat>>
     \/ fail /\ UNCHANGED <<res, place, position, loaded_apps, proc, plat>>
  /\ UNCHANGED <<pedb, announced, P_idx, peobj, up, loads, sem_idx, last_semidx, env>>

\* free_resources: an internal link is given back to the processors of the object's own PE, an
\* external one to the first interface found under its id
MutantGiven(w, p) == {o \in Range(Waves[w]) : place[o] = p /\ \A l \in Links : l.from # o}
Given(w, p) == {o \in Range(Waves[w]) : place[o] = p}
Holds(x, l) ==
  LET same == {y \in DOMAIN XitfId : XitfId[y] = XitfId[Wire(l, place)] /\ \E p \in pedb : p[1] = y[1]}
  IN  x \in same /\ \A y \in same : Age(y[1]) <= Age(x[1])

MutantHolding(w) == TRUE
Holding(w) == w \in loaded_apps

\* hwman_incmd_swunmap
hwman_incmd_swunmap ==
  /\ up /\ queue # <<>> /\ Head(queue).op = "UNMAPOBJ" /\ queue' = Tail(queue)
  /\ LET w     == Head(queue).app
         inner == {l \in LinksOf(w) : Internal(l, place)}
         outer == LinksOf(w) \ inner
     IN
     \/ ~Holding(w) /\ UNCHANGED <<res, loaded_apps, up, plat>>
     \/ /\ Holding(w) /\ \E o \in Range(Waves[w]) : place[o] \notin pedb
        /\ up' = FALSE                                     \* assert(pe)
        /\ UNCHANGED <<res, loaded_apps, plat>>
     \/ /\ Holding(w) /\ \A o \in Range(Waves[w]) : place[o] \in pedb
        /\ C' = [p \in Procs |-> C[p] + Total(Given(w, p), Mops)]
        /\ nof_objects' = [p \in Procs |-> nof_objects[p] - Cardinality(Given(w, p))]
        /\ intBW' = [p \in Procs |-> IF p \notin pedb THEN intBW[p]
             ELSE intBW[p] + Total({l \in inner : place[l.from][1] = p[1]}, Bw)]
        /\ extBW' = [x \in DOMAIN XitfId |-> extBW[x] + Total({l \in outer : Holds(x, l)}, Bw)]
        /\ loaded_apps' = loaded_apps \ {w}
        /\ UNCHANGED up /\ plat' = calc_P_vector(pedb, P_idx, C')
  /\ UNCHANGED <<pedb, announced, P_idx, peobj, place, position, swman, kernel, env>>

-----------------------------------------------------------------------------
\* the user, through SWMAN. One name stands for one waveform at a time.
Ended(w)  == \A o \in Range(Waves[w]) : proc[o] \notin {"live", "stopped"}
Settled   == /\ queue = <<>>
             /\ \A w \in DOMAIN Waves : phase[w] = "running" \/ (phase[w] = "none" /\ Ended(w))
Allowed   == env.serial => Settled

\* swman_incmd_loadapp
swman_incmd_loadapp(w) ==
  /\ Allowed /\ loads < MaxLoads /\ announced = Len(Processors)
  /\ phase[w] = "none" /\ Ended(w)
  /\ phase' = [phase EXCEPT ![w] = "mapping"] /\ loads' = loads + 1
  /\ proc' = [o \in Objs |-> IF WaveOf(o) = w THEN "none" ELSE proc[o]]
  /\ queue' = Append(queue, [op |-> "MAPOBJ", app |-> w])
  /\ UNCHANGED <<res, hwman, sem_idx, last_semidx, env>>

\* the user's STOP, or SWMAN's abort after a crash: it reaches every object
swman_sendobjstatus(w) ==
  /\ phase[w] = "running"
  /\ Allowed \/ \E o \in Range(Waves[w]) : proc[o] = "dead"
  /\ phase' = [phase EXCEPT ![w] = "stopping"]
  /\ proc' = [o \in Objs |-> IF WaveOf(o) = w /\ proc[o] = "live" THEN "stopped" ELSE proc[o]]
  /\ UNCHANGED <<res, hwman, loads, queue, sem_idx, last_semidx, env>>

\* unmap_app: after the last report of a stop, or after an error of the mapping or the load
unmap_app(w) ==
  /\ phase[w] \in {"stopping", "failed"}
  /\ phase' = [phase EXCEPT ![w] = "none"]
  /\ queue' = Append(queue, [op |-> "UNMAPOBJ", app |-> w])
  /\ UNCHANGED <<res, hwman, loads, kernel, env>>

\* SWLOAD or the kernel fails to launch an object
load_error(w) ==
  /\ phase[w] = "loading" /\ "load" \in env.failures
  /\ \E o \in Range(Waves[w]) : proc[o] = "mapped"
  /\ phase' = [phase EXCEPT ![w] = "failed"]
  /\ UNCHANGED <<res, hwman, loads, queue, kernel, env>>

\* create_process; SWMAN hears of the last object that starts
create_process(o) ==
  LET w == WaveOf(o) IN
  /\ phase[w] = "loading" /\ proc[o] = "mapped"
  /\ proc' = [proc EXCEPT ![o] = "live"]
  /\ sem_idx' = [sem_idx EXCEPT ![o] = position[o]]
  /\ last_semidx' = [last_semidx EXCEPT ![place[o]] = IF position[o] > @ THEN position[o] ELSE @]
  /\ phase' = IF \A x \in Range(Waves[w]) : proc'[x] = "live" THEN [phase EXCEPT ![w] = "running"] ELSE phase
  /\ UNCHANGED <<res, hwman, loads, queue, env>>

\* a process ends, and remove_process moves up those behind it on its core
MutantBehind(o) == {x \in Objs \ {o} : /\ place[x] = place[o] /\ proc[x] \in {"live", "stopped"}
                                        /\ sem_idx[x] > sem_idx[o] + 1 /\ sem_idx[x] <= last_semidx[place[o]]}
Behind(o) == {x \in Objs \ {o} : /\ place[x] = place[o] /\ proc[x] \in {"live", "stopped"}
                                  /\ sem_idx[x] > sem_idx[o] /\ sem_idx[x] <= last_semidx[place[o]]}
remove_process(o) ==
  /\ proc[o] = "stopped" \/ (proc[o] = "live" /\ phase[WaveOf(o)] = "running" /\ "crash" \in env.failures)
  /\ proc' = [proc EXCEPT ![o] = "dead"]
  /\ sem_idx' = [x \in Objs |-> IF x \in Behind(o) THEN sem_idx[x] - 1 ELSE sem_idx[x]]
  /\ last_semidx' = [last_semidx EXCEPT ![place[o]] = @ - 1]
  /\ UNCHANGED <<res, hwman, swman, queue, env>>

HNext ==
  \/ hwman_incmd_addcpu \/ hwman_background \/ hwman_incmd_swmapper \/ hwman_incmd_swunmap
  \/ \E w \in DOMAIN Waves : \/ swman_incmd_loadapp(w) \/ swman_sendobjstatus(w)
                             \/ unmap_app(w) \/ load_error(w)
  \/ \E o \in Objs : create_process(o) \/ remove_process(o)

HSpec == HInit /\ [][HNext]_hvars

-----------------------------------------------------------------------------
\* Whatever was loaded, failed, crashed and was removed, in any order: the power of a processor,
\* the number of its objects and the bandwidth of the external interfaces are what the
\* waveforms now loaded leave of them, and no more power is given away than there is (as long as
\* no processor is forgotten).
Held(p) == {o \in Objs : WaveOf(o) \in loaded_apps /\ place[o] = p}
Carried(x) == {l \in Links : WaveOf(l.from) \in loaded_apps /\ ~Internal(l, place) /\ Wire(l, place) = x}
Accounted ==
  env.drops = {} =>
    /\ \A p \in pedb : /\ C[p] = Capacity - Total(Held(p), Mops) /\ C[p] >= 0
                        /\ nof_objects[p] = Cardinality(Held(p))
    /\ \A x \in DOMAIN XitfId : extBW[x] = Bandwidth - Total(Carried(x), Bw)

\* The internal bandwidth is what the loaded waveforms leave of it: does NOT hold on a platform
\* of two PEs, an internal link is taken from all processors and given back to one PE's.
InternalRestored == loaded_apps = {} /\ up => \A p \in pedb : intBW[p] = Bandwidth

\* The mapper's index of a processor leads to that processor: holds while only the processor
\* announced last, the one core of its PE, is ever forgotten; does NOT hold otherwise.
OnlyLast == \A i \in 1..Len(Processors) - 1 : Processors[i][1] \notin env.drops
IndexesAgree == OnlyLast => \A i \in 0..plat.n - 1 : peobj[i] \in pedb /\ P_idx[peobj[i]] = i

\* HWMAN's numbers and the kernel's agree: when nothing is under way the processes of a core
\* stand at positions 0, 1, ..., so each is reached by the chain of SchedChain. It holds for a
\* user who gives one command after the other, also around loads that fail before a process runs
\* (after other failed loads something is under way for ever); does NOT hold when
\* a waveform is loaded while another one stops, fails to load, or loses an object, nor when other
\* processors than the last are forgotten (a mapping that gives up keeps the positions it took).
Gapless ==
  env.serial /\ "crash" \notin env.failures /\ OnlyLast /\ Settled =>
    \A p \in Procs :
      LET there == {o \in Objs : place[o] = p /\ proc[o] = "live"}
      IN  {sem_idx[o] : o \in there} = 0..Cardinality(there) - 1

\* HWMAN survives: does NOT hold when a waveform is removed whose processor was forgotten.
HwmanLives == up
=============================================================================
