----------------------------- MODULE SchedChain -----------------------------
(***************************************************************************)
(* The execution order of the objects of one processor core: a chain of    *)
(* semaphores. Object o waits for sem_objects[sem_idx]; when its turn in   *)
(* the slot is over it posts the semaphore of its successor. The kernel    *)
(* (HWAPI_BACKD) posts the first semaphore in every slot, extends the      *)
(* chain when a process is created, and closes the gap when one died.      *)
(*                                                                         *)
(* The objects run with SCHED_FIFO at one priority on their core: the head *)
(* of the ready queue runs until it waits. The kernel runs on another core *)
(* or at a higher priority, so its steps interleave with theirs. sem_post  *)
(* increments the semaphore and makes ready who has waited longest for it  *)
(* (POSIX, SCHED_FIFO); a waiter that finds no token when it runs waits    *)
(* again.                                                                  *)
(***************************************************************************)
EXTENDS Integers, Sequences, FiniteSets

CONSTANTS
  N,         \* number of objects; object o has exec_position o - 1
  MaxSem,    \* SEM_VALUE_MAX: sem_post fails, unnoticed, beyond it
  Environments \* records of what goes wrong: deaths, the bound on the objects that die, and
               \* failures, what is added to crashes in an object's own turn, all others waiting:
               \* "early" (deaths while objects are being launched), "kill" (deaths at any moment);
               \* "late": an object may run before create_process has given it its place

ASSUME ChainAssumption ==
  /\ N \in Nat \ {0} /\ MaxSem \in Nat \ {0}
  /\ Environments \subseteq [deaths : Nat, failures : SUBSET {"early", "kill", "late"}]

Objects == 1..N

VARIABLES
  sem,        \* sem_objects of the core
  sem_idx,    \* position of each object in the chain (proc_db)
  last,       \* last_semidx
  pc,         \* state of each object's process
  at,         \* the semaphore a process waits for
  ready,      \* the core's ready queue
  asleep,     \* the objects that wait for a semaphore, the longest first
  forked,     \* objects between the fork() of create_process and their place in the chain
  removing,   \* remove_process in progress, if any
  ran,        \* objects that have had a turn in this slot
  env         \* the environment of this run; never changes

kernel == <<sem_idx, last, forked, removing, env>>
cvars  == <<sem, kernel, pc, at, ready, asleep, ran>>

Pc == {"unborn", "turn", "posted", "waiting", "woken", "zombie", "dead"}

CTypeOK ==
  /\ sem \in [0..N -> 0..MaxSem]
  /\ sem_idx \in [Objects -> 0..N - 1]
  /\ last \in Int /\ last < N
  /\ pc \in [Objects -> Pc]
  /\ at \in [Objects -> 0..N - 1]
  /\ ready \in Seq(Objects) /\ asleep \in Seq(Objects)
  /\ forked \in SUBSET Objects /\ \A o, x \in forked : o = x
  /\ env \in Environments
  /\ removing \in SUBSET [sem_i : 1..N] /\ \A r, x \in removing : r = x
  /\ ran \in SUBSET Objects

CInit ==
  /\ sem = [k \in 0..N |-> 1]           \* setup_obj_shm: sem_init(..., 1, 1)
  /\ sem_idx = [o \in Objects |-> 0]
  /\ last = 0
  /\ pc = [o \in Objects |-> "unborn"]
  /\ at = [o \in Objects |-> 0]
  /\ ready = <<>> /\ asleep = <<>>
  /\ forked = {}
  /\ removing = {}
  /\ ran = {}
  /\ env \in Environments

-----------------------------------------------------------------------------
Lowest(S) == CHOOSE j \in S : \A k \in S : j <= k

\* a process leaves a queue, in which it is once at most
PlacesOf(q, o) == {i \in 1..Len(q) : q[i] = o}
Without(q, o) ==
  LET n == Lowest(PlacesOf(q, o))
  IN  IF PlacesOf(q, o) = {} THEN q ELSE SubSeq(q, 1, n - 1) \o SubSeq(q, n + 1, Len(q))

\* sem_post(sem_objects[k]) while the processes are in the states p
sem_post(k, p) ==
  LET waiting == {i \in 1..Len(asleep) : at[asleep[i]] = k} IN
  /\ sem' = [sem EXCEPT ![k] = IF @ < MaxSem THEN @ + 1 ELSE @]
  /\ IF waiting = {}
     THEN pc' = p /\ UNCHANGED <<ready, asleep>>
     ELSE LET w == asleep[Lowest(waiting)] IN
          pc' = [p EXCEPT ![w] = "woken"] /\ ready' = Append(ready, w) /\ asleep' = Without(asleep, w)

\* sem_wait(sem_objects[k]) by the running object: it goes on, or gives up the core
sem_wait(o, k) ==
  \/ /\ sem[k] > 0
     /\ sem' = [sem EXCEPT ![k] = @ - 1]
     /\ pc' = [pc EXCEPT ![o] = "turn"]
     /\ ran' = ran \cup {o}
     /\ UNCHANGED <<at, ready, asleep>>
  \/ /\ sem[k] = 0
     /\ pc' = [pc EXCEPT ![o] = "waiting"]
     /\ at' = [at EXCEPT ![o] = k]
     /\ ready' = Tail(ready) /\ asleep' = Append(asleep, o)
     /\ UNCHANGED <<sem, ran>>

Alive(o)   == pc[o] \notin {"unborn", "zombie", "dead"}
Running(o) == ready # <<>> /\ Head(ready) = o

\* exec_position: HWMAN numbers the objects of a core in the order it maps them
MutantPosition(o) == o
Position(o) == o - 1

\* create_process: after fork() the process is ready to run, with a cleared entry, ...
fork(o) ==
  /\ pc[o] = "unborn" /\ forked = {} /\ removing = {}
  /\ forked' = {o}
  /\ pc' = [pc EXCEPT ![o] = "turn"]
  /\ ready' = Append(ready, o)
  /\ ran' = ran \cup {o}
  /\ UNCHANGED <<sem, sem_idx, last, at, asleep, removing, env>>

\* ... and the parent gives it its place in the chain
create_process(o) ==
  /\ o \in forked /\ removing = {}
  /\ forked' = {}
  /\ sem_idx' = [sem_idx EXCEPT ![o] = Position(o)]
  /\ last' = IF Position(o) > last THEN Position(o) ELSE last
  /\ UNCHANGED <<sem, pc, at, ready, asleep, removing, ran, env>>

\* hwapi_relinquish: post the successor, then wait for the next turn; the position is read
\* anew for each of the two
MutantSuccessor(o) == sem_idx[o]
Successor(o) == sem_idx[o] + 1
hwapi_relinquish(o) ==
  /\ Running(o) /\ (o \in forked => "late" \in env.failures)
  /\ \/ /\ pc[o] = "turn"
        /\ sem_post(Successor(o), [pc EXCEPT ![o] = "posted"])
        /\ UNCHANGED <<at, ran>>
     \/ pc[o] = "posted" /\ sem_wait(o, sem_idx[o])
     \/ pc[o] = "woken" /\ sem_wait(o, at[o])
  /\ UNCHANGED kernel

\* a process dies: of a fault in its own turn while the others wait for theirs, or killed by
\* EXEC at any moment
Launched == forked = {} /\ \A o \in Objects : pc[o] # "unborn"
OnlyTurn(o) == /\ Running(o) /\ pc[o] = "turn" /\ removing = {}
               /\ \A j \in Objects \ {o} : pc[j] \in {"unborn", "waiting", "dead"}
Die(o) ==
  /\ Alive(o) /\ Cardinality({j \in Objects : pc[j] \in {"zombie", "dead"}}) < env.deaths
  /\ Launched \/ "early" \in env.failures
  /\ OnlyTurn(o) \/ "kill" \in env.failures
  /\ pc' = [pc EXCEPT ![o] = "zombie"]
  /\ ready' = Without(ready, o) /\ asleep' = Without(asleep, o)
  /\ UNCHANGED <<sem, at, ran, kernel>>

\* sig_chld reaps a dead process and calls remove_process, which moves everything behind it
\* one place up, entry by entry, and posts the semaphore each waited for
sig_chld(o) ==
  /\ pc[o] = "zombie" /\ removing = {}
  /\ pc' = [pc EXCEPT ![o] = "dead"]
  /\ removing' = {[sem_i |-> sem_idx[o] + 1]}
  /\ UNCHANGED <<sem, sem_idx, last, forked, at, ready, asleep, ran, env>>

MutantUpFrom(i) == {j \in Objects : sem_idx[j] > i}
UpFrom(i) == {j \in Objects : sem_idx[j] = i}
remove_process ==
  /\ \E r \in removing :
       \/ /\ r.sem_i <= last /\ UpFrom(r.sem_i) # {}
          /\ sem_idx' = [sem_idx EXCEPT ![Lowest(UpFrom(r.sem_i))] = @ - 1]
          /\ sem_post(r.sem_i, pc)
          /\ UNCHANGED <<last, removing>>
       \/ /\ r.sem_i <= last /\ UpFrom(r.sem_i) = {}
          /\ removing' = {[sem_i |-> r.sem_i + 1]}
          /\ UNCHANGED <<sem, sem_idx, last, pc, ready, asleep>>
       \/ /\ r.sem_i > last
          /\ last' = last - 1
          /\ removing' = {}
          /\ UNCHANGED <<sem, sem_idx, pc, ready, asleep>>
  /\ UNCHANGED <<at, ran, forked, env>>

\* post_objects in the next slot. The objects are taken to finish within a slot (otherwise
\* check_realtime reports a fault).
syncTslot ==
  /\ ready = <<>> /\ removing = {}
  /\ sem_post(0, pc)
  /\ ran' = {}
  /\ UNCHANGED <<at, kernel>>

CNext ==
  \/ syncTslot \/ remove_process
  \/ \E o \in Objects : fork(o) \/ create_process(o) \/ hwapi_relinquish(o) \/ Die(o) \/ sig_chld(o)

CSpec == CInit /\ [][CNext]_cvars

\* Every object of the waveform is launched, the kernel goes on, and an object's turn ends.
CFairSpec ==
  /\ CSpec
  /\ WF_cvars(syncTslot) /\ WF_cvars(remove_process)
  /\ \A o \in Objects : /\ WF_cvars(fork(o)) /\ WF_cvars(create_process(o)) /\ WF_cvars(hwapi_relinquish(o))
                        /\ WF_cvars(sig_chld(o))

-----------------------------------------------------------------------------
\* Every object that lives has its turn again and again (hwapi_backd_exec.c: "check that run
\* every timeslot"), in whatever order the objects are launched: also if one crashes in its own
\* turn, and also if they run before they are given their places. Does NOT hold when both come
\* together, when a second of four objects crashes (the entry of the first still counts), nor
\* with "early" or "kill".
OneFault == \/ env.failures = {} /\ env.deaths <= 1
            \/ env.failures = {"late"} /\ env.deaths = 0
SurvivorsRun == \A o \in Objects : []<>(~Alive(o) \/ (Running(o) /\ pc[o] = "turn"))
EveryoneRuns == OneFault => SurvivorsRun

\* remove_process leaves no gap: between two removals the objects not yet removed are numbered
\* 0, 1, ... in their order of execution, whatever died meanwhile and however stale the entries
\* of the removed are. (As long as nobody dies while others are being launched.)
Listed == {o \in Objects : pc[o] # "dead"}
NoGap ==
  "early" \notin env.failures /\ Launched /\ removing = {} =>
    /\ \A o \in Listed : sem_idx[o] = Cardinality({j \in Listed : j < o})
    /\ last = Cardinality(Listed) - 1

\* An object that has had its turn waits for the next slot: does NOT hold.
OncePerSlot == [][\A o \in Objects : pc'[o] = "turn" /\ pc[o] # "turn" => o \notin ran]_cvars
=============================================================================
