# ALOE in TLA+

ALOE (`src/ALOE_DOCENCIA_20210116`) is a middleware for software radio: *waveforms*
(applications) are sets of *objects* (processes) that run once per *time slot* on *processing
elements* (PEs), managed by daemons that exchange packets. This directory holds a model of its
management core in TLA+, the TLC configurations that check it, and proofs checked by TLAPS.

Below, `hw_api`, `sw_api`, `sw_daemons`, `utils` stand for the directories of these names in
`src/ALOE_DOCENCIA_20210116`.

## 1. The system

```
  user -- CMDMAN -- SWMAN ------(packets, FRONTEND routes them)------ HWMAN / mapper
                     |  ^                                               |
       EXEC_SETSTATUS|  |SWMAN_STATUSOK/ERR          SWLOAD_LOADOBJ     |
                     v  |        SWLOAD_LOADSTART/LOADING/LOADEND       v
                    EXEC         SWMAN ------------------------->  SWLOAD
                     |   proc_db (shared memory, sem_status)          | hwapi_proc_create
                     v                                                v
                  objects  <---- SIGCHLD, time slots, semaphores ---- kernel (HWAPI_BACKD)
```

| Component | State | Operations | Talks to |
|---|---|---|---|
| Process database (`hwapi_linux_proc.c`) | `proc_db[]`: pid, obj_id, status (cur, next, date), change_progress | status_get / status_new / status_ack under `sem_status`; create, remove, kill | shared memory between kernel, EXEC, SWLOAD, objects |
| EXEC daemon (`exec_cmds.c`) | copy of `proc_db`, report table | set status; `exec_background()` in every slot: dead objects, confirmations, time limits, reports | queue to and from SWMAN |
| Object life cycle (`phal_services.c`, `skeleton.c`) | init_done, isterming | InitPHAL, Status, Relinquish, ClosePHAL, signal handler | `proc_db`, chain semaphores |
| SWMAN, waveforms (`swman_cmds.c`, `app.c`) | `apps_db`: status, pending status, view of every object | load answers, status commands, status reports | CMDMAN, HWMAN, EXEC |
| SWMAN, executables (`swman_cmds.c`, `exec.c`) | the open executable | serve a request in packets | SWLOAD |
| SWLOAD (`swload_cmds.c`, `downexe.c`) | download queue, one reception buffer | load command, LOADSTART / LOADING / LOADEND, launch | SWMAN, HWMAN, `proc_db` |
| Kernel, execution chain (`hwapi_backd_processes.c`, `_exec.c`, `_signals.c`) | `sem_objects`, `sem_idx`, `last_semidx` | create, remove, time slot, SIGCHLD | objects |
| Packets and FRONTEND (`daemon.c`, `pkt.c`, `frontend.c`) | one queue per daemon, routing table | `daemon_sendto` (waits for room in FRONTEND's queue), routing (drops what does not fit in the queue it is for), processor discovery | all daemons |
| HWMAN and mapper | processors and what is left of their resources | register, map, release | SWLOAD, FRONTEND |
| SYNC, SYNC_MASTER | clock offset, outstanding request | request, answer, set the slot | kernel clock |
| Data interfaces (`hwapi_linux_itf.c`) | message queues, delays, who is signalled | create, attach, send, receive by time stamp | objects, BRIDGE |
| BRIDGE, network children (`hwapi_netd.c`) | table of interfaces, neighbours | identify, forward in both directions | sockets, HWMAN |
| Memory pool (`mem.c`) | chunks with slot flags | new, alloc, free | objects' variables |
| STATS, STATSMAN | variables and reports | register, get, set, report | objects, CMDMAN |
| CMDMAN and consoles | none | user commands | SWMAN, STATSMAN, HWMAN |
| Utilities (`set.c`, `str.c`, parsers) | containers | put, get, find, parse | everybody |
| Kernel start-up, DSP modules, JACK | configuration; user code | parse, create shared memory; signal processing | |

Beside `ALOE_DOCENCIA_20210116` the repository holds copies of the modules, the waveform examples
and tools; they are user code and build products.

### What makes it correct, and what is hard

* **Status protocol.** Three parties (the object, EXEC, the kernel's SIGCHLD handler) advance one
  database entry in critical sections of their own, EXEC decides on a *copy* that ages during its
  pass, an object can die anywhere. An order must not be overwritten, an object that runs must not
  be forgotten, what SWMAN is told must be so, every change must end.
* **Waveform.** SWMAN's view lags behind the objects by two queues; commands come in the middle of
  changes. No object may run before all have started; a healthy waveform must not be aborted; a
  stop or abort must complete; nothing may run on behind a removed waveform.
* **Loading.** Several waveforms are downloaded through one queue and one buffer, and requests
  overlap downloads. Each object must be launched once, from its own whole image, or its waveform
  told that it failed.
* **Execution chain.** Tokens of semaphores make the order of execution within a slot; the chain is
  repaired while the objects behind the gap run or wait. Every object must have its turn, and once.
* **Queues.** `daemon_sendto()` waits for room in FRONTEND's queue (`daemon.c:265`). FRONTEND forwards without
  waiting and looks at no result (`frontend.c:501`): what finds the queue of the daemon it is for full
  is dropped, neither side learns of it, and no daemon repeats a packet. What must hold whatever is lost, and what
  needs that nothing is, is a question to every pair of daemons.
* **Coming together.** PEs register in any order through a tree in which every FRONTEND knows its own
  table only. Ids must be unique, answers must reach who asked, HWMAN must learn of every processor
  and every link although both are announced independently.
* **Data interfaces.** Objects on one PE and on two must see the same delay, although the objects
  drift apart, queues overflow, datagrams are reordered, and a BRIDGE reads only when it is signalled.
* **Resources.** HWMAN counts what waveforms take; the kernel numbers the same objects on its own. After
  any sequence of loads, failures and stops both must be right.
* **Clock.** The slave's slots must come to agree with the master's, with one request under way and
  packets that are late or lost.
* **Statistics.** Objects, STATS and STATSMAN keep three tables about the same variables, connected by
  marks in shared memory and two queues. An entry must not be taken for its former owner's.
* **Memory.** Boundaries of chunks.

`PROJECT.json`, "hazards", lists each at the line where it bites, with the properties that watch it.

## 2. The modules

| Module | What it is |
|---|---|
| `StatusHandshake` | Abstract specification: what the database promises. A change is *ordered*, the object is *told*, it *changes*, the change is *confirmed* (settled); only then may the next be ordered. |
| `ProcStatus` | Database, EXEC and objects of one PE. SWMAN is an arbitrary environment. Implements `StatusHandshake`. |
| `ProcStatusProofs` | Inductive invariant and proofs about `ProcStatus`, and the proof that it implements `StatusHandshake`. |
| `Waveform` | SWMAN and one waveform, composed with EXEC and the objects of `ProcStatus` (EXTENDS; the environment actions `SendOrder` and `TakeReport` are replaced by SWMAN's handlers). |
| `MCWaveform` | Waveforms of one and of two objects. |
| `WaveformProofs` | Inductive invariant of the start barrier, and proofs about `Waveform`. |
| `SwLoad` | SWLOAD's download queue and SWMAN's side of a download; HWMAN is the environment. |
| `MCSwLoad` | Two and three waveforms that share executables or not. |
| `SchedChain`, `MCSchedChain` | The semaphores that order the objects of a core, with kernel, SIGCHLD and death of processes. |
| `SchedChainProofs` | Inductive invariant and proofs about `SchedChain`. |
| `Frontend`, `MCFrontend` | Registration and routing between PEs, discovery of processors and links: FRONTEND, BRIDGE and HWMAN of every PE composed. |
| `DelayLine` | Abstract specification: what a data interface promises. |
| `DataItf`, `MCDataItf` | A data interface on one PE, and through two BRIDGEs and the network. Implements `DelayLine`. |
| `DataItfProofs` | Inductive invariants of `DataItf`, proofs about it, and the proof that it implements `DelayLine`. |
| `HwMan`, `MCHwMan` | HWMAN's processors and resources, composed with what SWMAN tells it and the kernel's positions. |
| `HwManProofs` | Inductive invariant and proofs about `HwMan`. |
| `Counting` | Lemmas the proofs share: least and greatest members, the k-th member of a finite set of numbers, sums over finite sets. |
| `Sync`, `MCSync` | SYNC, SYNC_MASTER and the kernel's timer. |
| `Stats`, `MCStats` | Variables, statistics and parameter files: objects, STATS, STATSMAN and the user. |
| `LoadSyncProofs` | Inductive invariants of, and proofs about, `SwLoad` and `Sync`. |
| `DaemonProofs` | Inductive invariants of, and proofs about, `Frontend` and `Stats`. |

Modules that touch only at the creation and death of a process are not composed into one state
space: `SwLoad` ends where `Create` of `ProcStatus` begins, `ClosePHAL` and `hwapi_proc_kill()` of
`ProcStatus` are the deaths of `SchedChain`, and `HwMan` has `create_process` and `remove_process` in the
coarse form that `SchedChain` details. `Waveform` is composed with `ProcStatus`, `Frontend`, `HwMan`
and `Stats` each compose several daemons.

In the modules with an `Environments` constant (`Sync` calls it `Setups`, `Frontend` `Networks`) the initial state chooses one of several environments
(a network, a user, the faults that occur), which never changes: one run then covers them all, and a
property that assumes something of the environment names it.

### ProcStatus

`proc[o]` is the entry of `proc_db`: `cur`, `next`, `prog` (`change_progress`), `pid` and `known`
(pid and obj_id # 0), and `due`, the date of the change *relative to the present slot*: time never
grows, `Tick` shifts the dates. A date more than `Limit + 1` slots in the past equals one that far
past. `hwapi_proc_status_get/new/ack` are operators on one entry, applied in one step each (each is
a critical section of `sem_status`); everything between two calls interleaves. `pc[o]` is the place of the object's
process: `Boot` (InitPHAL), `Status`, the four steps of a single step (STEP, then PAUSE ordered to
itself), `Work` (user code, may fail), `Close` (the loops of ClosePHAL), `Die` (a signal: user
code's or EXEC's), `Reap` (SIGCHLD). EXEC is `exec_incmd_setstatus`, and `exec_background()` from the
copy (`BackgroundStart`) over one step per entry (`BackgroundDied`, `BackgroundAck`,
`BackgroundTimeout`, `BackgroundSkip`) to `BackgroundEnd`; `KillReturn` ends `hwapi_proc_kill()`,
during which the copy grows older.

The entries of the copy are looked at in any order, which includes the order of the array. Every
object has an entry of its own: an entry is not reused.

### Waveform

`app` is the waveform's entry of `apps_db` with its phase (unloaded, loaded, removed), status and pending status;
`view[o]` is `obj->status`; `placed` the objects whose PE SWMAN knows. The actions are the handlers
`swman_incmd_loadapp`, `_apperror`, `_appstatus`, `_statusrep`; each includes the orders it sends
(`swman_sendobjstatus`, in list order, giving up at the first object without a PE) and what it tells the user (`told`,
the last packet to CMDMAN). Both queues between SWMAN and EXEC drop what does not fit: a report that finds SWMAN's
queue full (`exec_statusrep`), and of the orders of one command, if EXEC's queue has no room for all, any (`Send`:
EXEC reads, and others send to it, while they pass through FRONTEND one by one). `lost` is a history variable: a queue
was so full that a packet may have been dropped. In `ProcStatus`, where SWMAN is arbitrary, an order that is dropped
is one that was not sent.

### SwLoad

`down_q` is the queue of executables (`Set_put` inserts at the head), `procBuff` the one buffer, whose cells hold
pieces of images (`Piece`: the executable and the part of it); `launched` counts processes per object.
`swload_incmd_loadobj`, `_loadstart`, `_loading`, `_loadend` are SWLOAD's handlers, `ExecReq` and `SendPart` SWMAN's,
which sends a packet at a time while SWLOAD takes others. Checksums are modelled by what they tell: LOADEND carries
the checksum of what SWMAN sent and is accepted if it is that of the pieces saved since LOADSTART. It is modelled as
which pieces were summed, and how often: the code's sum of bytes does not tell their order either. `Forwarded` is
FRONTEND, which drops what does not fit into the queue of SWLOAD or SWMAN; `lost`, a history variable, holds the ids
of the downloads a packet of which was dropped. The objects of a load command join the queue one after the other
(`Joined`). Interfaces of the hardware: `hwapi_proc_needsrelocate` is 0 on Linux, so EXECINFO does not occur.

### SchedChain

`sem`, `sem_idx`, `last`, and a `ready` queue: the objects of a core run under SCHED_FIFO with one
priority, so the head runs until it waits. `hwapi_relinquish` is two steps (post, wait) because the
position is read again in between; `remove_process` moves one position per step, as its outer loop
does, between which objects run. With failure "late" `fork` and `create_process` are two steps: the
child may run, and wait at position 0, before the parent has set its position.

### Frontend

`q` holds every queue: links `up` and `down` the tree, the FRONTENDs' input queues, the daemons', the data wires.
`f_pedb` is FRONTEND's table; `register_son` proposes the lowest free id and passes the request up, at the root it is
answered (`register_ack`) along the tables. `Route` is `route()`, and `Put` what `hwapi_itf_snd()` does with a full
queue: the packet is lost and nobody looks at the result. `report_hwstatus` announces the PE once its id is known; at
every announcement (`hwman_incmd_addcpu`), and when it drops a PE (`hwman_background`), HWMAN asks the BRIDGEs of all
PEs it knows (`send_sons_ident`); `bridge_incmd_ident` writes on the output wires, `new_neighbour` reports the wire to
HWMAN, which refuses it while it does not know the reader. An interface is identified with the one wire that ends in
it: the test for an interface that is announced twice (`hwman_cmds.c:619`, `:625`) is the union of sets in
`hwman_incmd_additf`.

### DataItf

A message has the type by which it is received (`dst`), the time stamp of its header, and, as
history, the turn it was written in. On one PE the writer's queue is the reader's; else it is
"writer" -> (BRIDGE) -> "wire" -> (BRIDGE) -> "reader". `Put` and `Signal` are `msgsndcallback()`, used by the object and the
BRIDGEs; `Receivable` is `msgrcv()` with a negative type; `Wake` and `itf_rcv` a BRIDGE that takes a
(queued, realtime) signal and reads until its queue is empty or the next one full. `Begin` and `End` are an
object's turn; a reader or writer may miss slots, and then is a turn behind.

### HwMan

`pedb`, `C`, `nof_objects`, `intBW`, `extBW` are the processors and what is left of their resources;
`plat` is the mapper's copy. `do_mapping` takes resources object by object for the mapping found, and gives up half-way at an
object whose processor has been forgotten (`hwman_cmds.c:508`, `:529`);
`free_resources` gives back. The mapper is *any* placement that fits. `position` is what HWMAN
numbers, `sem_idx` and `last_semidx` what the kernel makes of it.

`HwManAssumption` says of the platform what registration gives: processors are distinct and the cores of one PE
come together (one packet announces them all); of the waveforms that no object is in two, and that a
link joins objects of one waveform.

### Sync

Time is discrete. Slot numbers are kept relative to the master's (`ahead`), so no run has to be cut. `time_sync` is
two writes (`new_tstamp`, `next_ts`) with the kernel's `syncTslot` in between if it comes to that. Both clocks run
equally fast, `Tick` moves them together, and the kernel misses no slot; `TakenOver` is what the kernel then does to
slot and timer, and with it to the clock by which `answer_packet` measures the round trip. In mode "continuous" the
master's packets drive the slave's clock through `sem_dac`.

### Stats

`var_db` is the shared table. An object's call creates a variable with a request as its mark and waits until the mark
is an answer; STATS' pass (`at`, `seen`) reads the mark of one entry, then handles it; `stats_q` and `statsman_q`
connect it to STATSMAN and drop what does not fit (`lost`, a history variable, says that they did); STATSMAN's records
`app_db` go by the object's *name*. With fault "torn" `hwapi_var_create2` is two steps.

## 3. The runs

All runs finish in well under five minutes with two workers.

### Runs that pass

| Run | Shows | States |
|---|---|---|
| `ProcStatus` | TypeOK, ForgottenIsDead, OrderNotOverwritten, OkReportIsTrue: database, EXEC's stale copy and the object's own stop never contradict each other. ImplementsHandshake: every change is a handshake. ChangeEnds, DeadIsRemoved: every change ends and every dead object is removed, whatever the user code does and whichever orders and reports are dropped | 388 488 |
| `Waveform` | WTypeOK, ViewIsReal: an object SWMAN holds to be in the waveform's status is in it, or has aborted since, whatever is dropped between SWMAN and EXEC | 1 152 070 |
| `WaveformTwo` | StartBarrier: no object runs before all have started, whatever is dropped | 3 072 360 |
| `WaveformStop` | StopCompletes: a running waveform that is told to stop is removed, also when an object is late and killed, unless a queue ran full | 59 752 |
| `SwLoad` | LTypeOK, LaunchedOnce, with every failure and loss: no object is launched twice, however often its executable is requested. LaunchedIsComplete, where SWMAN can read: a process is started from its own whole image unless a packet of that download was dropped, whatever was dropped of others. LoadCompletes: if nothing fails and nothing is dropped, everything is launched | 388 418 |
| `SchedChain` | CTypeOK, NoGap: whatever dies and whenever, the positions of the living stay 0, 1, ... EveryoneRuns: while at most one crashes, in its own turn, or all run before they have their positions, everyone has its turn again and again | 207 315 |
| `Frontend` | FTypeOK, UniqueIds, ProcessorsUnderUs: ids are unique and the tables are the tree. Discovered: HWMAN comes to know all | 91 309 |
| `DataItf` | DTypeOK, NotStranded, NeverEarly in every environment; Synchronous: a calm interface with room has the same delay on every path; ImplementsLine: it is a delay line | 826 143 |
| `HwMan` | HTypeOK, Accounted: what is left of power, bandwidth and positions is what the loaded waveforms leave. Gapless, IndexesAgree: HWMAN's numbers are the kernel's and the mapper's | 430 328 |
| `Sync` | STypeOK, SlotsAgree: a slave that has taken over a slot is at most one behind and three ahead. KeepsAsking: it goes on asking | 68 082 |
| `Stats` | VTypeOK in every environment. Where things are in order (`Orderly`), Registered: who registered is found, and owns its variable; NothingLeft: who closed leaves nothing. CallsEnd: every call returns, also while objects crash. The last three unless a packet is dropped | 229 097 |

Every property of these runs is violated by a plausible bug in the code (`PROJECT.json`, "mutants"; the
`Mutant...` definitions stand beside what they change).

### The run that disagrees with what the code says of itself

`Waveform_AbortOnlyOnFailure` checks AbortOnlyOnFailure: only a failure aborts a waveform. A STEP queued
behind a change is carried out without the PAUSE translation of the direct path, and the report
of its objects aborts the healthy waveform (`swman_cmds.c:683`; lines 180-183 say that the queued status
is executed when all objects have finished their change).

### Further disagreements

No run is kept for these. Where a property is named it is stated in the module, and TLC finds
the counterexample with the constants given (of the module's run where nothing is said; `Waveform`
and `ProcStatus`: one object, `Limit` 1, `MaxQueue` 2 or less).

| Property | Constants | What happens |
|---|---|---|
| `OkReportIsExact` (`ProcStatus`) | Orderable RUN, STOP | EXEC confirms the live entry (`exec_cmds.c:606`) but reports its copy: an object that aborted meanwhile is reported as changed; `OkReportIsTrue` is what holds |
| `KilledOnlyIfUnchanged` (`ProcStatus`) | Orderable RUN, STOP | an order for the status the object already has is accepted, never progresses, and the object is killed at the limit for not changing (`exec_cmds.c:628`) |
| `WaitIsConfirmable` (`ProcStatus`) | Orderable RUN, STOP | ClosePHAL (`phal_services.c:208`) waits for the confirmation of a stop that its only status_get has just announced; EXEC ends the wait by killing the object |
| `NoOrphans` (`Waveform`) | Orderable RUN, STOP; MaxCmds 3 | a second status ordered while one is queued makes SWMAN drop the waveform with its objects running (`swman_cmds.c:571`; `swman_cmds.c:182` speaks of a queue of length 1) |
| `AbortOnlyOnFailure` (`Waveform`) | Orderable RUN, STOP; MaxCmds 2 | STOP passes the test for objects that are changing (`swman_cmds.c:190`), they refuse it, and the waveform is aborted |
| `AbortCompletes` (`Waveform`) | two objects, no commands, crash, fairness; MaxQueue 3, nothing lost | an abort while an object has not started gives up at it (`swman_cmds.c:661`) and does not reach the others |
| `StopReported` (`Waveform`) | Orderable STOP, crash, fairness; MaxQueue 3, nothing lost | an object that dies between STOP and its confirmation is forgotten without a report (`exec_cmds.c:591`) |
| `LoadEnds` (`SwLoad`) | MaxQueue 9, so that nothing is lost | after a failed executable the next is not requested: what is behind it is neither loaded nor reported (`swload_cmds.c:346`; `swman.c:56` says that a request ends in one of four answers). Of two waveforms that wait for a failed executable one is told (`swload_cmds.c:350`) |
| `LoadCompletes` (`SwLoad`), without `lost` | | a packet that FRONTEND drops at SWLOAD's or SWMAN's full queue is never sent again (`frontend.c:503`; SWMAN sleeps a millisecond now and then for that, `swman_cmds.c:934`), and the waveform is loading for ever |
| `ChecksumTells` (`SwLoad`) | `Environments` with nothing missing and no failures | LOADEND's checksum is to tell that "all is ok" (`swload_cmds.c:433-436`), but is a sum of bytes, and does not when packets are dropped. An executable that is still in the queue is requested again at the next load command. Of its first download the first piece and LOADEND are dropped, so that the second piece is saved in the place of the first; of the second download LOADSTART, which would reset the checksum (but not `rpm`, where the next piece goes), and the second piece are dropped: the first piece is saved behind the second, the sum is that of the image, and a process is started from its pieces in the wrong order. Or only LOADEND of the first download is dropped, another executable is received into the shared buffer and launched, and of the repeated download LOADSTART is dropped: its pieces do not fit any more (`swload_cmds.c:327`; the result -1 passes the test for 0 at `:379`), and LOADEND finds the sum of the first time with the other executable in the buffer |
| `StopCompletes` (`Waveform`), without `lost` | two objects, Orderable RUN, STOP; MaxQueue 1, MaxCmds 2 | orders STOP that find no room in EXEC's queue are dropped and not repeated: the objects run on, and the waveform waits for their reports for ever |
| `LaunchedIsComplete` (`SwLoad`), without its precondition on reads | failure "read" | a read error (-1) is stored as a size of 0 by `pkt_put` and ends the download with a valid checksum (`swman_cmds.c:929`): a truncated image is launched |
| `SurvivorsRun` (`SchedChain`) | N 4, `TwoCrashes` | `remove_process` looks neither at pid nor at obj_id (`hwapi_backd_processes.c:186`): the entry of the first dead object is renumbered at the second death, a token too many is posted, and the rest of the chain starves (`hwapi_linux_base.c:467`: "wait for next timeslot") |
| `SurvivorsRun` (`SchedChain`) | failure "early" | a death while objects are being launched leaves a position that nothing posts |
| `SurvivorsRun` (`SchedChain`) | failure "kill" | the token `remove_process` posts is taken by an object that moved up while it was running |
| `OncePerSlot` (`SchedChain`) | no deaths | the initial tokens give an object several turns in a slot |
| `ProcessorsUnderUs` (`Frontend`) | `Networks <- Fork` | two PEs below a PE that is not the root ask for the same provisional id; the answers go to the entry put last (`frontend.c:639` finds the latest that asked for that id), so that the table ("keeping ids for processors under us", `frontend.c:94`) leads to the wrong son |
| `AllKnown` (`Frontend`) | `Networks <- Early` | the announcement of a PE that comes before HWMAN is attached is discarded, and never repeated (`first_monitor`, `frontend.c:681`) |
| `AllKnown` (`Frontend`) | network `Quiet` | a PE that HWMAN dropped goes on reporting itself, but `hwman_incmd_updcpu` does not add it again (`hwman_cmds.c:705`) |
| `AllKnown` (`Frontend`) | Room 1 | packets that do not fit are lost without notice |
| `InternalRestored` (`HwMan`) | | an internal link is taken from *all* processors (`hwman_cmds.c:567`) and given back to one PE's (`hwman_cmds.c:926`) |
| `HwmanLives` (`HwMan`) | `AnyGone` | HWMAN stops at `assert(pe)` (`hwman_cmds.c:888`) when a waveform is removed whose PE was dropped |
| `IndexesAgree` (`HwMan`), without its precondition `OnlyLast` | `AnyGone` | a processor that was dropped, unless it was announced last, leaves a hole in the mapper's indexes |
| `Gapless` (`HwMan`), without its precondition | user `Hasty` | a waveform that is loaded while another is being removed gets positions that HWMAN and the kernel do not share |
| `Gapless` (`HwMan`), without its precondition `OnlyLast` | `AnyGone` | a mapping that gives up because a processor was forgotten keeps the power and the positions it took, and the next waveform is numbered behind them (`hwman_cmds.c:488`) |
| `Accounted` (`HwMan`) | `Star`, `SameIds` | an external interface is looked up by its id in *any* PE (`hwman_cmds.c:898`): where two PEs have equal ids the bandwidth goes to the wrong one. The theorem has `DistinctIds` as its hypothesis |
| `Converges` (`Sync`) | | with a slow network all answers are rejected, and the period keeps every request in the same part of the master's slot |
| `Aligned` (`Sync`) | | the slave's timer is set from its next slot on, and not from the answer |
| `KeepsAsking` (`Sync`), without its precondition | lost packets | one lost packet ends the synchronisation (`sync.c:237`) |
| `SlotsAgree` (`Sync`), without its precondition | period shorter than two delays | an answer that is applied after the next request was sent spoils the measured round trip |
| `SlotsAgree` (`Sync`) | SlotLen 4, Second 12, Period 6; continuous with `tasks` 2 and delay 7 | every client adds a periodic function that sends to *every* continuous client, so that each has two packets a slot (`sync_master.c:80`); the slave takes the second for another slot and gets more than three ahead |
| `SlotsAgree` (`Sync`) | Second no multiple of SlotLen | the master computes with the microseconds of its second only, and is wrong where a slot spans two |
| `CallsReturn` (`Stats`) | `VStrongSpec`, `Environments <- Torn` | STATS looks at stat_id and opts without `sem_var` (`stats_cmds.c:911`) while `hwapi_var_create2` fills the entry (`hwapi_linux_var.c:174`): it takes the old mark for a request, deletes the variable, and `InitParamFile` waits for ever (`phal_services.c:604`: "@return 1 if ok 0 if error") |
| `ReportsServed` (`Stats`) | three reports | after a removal only the reports before the next gap are served (`stats_cmds.c:199`) |
| `SetHits` (`Stats`) | | a value set by the user reaches the variable that has the entry by then |
| `Registered` (`Stats`), without its precondition `Orderly` | faults "crash", "soon", "slow" | STATSMAN keeps the obj_id of a crashed object (`statsman_cmds.c:180`) and a parameter is not found; an object that opens at once what it has just closed can have its new request seen before its old close, which then undoes it; an answer that comes after `InitStat` gave up marks the next owner of the entry (`stats_cmds.c:303`) |
| `Registered` (`Stats`), without its precondition `Orderly` | an object that asks for a parameter file and has none | its record in STATSMAN is made by the request (`statsman_cmds.c:180`) and never removed; when the object is launched again the record still has the old obj_id, and the first report of its statistic is taken for one of an object that is gone, which closes the statistic (`statsman_cmds.c:240`) |
| `NothingLeft` (`Stats`), without its precondition `Orderly` | | the record of an object without a parameter file stays in STATSMAN; so does that of an object for whose `CloseParamFile` there is no room in the table, and variables of crashed objects; from three reports on one can be hidden and stay |

Read in passing, outside of the models: `ext_obj_delay` is added to a type that BRIDGE's header does
not carry, so it has no effect (`hwapi_linux_itf.c:591`, `:612`); the option "blocking" is overwritten by
IPC_NOWAIT (`hwapi_linux_itf.c:614`); `ReadItf` truncates longer packets where its comment speaks of joining and
splitting (`phal_services.c:545`); `bridge_rmitf_i` removes the callback of interface 0 (`bridge_cmds.c:334`);
`swman_incmd_statusrep` uses `app->name` after `app_delete` (`swman_cmds.c:697`-`:707`); a full table makes `hwapi_var_create2` lose the
memory it allocated (`hwapi_linux_var.c:149`), `hwapi_var_getID` posts a semaphore it did not take; a continuous
master with two clients sends each of them two packets per slot (`sync_master.c:80`).

### Bounds

* `Objects`: the entries of the database do not depend on each other but through EXEC's one pass
  and the two queues. One object meets every order of the critical sections (EXEC's copy of it ages while
  it is killed and while the report queue is full); two (`WaveformTwo`) meet the pass in which one entry ages while
  the other is served, and SWMAN's barriers. The theorems hold for any set.
* `Limit` 0 or 1: a change is late or it is not. `Dates` {0, 1}: due now, and due later.
* `Orderable`: the statuses that take different paths (RUN runs user code for ever and INIT once, STEP is confirmed by
  the object itself, STOP ends it). PAUSE is reached through STEP, ABNSTOP through failure.
* `MaxQueue` is the room in each daemon's queue, small so that packets are dropped: 1 in `ProcStatus`, 2 in `Waveform` and
  `WaveformTwo` (of two orders sent at once none, one or both arrive), 3 in `SwLoad` (a download is four packets) and in `Stats`. In
  `WaveformStop` 3 is enough that the orders and reports of one stop can all arrive, as StopCompletes says nothing after a
  loss. A queue of the code takes 20 packets of full size (`MSG_QBYTES`) and many more orders: LOADING packets are of full
  size. The theorems hold for any room.
* `MaxCmds` 3: a first status, one queued behind it, and one too many.
* `Packets` 2: an image can be half one and half another. `Apps`: three waveforms with three executables
  give one shared by two waveforms, one twice in a waveform, and one of its own.
* `SchedChain`: `N` 3, a dead object, one before and one behind it, or any that die together. `MaxSem` 3:
  `SEM_VALUE_MAX` in small; no run depends on a token that is lost there.
* `Frontend`: up to four PEs give every shape of a tree that differs (two sons of the root, a chain, both);
  `Room` 6 is more than the packets of an exchange on a link.
* `DataItf`: `Delay` 1 and two packets a turn give queues in which packets of different turns wait together;
  three turns reach the state in which every queue holds the packets of different turns. The room is just enough, and too
  small by half. The theorems are about any values.
* `HwMan`: a PE with two cores and one with one; a waveform with a link that is internal or
  external depending on the mapping, and a second waveform; `Capacity` 2 makes mappings fail; three loads are a load, a failure or
  stop, and a load into what was given back.
* `Sync`: a slot of 5 instants and delays of 4 and 8 give answers in the same slot, the next, and too late;
  `Skews` far behind, level and far ahead. `MaxBehind` only bounds how long a master without packets is looked at.
* `Stats`: three variables for two objects that want up to two each: the table is full at times.
  Each object lives up to twice, the user gives three commands, two reports.
* `Failures` names what goes wrong in a run; a run with fewer failures asks a question that the
  omitted failure would answer trivially (a waveform with a crashed object is *rightly* aborted).

### Fairness

* `ProcStatus`, `Waveform`: weak fairness of `Tick` and of EXEC's steps (the kernel posts the slot and
  the daemons' semaphore in every slot), of `Reap` (SIGCHLD is delivered), in `Waveform` of SWMAN reading its
  queue. In `ProcStatus`, where SWMAN is arbitrary and may never read, strong fairness of `BackgroundStart`: `exec_process_cmd()`
  returns to the main loop again and again, that is, orders do not come faster than EXEC takes them. In
  `Waveform` the commands are bounded and weak fairness is enough. *Nothing* is assumed of an
  object: user code may hang, which is why EXEC has time limits.
* `SwLoad`: both daemons go on while there is something in their queues.
* `Frontend`: every PE starts, every queue that holds something is read in the end. `Discovered`
  needs no more because HWMAN asks all BRIDGEs again at every announcement (`hwman_incmd_addcpu`): the last PE to be announced
  makes it ask when it knows all.
* `Sync`: time passes, the kernel's timer and the daemons run. Packets are lost at will where the environment says so.
* `Stats`: STATS and STATSMAN run on, an object in a call goes on looking at its mark (each turn of its core). No
  fairness of the objects' own decisions, of crashes and of the user. `VStrongSpec` adds that who waits for `sem_var`
  gets it in the end; it is only used for `CallsReturn` with `Torn`.
* `SchedChain`: every object is launched in the end, the kernel's steps happen, an object's turn ends.
  `syncTslot` is enabled when the objects are done: the slot is long enough (otherwise the
  real-time check reports a fault, which is not modelled).

Deadlock is checked in `ProcStatus`, `Waveform`, `SchedChain` and `Stats`, where daemons and time go on
for ever. The other configurations say `CHECK_DEADLOCK FALSE`: loading and registration end, the
turns of `DataItf`, the loads of `HwMan` and the losses of `Sync` are bounded.

## 4. What is proved

### The status protocol

From `ConstAssumption` alone (`Limit` and `MaxQueue` are numbers, the orders are statuses), for any
set of objects, any limit, any queue length and any failures:

| Theorem | Statement |
|---|---|
| `TypeCorrect` | `Spec => []TypeOK` |
| `ForgottenDead` | `Spec => []ForgottenIsDead`: no object whose process may run is forgotten |
| `OrdersNotOverwritten` | `Spec => OrderNotOverwritten`: an order in progress is replaced only by the object's own ABNSTOP |
| `OkReportsTrue` | `Spec => OkReportIsTrue`: a positive report is about a change that was made |
| `StatusChangesAreHandshakes` | `Spec => ImplementsHandshake`: refinement of `StatusHandshake` |

None of these is inductive: EXEC acts on a copy, so what it does to an entry is right only because
of what the entry was when the copy was taken. The invariant is

```
IInv == TypeOK /\ ForgottenIsDead /\ CopyIsOlder /\ SteppingInv /\ CompletedInv
```

`CopyIsOlder`: what EXEC still has to look at has not been forgotten, and a process dead in the copy
is dead (pids only vanish). `SteppingInv`: the single step, which the object confirms to itself, has not
been confirmed by EXEC meanwhile. `CompletedInv`: a change that the copy shows as completed is
unconfirmed in the database too and was overtaken at most by ABNSTOP. The proof has lemmas for the three critical
sections (`StatusGet`, `StatusNew`, `StatusAck`), one lemma for what an object does (`ObjectStep`),
one for EXEC, and a case per action.

The refinement needs more: `HandInv == RunningHasPid /\ AtRest /\ CopyStarted` (a running process
has its pid in the database; an entry at rest has nothing to change to; EXEC's copy does not show an object
that was never created). Lemmas `HandGet`, `HandOrder`, `HandAck`, `HandTerminated` map the critical
sections to the handshake, `ObjectHand` and `ExecHand` every action to a step or a stutter.

### Data interfaces

From `DataItfAssumption` alone, for every delay, rate, room and environment:

| Theorem | Statement |
|---|---|
| `TypeCorrect` | `DSpec => []DTypeOK` |
| `NeverStranded` | `DSpec => []NotStranded`: a BRIDGE never sleeps on a message |
| `ReadWhenDue` | `DSpec => NeverEarly`: nothing is read before it is due |
| `Implements` | `DSpec => ImplementsLine`: refinement of `DelayLine` |
| `SynchronousEver` | `DSpec => []Synchronous`: a calm interface with room loses nothing and leaves nothing overdue |

The invariant is `IInv == Scalars /\ Carries(q) /\ Owed`. NotStranded is not inductive: a BRIDGE that
gives up at a full queue stops reading with messages left, and nothing in NotStranded says that a signal is left for
them. `Owed` does: there are never more messages in a queue than signals, one more if its BRIDGE is reading.
`Carries` says what travels: every header holds the turn the message is due in, whatever type
a BRIDGE gives it, and what has reached the reader's queue has a type of at least that turn. There is a
lemma for each helper (`PutCarries`, `TailCarries`, `WithoutSeq`, `PutOwed`) and one for each action.

`Implements`, the refinement, uses `LineInv`: without datagrams that overtake each other, the three queues read from the
reader back to the writer (`Under`) are sorted by turn, and nothing of an interface within a PE is in a BRIDGE. A
BRIDGE's step is a stutter or a loss of the line, an object's is a `Turn`, `Write` or `Read`; what the reader
receives is the head because types follow turns. Sortedness is preserved by whatever maps to
a step of the abstract line, so that the lemma `LineStep` serves the invariant and the refinement.

`SynchronousEver` needs two things at once, in `SyncInv`. `Counted`: of the turns after any x no more packets are under
way than the rate allows. `CalmInv`: objects in a calm environment are in the same slot, and nothing under
way is older than `Delay` turns. Together at most Delay + 1 turns' packets share a queue, which is the room
`EnoughRoom` gives, so that nothing is lost; neither half is inductive alone.

### Waveform

| Theorem | Statement |
|---|---|
| `WTypeCorrect` | `WSpec => []WTypeOK` |
| `BarrierHolds` | `WSpec => []StartBarrier`: no object runs before all have started |
| `ViewIsRealEver` | `WSpec => []ViewIsReal`: an object SWMAN holds to be in the waveform's status is in it, or has aborted since |

`BInv == WTypeOK /\ RunHeld /\ KnownStarted`. `StartBarrier` speaks of the database, but SWMAN decides on its view:
`KnownStarted` says that a report of success, a known place and a view other than "nothing" or "stopped" all come from
objects that have started; `RunHeld` that RUN is not even *ordered* before all have. The lemma
`Batch` says what `swman_sendobjstatus` sends, at whatever object it gives up and whichever of its orders FRONTEND drops.

Neither theorem needs that packets arrive: a dropped order leaves its object where it is, and a dropped report leaves SWMAN with the view
it had. The invariants hold for what is on its way, and no part of them says that something is.

`ViewIsReal` relates a report SWMAN has taken to an entry that has gone on meanwhile: the object may have been ordered
something else, have aborted, been killed or forgotten since, and more reports may be under way. The invariant is
`VInv == BInv /\ IInv /\ GInv /\ Beliefs`, with the `IInv` of the status protocol. `Beliefs` follows one object
through everything that is under way for it (`OInv`): the orders EXEC has not read, the change in its entry,
EXEC's copy, the reports SWMAN has not read. Its parts say

* `Faithful`: a view that counts is the object's status, and nothing but a stop is ordered or entered behind it;
* `GoodNews`, `BadNews`, `DeadNews`: what a report under way says of the object now. A report of a change that the
  waveform waits for is the first one, and the object has not moved from what it says unless it stops; a
  report of anything else comes from an object on its way out (`Leaving`);
* `NextNews`, `Settled`, `Waiting`: what EXEC is about to confirm; that an object whose view is the waveform's status has
  completed its change; that orders other than stops find a settled object;
* `GivenUp`, `StopOrdered`, `StopEntered`, `StopCopied`, `StopTold`: the hard part. SWMAN may order something new
  while an object it has given up is still alive, and the object may yet report a stop that it was ordered before. The
  stop is sealed: behind it comes nothing else, and either the waveform is being stopped, or it goes on without the object, of
  which no good news will come (`Hopeless`).

`GInv` is what all objects share: nobody has heard of an object before it is launched (`Unheard`), EXEC kills one at a
time, an object that aborts holds the order ABNSTOP. The lemmas are about one event each: `Moves` (the object
takes a turn), `Dies`, `Accepts` (EXEC enters an order), `Copied`, `Confirms` and `ConfirmsUnheard` (EXEC confirms a change, and its report arrives or is dropped), `TakeOwn` and
`TakeOther` (SWMAN takes a report),
`SendStop` and `SendOn` (SWMAN sends orders); they take the queues and the view as parameters, because
`swman_incmd_statusrep` takes a report, aborts, and sends the queued status in one step. `ObjListAssumption` says that SWMAN's
set of objects has each object once, so that one command sends no object two orders (`BatchOnce`).

### Execution chain

| Theorem | Statement |
|---|---|
| `CTypeCorrect` | `CSpec => []CTypeOK`: no position of a living object leaves the array of semaphores |
| `NoGapEver` | `CSpec => []NoGap`: between removals the living are numbered 0, 1, ... |

`SInv == CTypeOK /\ Sleepers /\ Chained`. NoGap says nothing of the middle of a removal, in which objects run: `Numbered`
does. Every object listed has as its position the number of those listed before it (`Rank`), or one more if the
loop of `remove_process` has not come to it. Until the last object is launched the positions are HWMAN's (`Launching`). Both need
that nobody dies while objects are launched: under failure "early" NoGap claims nothing, since the
code does leave a gap then (section 3).

### Loading

| Theorem | Statement |
|---|---|
| `LTypeCorrect` | `LSpec => []LTypeOK` |
| `LaunchedOnceEver` | `LSpec => []LaunchedOnce`: no object is launched twice |
| `Intact` | `LSpec => LaunchedIsComplete`: what is launched is launched from its own whole image, unless a packet of its download was dropped |

`LInv == LTypeOK /\ WellFormed(down_q, exeid) /\ Once /\ Whole`. The download queue holds every executable once, under an
id and a name of its own, and with objects that have not been launched. None of this needs that packets arrive. `Whole` is about the one buffer that
downloads share, and about losses: a download one of whose packets was dropped (its id is in `lost`) may be in any state, and the others
must not suffer from it. In SWLOAD's queue a packet of a download without a loss is followed by the next one of the same download
(`Stream`: a packet that is dropped puts its id into `lost`, so a gap is never between packets of one that counts), an id means the same
executable wherever it is (`Names`), and an executable in the queue has lost a packet, or is untouched, or the buffer holds what it has
received and its next piece is the next packet (`Open`). At LOADEND the last case is the only one left, as the checksum of an untouched
executable is not that of an image. `Passed` is what FRONTEND does to a packet: it arrives, or its id is in `lost`. `Whole` assumes that SWMAN can
read what it sends ("read" not among the failures): a read error does end a download early (section 3).

### HWMAN

| Theorem | Statement |
|---|---|
| `HTypeCorrect` | `HSpec => []HTypeOK` |
| `AccountedEver` | `DistinctIds` implies `HSpec => []Accounted`: power, objects and external bandwidth are what the loaded waveforms leave |
| `IndexesAgreeEver` | `HSpec => []IndexesAgree`: the mapper's indexes lead to the processors |
| `GaplessEver` | `HSpec => []Gapless`: when all is at rest the processes of every core stand at 0, 1, ... |

The invariant `HInv` has a part for each thing the books rest on. `Ordered`: the packets under way show that a waveform whose
MAPOBJ is handled holds nothing, since the UNMAPOBJ of its last load comes before. `Placed`: what is held is
held of processors that exist. `Books` and `Wires`: what is left of a processor and of an interface, as a sum over what
is held of it (`Held`, `Carried`), which do_mapping and free_resources change by disjoint sets, so that the
lemmas on sums of `Counting` apply. `Indexed` and `Powers`: that power does not become negative, because the
mapper's copy `plat.C`, by which `Fits` measures, is `C` under the index of each processor. The hypothesis
`DistinctIds` (every external interface has an id of its own) is what the code's lookup by id needs.

`GaplessEver` is about two daemons that number the same processes: HWMAN by counting (`nof_objects`), the kernel by removing. Counting is
exact where at most the processor announced last is forgotten (`OnlyLast`, which `Books` therefore assumes for the
number of objects). `GInv == HInv /\ (Quiet => Stuck \/ Serially)`, where `Quiet` are the environments `Gapless` speaks of.
`Serially`: one waveform at a time has something under way (`OneBusy`); the processes of a waveform are those of its phase (`Matching`);
and on every core those already loaded stand at 0, 1, ..., those to come hold the positions behind them (`Rowed`), and the
kernel's last position is that of a process (`Topped`). `NumbersJoin` and `NumbersLeave` are about such numberings,
`Ordinals` says that `do_mapping` makes one, and when a mapping comes, what HWMAN counts on a core (`Held`) is what runs there.
The other case is `Stuck`: a load failed after some of its processes had started. Nothing ends them, a waveform of
that name is never loaded again, the user who waits for HWMAN to be at rest waits for ever, and `Gapless`
claims nothing any more. What it does claim of failed loads is about those that fail before a process runs.

### Frontend: registration

| Theorem | Statement |
|---|---|
| `FrontendTypes` | `FSpec => []FTypeOK` |
| `IdsAreUnique` | `FSpec => []UniqueIds`: no two PEs ever have the same id |

For any tree of PEs, any wires, faults and room of the queues. `UniqueIds` speaks of the ids PEs have; an id is
given at the root and then travels down the tree, found by the provisional ids, which are *not* unique. The invariant is
`FInv == FTypeOK /\ Places(q, Given) /\ Single(q) /\ Owned`. `Places`: requests climb, answers come down, and with an id
that the root has given. `Single`: no id is on its way twice. `Owned`: an id in use was given by the root, one PE uses it,
and it is on its way to nobody else. So a packet that is routed to the wrong son costs that son's sibling its answer, but never
makes two PEs equal. `PutKeeps`, `TookKeeps` and `OlderKeeps` say what sending, taking and losing packets do to
all three at once; `FreeIdIsFree` that the lowest free id of the root's table is nowhere in the tree.

### Statistics

| Theorem | Statement |
|---|---|
| `StatsTypes` | `VSpec => []VTypeOK`, in every environment |
| `RegisteredIsFound` | `VSpec => []Registered` |
| `NothingStays` | `VSpec => []NothingLeft` |

`Registered` and `NothingLeft` are about environments in order (`Orderly`: no faults, objects have the parameter files they ask
for, the table has room) as long as no packet has been dropped (`lost`, which stays once it is true); section 3 says what happens in others. For any number of objects, variables, reports and commands,
however often objects are launched again. Neither is inductive: that an object's variable is on STATSMAN's record when its call returns was
decided three packets earlier. `VInv == TInv /\ (Orderly /\ ~lost => OInv)`, where `OInv` follows a call and a close on all their ways:

* `Table`, `OneEach`: every used entry is an object's call, what it has open, or waits to be closed; an object has one entry of a kind;
* `Called`, `Open`: where a call stands, by the mark in its variable; what is open has an answer as its mark and is on STATSMAN's record;
* `Recorded` (`Stays`): what is on a record is open, or the close that will remove it is still to come, in the table or in STATSMAN's queue;
* `Mail` (`Request`, `Answer`), `Alone`: a packet of a call is about an object that waits for it, there is one packet a call, and
  behind a close of a statistic comes no use of it;
* `Seeing`, `Reporting`: the mark STATS has read is still there when it handles it; no report is of nobody.

### Synchronisation

| Theorem | Statement |
|---|---|
| `SyncTypes` | `Near` implies `SSpec => []STypeOK` |
| `SlotsAgreeEver` | `Near`, `Regular` imply `SSpec => []SlotsAgree`: at most one slot behind and three ahead |

For any slot length, second, period, limits, delays and initial distance. The hypotheses are about the constants and not about
behaviours, and hold in the run: `Near`, packets of a continuous master take less than two slots (more of them would be on
their way than `STypeOK` has room for); `Regular`, a second is a whole number of slots and a continuous master has one client. Section 3
has the counterexamples without `Regular`.

`SyncInv` has a part for each mode. `OnRequest` (under `Prompt`): one packet is under way at a time; `rtt` is the time since the request
(`Travelling`), because the slot after a request is never a shortened one; from then on half of it bounds the error of the
slot number, which `Answered`, `ToShorten` and `ToTake` carry through SYNC's two writes and the kernel's slot. `Agreed` says
it in *time*, the slave's lead over the master being between minus one slot and three. The slot numbers alone do not suffice: whether a slave two slots ahead gets
three ahead depends on where in its slot it is. `Driven` (continuous): the packets under way are numbered by
the slots they were sent in, and every one of them moves `sem_dac` on by one.

### Only model-checked

* Liveness under fairness (`ChangeEnds`, `DeadIsRemoved`, `StopCompletes`, `LoadCompletes`, `EveryoneRuns`, `Discovered`,
  `KeepsAsking`, `CallsEnd`): ENABLED and induction over behaviours are out of the prover's reach.
* `ProcessorsUnderUs` of `Frontend`: it relates every table to the whole tree below it, for which a proof needs induction over the
  tree; and it holds only in networks without two registrations below one son (section 3).

## 5. What is not modelled

* `sem_status` held by a process that dies: the critical sections are single steps.
* Reuse of a database entry of `proc_db`.
* The shared memory pool (`mem.c`), whose data overlaps the last slot flags (`mem.c:115`).
* EXEC's reports, execution statistics, real-time faults, logs; EXECINFO; debug mode; console commands.
* Creation and attachment of data interfaces and BRIDGE's table of them (`bridge_incmd_additf`), whose results are
  the initial state of `DataItf`.
* Restart of PEs and daemons: the code has no way to bring one back but as a new PE.
* An image larger than the buffer (LOADSTART prints an error and goes on): the images here fit.
* Packets of other daemons and waveforms in the queues of `Waveform`, `SwLoad` and `Stats`: a packet is dropped where those of the
  model fill the queue, which their short queues make frequent.
* Clocks that drift, and slots that the kernel misses (`hwapi_backd_exec.c:312`): `Sync` moves both clocks in lock-step. After a packet is
  lost the slave asks no more (`sync.c:237`), and `SlotsAgree` goes on to hold for that reason only.
* The exits of `do_mapping` at a link whose reader, or the reader's interface, the waveform does not have (`hwman_cmds.c:523`, `:541`): waveforms
  are well-formed. The exit at an external interface that is not found (`:560`): the placement asks for the interface
  (`Fits`).
* The removal of a PE that announces itself again in `HwMan` (`hwman_cmds.c:747`): FRONTEND announces its PE once (`frontend.c:680`).
  In `Frontend`, where two PEs with one id would meet there, it is modelled.
* The mapper's costs (floating point), sockets, parsing of configuration, start-up.
* Signal processing: by far most of the repository's C code are modules of waveforms (several copies of each), glue for
  Matlab and JACK, and tools. They are sequential numerical code without state that the middleware
  sees; to the models they are the user code that runs, fails or hangs. The share of lines that the
  models cover is small for that reason.

## 6. Plan

Written so far, in the order of importance: status protocol with its abstract specification, waveform,
loading, execution chain, coming together of PEs, data interfaces with their abstract specification,
HWMAN, synchronisation, statistics. What is left:

1. Proofs: of the safety properties the runs check, `ProcessorsUnderUs` of `Frontend` is the only one without.
2. `MemPool`: `mem_new`, `mem_alloc`, `mem_free`, with the data offset rounded down and
   allocations of size 0, against disjointness of allocations and of the slot flags.
3. `ProcDb`: creation, removal and reuse of entries (`pid` *or* `obj_id` 0); `SchedChain` on top of it.
4. `StatusLock`: `sem_status` split into its steps, with SIGTERM and SIGKILL inside.
5. BRIDGE's table of interfaces; an abstract loader (each object launched at most once, from its image)
   that `SwLoad` implements.
