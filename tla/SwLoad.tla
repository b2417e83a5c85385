------------------------------- MODULE SwLoad -------------------------------
(***************************************************************************)
(* The SWLOAD daemon of one processing element: it queues the executables  *)
(* of the objects it is to load, requests them one after the other from    *)
(* SWMAN, which sends each in packets, and launches the objects.           *)
(*                                                                         *)
(* The platform relocates executables itself (hwapi_proc_needsrelocate     *)
(* is 0), so one executable is requested for all its objects. SWMAN's part *)
(* (swman_incmd_execreq) is modelled too; it serves one request at a time, *)
(* while SWLOAD goes on taking commands. HWMAN is the environment: it      *)
(* sends the load command of each waveform once.                           *)
(*                                                                         *)
(* Packets go through FRONTEND, which drops what finds no room in the      *)
(* queue of the daemon it is for. Nobody hears of it: a sender waits for   *)
(* room in FRONTEND's queue only, which is a delay of its step here.       *)
(***************************************************************************)
EXTENDS Integers, Sequences, FiniteSets, SequencesExt

CONSTANTS
  Apps,      \* the waveforms
  ObjsOf,    \* the objects of each waveform on this processing element, in order
  ExeOf,     \* the executable of each object
  Packets,   \* LOADING packets an executable is sent in
  MaxQueue,  \* packets the queue of SWLOAD, and that of SWMAN, has room for
  Environments \* what may go wrong: the executables SWMAN cannot open (missing), and which of
               \* "read" (SWMAN cannot read on), "create" (hwapi_proc_create fails) and
               \* "itf" (configure_itfs fails) happen (failures)

Objects == UNION {ToSet(ObjsOf[a]) : a \in Apps}
Exes    == {ExeOf[o] : o \in Objects}
NoApp   == "no waveform"
NoExe   == "nothing"

AppOf(o) == CHOOSE a \in Apps : o \in ToSet(ObjsOf[a])

ASSUME LoadAssumption ==
  /\ Packets \in Nat \ {0} /\ MaxQueue \in Nat \ {0}
  /\ \A a \in Apps : ObjsOf[a] \in Seq(Objects) /\ ObjsOf[a] # <<>>
  /\ \A a, b \in Apps : a # b => ToSet(ObjsOf[a]) \cap ToSet(ObjsOf[b]) = {}

VARIABLES
  down_q,    \* SWLOAD's download queue; the last executable put in is its head
  exeid,     \* the next id of an executable
  procBuff,  \* the reception buffer: the piece of an image each part of it holds
  launched,  \* processes started for each object
  toSwman,   \* SWMAN's queue
  toSwload,  \* SWLOAD's queue
  lost,      \* history: the ids of executables of whose packets FRONTEND has dropped one
  sending,   \* the download SWMAN is sending, if any
  app,       \* each waveform's loading, as SWMAN knows it
  env        \* the environment of this run; never changes

swload == <<down_q, exeid, procBuff, launched>>
lvars  == <<swload, toSwman, toSwload, lost, sending, app, env>>

\* the part-th piece of an executable's image
Piece == [name : Exes, part : 1..Packets]
NoPiece == [name |-> NoExe, part |-> 0]

\* a checksum tells which pieces of an image were counted, and how often, but not in which order
Checksums == [1..Packets -> Nat]
SumTo(k)  == [p \in 1..Packets |-> IF p <= k THEN 1 ELSE 0]

Exe == [id : Nat, name : Exes, objs : Seq(Objects),
        rpm : 0..Packets,      \* packets saved
        checksum : Checksums,  \* of the packets saved since LOADSTART
        data : BOOLEAN]        \* LOADSTART was received

ToSwman  == [cmd : {"EXECREQ"}, id : Nat, name : Exes] \cup [cmd : {"EXECERR"}, app : Apps \cup {NoApp}]
ToSwload == [cmd : {"EXECERR"}, name : Exes] \cup [cmd : {"LOADSTART"}, id : Nat]
            \cup [cmd : {"LOADING"}, id : Nat, data : Piece]
            \cup [cmd : {"LOADEND"}, id : Nat, checksum : Checksums]

LTypeOK ==
  /\ down_q \in Seq(Exe)
  /\ exeid \in Nat
  /\ procBuff \in [1..Packets -> Piece \cup {NoPiece}]
  /\ launched \in [Objects -> Nat]
  /\ toSwman \in Seq(ToSwman) /\ Len(toSwman) <= MaxQueue
  /\ toSwload \in Seq(ToSwload) /\ Len(toSwload) <= MaxQueue
  /\ lost \in SUBSET Nat
  /\ sending \in SUBSET [id : Nat, name : Exes, sent : 0..Packets] /\ \A s, t \in sending : s = t
  /\ app \in [Apps -> {"unloaded", "loading", "failed"}]
  /\ env \in Environments

LInit ==
  /\ down_q = <<>>
  /\ exeid = 0
  /\ procBuff = [i \in 1..Packets |-> NoPiece]
  /\ launched = [o \in Objects |-> 0]
  /\ toSwman = <<>>
  /\ toSwload = <<>>
  /\ lost = {}
  /\ sending = {}
  /\ app = [a \in Apps |-> "unloaded"]
  /\ env \in Environments

-----------------------------------------------------------------------------
\* index in the queue, 0 if absent (Set_find with downexe_findid, downexe_findname)
MutantFindId(id) == IF down_q = <<>> THEN 0 ELSE 1
FindId(id)     == SelectInSeq(down_q, LAMBDA e : e.id = id)
FindName(q, n) == SelectInSeq(q, LAMBDA e : e.name = n)

\* bridge() of FRONTEND: hwapi_itf_snd does not wait for room, and nobody looks at what it returns
MutantForwarded(q, m) == Append(q, m)
Forwarded(q, m) == IF Len(q) < MaxQueue THEN Append(q, m) ELSE q
Missed(q, m)    == IF Len(q) < MaxQueue \/ m.cmd = "EXECERR" THEN lost ELSE lost \cup {m.id}

\* daemon_sendto, to SWMAN and to SWLOAD
Tell(m) == toSwman' = Forwarded(toSwman, m) /\ lost' = Missed(toSwman, m)
Send(m) == toSwload' = Forwarded(toSwload, m) /\ lost' = Missed(toSwload, m)

\* request_exec and load_error
MutantRequestHead(q) == UNCHANGED <<toSwman, lost>>
RequestHead(q) ==
  IF q = <<>> THEN UNCHANGED <<toSwman, lost>>
              ELSE Tell([cmd |-> "EXECREQ", id |-> q[1].id, name |-> q[1].name])
\* only the waveform of the executable's first object is named, and none is if the
\* executable is unknown; the next executable is not requested
MutantLoadError(i) ==
  IF i = 0 THEN UNCHANGED down_q /\ Tell([cmd |-> "EXECERR", app |-> NoApp])
           ELSE /\ down_q' = [down_q EXCEPT ![i].rpm = 0]
                /\ Tell([cmd |-> "EXECREQ", id |-> down_q[i].id, name |-> down_q[i].name])
load_error(i) ==
  /\ down_q' = IF i = 0 THEN down_q ELSE RemoveAt(down_q, i)
  /\ Tell([cmd |-> "EXECERR", app |-> IF i = 0 THEN NoApp ELSE AppOf(Head(down_q[i].objs))])

\* one object of a load command joins the queue: with its executable, if that is in it
Queued(s, o) ==
  LET i == FindName(s.q, ExeOf[o])
      new == [id |-> s.id, name |-> ExeOf[o], objs |-> <<o>>, rpm |-> 0, checksum |-> SumTo(0),
              data |-> FALSE]
  IN  IF i # 0 THEN [s EXCEPT !.q[i].objs = <<o>> \o @]
               ELSE [q |-> <<new>> \o s.q, id |-> s.id + 1]

\* the queue and the next id after all objects of a load command have joined, one after the other
Joined(objs) ==
  LET joined[n \in 0..Len(objs)] ==
        IF n = 0 THEN [q |-> down_q, id |-> exeid] ELSE Queued(joined[n - 1], objs[n])
  IN  joined[Len(objs)]

\* the command of HWMAN for waveform a
swload_incmd_loadobj(a) ==
  LET s == Joined(ObjsOf[a]) IN
  /\ app[a] = "unloaded"
  /\ app' = [app EXCEPT ![a] = "loading"]
  /\ down_q' = s.q /\ exeid' = s.id
  /\ RequestHead(s.q)
  /\ UNCHANGED <<procBuff, launched, toSwload, sending>>

Received(cmd) == toSwload # <<>> /\ Head(toSwload).cmd = cmd /\ toSwload' = Tail(toSwload)

swload_incmd_loadstart ==
  /\ Received("LOADSTART")
  /\ LET i == FindId(Head(toSwload).id) IN
       \/ i = 0 /\ load_error(0)
       \/ /\ i # 0
          /\ down_q' = [down_q EXCEPT ![i].data = TRUE, ![i].checksum = SumTo(0)]
          /\ UNCHANGED <<toSwman, lost>>
  /\ UNCHANGED <<exeid, procBuff, launched, sending, app>>

\* save_packet: a packet beyond the announced length is dropped without being counted, and loading
\* goes on (save_packet returns -1 for it, and is tested for 0)
swload_incmd_loading ==
  /\ Received("LOADING")
  /\ LET i == FindId(Head(toSwload).id)
         e == down_q[i]
         piece == Head(toSwload).data
         expected == i # 0 /\ e.data
     IN  \/ /\ ~expected
            /\ load_error(i)
            /\ UNCHANGED procBuff
         \/ /\ expected
            /\ down_q' = IF e.rpm = Packets THEN down_q
                         ELSE [down_q EXCEPT ![i] = [e EXCEPT !.rpm = @ + 1, !.checksum[piece.part] = @ + 1]]
            /\ procBuff' = IF e.rpm = Packets THEN procBuff ELSE [procBuff EXCEPT ![e.rpm + 1] = piece]
            /\ UNCHANGED <<toSwman, lost>>
  /\ UNCHANGED <<exeid, launched, sending, app>>

\* swload_launchall starts the objects in turn, until hwapi_proc_create fails
Launched(e, n) ==
  [o \in Objects |-> launched[o] + IF \E j \in 1..n : e.objs[j] = o THEN 1 ELSE 0]

swload_incmd_loadend ==
  /\ Received("LOADEND")
  /\ LET i == FindId(Head(toSwload).id)
         e == down_q[i]
         complete == i # 0 /\ e.checksum = Head(toSwload).checksum
     IN  \/ /\ ~complete
            /\ load_error(i)
            /\ UNCHANGED launched
         \/ /\ complete /\ "create" \in env.failures
            /\ \E n \in 0..Len(e.objs) - 1 : launched' = Launched(e, n)
            /\ load_error(i)
         \/ /\ complete /\ "itf" \in env.failures
            /\ launched' = Launched(e, Len(e.objs))
            /\ load_error(i)
         \/ /\ complete
            /\ launched' = Launched(e, Len(e.objs))
            /\ down_q' = RemoveAt(down_q, i)
            /\ RequestHead(down_q')
  /\ UNCHANGED <<exeid, procBuff, sending, app>>

swload_incmd_execerr ==
  /\ Received("EXECERR")
  /\ LET i == FindName(down_q, Head(toSwload).name) IN
       \/ i = 0 /\ UNCHANGED <<down_q, toSwman, lost>>
       \/ i # 0 /\ load_error(i)
  /\ UNCHANGED <<exeid, procBuff, launched, sending, app>>

Swload == \/ swload_incmd_loadstart \/ swload_incmd_loading \/ swload_incmd_loadend
          \/ swload_incmd_execerr

-----------------------------------------------------------------------------
(***************************************************************************)
(* SWMAN: swman_incmd_execreq sends a whole executable before the next     *)
(* command is read.                                                        *)
(***************************************************************************)
ExecReq ==
  /\ sending = {} /\ toSwman # <<>> /\ Head(toSwman).cmd = "EXECREQ"
  /\ toSwman' = Tail(toSwman)
  /\ LET r == Head(toSwman) IN
       \/ /\ r.name \in env.missing
          /\ Send([cmd |-> "EXECERR", name |-> r.name])
          /\ UNCHANGED sending
       \/ /\ r.name \notin env.missing
          /\ Send([cmd |-> "LOADSTART", id |-> r.id])
          /\ sending' = {[id |-> r.id, name |-> r.name, sent |-> 0]}
  /\ UNCHANGED <<swload, app>>

SendPart ==
  /\ \E s \in sending :
       \/ /\ s.sent < Packets
          /\ Send([cmd |-> "LOADING", id |-> s.id, data |-> [name |-> s.name, part |-> s.sent + 1]])
          /\ sending' = {[s EXCEPT !.sent = @ + 1]}
       \/ /\ s.sent < Packets /\ "read" \in env.failures     \* pkt_put takes an error for the end
          /\ Send([cmd |-> "LOADEND", id |-> s.id, checksum |-> SumTo(s.sent)])
          /\ sending' = {}
       \/ /\ s.sent = Packets
          /\ Send([cmd |-> "LOADEND", id |-> s.id, checksum |-> SumTo(Packets)])
          /\ sending' = {}
  /\ UNCHANGED <<swload, toSwman, app>>

\* swman_incmd_apperror: the waveform is dropped; a packet that names none is an error
swman_incmd_apperror ==
  /\ sending = {} /\ toSwman # <<>> /\ Head(toSwman).cmd = "EXECERR"
  /\ toSwman' = Tail(toSwman)
  /\ app' = [a \in Apps |-> IF a = Head(toSwman).app THEN "failed" ELSE app[a]]
  /\ UNCHANGED <<swload, toSwload, lost, sending>>

Swman == ExecReq \/ SendPart \/ swman_incmd_apperror

LNext == /\ Swload \/ Swman \/ \E a \in Apps : swload_incmd_loadobj(a)
         /\ UNCHANGED env

LSpec == LInit /\ [][LNext]_lvars

\* both daemons read their queues as long as there is something in them
LFairSpec == /\ LSpec
             /\ WF_lvars(Swload /\ UNCHANGED env) /\ WF_lvars(Swman /\ UNCHANGED env)

-----------------------------------------------------------------------------
\* Every process is started from the whole image of its own executable, although all
\* downloads share one buffer, executables are requested again while they are on their way, and
\* packets of other downloads are lost, as long as none of its own is.
\* (Unless SWMAN fails to read on: the checksum of what it has sent is right.)
HasImage(o) == \A i \in 1..Packets : procBuff[i] = [name |-> ExeOf[o], part |-> i]
LaunchedIsComplete ==
  [][\A o \in Objects :
       launched'[o] # launched[o] /\ "read" \notin env.failures /\ Head(toSwload).id \notin lost
         => HasImage(o)]_lvars

\* A process is started from the whole image of its own executable whenever LOADEND's checksum is
\* right (swload_cmds.c: "this packet is received with the checksum to check errors. If all is ok,
\* we continue launching the process"): does NOT hold when packets are lost. An executable that is
\* sent again, with its LOADSTART lost, goes on where the first time ended: pieces that were missed
\* come behind the others, and sum up to the same. And if only LOADEND was missed, all packets of the
\* second time are dropped and the sum is that of the first, while another download has had the
\* buffer in between.
ChecksumTells ==
  [][\A o \in Objects : launched'[o] # launched[o] /\ "read" \notin env.failures => HasImage(o)]_lvars

\* However often an executable is requested and sent, and whichever packets are lost, each of its
\* objects is launched at most once.
LaunchedOnce == \A o \in Objects : launched[o] <= 1

\* Every object of every waveform is launched in the end, in whatever order the load commands
\* arrive while executables are being sent, if nothing fails and no packet of an executable is lost.
\* One that is lost is never sent again.
NothingFails == env = [missing |-> {}, failures |-> {}]
LoadCompletes ==
  \A a \in Apps :
    NothingFails /\ app[a] = "loading" ~> lost # {} \/ \A o \in ToSet(ObjsOf[a]) : launched[o] > 0

\* A waveform that is being loaded is launched, or SWMAN learns that it could not be:
\* does NOT hold. One failed executable stops the queue, and of the waveforms that share it
\* only one is reported.
LoadEnds ==
  \A a \in Apps :
    app[a] = "loading" ~> app[a] = "failed" \/ \A o \in ToSet(ObjsOf[a]) : launched[o] > 0
=============================================================================
