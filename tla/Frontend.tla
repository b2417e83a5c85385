------------------------------ MODULE Frontend ------------------------------
(***************************************************************************)
(* How a platform of several processing elements (PEs) comes together. The *)
(* FRONTEND of every PE registers with its parent, which proposes an id;   *)
(* the root decides, and the answer travels down again. Then the FRONTEND  *)
(* reports its PE to HWMAN, at the root, HWMAN asks every BRIDGE to        *)
(* identify itself on its output wires, and the BRIDGE that hears it       *)
(* reports the wire. FRONTENDs route these packets along the links of the  *)
(* tree with the table they filled during the registration.                *)
(*                                                                         *)
(* A link loses what does not fit (hwapi_itf_snd is not checked); a daemon *)
(* waits for room in its FRONTEND's queue. Packets on one link stay in     *)
(* order. PEs have one core and do not restart.                            *)
(***************************************************************************)
EXTENDS Integers, Sequences, FiniteSets, SequencesExt

CONSTANTS
  Pes, Root,  \* processing elements, and the one that has no master interface
  Networks,   \* records: parent, the tree; wires, the data wires <<writer, reader>>; hwman, whether
              \* the root has a HWMAN; faults, among
              \* "early" (PEs start before the daemons of their parents), "silent" (a PE is not
              \* heard of for so long that HWMAN drops it)
  Room        \* number of packets a queue holds

ASSUME FrontendAssumption ==
  /\ Root \in Pes /\ Room \in Nat \ {0}
  /\ {"up", "down", "input", "hwman", "bridge"} \cap Pes = {}  \* wires are not other queues
  /\ \A n \in Networks : /\ DOMAIN n.parent \subseteq Pes \ {Root}
                         /\ \A p \in DOMAIN n.parent : n.parent[p] \in Pes \ {p}
                         /\ n.wires \subseteq Pes \X Pes /\ n.hwman \in BOOLEAN

VARIABLES
  net,       \* the network of this run; never changes
  q,         \* all queues: links up and down, queues of the daemons, wires
  up,        \* PEs whose FRONTEND has started
  attached,  \* PEs whose daemons have told their FRONTEND where they read (FRONTEND_CFGITF)
  id,        \* fe_local_id: 0 until registered
  f_pedb,    \* FRONTEND's table of the PEs below it, the latest first
  reported,  \* first_monitor
  pedb,      \* ids of the PEs HWMAN knows, the latest first
  xitfs      \* wires HWMAN knows, <<id of writer, id of reader>>

fvars == <<net, q, up, attached, id, f_pedb, reported, pedb, xitfs>>

Sons == DOMAIN net.parent
Here == Sons \cup {Root}
LocalMaster == 2   \* the root's id
FirstId == 4       \* the id every FRONTEND asks for

Queues(n) == ({"up", "down"} \X DOMAIN n.parent) \cup ({"input", "hwman", "bridge"} \X Pes) \cup n.wires

\* id: the id of a PE; of: the id asked for (REGISTER...), or the writer of a wire (ADDITF)
Pkt(cmd, dst, i, of) == [cmd |-> cmd, dst |-> dst, id |-> i, of |-> of]
Cmds == {"REGISTERSON", "REGISTERACK", "ADDCPU", "UPDCPU", "IDENT", "ADDITF", "BIDENT"}
Ids == Nat \ {1}   \* 1 is the address "upwards"
Packets == [cmd : Cmds, dst : Ids, id : Ids, of : Ids]

FTypeOK ==
  /\ net \in Networks
  /\ up \subseteq Here /\ attached \subseteq up /\ reported \subseteq up
  /\ id \in [Pes -> Ids]
  /\ f_pedb \in [Pes -> Seq([id : Ids, reqid : Ids, itf : Pes])]
  /\ q \in [Queues(net) -> Seq(Packets)] /\ \A k \in Queues(net) : Len(q[k]) <= Room
  /\ pedb \in Seq(Ids) /\ xitfs \subseteq Ids \X Ids

FInit ==
  /\ net \in Networks
  /\ q = [k \in Queues(net) |-> <<>>]
  /\ up = {} /\ attached = {} /\ reported = {}
  /\ id = [p \in Pes |-> 0] /\ f_pedb = [p \in Pes |-> <<>>]
  /\ pedb = <<>> /\ xitfs = {}

-----------------------------------------------------------------------------
\* hwapi_itf_snd: what does not fit is lost
MutantPut(Q, k, m) == [Q EXCEPT ![k] = Append(@, m)]
Put(Q, k, m) == IF Len(Q[k]) < Room THEN [Q EXCEPT ![k] = Append(@, m)] ELSE Q
Took(k) == [q EXCEPT ![k] = Tail(@)]

HwmanHere == net.hwman /\ Root \in attached

\* the input queue of the daemon at p a packet is for, if it is there
Daemon(p, m) ==
  CASE m.cmd \in {"ADDCPU", "UPDCPU", "ADDITF"} /\ p = Root /\ HwmanHere -> {<<"hwman", p>>}
    [] m.cmd = "IDENT" /\ p \in attached -> {<<"bridge", p>>}
    [] OTHER -> {}

\* the first entry of the table of p with that id; that asked for that id; 0 if there is none
FindId(p, i)    == SelectInSeq(f_pedb[p], LAMBDA e : e.id = i)
FindReqId(p, i) == SelectInSeq(f_pedb[p], LAMBDA e : e.reqid = i)

\* route, search_slave_itf: the queue the FRONTEND of p forwards a packet to. (No daemon modelled
\* here sends to PE 1, "upwards".)
Target(p, m) ==
  LET n == FindId(p, m.dst) IN
  CASE m.dst = id[p] -> Daemon(p, m)
    [] m.dst = 0 /\ m.dst # id[p] ->
         IF Daemon(p, m) # {} THEN Daemon(p, m) ELSE {<<"up", p>>} \cap Queues(net)
    [] m.dst > 1 /\ m.dst # id[p] -> IF n = 0 THEN {} ELSE {<<"down", f_pedb[p][n].itf>>}
Route(Q, p, m) == IF Target(p, m) = {} THEN Q ELSE Put(Q, CHOOSE k \in Target(p, m) : TRUE, m)

\* register_son: the lowest free id from the one asked for; the root answers, others pass it on
MutantFreeId(p, i) == IF i = id[p] THEN i + 1 ELSE i
FreeId(p, i) == CHOOSE k \in i..i + Len(f_pedb[p]) + 1 :
  LET Used(n) == n = id[p] \/ \E e \in Range(f_pedb[p]) : e.id = n
  IN ~Used(k) /\ \A j \in i..k - 1 : Used(j)
register_son(Q, p, son, m) ==
  LET new == FreeId(p, m.id) IN
  /\ f_pedb' = [f_pedb EXCEPT ![p] = <<[id |-> new, reqid |-> m.of, itf |-> son]>> \o @]
  /\ q' = IF p = Root THEN Put(Q, <<"down", son>>, Pkt("REGISTERACK", 0, new, m.of))
                      ELSE Put(Q, <<"up", p>>, Pkt("REGISTERSON", 0, new, m.of))
  /\ UNCHANGED id

\* register_ack: the first answer is for this PE, the others for the latest entry that asked for
\* that id (Set_put puts new entries first)
MutantAcked(e, i) == e
Acked(e, i) == [e EXCEPT !.id = i]
register_ack(Q, p, m) ==
  LET n == FindReqId(p, m.of) IN
  IF id[p] = 0
  THEN id' = [id EXCEPT ![p] = m.id] /\ q' = Q /\ UNCHANGED f_pedb
  ELSE /\ IF n = 0
          THEN q' = Q /\ UNCHANGED f_pedb
          ELSE /\ f_pedb' = [f_pedb EXCEPT ![p][n] = Acked(@, m.id)]
               /\ q' = Put(Q, <<"down", f_pedb[p][n].itf>>, Pkt("REGISTERACK", 0, m.id, m.of))
       /\ UNCHANGED id

\* itf_rcv of the FRONTEND of p, from queue k; son is the PE at the other end of a slave link
frontend_rcv(p, k, son) ==
  /\ p \in up /\ q[k] # <<>>
  /\ LET m == Head(q[k]) IN
       CASE m.cmd = "REGISTERSON" -> register_son(Took(k), p, son, m)
         [] m.cmd = "REGISTERACK" -> register_ack(Took(k), p, m)
         [] OTHER -> q' = Route(Took(k), p, m) /\ UNCHANGED <<id, f_pedb>>
  /\ UNCHANGED <<net, up, attached, reported, pedb, xitfs>>

\* frontend_init_p, register_to_parent. A PE connects to a parent that is running.
Start(p) ==
  /\ p \in Here \ up
  /\ up' = up \cup {p}
  /\ IF p = Root
     THEN id' = [id EXCEPT ![p] = LocalMaster] /\ UNCHANGED q
     ELSE /\ net.parent[p] \in IF "early" \in net.faults THEN up ELSE attached
          /\ q' = Put(q, <<"up", p>>, Pkt("REGISTERSON", 0, FirstId, FirstId))
          /\ UNCHANGED id
  /\ UNCHANGED <<net, attached, f_pedb, reported, pedb, xitfs>>

\* daemon_new of the daemons of p, and cfg_daemon_itf
Attach(p) ==
  /\ p \in up \ attached
  /\ attached' = attached \cup {p}
  /\ UNCHANGED <<net, q, up, id, f_pedb, reported, pedb, xitfs>>

\* report_hwstatus: once registered the PE is announced, then it reports from time to time. (Here
\* only where HWMAN may have dropped it, otherwise the report has no effect, and when its last
\* report is on its way.)
Above(p) == IF p = Root THEN {<<"hwman", p>>} ELSE {<<"up", p>>}
report_hwstatus(p) ==
  /\ id[p] > 1
  /\ IF p = Root THEN HwmanHere ELSE p \in attached \/ "early" \in net.faults
  /\ \E k \in Above(p) :
       \/ p \notin reported /\ q' = Put(q, k, Pkt("ADDCPU", 0, id[p], 0))
       \/ "silent" \in net.faults /\ p \in reported \ {Root} /\ q[k] = <<>>
          /\ q' = Put(q, k, Pkt("UPDCPU", 0, id[p], 0))
  /\ reported' = reported \cup {p}
  /\ UNCHANGED <<net, up, attached, id, f_pedb, pedb, xitfs>>

-----------------------------------------------------------------------------
\* bridge_incmd_ident, once the BRIDGE knows the id of its PE (bridge_init)
bridge_incmd_ident(p) ==
  /\ id[p] # 0 /\ q[<<"bridge", p>>] # <<>>
  /\ q' = [k \in DOMAIN q |->
             IF k = <<"bridge", p>> THEN Tail(q[k])
             ELSE IF k \in net.wires /\ k[1] = p THEN Put(q, k, Pkt("BIDENT", 0, id[p], 0))[k]
             ELSE q[k]]
  /\ UNCHANGED <<net, up, attached, id, f_pedb, reported, pedb, xitfs>>

\* new_neighbour, at the reader of a wire
new_neighbour(w) ==
  /\ w[2] \in attached /\ id[w[2]] # 0 /\ q[w] # <<>>
  /\ Len(q[<<"input", w[2]>>]) < Room
  /\ q' = Put(Took(w), <<"input", w[2]>>, Pkt("ADDITF", 0, id[w[2]], Head(q[w]).id))
  /\ UNCHANGED <<net, up, attached, id, f_pedb, reported, pedb, xitfs>>

\* send_sons_ident: HWMAN asks every PE it knows; it waits for room
MutantAsked(db) == IF db = <<>> THEN db ELSE <<Head(db)>>
Asked(db) == db
send_sons_ident(Q) ==
  LET asked == [n \in DOMAIN Asked(pedb') |-> Pkt("IDENT", pedb'[n], 0, 0)]
      k == <<"input", Root>>
  IN Len(Q[k]) + Len(asked) <= Room /\ q' = [Q EXCEPT ![k] = @ \o asked]

\* hwman_incmd_addcpu: a PE that is known already is removed
Known(i) == i \in Range(pedb)
hwman_incmd_addcpu(m) ==
  /\ m.cmd = "ADDCPU"
  /\ pedb' = IF Known(m.id) THEN RemoveFirst(pedb, m.id) ELSE <<m.id>> \o pedb
  /\ xitfs' = {w \in xitfs : w[2] # m.id}
  /\ send_sons_ident(Took(<<"hwman", Root>>))

\* an interface that is announced again is not put twice (an interface is one wire here)
hwman_incmd_additf(m) ==
  /\ m.cmd = "ADDITF"
  /\ xitfs' = IF Known(m.id) THEN xitfs \cup {<<m.of, m.id>>} ELSE xitfs
  /\ q' = Took(<<"hwman", Root>>) /\ UNCHANGED pedb

\* hwman_incmd_updcpu refreshes the time a PE that is known was heard of
hwman_incmd_updcpu(m) ==
  m.cmd = "UPDCPU" /\ q' = Took(<<"hwman", Root>>) /\ UNCHANGED <<pedb, xitfs>>

\* hwman_background: a PE that was not heard of in time is dropped
hwman_background(i) ==
  /\ "silent" \in net.faults /\ Known(i) /\ i # LocalMaster
  /\ pedb' = RemoveFirst(pedb, i) /\ xitfs' = {w \in xitfs : w[2] # i}
  /\ send_sons_ident(q)

Hwman ==
  /\ \/ /\ q[<<"hwman", Root>>] # <<>>
        /\ LET m == Head(q[<<"hwman", Root>>]) IN
             hwman_incmd_addcpu(m) \/ hwman_incmd_additf(m) \/ hwman_incmd_updcpu(m)
     \/ \E i \in Range(pedb) : hwman_background(i)
  /\ UNCHANGED <<net, up, attached, id, f_pedb, reported>>

-----------------------------------------------------------------------------
Frontend(p) ==
  \/ Start(p) \/ report_hwstatus(p)
  \/ frontend_rcv(p, <<"input", p>>, p)
  \/ p \in Sons /\ frontend_rcv(p, <<"down", p>>, p)
  \/ \E son \in Sons : net.parent[son] = p /\ frontend_rcv(p, <<"up", son>>, son)
Bridge(p) == bridge_incmd_ident(p) \/ \E w \in net.wires : w[2] = p /\ new_neighbour(w)

FNext == Hwman \/ \E p \in Here : Frontend(p) \/ Attach(p) \/ Bridge(p)

FSpec == FInit /\ [][FNext]_fvars

\* Every PE is switched on, and every daemon is woken for what is in its queues (a FRONTEND that
\* only reports does not keep the packets of its links waiting).
FFairSpec ==
  /\ FSpec /\ WF_fvars(Hwman)
  /\ \A p \in Pes : /\ WF_fvars(p \in Here /\ (Start(p) \/ (p \notin reported /\ report_hwstatus(p))))
                    /\ WF_fvars(p \in Here /\ frontend_rcv(p, <<"input", p>>, p))
                    /\ WF_fvars(p \in Sons /\ frontend_rcv(p, <<"down", p>>, p))
                    /\ WF_fvars(p \in Sons /\ frontend_rcv(net.parent[p], <<"up", p>>, p))
                    /\ WF_fvars(p \in Here /\ Attach(p))
                    /\ WF_fvars(p \in Here /\ bridge_incmd_ident(p))
                    /\ \A r \in Pes : WF_fvars(<<p, r>> \in net.wires /\ new_neighbour(<<p, r>>))

-----------------------------------------------------------------------------
\* No two PEs ever have the same id (a PE that gets an id of another would take its packets, and
\* HWMAN would remove both), although every FRONTEND proposes ids from its own table only.
UniqueIds == \A p, r \in Here : id[p] = id[r] /\ id[p] # 0 => p = r

\* "database for keeping ids for processors under us" (frontend.c): when no registration is under
\* way every PE has its id, and the tables list the PEs below, and the link each is behind. Does
\* NOT hold in a network in which a PE that is not the root has two PEs below it.
Towards(r, p) == \* the PE below r on the way to p, if p is below r
  LET way[x \in Here] == IF x = Root THEN {} ELSE IF net.parent[x] = r THEN {x} ELSE way[net.parent[x]]
  IN way[p]
Registering == \E k \in Queues(net) : \E m \in Range(q[k]) : m.cmd \in {"REGISTERSON", "REGISTERACK"}
ProcessorsUnderUs ==
  ~Registering => \A r \in up :
    /\ id[r] # 0
    /\ Range([n \in DOMAIN f_pedb[r] |-> <<f_pedb[r][n].id, f_pedb[r][n].itf>>])
         = UNION {{<<id[p], itf>> : itf \in Towards(r, p)} : p \in up}

\* In the end HWMAN knows every PE and every wire, whatever the order in which PEs register and
\* BRIDGEs hear of each other: an identification that HWMAN refuses, because it does not know the
\* reader yet, is asked for again when that PE is announced. Does NOT hold with fault "early" (the announcement of a PE is discarded
\* when HWMAN has not been attached, and not repeated), nor "silent" (a PE that was dropped is
\* not added again when it reports), nor when a link overflows.
AllKnown == <>[](/\ Range(pedb) = {id[p] : p \in Here}
                 /\ xitfs = {<<id[w[1]], id[w[2]]>> : w \in net.wires})
Discovered == net.hwman /\ net.faults = {} => AllKnown
=============================================================================
