-------------------------------- MODULE Sync --------------------------------
(***************************************************************************)
(* Synchronisation of the slot numbers of two processing elements: the     *)
(* SYNC daemon of the slave asks (sync.c), SYNC_MASTER answers             *)
(* (sync_master.c), and the slave's kernel takes over slot and timer       *)
(* (time_sync, syncTslot). If the answers drive the slave's clock the      *)
(* master sends one in every slot ("continuous").                          *)
(*                                                                         *)
(* Time is discrete, SlotLen instants to a slot. Slot numbers are kept     *)
(* relative to the master's: "ahead" is the slave's tslot minus the        *)
(* master's, and what travels or waits is moved along when the master's    *)
(* slot changes. Only differences ever matter, so runs need not be cut.    *)
(*                                                                         *)
(* Both clocks run equally fast, and no slot is late: the slave's timer    *)
(* does not drift, nor does the kernel miss an expiry ("overrrun"). A      *)
(* slave that has taken over a slot and never asks again, because a packet *)
(* was lost, agrees with the master for that reason only.                  *)
(***************************************************************************)
EXTENDS Integers, Sequences

CONSTANTS
  SlotLen,     \* tslen_usec, in instants
  Second,      \* instants in a second: the master computes with the microseconds of its time only
  Period,      \* the slave asks every Period slots
  Limit,       \* round_trip_limit
  MaxBehind,   \* bound: packets are lost until the slave is this many slots behind
  Skews,       \* slots the slave may be ahead in the beginning
  Setups       \* records [mode: "request" or "continuous", delay: instants a packet may take,
               \* lost: packets may be lost, tasks: periodic tasks of a continuous master, one
               \* for each client]

ASSUME SyncAssumption ==
  /\ SlotLen \in Nat \ {0} /\ Second \in Nat /\ Second >= SlotLen
  /\ Period \in Nat \ {0} /\ Limit \in Nat
  /\ Skews \subseteq Int /\ MaxBehind \in Nat
  /\ Setups \subseteq
       [mode : {"request", "continuous"}, delay : Nat, lost : BOOLEAN, tasks : Nat]

NoStamp == 1000   \* new_tstamp = 0: none

VARIABLES
  usec,       \* the master's time within its second at the start of its slot (slotinit.tv_usec)
  phase,      \* instants since then
  ahead,      \* the slave's tslot minus the master's
  elapsed,    \* instants since the slave's last slot began
  timer,      \* instants until the slave's timer expires
  dac,        \* sem_dac, when SYNC drives the clock
  new_tstamp, next_ts, \* the two words SYNC leaves for the kernel
  cnt,        \* of the periodic task
  signalled,  \* the periodic task is to run
  ack,        \* the last request has been answered
  writing,    \* time_sync between its two writes: the value of the second
  rtt,        \* local time since the request
  net,        \* packets under way
  synced,     \* the slave has taken over a slot number
  setup       \* the environment of this run; never changes

kernelVars == <<ahead, elapsed, timer, new_tstamp, next_ts, cnt, signalled>>
svars == <<usec, phase, kernelVars, dac, ack, writing, rtt, net, synced, setup>>

STypeOK ==
  /\ usec \in 0..Second - 1 /\ phase \in 0..SlotLen - 1
  /\ ahead \in Int /\ elapsed \in Nat /\ timer \in 0..Second + SlotLen /\ dac \in 0..2 * setup.tasks
  /\ new_tstamp \in Int /\ next_ts \in 0..Second + SlotLen
  /\ cnt \in 0..Period - 1 /\ signalled \in BOOLEAN /\ ack \in BOOLEAN
  /\ writing \in {0} \cup 1..Second + SlotLen /\ rtt \in Int
  /\ net \in Seq([to : {"master", "slave"}, age : 0..setup.delay, next_ts : Int, stamp : Int])
  /\ Len(net) <= 2 * setup.tasks + 1
  /\ synced \in BOOLEAN /\ setup \in Setups

SInit ==
  /\ usec = 0 /\ phase = 0 /\ ahead \in Skews
  /\ elapsed = 0 /\ timer \in 1..SlotLen /\ dac = 0
  /\ new_tstamp = NoStamp /\ next_ts = 0 /\ cnt = 0 /\ signalled = FALSE
  /\ ack = TRUE /\ writing = 0 /\ rtt = 0 /\ net = <<>> /\ synced = FALSE
  /\ setup \in Setups

Continuous == setup.mode = "continuous"

-----------------------------------------------------------------------------
\* An instant passes. The slave's kernel and SYNC's reactions are faster than that.
MasterSlot == phase = SlotLen - 1
Later(p)   == [to |-> p.to, age |-> p.age + 1, next_ts |-> p.next_ts,
               stamp |-> IF MasterSlot THEN p.stamp - 1 ELSE p.stamp]
continuous_sync ==
  IF Continuous /\ MasterSlot
  THEN [i \in 1..setup.tasks |-> [to |-> "slave", age |-> 0, next_ts |-> 0, stamp |-> 0]] ELSE <<>>
Tick ==
  /\ writing = 0 /\ ~signalled /\ dac = 0 /\ (Continuous \/ timer > 0)
  /\ \A i \in 1..Len(net) : net[i].age < setup.delay
  /\ phase' = IF MasterSlot THEN 0 ELSE phase + 1
  /\ usec' = IF MasterSlot THEN (usec + SlotLen) % Second ELSE usec
  /\ ahead' = IF MasterSlot THEN ahead - 1 ELSE ahead
  /\ new_tstamp' = IF MasterSlot /\ new_tstamp # NoStamp THEN new_tstamp - 1 ELSE new_tstamp
  /\ net' = [i \in 1..Len(net) |-> Later(net[i])] \o continuous_sync
  /\ elapsed' = IF Continuous THEN 0 ELSE elapsed + 1
  /\ timer' = IF Continuous THEN timer ELSE timer - 1
  /\ rtt' = IF net # <<>> /\ ~Continuous THEN rtt + 1 ELSE 0
  /\ UNCHANGED <<next_ts, cnt, signalled, dac, ack, writing, synced, setup>>

\* the slave's kernel: the timer has expired, or SYNC has posted sem_dac
MutantTakenOver == new_tstamp
TakenOver == new_tstamp + 1
syncTslot ==
  LET set == new_tstamp # NoStamp /\ next_ts = 0
      now == IF set THEN TakenOver ELSE ahead + 1
  IN
  /\ IF Continuous THEN dac > 0 /\ dac' = dac - 1 ELSE timer = 0 /\ UNCHANGED dac
  /\ ahead' = now /\ synced' = (synced \/ set)
  /\ new_tstamp' = IF set THEN NoStamp ELSE new_tstamp
  /\ elapsed' = 0
  /\ rtt' = IF net = <<>> THEN 0 ELSE rtt + (now - ahead) * SlotLen - elapsed   \* set_time(slotinit)
  /\ timer' = IF next_ts > 0 THEN next_ts ELSE SlotLen
  /\ next_ts' = 0
  /\ cnt' = (cnt + 1) % Period
  /\ signalled' = (signalled \/ (cnt + 1 = Period /\ ~Continuous))
  /\ UNCHANGED <<usec, phase, ack, writing, net, setup>>

\* period_sync
MutantMayAsk == TRUE
MayAsk == ack
period_sync ==
  /\ signalled /\ signalled' = FALSE
  /\ IF MayAsk THEN /\ ack' = FALSE /\ rtt' = 0
                 /\ net' = Append(net, [to |-> "master", age |-> 0, next_ts |-> 0, stamp |-> 0])
            ELSE UNCHANGED <<ack, rtt, net>>
  /\ UNCHANGED <<usec, phase, ahead, elapsed, timer, new_tstamp, next_ts, cnt, dac, writing, synced, setup>>

\* answer_packet_master: the time to the next slot, in microseconds of the master's second
Answer ==
  [to |-> "slave", age |-> 0, next_ts |-> SlotLen - ((usec + phase) % Second) + usec, stamp |-> 1]
answer_packet_master ==
  /\ net # <<>> /\ Head(net).to = "master"
  /\ net' = Append(Tail(net), Answer)
  /\ UNCHANGED <<usec, phase, kernelVars, dac, ack, writing, rtt, synced, setup>>

\* a rejected answer re-arms the request at once, one that is taken over after time_sync
MutantRearms(good) == FALSE
Rearms(good) == ~good

\* answer_packet: SYNC corrects the answer by half the round trip, and starts time_sync
answer_packet ==
  LET p    == Head(net)
      half == rtt \div 2
      good == p.next_ts > half /\ rtt >= 0 /\ rtt < Limit
  IN
  /\ ~Continuous /\ net # <<>> /\ p.to = "slave" /\ writing = 0
  /\ net' = Tail(net)
  /\ writing' = IF good THEN p.next_ts - half ELSE 0
  /\ new_tstamp' = IF good THEN p.stamp ELSE new_tstamp
  /\ ack' = Rearms(good)
  /\ rtt' = 0
  /\ UNCHANGED <<usec, phase, ahead, elapsed, timer, next_ts, cnt, signalled, dac, synced, setup>>

\* ... and time_sync's second write
time_sync ==
  /\ writing > 0 /\ writing' = 0
  /\ next_ts' = writing /\ ack' = TRUE
  /\ UNCHANGED <<usec, phase, ahead, elapsed, timer, new_tstamp, cnt, signalled, dac, rtt, net, synced, setup>>

\* sync_tslot, when SYNC drives the clock
sync_tslot ==
  /\ Continuous /\ net # <<>>
  /\ new_tstamp' = Head(net).stamp /\ next_ts' = 0 /\ dac' = dac + 1
  /\ net' = Tail(net)
  /\ UNCHANGED <<usec, phase, ahead, elapsed, timer, cnt, signalled, ack, writing, rtt, synced, setup>>

lose ==
  /\ setup.lost /\ net # <<>> /\ net' = Tail(net)
  /\ ahead > -MaxBehind
  /\ UNCHANGED <<usec, phase, kernelVars, dac, ack, writing, rtt, synced, setup>>

SNext ==
  \/ Tick \/ syncTslot \/ period_sync \/ answer_packet_master \/ answer_packet \/ time_sync
  \/ sync_tslot \/ lose

SSpec == SInit /\ [][SNext]_svars

\* Time passes, the kernel and the daemons run, and packets arrive or are lost.
SFairSpec ==
  /\ SSpec /\ WF_svars(Tick) /\ WF_svars(syncTslot) /\ WF_svars(period_sync)
  /\ WF_svars(answer_packet_master) /\ WF_svars(answer_packet) /\ WF_svars(time_sync) /\ WF_svars(sync_tslot)

-----------------------------------------------------------------------------
\* Once the slave has taken over a slot number it is at most one slot behind the master and at
\* most three ahead (within its slots), although the answer waits for the slave's next slot, the
\* kernel may run between SYNC's two writes, and taking over turns back the clock the next round
\* trip is measured with.
\* It holds if an answer is there, and applied, before the next request (Prompt; see the README),
\* and for a continuous master as long as no packet is lost.
Calm   == ~setup.lost
Prompt == 2 * setup.delay + SlotLen < Period * SlotLen
SlotsAgree ==
  synced /\ timer > 0 /\ Prompt /\ (Continuous => Calm) => ahead \in -1..3

\* The slave goes on asking: every answer, taken or rejected, re-arms the request. Does NOT hold
\* when a packet is lost: ack never comes back and period_sync never asks again.
Asking == \E i \in 1..Len(net) : net[i].to = "master"
KeepsAsking == Calm /\ ~Continuous => []<>Asking

\* The slave takes over the master's slot number in the end: does NOT hold. With a slow network
\* the answers are rejected (next_ts is no more than half the round trip), and as the period is a
\* number of slots the next request falls into the same part of the master's slot.
Converges == Calm => <>synced

\* The slots of the two begin together (get_time_to_ts, "next_ts"): does NOT hold, the timer
\* is set from the slave's next slot on, and not from the answer.
Aligned == [][syncTslot /\ new_tstamp # NoStamp /\ next_ts = 0 => phase = 0]_svars
=============================================================================
