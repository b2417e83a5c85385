----------------------------- MODULE DelayLine ------------------------------
(***************************************************************************)
(* What a data interface promises to the two objects at its ends, wherever *)
(* they run: a packet written in one turn of the writer can be read from   *)
(* the reader's turn Delay later on; what is read is read in the order of  *)
(* writing. A queue that is full may lose packets.                         *)
(***************************************************************************)
EXTENDS Integers, Sequences, SequencesExt

CONSTANT Delay

VARIABLES
  line, \* the turns in which the packets that are under way were written, in order of writing
  tw,   \* number of turns the writer has had
  tr,   \* number of turns the reader has had
  got   \* the turn the last packet read was written in

LineInit == line = <<>> /\ tw = 0 /\ tr = 0 /\ got = 0

Turn  == /\ (tw' = tw + 1 /\ tr' = tr) \/ (tr' = tr + 1 /\ tw' = tw)
         /\ UNCHANGED <<line, got>>
Write == line' = Append(line, tw) /\ UNCHANGED <<tw, tr, got>>
Read  == /\ line # <<>> /\ Head(line) + Delay <= tr
         /\ line' = Tail(line) /\ got' = Head(line) /\ UNCHANGED <<tw, tr>>
Lose  == \E n \in DOMAIN line : line' = RemoveAt(line, n) /\ UNCHANGED <<tw, tr, got>>

LineNext == Turn \/ Write \/ Read \/ Lose
LineSpec == LineInit /\ [][LineNext]_<<line, tw, tr, got>>
=============================================================================
