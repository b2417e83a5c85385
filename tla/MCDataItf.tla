----------------------------- MODULE MCDataItf ------------------------------
(* Model-checking instances of DataItf. *)
EXTENDS DataItf

\* every way, calm with queues that just have enough room, and wild with queues that have not
Room   == Rate * (Delay + 1)
Ways   == {"local", "tcp", "udp"}
AllWays == {[path |-> w, room |-> Room, calm |-> TRUE] : w \in Ways}
           \cup {[path |-> w, room |-> 2, calm |-> FALSE] : w \in Ways}
=============================================================================
