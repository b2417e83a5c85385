------------------------------- MODULE MCSync -------------------------------
(* Model-checking instances of Sync. *)
EXTENDS Sync

Far  == {-3, 0, 4}
Asks == [mode |-> "request", delay |-> 4, lost |-> FALSE, tasks |-> 0]
Drives == [mode |-> "continuous", delay |-> 4, lost |-> FALSE, tasks |-> 1]
All  == {Asks, [Asks EXCEPT !.delay = 8], [Asks EXCEPT !.lost = TRUE], Drives, [Drives EXCEPT !.lost = TRUE]}
=============================================================================
