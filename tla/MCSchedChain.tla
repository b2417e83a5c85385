---------------------------- MODULE MCSchedChain ----------------------------
(* Model-checking instances of SchedChain. *)
EXTENDS SchedChain

\* one object crashes in its own turn; the objects run before they have their places; all may be
\* killed at any moment
Faults == {[deaths |-> 1, failures |-> {}], [deaths |-> 0, failures |-> {"late"}],
           [deaths |-> N, failures |-> {"kill", "late"}]}
TwoCrashes  == {[deaths |-> 2, failures |-> {}]}
=============================================================================
