----------------------------- MODULE MCFrontend -----------------------------
(* Model-checking instances of Frontend. *)
EXTENDS Frontend, TLC

\* two sons of the root that write to each other; a chain
Star  == [parent |-> ("a" :> "r" @@ "b" :> "r"), wires |-> {<<"a", "b">>, <<"b", "a">>}, hwman |-> TRUE, faults |-> {}]
Chain == [parent |-> ("a" :> "r" @@ "b" :> "a"), wires |-> {<<"r", "b">>}, hwman |-> TRUE, faults |-> {}]
\* both; registration only
Tree  == [parent |-> ("a" :> "r" @@ "b" :> "a" @@ "c" :> "r"), wires |-> {}, hwman |-> FALSE, faults |-> {}]
\* two PEs, one of which is not heard of for a while
Quiet == [parent |-> ("a" :> "r"), wires |-> {<<"a", "r">>}, hwman |-> TRUE, faults |-> {"silent"}]
Sound == {Star, Chain, Tree, Quiet}
\* two sons of a PE that is not the root
Fork  == {[parent |-> ("a" :> "r" @@ "b" :> "a" @@ "c" :> "a"), wires |-> {}, hwman |-> FALSE, faults |-> {}]}
\* faults
Early  == {[Star EXCEPT !.faults = {"early"}]}
=============================================================================
