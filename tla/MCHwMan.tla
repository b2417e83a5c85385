------------------------------ MODULE MCHwMan ------------------------------
(* Model-checking instances of HwMan: a PE of two cores and a PE of one, two waveforms. *)
EXTENDS HwMan

TwoPes   == <<<<"p", 0>>, <<"p", 1>>, <<"q", 0>>>>
TwoWaves == [a |-> <<"a1", "a2">>, b |-> <<"b1">>]
OneEach  == [o \in {"a1", "a2", "b1"} |-> 1]
Chains   == {[from |-> "a1", to |-> "a2", bw |-> 1]}
OwnIds   == (<<"p", "q">> :> 1) @@ (<<"q", "p">> :> 2)

Serial   == [serial |-> TRUE,  drops |-> {},    failures |-> {"load"}]
Hasty    == [serial |-> FALSE, drops |-> {},    failures |-> {"load", "crash"}]
LastGone == [serial |-> TRUE,  drops |-> {"q"}, failures |-> {}]
Users    == {Serial, Hasty, LastGone}
OnlySerial == {[Serial EXCEPT !.failures = {}]}
AnyGone  == {[LastGone EXCEPT !.drops = {"p"}]}

Star == <<<<"p", 0>>, <<"q", 0>>, <<"r", 0>>>>
SameIds == (<<"q", "p">> :> 1) @@ (<<"r", "p">> :> 1)
=============================================================================
