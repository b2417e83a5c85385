------------------------------ MODULE MCSwLoad ------------------------------
(* Model-checking instances of SwLoad. *)
EXTENDS SwLoad

\* the second waveform brings an executable of its own, or shares the first one's
Own       == [a1 |-> <<"x1", "x2">>, a2 |-> <<"y1">>]
OwnExe    == [x1 |-> "A", x2 |-> "B", y1 |-> "C"]
Shared    == [a1 |-> <<"x1", "x2">>, a2 |-> <<"y1", "y2">>]
SharedExe == [x1 |-> "A", x2 |-> "B", y1 |-> "B", y2 |-> "A"]

\* three waveforms: both at once, and two objects of one waveform with the same executable
Mixed    == [a1 |-> <<"x1", "x2">>, a2 |-> <<"y1", "y2", "y3">>, a3 |-> <<"z1">>]
MixedExe == [x1 |-> "A", x2 |-> "B", y1 |-> "B", y2 |-> "C", y3 |-> "B", z1 |-> "A"]

\* nothing fails; an executable is missing and everything else may fail too
Calm     == [missing |-> {}, failures |-> {}]
MissingC == [missing |-> {"C"}, failures |-> {}]
Both     == {Calm, [missing |-> {"C"}, failures |-> {"read", "create", "itf"}]}
OnlyMissing == {MissingC}
=============================================================================
