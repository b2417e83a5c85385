------------------------------ MODULE MCStats ------------------------------
(* Model-checking instances of Stats. *)
EXTENDS Stats

CONSTANTS a, b

Two == {a, b}
Both(A, B) == [o \in Two |-> IF o = a THEN A ELSE B]
Env(uses, params, lives, n, faults) ==
  [uses |-> uses, params |-> params, lives |-> lives, cmds |-> n, faults |-> faults]

\* two objects with parameter files; one that is launched again; statistics and the user; crashes;
\* an object that opens again at once; an object that does not wait; a look at an entry being filled
Users == {Env(Both({"params"}, {"params"}), {a, b}, Both(1, 1), 0, {}),
          Env(Both(Kinds, {}), {a}, Both(2, 0), 0, {}),
          Env(Both({"stat"}, {"stat"}), {}, Both(1, 1), 1, {}),
          Env(Both({"stat"}, {}), {}, Both(1, 0), 3, {}),
          Env(Both({"params"}, {"stat"}), {a}, Both(2, 1), 0, {"crash"}),
          Env(Both({"params"}, {}), {a}, Both(2, 0), 0, {"crash", "soon"}),
          Env(Both({"stat"}, {"params"}), {}, Both(1, 1), 0, {"slow"}),
          Env(Both({"params"}, {}), {a}, Both(1, 0), 0, {"torn"})}
\* CallsReturn does not hold here
Torn == {Env(Both({"params"}, {"params"}), {a, b}, Both(1, 1), 0, {"torn"})}
=============================================================================
