----------------------------- MODULE MCWaveform -----------------------------
(* Model-checking instances of Waveform: a waveform of one or of two objects. *)
EXTENDS Waveform

CONSTANTS o1, o2

One  == <<o1>>
Two  == <<o1, o2>>
=============================================================================
