-------------------------- MODULE MCThermalThread --------------------------
(* TLC instance of ThermalThread.  Degrees is every byte a misaligned     *)
(* frame can have in its fourth place.                                     *)
EXTENDS ThermalThread

MCBytes == {0, 1, 37, 51, 64, 128, 168}
MCSensorDegrees == {37, 64}
MCNoiseBytes == {168, 1}
MCLines == {[late |-> FALSE, lossy |-> FALSE], [late |-> TRUE, lossy |-> TRUE]}
=============================================================================
