--------------------------- MODULE MCEngineEvents ---------------------------
(* Instances of EngineEvents for TLC: see the README for the bounds. *)
EXTENDS EngineEvents, TLC

DaemonSymmetry == Permutations(Daemons)
=============================================================================
