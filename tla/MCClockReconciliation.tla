------------------------ MODULE MCClockReconciliation ------------------------
(* ClockReconciliation for TLC: the two projection workers are alike. *)
EXTENDS ClockReconciliation, TLC

ProjectorSymmetry == Permutations(Projectors)
=============================================================================
