--------------------------- MODULE MCFinalizeRun ---------------------------
(* FinalizeRun for TLC: the calls and the runs are given in the .cfg.      *)
EXTENDS FinalizeRun, TLC

Symmetry == Permutations(Finalizers) \cup Permutations(Runs)
=============================================================================
