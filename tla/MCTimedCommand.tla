--------------------------- MODULE MCTimedCommand ---------------------------
(* TimedCommand for TLC: the processes are given in the .cfg.              *)
EXTENDS TimedCommand, TLC

Symmetry == Permutations(Descendants)
=============================================================================
