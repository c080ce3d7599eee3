----------------------- MODULE MCMechanismExperiment -----------------------
(* MechanismExperiment for TLC: the bounds are given in the .cfg.          *)
EXTENDS MechanismExperiment
=============================================================================
