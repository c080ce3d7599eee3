------------------------ MODULE MCAutoImproveSession ------------------------
(* AutoImproveSession for TLC: the proposals are given in the .cfg.        *)
EXTENDS AutoImproveSession, TLC

Symmetry == Permutations(Proposals \ Repairs)
=============================================================================
