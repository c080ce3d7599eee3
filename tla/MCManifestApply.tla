-------------------------- MODULE MCManifestApply --------------------------
(* ManifestApply for TLC: the manifest's length is given in the .cfg.      *)
EXTENDS ManifestApply
=============================================================================
