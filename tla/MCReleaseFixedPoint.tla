-------------------------- MODULE MCReleaseFixedPoint --------------------------
(* ReleaseFixedPoint for TLC: a small policy of the shape of the real one. *)
EXTENDS ReleaseFixedPoint, TLC

\* A root, a report derived from it, a manifest over both, and one after the manifest.
CONSTANTS guard, freshness, manifest, summary
PolicyOrder == <<guard, freshness, manifest, summary>>
PolicyDeps ==
    guard :> {} @@ freshness :> {guard} @@ manifest :> {guard, freshness} @@ summary :> {manifest}

\* All, and all but the root's own report.
MakeInitials == {Writers, Writers \ {guard}}
=============================================================================
