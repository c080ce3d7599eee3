SPECIFICATION Spec
CONSTANTS
    guard = guard
    freshness = freshness
    manifest = manifest
    summary = summary
    Writers = {guard, freshness, manifest, summary}
    Order <- PolicyOrder
    Deps <- PolicyDeps
    Revisioned = {manifest}
    Costly = {freshness}
    Manifest = manifest
    Initials <- MakeInitials
    MaxPasses = 3
    MaxOutside = 2
CHECK_DEADLOCK FALSE
INVARIANTS
    RecommendationCovers
    VerifiedIsConsistent
    PassSettles
PROPERTY
    FixedPoint
