SPECIFICATION Spec
CONSTANTS
    empty = empty
    a = a
    Clients = {c1, c2}
    Replicas = {r1, r2}
    Contents <- MCContents
    Empty <- empty
    Corrupt = corrupt
    SnapIds = {1, 2}
    Hash <- MCHash
    NoHash = NoHash
    NoContent = NoContent
    NoOne = NoOne
    OtherWriters = FALSE
    Forgets = FALSE
    Lags = TRUE
    Early = FALSE
SYMMETRY ActorSymmetry
INVARIANTS
    HashMatchesContent
    DeletedLeavesNothing
PROPERTIES
    NoUnseenOverwrite
    AppliesPreviewed
CHECK_DEADLOCK FALSE
