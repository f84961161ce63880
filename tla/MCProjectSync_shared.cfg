SPECIFICATION Spec
CONSTANTS
    empty = empty
    a = a
    Clients = {c1, c2}
    Replicas = {r1, r2}
    Contents <- MCContents
    Empty <- empty
    Corrupt = corrupt
    SnapIds = {1, 2}
    Hash <- MCHash
    NoHash = NoHash
    NoContent = NoContent
    NoOne = NoOne
    OtherWriters = TRUE
    Forgets = FALSE
    Lags = FALSE
    Early = FALSE
SYMMETRY ActorSymmetry
INVARIANTS
    TypeOK
    BadgeIsTruthful
PROPERTIES
    RefinesRegister
    PushRecordsOwn
CHECK_DEADLOCK FALSE
