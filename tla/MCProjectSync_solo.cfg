SPECIFICATION FairSpec
CONSTANTS
    empty = empty
    a = a
    Clients = {c1, c2}
    Replicas = {r1}
    Contents <- MCOneContent
    Empty <- empty
    Corrupt = corrupt
    SnapIds = {1, 2}
    Hash <- MCHash
    NoHash = NoHash
    NoContent = NoContent
    NoOne = NoOne
    OtherWriters = FALSE
    Forgets = TRUE
    Lags = FALSE
    Early = FALSE
PROPERTIES
    NothingBuried
    EveryRequestAnswered
CHECK_DEADLOCK FALSE
