SPECIFICATION FairSpec
CONSTANTS
    n1 = n1
    n2 = n2
    k1 = k1
    k2 = k2
    absent = absent
    unreadable = unreadable
    Names = {n1, n2}
    Keys = {k1, k2}
    Values = {1, 2}
    Absent = absent
    NoSecret = NoSecret
    Inherited = {}
    Snapshots = {1, 2, 3}
    Time <- MCTime
    Unreadable = unreadable
    ContentOf <- MCContentOf
    Edited <- MCEdited
    First = {1, 2}
    Hash <- MCHash
    Limit = 1
    Asks = {1, 2}
    MaxOthers = 2
INVARIANTS
    HistoryIsOrdered
    NothingSkipped
PROPERTIES
    RestoresAsPreviewed
    RestorationEnds
CHECK_DEADLOCK FALSE
