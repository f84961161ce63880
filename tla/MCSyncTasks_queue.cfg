SPECIFICATION FairSpec
CONSTANTS
    r1 = r1
    p1 = p1
    e2 = e2
    Calls = {c1, c2, e1, e2}
    Edits = {e1, e2}
    Replicas = {r1, r2}
    Projects = {p1}
    Chain <- MCChain
    NoCall = NoCall
    NoProcess = NoProcess
    MaxCommands = 1
INVARIANTS
    TypeOK
    ChainsAreKept
    SectionsExclude
    NoProcessLeftBehind
PROPERTIES
    CallsTakeTurns
    EveryCallEnds
CHECK_DEADLOCK FALSE
