SPECIFICATION FairSpec
CONSTANTS
    Projects = {p1, p2}
    Callers = {c1, c2}
    Runs = {r1, r2, r3}
    NoRun = NoRun
    NoProject = NoProject
    NoGeneration = NoGeneration
    MaxConcurrent = 1
    MaxWaiters = 1
    MaxGeneration = 1
INVARIANTS
    TypeOK
    SlotsAreHeld
    NoSlotIdle
    OneRunPerProject
    CacheIsCurrent
    NoOrphanRun
PROPERTIES
    EveryCallerAnswered
