SPECIFICATION Spec
CONSTANTS
    Projects = {p1}
    Snapshots = {1, 2, 3}
    Flows = {f1, f2}
    Runs = {r1}
    NoRun = NoRun
    Absent = Absent
    Deleted = Deleted
    MaxEvents = 2
SYMMETRY Symmetry
INVARIANTS
    TypeOK
    RemoteStatusWasTrue
    CheckingIsAsked
