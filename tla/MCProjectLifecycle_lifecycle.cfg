SPECIFICATION Spec
CONSTANTS
    p1 = p1
    Replicas = {r1, r2}
    Users = {u1}
    Ids = {i1, i2}
    Names = {n1, n2}
    Prefixes = {p1, p2}
    Slug <- MCSlug
    Blank = Blank
    Requests = {q1, q2}
    NoRow = NoRow
    NoRequest = NoRequest
    NoRefresh = NoRefresh
    Nobody = Nobody
    MaxEvents = 1
SYMMETRY Symmetry
INVARIANTS
    TargetsAreUnique
    LocalChangesStay
    OnlyRacesChangeScopes
CHECK_DEADLOCK FALSE
