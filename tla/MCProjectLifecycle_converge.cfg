SPECIFICATION FairSpec
CONSTANTS
    p1 = p1
    Replicas = {r1, r2}
    Users = {}
    Ids = {i1, i2}
    Names = {n1}
    Prefixes = {p1}
    Slug <- MCSlug
    Blank = Blank
    Requests = {q1, q2}
    NoRow = NoRow
    NoRequest = NoRequest
    NoRefresh = NoRefresh
    Nobody = Nobody
    MaxEvents = 1
PROPERTIES
    CataloguesConverge
CHECK_DEADLOCK FALSE
