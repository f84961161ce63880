SPECIFICATION Spec
CONSTANTS
    Tabs = {t1, t2}
    Users = {u1, u2}
    Ids = {s1, s2}
    Names = {n1, n2}
    Keys = {k1}
    Values = {absent, x}
    Absent = absent
    NoRow = NoRow
    NoRequest = NoRequest
    NoEditor = NoEditor
    NoDraft = NoDraft
    NoTab = NoTab
    NoUser = NoUser
    NewSecret = NewSecret
    NoVersion = NoVersion
    Attempts = 2
    MaxVersion = 3
    MaxGestures = 3
    MaxOthers = 1
    SessionsEnd = TRUE
SYMMETRY Symmetry
INVARIANTS
    TypeOK
    HashMatchesRows
PROPERTIES
    RefinesTable
    SavesAreInformed
    DraftsStayWithTheirOwner
CHECK_DEADLOCK FALSE
