SPECIFICATION Spec
CONSTANTS
    k1 = k1
    k2 = k2
    bad = bad
    Keys = {k1, k2, bad}
    EnvSafe = {k1, k2}
    Chars <- Known
    Secrets <- MCSecrets
    None = None
    Refused = Refused
INVARIANTS
    ImportRestores
CHECK_DEADLOCK FALSE
