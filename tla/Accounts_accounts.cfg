\* Three requests of two users who may share their addresses and a key.
SPECIFICATION Spec
CONSTANTS
    u1 = u1
    u2 = u2
    e1 = e1
    f1 = f1
    f2 = f2
    k1 = k1
    p1 = p1
    p2 = p2
    Users = {u1, u2}
    Emails = {e1, f1, f2}
    Keys = {k1}
    Payloads = {p1, p2}
    Known = {p1}
    Fallback <- FallbackOf
    Asks <- SomeAsks
    Requests = {r1, r2, r3}
    None = None
    MayFail = TRUE
CHECK_DEADLOCK FALSE
SYMMETRY Symmetry
INVARIANTS
    TypeOK
    FallbackNeedsCause
    WriteHasRow
    HealthyIsServed
PROPERTIES
    KeysAreIdempotent
