CONSTANTS
    p1 = p1
    p2 = p2
    p3 = p3
    u1 = u1
    i1 = i1
    c1 = c1
    Process = {p1, p2, p3}
    Offset <- Offsets
    User = {u1}
    Issue = {i1}
    Check = {c1}
    Tolerance = 1
    AccessLife = 2
    RefreshLife = 4
    ResetLife = 1
    MaxAge = 4
    MaxTime = 7
    None = None
SPECIFICATION Spec
INVARIANTS
    SessionsByAccessOnly
CHECK_DEADLOCK FALSE
