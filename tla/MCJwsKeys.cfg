\* Two processes; one of them runs both services.
CONSTANTS
    p1 = p1
    p2 = p2
    user_jws = user_jws
    admin_jws = admin_jws
    c1 = c1
    c2 = c2
    c3 = c3
    Procs = {p1, p2}
    Names = {user_jws, admin_jws}
    Callers = {c1, c2, c3}
    Home <- SplitHome
    Name <- SplitName
    TTL = 1
    None = None
    Failure = Failure
    MaxKeys = 3
    MaxTime = 1
SPECIFICATION Spec
INVARIANTS
    TypeOK
    ReplacesOnlyInRace
    NamesApart
