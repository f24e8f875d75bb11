\* Two processes start at once.
CONSTANTS
    p1 = p1
    p2 = p2
    user_jws = user_jws
    admin_jws = admin_jws
    c1 = c1
    c2 = c2
    c3 = c3
    Procs = {p1, p2}
    Names = {user_jws}
    Callers = {c1, c3}
    Home <- SplitHome
    Name <- OneName
    TTL = 1
    None = None
    Failure = Failure
    MaxKeys = 2
    MaxTime = 0
SPECIFICATION FairSpec
INVARIANTS
    ProcessesAgree
