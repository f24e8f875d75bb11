\* One process with one service, that crashes and restarts at any time.
CONSTANTS
    p1 = p1
    p2 = p2
    user_jws = user_jws
    admin_jws = admin_jws
    c1 = c1
    c2 = c2
    c3 = c3
    Procs = {p1}
    Names = {user_jws}
    Callers = {c1, c2, c3}
    Home <- OneHome
    Name <- OneName
    TTL = 2
    None = None
    Failure = Failure
    MaxKeys = 4
    MaxTime = 3
SPECIFICATION FairSpec
INVARIANTS
    TokensSurviveRestart
    OneOutcomePerLife
PROPERTIES
    CallersAnswered
    OnceSpec
