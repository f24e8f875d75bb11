\* Two requests, two types for one subject, two codes that can repeat.
CONSTANTS
    Types = {email, password}
    Subjects = {ann}
    Codes = {c1, c2}
    Clients = {r1, r2}
    TTL = 2
    None = None
    MaxTime = 3
    MaxIssues = 3
SPECIFICATION Spec
INVARIANTS
    TypeOK
    MatchesItsIssue
    SpentIsGone
    OnlyLatest
PROPERTIES
    MatchedInTime
    LostToMatchOnly
    LifecycleSpec
