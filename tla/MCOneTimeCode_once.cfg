\* Two requests submit the same code.
CONSTANTS
    Types = {twoFactor}
    Subjects = {ann}
    Codes = {c1}
    Clients = {r1, r2}
    TTL = 1
    None = None
    MaxTime = 1
    MaxIssues = 1
SPECIFICATION Spec
INVARIANTS
    AcceptedOnce
