\* An account of Facebook asks for enabling codes.
CONSTANTS
    ann = ann
    r1 = r1
    r2 = r2
    Emails = {ann}
    Requests = {r1}
    Ops <- LateFactorOps
    Known <- FacebookAccount
    None = None
    MaxPairs = 2
SPECIFICATION Spec
INVARIANTS
    FacebookWithoutFactor
CHECK_DEADLOCK FALSE
