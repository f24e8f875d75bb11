\* The second factor is enabled, passed, carried along and disabled.
CONSTANTS
    ann = ann
    r1 = r1
    r2 = r2
    Emails = {ann}
    Requests = {r1, r2}
    Ops <- FactorOps
    Known <- LocalAccount
    None = None
    MaxPairs = 3
SYMMETRY Symmetry
SPECIFICATION Spec
INVARIANTS
    Backed
    ClaimsTrue
PROPERTIES
    ContractSpec
CHECK_DEADLOCK FALSE
