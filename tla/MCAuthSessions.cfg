\* Two requests create an account, verify its address, refresh its tokens and reset its
\* password.
CONSTANTS
    ann = ann
    r1 = r1
    r2 = r2
    Emails = {ann}
    Requests = {r1, r2}
    Ops <- AccountOps
    Known <- NoAccount
    None = None
    MaxPairs = 3
SPECIFICATION FairSpec
INVARIANTS
    TypeOK
    ClaimsTrue
    LiveRefreshHeld
    FacebookKeepsPassword
PROPERTIES
    ContractSpec
    NeverRestored
    RequestsEnd
CHECK_DEADLOCK FALSE
