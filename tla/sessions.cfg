CONSTANTS
    u1 = u1
    r1 = r1
    r2 = r2
    Garbage = Garbage
    None = None
    Users <- OneUser
    Requests <- TwoRequests
    AccessLife = 1
    RefreshLife = 2
    MaxTime = 2
    Serial = FALSE
    Faults = TRUE

SPECIFICATION Spec
SYMMETRY Symmetry

INVARIANT TypeOK
PROPERTY StaysRevoked
PROPERTY LogoutFinal

\* The account can be purged; then nothing is left to do.
CHECK_DEADLOCK FALSE
