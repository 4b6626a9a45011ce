CONSTANTS
    u1 = u1
    r1 = r1
    r2 = r2
    Garbage = Garbage
    None = None
    Users <- OneUser
    Requests <- TwoRequests
    AccessLife = 1
    RefreshLife = 2
    MaxTime = 3
    Serial = TRUE
    Faults = TRUE

SPECIFICATION Spec
SYMMETRY Symmetry

INVARIANT Rotation
PROPERTY OnlyLoginReopens

\* The account can be purged; then nothing is left to do.
CHECK_DEADLOCK FALSE
