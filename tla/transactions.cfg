CONSTANTS
    u1 = u1
    u2 = u2
    k1 = k1
    k2 = k2
    w1 = w1
    w2 = w2
    c1 = c1
    None = None
    Users <- OneUser
    Keys <- TwoKeys
    Writers <- TwoWriters
    Readers <- OneReader
    Pages <- SomePages
    Limits <- SomeLimits
    Statuses <- TwoStatuses
    MaxLimit = 2
    MaxRows = 3
    MaxTime = 1
    Faults = TRUE

SPECIFICATION Spec
SYMMETRY Symmetry

INVARIANT TypeOK
INVARIANT WalkComplete
INVARIANT PageFitsTotal
INVARIANT StatsAgree

\* Rows and clock are bounded; the walks end.
CHECK_DEADLOCK FALSE
