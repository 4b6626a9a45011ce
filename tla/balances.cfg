CONSTANTS
    k1 = k1
    k2 = k2
    k3 = k3
    r1 = r1
    r2 = r2
    t1 = t1
    Totals <- OneTotal
    None = None
    Accounts <- ThreeAccounts
    Requests <- TwoRequests
    MaxSize = 2
    TTL = 2
    Latency = 1
    MaxTime = 4

SPECIFICATION TotalsSpec
SYMMETRY Symmetry

INVARIANT TypeOK
INVARIANT CacheOK
INVARIANT TotalsTypeOK
INVARIANT TotalCoherent
INVARIANT TotalWaitsForCalls
PROPERTY FreshEnough
PROPERTY GoesBackBriefly
