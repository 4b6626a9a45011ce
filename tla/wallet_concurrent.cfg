CONSTANTS
    u1 = u1
    u2 = u2
    k1 = k1
    k2 = k2
    k3 = k3
    r1 = r1
    r2 = r2
    None = None
    Users <- TwoUsers
    Keys <- ThreeKeys
    Requests <- TwoRequests
    Ops <- AllOps
    MaxWallets = 3
    Testnet = TRUE
    Serial = FALSE
    Faults = TRUE

SPECIFICATION Spec
SYMMETRY Symmetry

INVARIANT TypeOK
INVARIANT TableOK
INVARIANT DefaultsBounded
PROPERTY Isolation

\* Accounts can all be purged; then nothing is left to do.
CHECK_DEADLOCK FALSE
