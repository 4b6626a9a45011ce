CONSTANTS
    u1 = u1
    u2 = u2
    k1 = k1
    k2 = k2
    k3 = k3
    r1 = r1
    r2 = r2
    None = None
    Users <- TwoUsers
    Keys <- TwoKeys
    Requests <- TwoRequests
    Ops <- AllOps
    MaxWallets = 3
    Testnet = TRUE
    Serial = FALSE
    Faults = FALSE

SPECIFICATION Spec
SYMMETRY Symmetry

PROPERTY FundRespectsOwnership

\* Accounts can all be purged; then nothing is left to do.
CHECK_DEADLOCK FALSE
