CONSTANTS
    e1 = e1
    e2 = e2
    r1 = r1
    r2 = r2
    None = None
    Emails <- TwoEmails
    Requests <- TwoRequests
    MaxAccounts = 3
    Term = 1
    MaxTime = 2
    Faults = FALSE

SPECIFICATION Spec
SYMMETRY Symmetry

PROPERTY ConflictAnswered
