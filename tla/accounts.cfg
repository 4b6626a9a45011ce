CONSTANTS
    e1 = e1
    e2 = e2
    r1 = r1
    r2 = r2
    None = None
    Emails <- TwoEmails
    Requests <- TwoRequests
    MaxAccounts = 2
    Term = 1
    MaxTime = 3
    Faults = TRUE

SPECIFICATION Spec
SYMMETRY Symmetry

INVARIANT TypeOK
INVARIANT TableOK
INVARIANT SendersStay
PROPERTY TermHonoured
PROPERTY HeldBack
