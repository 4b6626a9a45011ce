CONSTANTS
    c1 = c1
    c2 = c2
    c3 = c3
    p1 = p1
    p2 = p2
    None = None
    Calls <- ThreeCalls
    Payments <- TwoPayments
    Lifetime = 1
    MaxTime = 2

SPECIFICATION Spec
SYMMETRY Symmetry

INVARIANT TypeOK
INVARIANT PaidInTime
INVARIANT AnswersTrue
INVARIANT RefusedForARival

PROPERTY RefinesFates

\* The clock is bounded and every call is made once.
CHECK_DEADLOCK FALSE
