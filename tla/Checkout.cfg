SPECIFICATION Spec
CONSTANTS
    monthly = monthly
    lifetime = lifetime
    q1 = q1
    q2 = q2
    s1 = s1
    s2 = s2
    None = None
    Term <- MCShortTerm
    Free <- MCFree
    Grace = 0
    Retry = 1
    MaxSwitches = 1
    MaxFaults = 1
    Requests = {q1, q2}
    Sweeps = {s1}
    Plans = {monthly, lifetime}
    MaxUses = 1
    Elsewhere = {}
    MaxTime = 1
    MaxCheckouts = 2
SYMMETRY Symmetry
INVARIANTS
    TypeOK
    ActiveIsPaid
    ChargedCheckoutSurvives
CHECK_DEADLOCK FALSE
