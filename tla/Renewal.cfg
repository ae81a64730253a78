SPECIFICATION FairSpec
CONSTANTS
    monthly = monthly
    lifetime = lifetime
    q1 = q1
    q2 = q2
    s1 = s1
    s2 = s2
    None = None
    Term <- MCTerm
    Free <- MCFree
    Grace = 1
    Retry = 1
    MaxSwitches = 1
    MaxFaults = 1
    Requests = {q1}
    Sweeps = {s1, s2}
    Plans = {monthly}
    MaxUses = 0
    Elsewhere = {}
    MaxTime = 4
    MaxCheckouts = 1
INVARIANTS
    RenewedOncePerCycle
    RenewalChargedOnce
PROPERTIES
    DueIsResolved
CHECK_DEADLOCK FALSE
