SPECIFICATION Spec
CONSTANTS
    c1 = c1
    c2 = c2
    r1 = r1
    r2 = r2
    Recipients = {c1}
    Requests = {r1}
    Ops = {"start"}
    None = None
    MaxRetries = 1
    Outcomes <- MCShortOutcomes
    EarlyWebhooks = FALSE
    Faults = {"campaign_crash"}
    MaxStarts = 1
    MaxOps = 1
    MaxSends = 1
    MaxFaults = 1
    MaxDuplicates = 0
INVARIANTS
    UpdatesAreAtomic
CHECK_DEADLOCK FALSE
