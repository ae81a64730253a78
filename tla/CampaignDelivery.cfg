SPECIFICATION FairSpec
CONSTANTS
    c1 = c1
    c2 = c2
    r1 = r1
    r2 = r2
    Recipients = {c1, c2}
    Requests = {r1}
    Ops = {"start"}
    None = None
    MaxRetries = 1
    Outcomes <- MCOutcomes
    EarlyWebhooks = TRUE
    Faults = {}
    MaxStarts = 1
    MaxOps = 1
    MaxSends = 1
    MaxFaults = 0
    MaxDuplicates = 1
INVARIANTS
    CountersMatchRows
    OverMeansResolved
PROPERTIES
    StatusMovesForward
    StartedIsOver
CHECK_DEADLOCK FALSE
