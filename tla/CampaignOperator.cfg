SPECIFICATION Spec
CONSTANTS
    c1 = c1
    c2 = c2
    r1 = r1
    r2 = r2
    Recipients = {c1}
    Requests = {r1}
    Ops = {"start", "pause", "resume", "cancel", "retry"}
    None = None
    MaxRetries = 1
    Outcomes <- MCFailsLater
    EarlyWebhooks = FALSE
    Faults = {"campaign_crash", "worker_crash", "publish", "lost_answer", "database"}
    MaxStarts = 1
    MaxOps = 3
    MaxSends = 2
    MaxFaults = 2
    MaxDuplicates = 0
INVARIANTS
    TypeOK
    SendsWithinPublications
PROPERTIES
    CancelledIsFinal
CHECK_DEADLOCK FALSE
