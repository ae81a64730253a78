SPECIFICATION Spec
CONSTANTS
    c1 = c1
    c2 = c2
    r1 = r1
    r2 = r2
    Recipients = {c1, c2}
    Requests = {r1}
    Ops = {"start", "pause", "resume"}
    None = None
    MaxRetries = 1
    Outcomes <- MCShortOutcomes
    EarlyWebhooks = FALSE
    Faults = {}
    MaxStarts = 1
    MaxOps = 3
    MaxSends = 2
    MaxFaults = 0
    MaxDuplicates = 0
SYMMETRY MCRecipients
INVARIANTS
    PendingCountAligned
CHECK_DEADLOCK FALSE
