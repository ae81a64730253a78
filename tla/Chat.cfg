SPECIFICATION Spec
CONSTANTS
    in1 = in1
    in2 = in2
    out = out
    camp = camp
    w1 = w1
    w2 = w2
    None = None
    Inbound = {in1, in2}
    Sent = {out}
    Campaign = {camp}
    Workers = {w1, w2}
    Reported = {"queued", "read", "failed"}
    MaxDeliveries = 3
    MaxFaults = 2
SYMMETRY Symmetry
INVARIANTS
    TypeOK
    MessageStoredOnce
    CountedOnce
    UnreadNotLost
PROPERTIES
    StatusNeverMovesBack
CHECK_DEADLOCK FALSE
