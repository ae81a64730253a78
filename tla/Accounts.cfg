SPECIFICATION Spec
CONSTANTS
    q1 = q1
    q2 = q2
    Requests = {q1, q2}
    MaxUsers = 2
    MaxLinks = 2
    MaxSessions = 2
    MaxFaults = 1
SYMMETRY Symmetry
INVARIANTS
    TypeOK
    AccountIsWhole
    AnsweredAccountStays
    OneTokenPerLogin
    ResetEndsSessions
CHECK_DEADLOCK FALSE
