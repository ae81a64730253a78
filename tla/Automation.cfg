SPECIFICATION FairSpec
CONSTANTS
    c1 = c1
    c2 = c2
    a1 = a1
    ask = ask
    hear = hear
    thank = thank
    None = None
    Consumers = {c1, c2}
    Automations = {a1}
    Steps = {ask, hear, thank}
    Flows <- MCFlows
    Limit = 2
    MaxEvents <- MCEvents
    MaxEdits = 1
    MaxFaults = 1
INVARIANTS
    TypeOK
    ReplyMovesFlow
PROPERTIES
    EventsArePassed
CHECK_DEADLOCK FALSE
