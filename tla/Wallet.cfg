SPECIFICATION Spec
CONSTANTS
    u1 = u1
    r1 = r1
    r2 = r2
    k1 = k1
    o1 = o1
    Users = {u1}
    Requests = {r1, r2}
    Keys = {k1}
    NoKey = NoKey
    KeyCharge <- MCKeyCharge
    Amounts = {253}
    Orders = {o1}
    NoOrder = NoOrder
    TaxRate = 18
    TaxModes = {TRUE, FALSE}
    MinRecharge = 100
    None = None
    MaxPostings = 1
SYMMETRY MCRequests
INVARIANTS
    TypeOK
    LedgerExplainsBalance
    KeyChargedOnce
    AnswerIsPosted
    InvoicePerRecharge
    TaxFollowsRate
    CachedBalanceWasReal
    PostingToldOnce
PROPERTY ImplementsLedger
