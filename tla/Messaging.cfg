SPECIFICATION Spec
CONSTANTS
    m1 = m1
    m2 = m2
    s1 = s1
    s2 = s2
    h1 = h1
    h2 = h2
    full = full
    cheap = cheap
    marketing = marketing
    service = service
    Messages = {m1, m2}
    Senders = {s1, s2}
    Hooks = {h1, h2}
    Reported = {"delivered"}
    Categories = {marketing, service}
    Plans = {full, cheap}
    Price <- MCPrice
    Pricings <- MCPricings
    Limit = 1
    Funds = 3
    None = None
    MaxReports = 2
    MaxFaults = 1
SYMMETRY MCSymmetry
CHECK_DEADLOCK FALSE
INVARIANTS
    TypeOK
    ChargedAsReported
    SentIsPaid
    RowNamesItsPostings
    QuotaNotOvercharged

