SPECIFICATION SettlementSpec
CONSTANTS
    o1 = o1
    o2 = o2
    w1 = w1
    a1 = a1
    a2 = a2
    e1 = e1
    e2 = e2
    Orders = {o1, o2}
    Workers = {w1}
    Admins = {a1}
    Engines = {}
    Humans = {1}
    Amounts = {1, 2}
    Addresses = {"addr"}
    Dest <- MCDest
    Quote <- MCOwnQuote
    NoAmount = NoAmount
    NoTx = NoTx
    Absent = Absent
    Broadcasting = Broadcasting
    Failed = Failed
    OneWriter = TRUE
    NoOrder = NoOrder
    MaxAttempts = 1
CHECK_DEADLOCK FALSE
CONSTRAINT OnlyFirstEarly
INVARIANTS
    EvidencePays
    ReconciledFaithfully
