SPECIFICATION SettlementSpec
CONSTANTS
    o1 = o1
    o2 = o2
    w1 = w1
    a1 = a1
    a2 = a2
    e1 = e1
    e2 = e2
    Orders = {o1}
    Workers = {w1}
    Admins = {}
    Engines = {e1}
    Humans = {1}
    Amounts = {1}
    Addresses = {"addr"}
    Dest <- MCDest
    Quote <- MCQuote
    NoAmount = NoAmount
    NoTx = NoTx
    Absent = Absent
    Broadcasting = Broadcasting
    Failed = Failed
    OneWriter = TRUE
    NoOrder = NoOrder
    MaxAttempts = 2
CHECK_DEADLOCK FALSE
INVARIANTS
    PaidOnce
