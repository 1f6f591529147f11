SPECIFICATION SpecWithCli
CONSTANTS
    o1 = o1
    o2 = o2
    w1 = w1
    w2 = w2
    a1 = a1
    Orders = {o1}
    Workers = {w1}
    Admins = {a1}
    Amounts = {1}
    Humans = {}
    Addresses = {"addr"}
    Dest <- MCDest
    NoAmount = NoAmount
    NoTx = NoTx
    Absent = Absent
    Broadcasting = Broadcasting
    Failed = Failed
    NoOrder = NoOrder
    MaxAttempts = 2
    OneWriter = TRUE
CHECK_DEADLOCK FALSE
INVARIANTS AbsentNeverSent
