SPECIFICATION FairWithCli
CONSTANTS
    o1 = o1
    o2 = o2
    w1 = w1
    w2 = w2
    a1 = a1
    Orders = {o1, o2}
    Workers = {w1}
    Admins = {a1}
    Amounts = {1}
    Humans = {1}
    Addresses = {o1, o2}
    Dest <- MCOwnDest
    NoAmount = NoAmount
    NoTx = NoTx
    Absent = Absent
    Broadcasting = Broadcasting
    Failed = Failed
    OneWriter = FALSE
    NoOrder = NoOrder
    MaxAttempts = 2
CHECK_DEADLOCK FALSE
CONSTRAINT FirstByHand
INVARIANTS
    DebtInv
PROPERTIES
    QueuedIsClaimed
