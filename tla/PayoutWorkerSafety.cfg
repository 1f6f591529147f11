SPECIFICATION Spec
CONSTANTS
    o1 = o1
    o2 = o2
    w1 = w1
    w2 = w2
    a1 = a1
    a2 = a2
    Orders = {o1, o2}
    Workers = {w1, w2}
    Admins = {a1, a2}
    Amounts = {1, 2}
    Humans = {}
    Addresses = {"addr"}
    Dest <- MCDest
    NoAmount = NoAmount
    NoTx = NoTx
    Absent = Absent
    Broadcasting = Broadcasting
    Failed = Failed
    OneWriter = TRUE
    NoOrder = NoOrder
    MaxAttempts = 2
SYMMETRY Symmetry
CHECK_DEADLOCK FALSE
INVARIANTS
    IInv
    SignerPaysOnce
    AbsentNeverSent
    SettledByItsDebt
PROPERTIES
    SettledIsFinal
    DebtIsImmutable
    KeepsPromise
