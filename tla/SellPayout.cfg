SPECIFICATION Spec
CONSTANTS
    b1 = b1
    b2 = b2
    d1 = d1
    Sells = {1, 2}
    ByRail = {1}
    Deposits = {d1}
    Jobs = {b1, b2}
    Readers = {"sweep", "callback"}
    Batch = 1
    MaxPayouts = 2
    MaxCrashes = 1
SYMMETRY Alike
CONSTRAINT ReadersOrSecond
CHECK_DEADLOCK FALSE
INVARIANTS
    SellInv
    LedgerIsTrue
    PaidForADeposit
PROPERTIES
    PaidStaysPaid
