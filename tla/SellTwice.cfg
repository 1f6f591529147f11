SPECIFICATION Spec
CONSTANTS
    b1 = b1
    b2 = b2
    d1 = d1
    Sells = {1}
    ByRail = {1}
    Deposits = {}
    Jobs = {b1, b2}
    Readers = {"sweep", "callback"}
    Batch = 1
    MaxPayouts = 3
    MaxCrashes = 0
SYMMETRY Alike
CONSTRAINT NotReopened
CHECK_DEADLOCK FALSE
INVARIANTS
    OneTransfer
