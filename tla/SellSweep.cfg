SPECIFICATION FairSpec
CONSTANTS
    b1 = b1
    b2 = b2
    d1 = d1
    Sells = {1}
    ByRail = {1}
    Deposits = {}
    Jobs = {b1, b2}
    Readers = {"sweep"}
    Batch = 1
    MaxPayouts = 3
    MaxCrashes = 0
CONSTRAINT NotReopened
CHECK_DEADLOCK FALSE
INVARIANTS
    OneTransfer
PROPERTIES
    OutcomeReachesOrder
