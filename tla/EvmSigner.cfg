SPECIFICATION FairSpec
CONSTANTS
    p1 = p1
    p2 = p2
    k1 = k1
    k2 = k2
    Procs = {p1, p2}
    NoProc = NoProc
    Keys = {k1, k2}
    NoKey = NoKey
    Absent = Absent
    Signing = Signing
    OneView = FALSE
INVARIANTS
    IInv
    OneTransferPerKey
PROPERTIES
    RowsAreNeverLost
    KeepsPromise
    LockIsReleased
