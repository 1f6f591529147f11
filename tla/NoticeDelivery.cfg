SPECIFICATION FairSpec
CONSTANTS
    j1 = j1
    j2 = j2
    d1 = d1
    d2 = d2
    u1 = u1
    Jobs = {j1, j2}
    NoJob = NoJob
    Recipients = {u1}
    To <- MCTo
    Dispatchers = {d1, d2}
    MaxChanges = 3
CHECK_DEADLOCK FALSE
INVARIANTS
    IInv
    SubmittedOnce
    SentIsTrue
PROPERTIES
    QuarantineHolds
    ClosedStaysClosed
    NothingHangs
