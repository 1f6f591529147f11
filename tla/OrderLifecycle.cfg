SPECIFICATION FairSpec
CONSTANTS
    Orders <- MCOrders
    Guests = {}
    MaxSessions = 2
CHECK_DEADLOCK FALSE
CONSTRAINT OneDealOnceReviewed
INVARIANTS
    TypeOK
    PaidIsProven
    SaidOnce
PROPERTIES
    OrderMovesForward
    AbandonedExpires
