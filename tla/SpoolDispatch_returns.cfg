CONSTANTS
    c1 = c1
    c2 = c2
    c3 = c3
    t1 = t1
    t2 = t2
    t3 = t3
    None = None
    Call = {c1, c2}
    Task = {t1}
    Kind <- OnePlain
    ListingsOf <- NoListing
    MaxClaimed = 1
SPECIFICATION FairSpec
PROPERTY EveryCallReturns
CHECK_DEADLOCK FALSE
