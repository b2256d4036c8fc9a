CONSTANTS
    ip = ip
    k1 = k1
    k2 = k2
    bad = bad
    prefix = prefix
    other = other
    None = None
    Requests <- MCRequests
    ApiKeys = {k1, k2}
    IsProduction = TRUE
    Prefix <- MCPrefix
    Limit <- MCLimit
    Window = 2
    GcPeriod = 2
    MaxTime = 5
    MaxDrops = 1
SPECIFICATION Spec
INVARIANTS TypeOK SlidingBound DenialJustified StaleBounded
CHECK_DEADLOCK FALSE
