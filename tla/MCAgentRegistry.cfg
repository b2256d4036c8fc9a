CONSTANTS
    Agents = {a1}
    Instances = {i1, i2}
    Tokens = {t1}
    Requests = {r1}
    Sweeps = {s1, s2}
    Lifetimes = {1}
    Guard = 1
    TokenLife = 2
    MaxTime = 4
    MaxRequests = 2
    MaxDbErrors = 1
    MaxCrashes = 1
    None = None
SPECIFICATION FairSpec
INVARIANTS ExpiredIsLapsed AnnouncedAtMostOnce
PROPERTY LapsedExpires
CHECK_DEADLOCK FALSE
