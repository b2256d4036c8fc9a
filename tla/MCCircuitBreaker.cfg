CONSTANTS
    Callers = {c1, c2, c3, c4}
    FailureThreshold = 3
    SuccessThreshold = 2
    MaxFailures = 6
SPECIFICATION BreakerSpec
INVARIANTS
    BreakerTypeOK
    BreakerConsistent
    ProbeExclusive
PROPERTY
    OpenUntilTimeout
