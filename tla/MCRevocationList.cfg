CONSTANTS
    Jtis = {j1, j2}
    Instances = {i1, i2}
    Fetches = {f1, f2}
    Posts = {p1}
    Lifetime = 2
    Ttl = 3
    MaxDbErrors = 1
    MaxCrashes = 1
    None = None
SYMMETRY Interchangeable
SPECIFICATION Spec
INVARIANTS
    OmissionsBounded
CHECK_DEADLOCK FALSE
