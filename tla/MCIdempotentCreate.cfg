CONSTANTS
    Keys = {k1, k2}
    Requests = {r1, r2, r3}
    MaxCreates = 4
    MaxDbErrors = 2
    MaxCrashes = 1
    MaxPurges = 1
    None = None
SPECIFICATION Spec
SYMMETRY MCSymmetry
INVARIANTS OneAnswer 
CHECK_DEADLOCK FALSE
