CONSTANTS
    a = a
    b = b
    c = c
    Jtis = {a, b, c}
    Tokens = {a}
    Children = {b, c}
    Parent <- Chain
    Revocations <- Twice
    Workers = {w1, w2}
    MaxFaults = 1
    None = None
SYMMETRY WorkerSymmetry
SPECIFICATION Spec
INVARIANTS
    TypeOK
    CascadeComplete
    RevocationsAttributed
PROPERTIES
    FirstRevocationWins
CHECK_DEADLOCK FALSE
