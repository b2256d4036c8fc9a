CONSTANTS
    Calls = {c1, c2}
    Ids = {a1, a2}
    Issuers = {x, y}
    Pins = {p}
    PubKeys = {k}
    ErrorForms = {"driver", "wrapped"}
    MaxCalls = 4
    MaxFailures = 1
    Nil = Nil
SYMMETRY Symmetry
SPECIFICATION StoreSpec
INVARIANTS StoreTypeOK TrailExplainsStore OddAnswersAreRaces
CHECK_DEADLOCK FALSE
