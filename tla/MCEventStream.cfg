CONSTANTS
    Conns = {c1, c2, c3}
    Types = {ta, tb}
    MaxBacklog = 2
    ReplayLimit = 1
    MaxStreams = 2
    MaxPublishes = 3
    NoFilter = NoFilter
SPECIFICATION Spec
INVARIANTS SlotsExact Gapless
PROPERTY SlotsReturned
CHECK_DEADLOCK FALSE
