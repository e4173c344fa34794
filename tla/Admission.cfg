SPECIFICATION LimiterSpec
CONSTANTS
    p1 = p1
    p2 = p2
    c1 = c1
    c2 = c2
    c3 = c3
    c4 = c4
    c5 = c5
    Pairs = {p1, p2}
    Calls = {c1, c2, c3, c4, c5}
    MaxPair = 2
    MaxGlobal = 3
    Window = 2
    MaxClock = 3
SYMMETRY Symmetry
CHECK_DEADLOCK FALSE
INVARIANTS GlobalBound RefusalsLeaveNothing
PROPERTY RefusedWhenFull
