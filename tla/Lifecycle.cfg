CONSTANTS
    Peers = {p1, p2}
    Quits = {q1, q2}
    MaxEvents = 3
SPECIFICATION FairSpec
CHECK_DEADLOCK FALSE
INVARIANTS OrderlyStopsAll OrderlyStaysClear ForgottenWereTold
PROPERTIES ForwardUnlessHasty QuitReturns
