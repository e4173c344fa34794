SPECIFICATION FairSpec
CONSTANTS
    p = p
    q = q
    Peers <- TwoPeers
    MaxEvents = 3
PROPERTIES OthersUntouched
CHECK_DEADLOCK FALSE
