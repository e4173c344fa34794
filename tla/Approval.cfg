SPECIFICATION FairSpec
CONSTANTS
    p = p
    q = q
    Peers <- TwoPeers
    MaxEvents = 5
INVARIANTS TypeOK TimerIsOfHead AwaitedIsHead NewPeerIsTold RejectionStands
PROPERTIES QueueDrains
CHECK_DEADLOCK FALSE
