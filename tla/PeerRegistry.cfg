\* Two calls of any kinds overlapping, on two device ids.
CONSTANTS
  p1 = p1  p2 = p2  w1 = w1  w2 = w2
  Peers <- TwoPeers
  Workers <- TwoWorkers
SPECIFICATION Spec
INVARIANTS BannedKnownOnlyInTransit ClientHasOwner ConsistentIfAlone
PROPERTY TableIfAlone
