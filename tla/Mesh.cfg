CONSTANTS
  d1 = d1  d2 = d2  d3 = d3  d4 = d4
  Devices <- FourDevices
  Fanout = 1
  Scenarios <- Groups
  Twins = 5
SPECIFICATION FairSpec
CHECK_DEADLOCK FALSE
INVARIANTS KnownIsMutual KeysMatchUnlessRaced CompleteIfAlone
PROPERTIES OnlyAcquainted CascadeEnds
